---------------------------- MODULE DwmHandlers ----------------------------
(***************************************************************************)
(* The commands (functions bound to keys, buttons and IPC messages) and    *)
(* the X event handlers of dwm.c and push.c, each as a function from the   *)
(* state before the call to the state after it.                            *)
(***************************************************************************)
EXTENDS DwmState

-----------------------------------------------------------------------------
(* Views and tags                                                          *)

\* Fault: the selection is not looked up again.
RefreshNoFocus(s) == Arrange(s, s.selmon)

\* The tail of every command that changes what the selected monitor shows.
Refresh(s) == LET t == Focus(s, NULL) IN Arrange(t, t.selmon)

\* view(ui): an empty ui goes back to the other tag set.
View(s, ui) ==
  LET m == s.selmon
      k == 1 - s.seltags[m]
  IN IF ui = ViewOf(s, m) THEN s
     ELSE Refresh([s EXCEPT !.seltags[m] = k,
                            !.tagset[m][k] = IF ui = {} THEN @ ELSE ui])

ToggleView(s, ui) ==
  LET m == s.selmon
      new == SymDiff(ViewOf(s, m), ui)
  IN IF new = {} THEN s
     ELSE Refresh([s EXCEPT !.tagset[m][s.seltags[m]] = new])

\* Fault: the view is not remembered.
RememberTagNoView(s) ==
  LET m == s.selmon
  IN [s EXCEPT !.remzoomed[m][s.createtag[m][s.seltags[m]]] =
        At(s.clients[m], IF s.clients[m] = << >> THEN 0 ELSE 1)]

\* remembertag(): what the selected monitor views, under the tag it creates
\* clients on.
RememberTag(s) ==
  LET m == s.selmon
      k == s.seltags[m]
      cur == s.createtag[m][k]
  IN [s EXCEPT !.remtagset[m][cur] = s.tagset[m][k],
               !.remzoomed[m][cur] = At(s.clients[m], IF s.clients[m] = << >>
                                                      THEN 0 ELSE 1)]

\* Fault: the create tag stays behind.
SelectTagOldCreate(s, t) ==
  LET m == s.selmon
      k == 1 - s.seltags[m]
  IN [s EXCEPT !.seltags[m] = k, !.combo = TRUE, !.tagset[m][k] = {t}]

\* comboview(t), the first press of a chord: to the other tag set, with what
\* was remembered for t; selecting t twice isolates it.
SelectTag(s, t) ==
  LET m == s.selmon
      k == 1 - s.seltags[m]
      again == s.createtag[m][s.seltags[m]] = t
  IN [s EXCEPT !.seltags[m] = k, !.combo = TRUE,
               !.tagset[m][k] = {t} \cup (IF again THEN {}
                                          ELSE s.remtagset[m][t]),
               !.zoomed[m][k] = IF again THEN @ ELSE s.remzoomed[m][t],
               !.createtag[m][k] = t]

\* comboview(t): further presses of a chord add tags to the view. The client
\* remembered with the tag may be gone: only one found in the list is popped.
\* config.h binds comboview() to tag numbers, never to -1.
ComboView(s, t) ==
  LET m == s.selmon
      r == RememberTag(s)
      selected == SelectTag(r, t)
      zoomed == selected.zoomed[m][selected.seltags[m]]
  IN Refresh(IF s.combo
             THEN [r EXCEPT !.tagset[m][s.seltags[m]] = @ \cup {t}]
             ELSE IF zoomed # NULL /\ Contains(s.clients[m], zoomed)
             THEN Pop(selected, zoomed) ELSE selected)

\* keyrelease(): the end of a chord.
KeyRelease(s) == [s EXCEPT !.combo = FALSE]

\* combotag(ui): as comboview(), for the tags of the selected client.
ComboTag(s, ui) ==
  LET c == s.sel[s.selmon]
  IN IF c = NULL \/ ui = {} THEN s
     ELSE Refresh([s EXCEPT !.combo = TRUE,
                            !.tags[c] = IF s.combo THEN @ \cup ui ELSE ui])

TagSel(s, ui) ==
  LET c == s.sel[s.selmon]
  IN IF c = NULL \/ ui = {} THEN s ELSE Refresh([s EXCEPT !.tags[c] = ui])

\* Fault: the last tag of a client may be removed.
ToggleTagToNone(s, ui) ==
  LET c == s.sel[s.selmon]
  IN IF c = NULL THEN s
     ELSE Refresh([s EXCEPT !.tags[c] = SymDiff(@, ui)])

ToggleTag(s, ui) ==
  LET c == s.sel[s.selmon]
      new == SymDiff(s.tags[c], ui)
  IN IF c = NULL \/ new = {} THEN s ELSE Refresh([s EXCEPT !.tags[c] = new])

-----------------------------------------------------------------------------
(* Moving the focus and reordering the list                                *)

\* Fault: focusstack() does not wrap around.
FocusStackNoWrap(s, dir) ==
  LET q == s.clients[s.selmon]
      c == s.sel[s.selmon]
      i == IndexOf(q, c)
      to == IF dir > 0
            THEN SelectInSubSeq(q, i + 1, Len(q), LAMBDA e : Visible(s, e))
            ELSE SelectLastInSubSeq(q, 1, i - 1, LAMBDA e : Visible(s, e))
  IN IF c = NULL \/ to = 0 THEN s ELSE Focus(s, q[to])

\* focusstack(dir): the next or previous visible client of the list, cyclic.
FocusStack(s, dir) ==
  LET q == s.clients[s.selmon]
      c == s.sel[s.selmon]
      i == IndexOf(q, c)
      Vis(e) == Visible(s, e)
      after == SelectInSubSeq(q, i + 1, Len(q), Vis)
      before == SelectLastInSubSeq(q, 1, i - 1, Vis)
      to == IF dir > 0
            THEN IF after # 0 THEN after ELSE SelectInSeq(q, Vis)
            ELSE IF before # 0 THEN before
                 ELSE SelectLastInSubSeq(q, i, Len(q), Vis)
  IN IF c = NULL \/ to = 0 THEN s ELSE Focus(s, q[to])

\* zoom(): the selected tiled client becomes the first of the list; the
\* first tiled client gives its place to the next one.
Zoom(s) ==
  LET m == s.selmon
      q == s.clients[m]
      c == s.sel[m]
      first == NextTiled(s, q, 1)
      second == IF first = 0 THEN 0 ELSE NextTiled(s, q, first + 1)
      to == IF c = At(q, first) THEN At(q, second) ELSE c
  IN IF (c # NULL /\ s.isfloating[c]) \/ to = NULL THEN s ELSE Pop(s, to)

\* Fault: attaches before the next tiled client instead of after it.
PushDownBefore(s) ==
  LET m == s.selmon
      c == s.sel[m]
      q == s.clients[m]
      i == IndexOf(q, c)
      next == NextTiled(s, q, i + 1)
      moved == IF next # 0
               THEN [s EXCEPT !.clients[m] =
                       InsertAt(RemoveAt(q, i), next - 1, c)]
               ELSE Attach(Detach(s, c), c)
  IN IF c = NULL \/ s.isfloating[c] THEN s
     ELSE Arrange(Focus(moved, c), m)

\* pushdown(): behind the next tiled client, or to the front of the list.
PushDown(s) ==
  LET m == s.selmon
      c == s.sel[m]
      q == s.clients[m]
      i == IndexOf(q, c)
      next == NextTiled(s, q, i + 1)
      moved == IF next # 0
               THEN [s EXCEPT !.clients[m] = InsertAt(RemoveAt(q, i), next, c)]
               ELSE Attach(Detach(s, c), c)
  IN IF c = NULL \/ s.isfloating[c] THEN s
     ELSE Arrange(Focus(moved, c), m)

\* Fault: c is linked in before it is detached.
PushUpNoDetach(s) ==
  LET m == s.selmon
      c == s.sel[m]
      q == s.clients[m]
      prev == SelectLastInSubSeq(q, 1, IndexOf(q, c) - 1,
                                 LAMBDA e : Tiled(s, e))
  IN IF c = NULL \/ s.isfloating[c] \/ prev = 0 THEN s
     ELSE Arrange(Focus([s EXCEPT !.clients[m] = InsertAt(q, prev, c)], c), m)

\* pushup(): before the previous tiled client, or to the end of the list.
\* With no previous tiled client and c already last, the loop that finds the
\* last client finds c: c is detached and then linked to itself, and the list
\* no longer holds it.
PushUp(s) ==
  LET m == s.selmon
      c == s.sel[m]
      q == s.clients[m]
      i == IndexOf(q, c)
      prev == SelectLastInSubSeq(q, 1, i - 1, LAMBDA e : Tiled(s, e))
      moved == IF prev # 0 THEN InsertAt(RemoveAt(q, i), prev, c)
               ELSE IF i = Len(q) THEN RemoveAt(q, i)
               ELSE Append(RemoveAt(q, i), c)
      t == [s EXCEPT !.clients[m] = moved,
                     !.lost = @ \/ (prev = 0 /\ i = Len(q))]
  IN IF c = NULL \/ s.isfloating[c] THEN s ELSE Arrange(Focus(t, c), m)

\* pushleft(): into or out of the left column of varcol().
PushLeft(s) ==
  LET c == s.sel[s.selmon]
      t == IF c = NULL THEN s
           ELSE Focus([s EXCEPT !.isLeft[c] = ~@], c)
  IN Arrange(t, t.selmon)

-----------------------------------------------------------------------------
(* Layout, floating and fullscreen                                         *)

\* Fault: the number of masters may become negative.
IncNMasterAny(s, i) ==
  Arrange([s EXCEPT !.nmaster[s.selmon] = @ + i], s.selmon)

IncNMaster(s, i) ==
  LET n == s.nmaster[s.selmon] + i
  IN Arrange([s EXCEPT !.nmaster[s.selmon] = IF n > 0 THEN n ELSE 0],
             s.selmon)

\* setlayoutsafe(layout); "toggle" is the null argument.
SetLayout(s, layout) ==
  LET m == s.selmon
      flip == layout = "toggle" \/ layout # s.lt[m][s.sellt[m]]
      k == IF flip THEN 1 - s.sellt[m] ELSE s.sellt[m]
      t == [s EXCEPT !.sellt[m] = k,
                     !.lt[m][k] = IF layout = "toggle" THEN @ ELSE layout]
  IN IF s.sel[m] = NULL THEN t ELSE Arrange(t, m)

\* Fault: a fullscreen client is made tiled.
ToggleFloatingAlways(s) ==
  LET c == s.sel[s.selmon]
  IN IF c = NULL THEN s
     ELSE Arrange([s EXCEPT !.isfloating[c] = ~@ \/ s.isfixed[c]], s.selmon)

ToggleFloating(s) ==
  LET c == s.sel[s.selmon]
  IN IF c = NULL \/ s.isfullscreen[c] THEN s
     ELSE Arrange([s EXCEPT !.isfloating[c] = ~@ \/ s.isfixed[c]], s.selmon)

ToggleFullscr(s) ==
  LET c == s.sel[s.selmon]
  IN IF c = NULL THEN s ELSE SetFullscreen(s, c, ~s.isfullscreen[c])

-----------------------------------------------------------------------------
(* Monitors                                                                *)

\* Fault: the keyboard stays on the monitor that is left.
FocusMonNoFocus(s, dir) == [s EXCEPT !.selmon = DirToMon(s, dir)]

FocusMon(s, dir) ==
  LET m == DirToMon(s, dir)
  IN IF m = s.selmon THEN s ELSE Focus([s EXCEPT !.selmon = m], NULL)

\* Fault: the client stays in the focus history of its old monitor.
SendMonKeepsStack(s, c, m) ==
  LET moved == [Detach(Unfocus(s, c), c) EXCEPT !.mon[c] = m,
                                                !.tags[c] = ViewOf(s, m)]
  IN IF s.mon[c] = m THEN s
     ELSE ArrangeAll(Focus(AttachStack(AttachBelow(moved, c), c), NULL))

\* sendmon(): to the front of the focus history of m, in m's view.
SendMon(s, c, m) ==
  LET out == DetachStack(Detach(Unfocus(s, c), c), c)
      moved == [out EXCEPT !.mon[c] = m, !.tags[c] = ViewOf(s, m)]
  IN IF s.mon[c] = m THEN s
     ELSE ArrangeAll(Focus(AttachStack(AttachBelow(moved, c), c), NULL))

TagMon(s, dir) ==
  LET c == s.sel[s.selmon]
  IN IF c = NULL \/ s.nmon = 1 THEN s ELSE SendMon(s, c, DirToMon(s, dir))

\* The pointer, or a button event, selects monitor m.
SelectMon(s, m) ==
  [Unfocus(s, s.sel[s.selmon]) EXCEPT !.selmon = m]

\* enternotify() on the window of a client.
EnterClient(s, c) ==
  IF s.mon[c] # s.selmon THEN Focus(SelectMon(s, s.mon[c]), c)
  ELSE IF c = s.sel[s.selmon] THEN s ELSE Focus(s, c)

\* enternotify() on the root window, with the pointer on m.
EnterRoot(s, m) == IF m = s.selmon THEN s ELSE Focus(SelectMon(s, m), NULL)

\* motionnotify() on the root window: compares m with the monitor of the
\* last such event, not with the selected one.
MotionNotify(s, m) ==
  LET t == IF m # s.motionmon /\ s.motionmon # NULL
           THEN Focus(SelectMon(s, m), NULL) ELSE s
  IN [t EXCEPT !.motionmon = m]

\* Fault: selects the first client of the list on the way.
ButtonPressFirst(s, c) ==
  LET m == s.mon[c]
  IN Focus(IF m = s.selmon THEN s
           ELSE Focus(SelectMon(s, m), s.clients[m][1]), c)

\* buttonpress() on the window of a client, up to the bound command.
ButtonPress(s, c) ==
  LET m == s.mon[c]
  IN Focus(IF m = s.selmon THEN s ELSE Focus(SelectMon(s, m), NULL), c)

-----------------------------------------------------------------------------
(* Clients come and go, and change their properties                        *)

\* What applyrules() and the client's X properties say of a new window.
Kind == [ transient : BOOLEAN, tags : SUBSET Tag, isfloating : BOOLEAN,
          isLeft : BOOLEAN, fullscreen : BOOLEAN, dialog : BOOLEAN,
          isfixed : BOOLEAN, urgent : BOOLEAN, neverfocus : BOOLEAN ]

\* updatewindowtype()
UpdateWindowType(s, c, fullscreen, dialog) ==
  LET t == IF fullscreen THEN SetFullscreen(s, c, TRUE) ELSE s
  IN IF dialog THEN [t EXCEPT !.isfloating[c] = TRUE] ELSE t

\* Fault: the selected client may become urgent.
UpdateWmHintsAlways(s, c, urgent, neverfocus) ==
  [s EXCEPT !.isurgent[c] = urgent, !.neverfocus[c] = neverfocus]

\* updatewmhints(): the selected client is never urgent.
UpdateWmHints(s, c, urgent, neverfocus) ==
  [s EXCEPT !.isurgent[c] = IF urgent /\ c = s.sel[s.selmon] THEN @ ELSE urgent,
            !.neverfocus[c] = neverfocus]

\* applyrules() where no rule names a monitor: rule tags or the create tag.
RuleTags(s, m, kind) ==
  IF kind.tags = {} THEN {s.createtag[m][s.seltags[m]]} ELSE kind.tags

\* manage() up to the last call of focus(): c is transient for the managed
\* client p, or p is NULL.
ManageArranged(s, c, kind, p) ==
  LET m == IF p = NULL THEN s.selmon ELSE s.mon[p]
      ruled == p = NULL
      born == [s EXCEPT !.mon[c] = m,
                 !.tags[c] = IF ruled THEN RuleTags(s, m, kind) ELSE s.tags[p],
                 !.isfloating[c] = ruled /\ kind.isfloating,
                 !.isLeft[c] = ruled /\ kind.isLeft]
      typed == UpdateWindowType(born, c, kind.fullscreen, kind.dialog)
      hinted == UpdateWmHints([typed EXCEPT !.isfixed[c] = kind.isfixed], c,
                              kind.urgent, kind.neverfocus)
      float == kind.transient \/ kind.isfixed
      placed == IF hinted.isfloating[c] THEN hinted
                ELSE [hinted EXCEPT !.isfloating[c] = float,
                                    !.oldstate[c] = float]
      linked == AttachStack(AttachBelow(placed, c), c)
  IN Arrange([linked EXCEPT !.sel[m] = c], m)

\* manage() where no terminal swallows the new client.
Manage(s, c, kind, p) == Focus(ManageArranged(s, c, kind, p), NULL)

\* free(c): the address may be handed out again.
FreeClient(s, c) ==
  [s EXCEPT !.mon[c] = 1, !.tags[c] = {}, !.isfloating[c] = FALSE,
            !.isfullscreen[c] = FALSE, !.oldstate[c] = FALSE,
            !.isfixed[c] = FALSE, !.isurgent[c] = FALSE,
            !.neverfocus[c] = FALSE, !.isLeft[c] = FALSE,
            !.shown[c] = FALSE, !.gone[c] = FALSE, !.focusin = @ \ {c}]

\* unmanage() of a client that swallows nothing and is not swallowed.
Unmanage(s, c) ==
  LET m == s.mon[c]
      out == FreeClient(DetachStack(Detach(s, c), c), c)
  IN Focus(Arrange(out, m), NULL)

\* clientmessage() _NET_ACTIVE_WINDOW: a request for attention.
ActiveWindowMessage(s, c) ==
  IF c = s.sel[s.selmon] THEN s ELSE [s EXCEPT !.isurgent[c] = TRUE]

\* propertynotify() WM_TRANSIENT_FOR, now naming a managed client or not.
TransientFor(s, c, managed) ==
  IF s.isfloating[c] \/ ~managed THEN s
  ELSE Arrange([s EXCEPT !.isfloating[c] = TRUE], s.mon[c])

\* Fault: gives the focus to the client that took it.
FocusInThief(s, c) == SetFocus([s EXCEPT !.focusin = @ \ {c}], c)

\* focusin() on window c: the selected client takes the focus back.
FocusIn(s, c) ==
  LET sel == s.sel[s.selmon]
      t == [s EXCEPT !.focusin = @ \ {c}]
  IN IF sel = NULL \/ sel = c THEN t ELSE SetFocus(t, sel)

-----------------------------------------------------------------------------
(* Monitors are connected and disconnected                                 *)

\* Fault: retags the client as sendmon() does.
MoveToFirstRetag(s, c) ==
  LET out == DetachStack(Detach(s, c), c)
      moved == [out EXCEPT !.mon[c] = 1, !.tags[c] = ViewOf(s, 1)]
  IN AttachStack(AttachBelow(moved, c), c)

\* updategeom(), the first client of a removed monitor: to the first monitor.
MoveToFirst(s, c) ==
  LET out == DetachStack(Detach(s, c), c)
      moved == [out EXCEPT !.mon[c] = 1]
  IN AttachStack(AttachBelow(moved, c), c)

\* cleanupmon(): the next monitor created in its place starts anew.
CleanupMon(s, m) ==
  LET new == InitialState(1, 1)
  IN [s EXCEPT !.tagset[m] = new.tagset[m], !.seltags[m] = 0,
               !.createtag[m] = new.createtag[m],
               !.remtagset[m] = new.remtagset[m],
               !.remzoomed[m] = new.remzoomed[m],
               !.zoomed[m] = new.zoomed[m],
               !.lt[m] = new.lt[m], !.sellt[m] = 0, !.nmaster[m] = 1,
               !.sel[m] = NULL]

\* Fault: if for while, only the first client is moved.
RemoveMonFirstOnly(s) ==
  LET m == s.nmon
      one == IF s.clients[m] = << >> THEN s ELSE MoveToFirst(s, s.clients[m][1])
  IN CleanupMon([one EXCEPT !.selmon = IF @ = m THEN 1 ELSE @, !.nmon = m - 1],
                m)

\* The clients of monitor m, one after the other, move to the first monitor.
MoveAll(s, m) ==
  LET q == s.clients[m]
      moved[i \in 0 .. Len(q)] ==
        IF i = 0 THEN s ELSE MoveToFirst(moved[i - 1], q[i])
  IN moved[Len(q)]

\* The last monitor is removed.
RemoveMon(s) ==
  LET m == s.nmon
      empty == MoveAll(s, m)
      left == [empty EXCEPT !.selmon = IF @ = m THEN 1 ELSE @, !.nmon = m - 1]
  IN CleanupMon(left, m)

RemoveMons(s, k) ==
  LET removed[i \in 0 .. k] ==
        IF i = 0 THEN s ELSE RemoveMon(removed[i - 1])
  IN removed[k]

\* Fault: the clients that moved are not arranged.
ConfigureNotifyNoArrange(s, n, p) ==
  LET t == IF n >= s.nmon THEN [s EXCEPT !.nmon = n]
           ELSE RemoveMons(s, s.nmon - n)
  IN Focus([t EXCEPT !.selmon = p], NULL)

\* configurenotify() on the root window after the screen changed its size and
\* n monitors are left. Connected monitors, a new geometry of one that stays
\* and clients that had to move make updategeom() select the monitor p of the
\* pointer; removing monitors without clients keeps the selected one.
ConfigureNotify(s, n, p) ==
  LET t == IF n >= s.nmon THEN [s EXCEPT !.nmon = n]
           ELSE RemoveMons(s, s.nmon - n)
      dirty == n >= s.nmon \/ \E m \in n + 1 .. s.nmon : s.clients[m] # << >>
  IN ArrangeAll(Focus([t EXCEPT !.selmon = IF dirty THEN p ELSE @], NULL))
=============================================================================
