------------------------------ MODULE DwmState ------------------------------
(***************************************************************************)
(* The window manager's state (struct Monitor, struct Client and the       *)
(* globals of dwm.c) as one record, and the helpers its handlers share:    *)
(* the list and stack operations, focus() and arrange().                   *)
(*                                                                         *)
(* Every handler of dwm.c runs to completion on one thread, so a handler   *)
(* is a function from the state record to the state record and a call made *)
(* inside a handler is a composition of such functions.                    *)
(*                                                                         *)
(* What is abstracted: a Client stands for a window and for the memory of  *)
(* its struct (a window managed again may get the same address); pixel     *)
(* geometry is reduced to shown[c], whether the window was last placed on  *)
(* its monitor or moved off screen; titles, opacity, borders, size hints   *)
(* and the bars are left out.                                              *)
(***************************************************************************)
EXTENDS Integers, FiniteSets, SequencesExt

CONSTANTS
  Client,    \* windows, and the addresses of their structs
  NULL,      \* the null pointer; as X input focus, the root window
  NTag,      \* LENGTH(tags)
  MaxMon,    \* how many monitors may be connected at once
  Wide,      \* the monitors wider than 2000 pixels
  MaxMaster  \* bound on nmaster

ASSUME ConstantsAssumption ==
  /\ NULL \notin Client
  /\ NTag \in Nat \ {0}
  /\ MaxMon \in Nat \ {0}
  /\ Wide \subseteq 1..MaxMon
  /\ MaxMaster \in Nat \ {0}

Tag == 0 .. NTag - 1
Mon == 1 .. MaxMon          \* in the order of the mons list
Slot == {0, 1}              \* tagset[2], createtag[2], zoomed[2] and lt[2]
Layout == {"varcol", "monocle", "tile"}
ClientOrNull == Client \cup {NULL}

\* A monitor's fields are functions of Mon, a client's functions of Client.
State ==
  [ nmon       : Mon,                      \* monitors 1..nmon are connected
    selmon     : Mon,
    combo      : BOOLEAN,
    xfocus     : ClientOrNull,             \* the X server's input focus
    focusin    : SUBSET Client,            \* FocusIn events a client caused
    motionmon  : Mon \cup {NULL},          \* static mon of motionnotify()
    clients    : [Mon -> Seq(Client)],
    stack      : [Mon -> Seq(Client)],
    sel        : [Mon -> ClientOrNull],
    tagset     : [Mon -> [Slot -> SUBSET Tag]],
    seltags    : [Mon -> Slot],
    createtag  : [Mon -> [Slot -> Tag]],
    remtagset  : [Mon -> [Tag -> SUBSET Tag]],       \* remembered[].tagset
    remzoomed  : [Mon -> [Tag -> ClientOrNull]],     \* remembered[].zoomed
    zoomed     : [Mon -> [Slot -> ClientOrNull]],
    lt         : [Mon -> [Slot -> Layout]],
    sellt      : [Mon -> Slot],
    nmaster    : [Mon -> Nat],
    mon        : [Client -> Mon],
    tags       : [Client -> SUBSET Tag],
    isfloating : [Client -> BOOLEAN],
    isfullscreen : [Client -> BOOLEAN],
    oldstate   : [Client -> BOOLEAN],
    isfixed    : [Client -> BOOLEAN],
    isurgent   : [Client -> BOOLEAN],
    neverfocus : [Client -> BOOLEAN],
    isLeft     : [Client -> BOOLEAN],
    shown      : [Client -> BOOLEAN],
    gone       : [Client -> BOOLEAN],      \* unmapped, event not yet handled
    lost       : BOOLEAN ]                 \* a client fell out of its list

\* What createmon() gives every monitor, and no client managed yet.
InitialState(n, m) ==
  [ nmon |-> n, selmon |-> m, combo |-> FALSE, xfocus |-> NULL,
    focusin |-> {}, motionmon |-> NULL,
    clients |-> [i \in Mon |-> << >>],
    stack |-> [i \in Mon |-> << >>],
    sel |-> [i \in Mon |-> NULL],
    tagset |-> [i \in Mon |-> [k \in Slot |-> {0}]],
    seltags |-> [i \in Mon |-> 0],
    createtag |-> [i \in Mon |-> [k \in Slot |-> 0]],
    remtagset |-> [i \in Mon |-> [t \in Tag |-> {}]],
    remzoomed |-> [i \in Mon |-> [t \in Tag |-> NULL]],
    zoomed |-> [i \in Mon |-> [k \in Slot |-> NULL]],
    lt |-> [i \in Mon |->
              [k \in Slot |-> IF k = 0 THEN "varcol" ELSE "monocle"]],
    sellt |-> [i \in Mon |-> 0],
    nmaster |-> [i \in Mon |-> 1],
    mon |-> [c \in Client |-> 1],
    tags |-> [c \in Client |-> {}],
    isfloating |-> [c \in Client |-> FALSE],
    isfullscreen |-> [c \in Client |-> FALSE],
    oldstate |-> [c \in Client |-> FALSE],
    isfixed |-> [c \in Client |-> FALSE],
    isurgent |-> [c \in Client |-> FALSE],
    neverfocus |-> [c \in Client |-> FALSE],
    isLeft |-> [c \in Client |-> FALSE],
    shown |-> [c \in Client |-> FALSE],
    gone |-> [c \in Client |-> FALSE],
    lost |-> FALSE ]

-----------------------------------------------------------------------------
(* Reading the lists                                                       *)

\* The monitors that exist.
Mons(s) == 1 .. s.nmon

\* The clients wintoclient() finds: those in the list of some monitor.
Managed(s) == {c \in Client : \E m \in Mons(s) : Contains(s.clients[m], c)}

\* The tags a monitor views: tagset[seltags].
ViewOf(s, m) == s.tagset[m][s.seltags[m]]

\* ISVISIBLE
Visible(s, c) == s.tags[c] \cap ViewOf(s, s.mon[c]) # {}

\* The selected client of the selected monitor.
SelOf(s) == s.sel[s.selmon]

\* The clients nexttiled() stops at.
Tiled(s, c) == ~s.isfloating[c] /\ Visible(s, c)

\* The element at index i, or NULL for the index 0 of "no such element".
At(q, i) == IF i = 0 THEN NULL ELSE q[i]

IndexOf(q, c) == SelectInSeq(q, LAMBDA e : e = c)

FirstVisible(s, q) == At(q, SelectInSeq(q, LAMBDA c : Visible(s, c)))

\* The index in q of the first tiled client at or after index i.
NextTiled(s, q, i) == SelectInSubSeq(q, i, Len(q), LAMBDA c : Tiled(s, c))

\* The subsequence of q with the elements of S.
Keep(q, S) ==
  LET kept[i \in 0 .. Len(q)] ==
        IF i = 0 THEN << >>
        ELSE IF q[i] \in S THEN Append(kept[i - 1], q[i]) ELSE kept[i - 1]
  IN kept[Len(q)]

\* The monitor focusmon and tagmon go to: mons is cyclic in both directions.
DirToMon(s, dir) ==
  IF dir > 0 THEN IF s.selmon < s.nmon THEN s.selmon + 1 ELSE 1
             ELSE IF s.selmon > 1 THEN s.selmon - 1 ELSE s.nmon

-----------------------------------------------------------------------------
(* Changing the lists                                                      *)

Attach(s, c) == [s EXCEPT !.clients[s.mon[c]] = <<c>> \o @]

\* After the selected client, or in front when there is none to follow.
AttachBelow(s, c) ==
  LET m == s.mon[c]
      p == s.sel[m]
  IN IF p = NULL \/ p = c \/ s.isfloating[p]
     THEN Attach(s, c)
     ELSE [s EXCEPT !.clients[m] = InsertAt(@, IndexOf(@, p) + 1, c)]

AttachStack(s, c) == [s EXCEPT !.stack[s.mon[c]] = <<c>> \o @]

Detach(s, c) == [s EXCEPT !.clients[s.mon[c]] = RemoveFirst(@, c)]

\* Fault: the selection still points to a detached client.
DetachStackKeepsSel(s, c) ==
  [s EXCEPT !.stack[s.mon[c]] = RemoveFirst(@, c)]

\* Also passes the monitor's selection on when c had it.
DetachStack(s, c) ==
  LET m == s.mon[c]
      rest == RemoveFirst(s.stack[m], c)
  IN [s EXCEPT !.stack[m] = rest,
               !.sel[m] = IF @ = c THEN FirstVisible(s, rest) ELSE @]

-----------------------------------------------------------------------------
(* Focus                                                                   *)

\* XSetInputFocus fails on a window that is already unmapped or destroyed.
SetFocus(s, c) ==
  IF s.neverfocus[c] \/ s.gone[c] THEN s ELSE [s EXCEPT !.xfocus = c]

\* unfocus(c, 1): the root window gets the input focus. unfocus(c, 0)
\* changes borders and opacity only and is left out.
Unfocus(s, c) == IF c = NULL THEN s ELSE [s EXCEPT !.xfocus = NULL]

\* focus(c): c, or the visible client last focused on the selected monitor
\* when c is NULL or not visible.
Focus(s, want) ==
  LET c == IF want # NULL /\ Visible(s, want)
           THEN want ELSE FirstVisible(s, s.stack[s.selmon])
  IN IF c = NULL
     THEN [s EXCEPT !.xfocus = NULL, !.sel[s.selmon] = NULL]
     ELSE LET u == [s EXCEPT !.selmon = s.mon[c], !.isurgent[c] = FALSE]
              v == SetFocus(AttachStack(DetachStack(u, c), c), c)
          IN [v EXCEPT !.sel[v.selmon] = c]

-----------------------------------------------------------------------------
(* Arranging                                                               *)

\* showhide(m->stack) for the monitors in ms: windows in view are placed,
\* the others moved off screen.
ShowHide(s, ms) ==
  [s EXCEPT !.shown = [c \in Client |->
     IF \E m \in ms : Contains(s.stack[m], c) THEN Visible(s, c) ELSE @[c]]]

\* isleft(): the left column is used on wide monitors only.
IsLeft(s, c) == s.mon[c] \in Wide /\ s.isLeft[c]

\* varcol() moves the left clients behind the masters to the end of the
\* list, in their order; the column geometry is left out here.
VarCol(s, m) ==
  LET q == s.clients[m]
      tiled == Keep(q, {c \in Client : Tiled(s, c)})
      left == {tiled[i] : i \in {j \in DOMAIN tiled :
                  j > s.nmaster[m] /\ IsLeft(s, tiled[j])}}
  IN Keep(q, Client \ left) \o Keep(q, left)

\* arrangemon() for the monitors in ms; monocle() and tile() change geometry
\* only.
ArrangeMon(s, ms) ==
  [s EXCEPT !.clients = [m \in Mon |->
     IF m \in ms /\ s.lt[m][s.sellt[m]] = "varcol" THEN VarCol(s, m)
                                                 ELSE @[m]]]

\* arrange(m), and arrange(NULL): all are shown before any is laid out.
Arrange(s, m) == ArrangeMon(ShowHide(s, {m}), {m})
ArrangeAll(s) == ArrangeMon(ShowHide(s, Mons(s)), Mons(s))

\* pop(c): to the front of the list, focused.
Pop(s, c) == LET t == Focus(Attach(Detach(s, c), c), c)
             IN Arrange(t, t.mon[c])

\* Fault: a client that leaves fullscreen is not arranged.
SetFullscreenNoArrange(s, c, on) ==
  IF on /\ ~s.isfullscreen[c]
  THEN [s EXCEPT !.isfullscreen[c] = TRUE, !.oldstate[c] = s.isfloating[c],
                 !.isfloating[c] = TRUE, !.shown[c] = TRUE]
  ELSE IF ~on /\ s.isfullscreen[c]
  THEN [s EXCEPT !.isfullscreen[c] = FALSE, !.isfloating[c] = s.oldstate[c],
                 !.shown[c] = TRUE]
  ELSE s

\* setfullscreen(): entering it places and raises the window at once,
\* leaving it arranges the client's monitor.
SetFullscreen(s, c, on) ==
  IF on /\ ~s.isfullscreen[c]
  THEN [s EXCEPT !.isfullscreen[c] = TRUE, !.oldstate[c] = s.isfloating[c],
                 !.isfloating[c] = TRUE, !.shown[c] = TRUE]
  ELSE IF ~on /\ s.isfullscreen[c]
  THEN Arrange([s EXCEPT !.isfullscreen[c] = FALSE,
                         !.isfloating[c] = s.oldstate[c], !.shown[c] = TRUE],
               s.mon[c])
  ELSE s
=============================================================================
