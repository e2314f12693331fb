--------------------------- MODULE WindowManager ---------------------------
(***************************************************************************)
(* dwm's event loop: in each step it handles one X event, or runs one      *)
(* command that a key, a button or an IPC message asks for. Windows and    *)
(* users do anything at any time. Handlers are those of DwmHandlers.       *)
(***************************************************************************)
EXTENDS DwmHandlers

CONSTANTS
  Kinds,     \* the sorts of windows that ask to be managed
  Ops        \* the commands and events this configuration exercises

ASSUME WindowManagerAssumption == Kinds \subseteq Kind

VARIABLE wm

\* Once pushup() has cut a client out of its list, sequences no longer
\* describe the next pointers, and the model stops.
On(op) == op \in Ops /\ ~wm.lost

\* A client whose window the X server still has.
Live(c) == c \in Managed(wm) /\ ~wm.gone[c]

Init == \E n \in Mon : \E m \in 1 .. n : wm = InitialState(n, m)

-----------------------------------------------------------------------------
(* Commands: keys, buttons and IPC messages                                *)

ViewCmd == \E ui \in SUBSET Tag : On("view") /\ wm' = View(wm, ui)
ToggleViewCmd ==
  \E ui \in SUBSET Tag : On("toggleview") /\ wm' = ToggleView(wm, ui)
ComboViewCmd == \E t \in Tag : On("comboview") /\ wm' = ComboView(wm, t)
KeyReleaseEvent == On("comboview") /\ wm.combo /\ wm' = KeyRelease(wm)
ComboTagCmd == \E t \in Tag : On("combotag") /\ wm' = ComboTag(wm, {t})
TagCmd == \E ui \in SUBSET Tag : On("tag") /\ wm' = TagSel(wm, ui)
ToggleTagCmd ==
  \E ui \in SUBSET Tag : On("toggletag") /\ wm' = ToggleTag(wm, ui)
FocusStackCmd ==
  \E dir \in {1, -1} : On("focusstack") /\ wm' = FocusStack(wm, dir)
ZoomCmd == On("zoom") /\ wm' = Zoom(wm)
PushDownCmd == On("pushdown") /\ wm' = PushDown(wm)
PushUpCmd == On("pushup") /\ wm' = PushUp(wm)
PushLeftCmd == On("pushleft") /\ wm' = PushLeft(wm)
IncNMasterCmd ==
  \E i \in {1, -1} :
    /\ On("incnmaster")
    /\ wm.nmaster[wm.selmon] + i <= MaxMaster
    /\ wm' = IncNMaster(wm, i)
SetLayoutCmd ==
  \E l \in Layout \cup {"toggle"} : On("setlayout") /\ wm' = SetLayout(wm, l)
ToggleFloatingCmd == On("togglefloating") /\ wm' = ToggleFloating(wm)
ToggleFullscrCmd == On("togglefullscr") /\ wm' = ToggleFullscr(wm)
FocusMonCmd == \E dir \in {1, -1} : On("focusmon") /\ wm' = FocusMon(wm, dir)
TagMonCmd == \E dir \in {1, -1} : On("tagmon") /\ wm' = TagMon(wm, dir)

-----------------------------------------------------------------------------
(* Events from the pointer and the screen                                  *)

EnterNotifyEvent ==
  /\ On("enter")
  /\ \/ \E c \in Managed(wm) : wm' = EnterClient(wm, c)
     \/ \E m \in Mons(wm) : wm' = EnterRoot(wm, m)
MotionNotifyEvent ==
  \E m \in Mons(wm) : On("motion") /\ wm' = MotionNotify(wm, m)
ButtonPressEvent ==
  \E c \in Managed(wm) :
    /\ On("button")
    /\ \/ wm' = ButtonPress(wm, c)
       \/ wm' = ToggleFloating(ButtonPress(wm, c))
ConfigureNotifyEvent ==
  \E n \in Mon : \E p \in 1 .. n :
    On("geometry") /\ wm' = ConfigureNotify(wm, n, p)

-----------------------------------------------------------------------------
(* Events from clients                                                     *)

\* A window asks to be mapped, alone, transient for a window dwm does not
\* manage, or for one that it does.
MapRequestEvent ==
  \E c \in Client \ Managed(wm), kind \in Kinds :
    /\ On("map")
    /\ \E p \in {NULL} \cup (IF kind.transient THEN Managed(wm) ELSE {}) :
         wm' = Manage(wm, c, kind, p)

\* A window is unmapped or destroyed, by its client or by killclient(): the
\* X server moves the input focus to the root window and queues the event.
WindowGone ==
  \E c \in Client :
    /\ On("close") /\ Live(c)
    /\ wm' = [wm EXCEPT !.gone[c] = TRUE,
                        !.xfocus = IF @ = c THEN NULL ELSE @]

UnmapOrDestroyEvent ==
  \E c \in Managed(wm) : On("close") /\ wm.gone[c] /\ wm' = Unmanage(wm, c)

FullscreenMessage ==
  \E c \in Managed(wm), on \in BOOLEAN :
    On("fullscreen message") /\ wm' = SetFullscreen(wm, c, on)
ActiveWindowEvent ==
  \E c \in Managed(wm) : On("active message") /\ wm' = ActiveWindowMessage(wm, c)
WindowTypeChange ==
  \E c \in Managed(wm), fullscreen, dialog \in BOOLEAN :
    /\ On("window type")
    /\ wm' = UpdateWindowType(wm, c, fullscreen, dialog)
WmHintsChange ==
  \E c \in Managed(wm), urgent, neverfocus \in BOOLEAN :
    On("wm hints") /\ wm' = UpdateWmHints(wm, c, urgent, neverfocus)
SizeHintsChange ==
  \E c \in Managed(wm), fixed \in BOOLEAN :
    On("size hints") /\ wm' = [wm EXCEPT !.isfixed[c] = fixed]
TransientForChange ==
  \E c \in Managed(wm), managed \in BOOLEAN :
    On("transient") /\ wm' = TransientFor(wm, c, managed)

\* A client gives the input focus to one of its windows.
TakeFocus ==
  \E c \in Client :
    /\ On("take focus") /\ Live(c) /\ wm.xfocus # c
    /\ wm' = [wm EXCEPT !.xfocus = c, !.focusin = @ \cup {c}]

\* The FocusIn events of TakeFocus. Those of dwm's own XSetInputFocus calls
\* can arrive when another client is selected, and have the same effect.
FocusInEvent ==
  On("take focus") /\ \E c \in wm.focusin : wm' = FocusIn(wm, c)
LateFocusInEvent ==
  /\ On("take focus")
  /\ \E c \in Managed(wm) : wm' = [FocusIn(wm, c) EXCEPT !.focusin = wm.focusin]

Next ==
  \/ ViewCmd \/ ToggleViewCmd \/ ComboViewCmd \/ KeyReleaseEvent
  \/ ComboTagCmd \/ TagCmd \/ ToggleTagCmd
  \/ FocusStackCmd \/ ZoomCmd \/ PushDownCmd \/ PushUpCmd \/ PushLeftCmd
  \/ IncNMasterCmd \/ SetLayoutCmd \/ ToggleFloatingCmd \/ ToggleFullscrCmd
  \/ FocusMonCmd \/ TagMonCmd
  \/ EnterNotifyEvent \/ MotionNotifyEvent \/ ButtonPressEvent
  \/ ConfigureNotifyEvent
  \/ MapRequestEvent \/ WindowGone \/ UnmapOrDestroyEvent
  \/ FullscreenMessage \/ ActiveWindowEvent \/ WindowTypeChange
  \/ WmHintsChange \/ SizeHintsChange \/ TransientForChange
  \/ TakeFocus \/ FocusInEvent \/ LateFocusInEvent

Spec == Init /\ [][Next]_wm

\* handlexevent() takes events off the queue until none is left: a FocusIn
\* event is handled in the end.
Fairness == WF_wm(FocusInEvent)

FairSpec == Spec /\ Fairness

-----------------------------------------------------------------------------
(* Properties                                                              *)

\* The state record has the types of the C declarations (struct Monitor,
\* struct Client and the globals of dwm.c).
TypeOK == wm \in State

\* attach, attachstack, detach and detachstack keep the two lists of a monitor
\* in step: they hold the same clients, each once, all of that monitor.
ListsAgree ==
  ~wm.lost =>
    \A m \in Mon :
      /\ IsInjective(wm.clients[m]) /\ IsInjective(wm.stack[m])
      /\ ToSet(wm.clients[m]) = ToSet(wm.stack[m])
      /\ \A c \in ToSet(wm.stack[m]) : wm.mon[c] = m /\ m \in Mons(wm)

\* Between two events the selected client is the visible client of the
\* selected monitor that was focused last (focus(), detachstack(), manage()).
SelIsTopVisible ==
  ~wm.lost =>
    wm.sel[wm.selmon] = FirstVisible(wm, wm.stack[wm.selmon])

\* No monitor keeps a selected client it does not own: detach(), unmanage()
\* and updategeom() leave no dangling sel pointer.
SelOwned ==
  ~wm.lost =>
    \A m \in Mon : wm.sel[m] \in ToSet(wm.clients[m]) \cup {NULL}

\* arrange() is called wherever visibility changed: what is in view is on the
\* screen, and what is on the screen without being in view is fullscreen.
ScreenShowsView ==
  ~wm.lost =>
    \A c \in Managed(wm) :
      IF Visible(wm, c) THEN wm.shown[c]
                        ELSE wm.shown[c] => wm.isfullscreen[c]

\* The client the user works in never asks for attention (focus(),
\* clientmessage(), updatewmhints()).
SelectedNotUrgent ==
  wm.sel[wm.selmon] # NULL => ~wm.isurgent[wm.sel[wm.selmon]]

\* Keys go to the selected client, unless it refuses the focus or its window is
\* gone, and to the root window when none is selected (focus(), unfocus(),
\* setfocus()).
KeyboardFollowsSelection ==
  LET c == wm.sel[wm.selmon]
  IN IF c = NULL THEN wm.xfocus = NULL
     ELSE wm.neverfocus[c] \/ wm.gone[c] \/ wm.xfocus = c

\* No command leaves a view or a client without tags: a client with none
\* could never be shown again (view(), toggleview(), tag(), toggletag()).
TagsNotEmpty ==
  /\ \A m \in Mon, k \in Slot : wm.tagset[m][k] # {}
  /\ \A c \in Managed(wm) : wm.tags[c] # {}

\* The whole list: every client dwm manages can still be reached through
\* nexttiled() and wintoclient() (pushup() and pushdown() relink it by hand).
NoClientLost == ~wm.lost

\* A fullscreen client is floating, so no layout resizes it: togglefloating(),
\* setfullscreen() and the property handlers respect each other.
FullscreenFloats ==
  \A c \in Managed(wm) : wm.isfullscreen[c] => wm.isfloating[c]

\* Windows are created on a tag in view: comboview() moves the create tag along
\* with each of the two tag sets.
CreateTagInView ==
  \A m \in Mons(wm) : wm.createtag[m][wm.seltags[m]] \in ViewOf(wm, m)

-----------------------------------------------------------------------------
(* What two commands in a row achieve, from every reachable state          *)

TiledOrder(s) ==
  Keep(s.clients[s.selmon], {c \in Client : Tiled(s, c)})

\* Leaving a tag and selecting it again restores what was viewed with it and
\* which client came first, whatever was remembered for the other tag.
RememberedViewRestored ==
  \A t \in Tag :
    LET m == wm.selmon
        home == wm.createtag[m][wm.seltags[m]]
        away == ComboView(KeyRelease(wm), t)
        back == ComboView(KeyRelease(away), home)
    IN t # home =>
         /\ ViewOf(back, m) = ViewOf(wm, m) \cup {home}
         /\ wm.clients[m] # << >> => back.clients[m][1] = wm.clients[m][1]

\* Repeating focusstack(+1) selects every visible client once and comes back;
\* focusstack(-1) undoes it.
FocusStackCycles ==
  LET visible == {c \in ToSet(wm.clients[wm.selmon]) : Visible(wm, c)}
      after[i \in 0 .. Cardinality(visible)] ==
        IF i = 0 THEN wm ELSE FocusStack(after[i - 1], 1)
  IN ~wm.lost /\ SelOf(wm) # NULL =>
       /\ {SelOf(after[i]) : i \in DOMAIN after} = visible
       /\ SelOf(after[Cardinality(visible)]) = SelOf(wm)
       /\ SelOf(FocusStack(after[1], -1)) = SelOf(wm)

\* pushup() undoes pushdown(), and zoom() on the first tiled client undoes
\* itself, as far as the order of the tiled clients goes. Clients of the left
\* column are left out: varcol() keeps them behind the others.
PushAndZoomUndo ==
  LET order == TiledOrder(wm)
      up == PushUp(PushDown(wm))
  IN ~wm.lost /\ (\A c \in Client : ~IsLeft(wm, c)) =>
       /\ up.lost \/ TiledOrder(up) = order
       /\ order # << >> /\ SelOf(wm) = order[1] =>
            TiledOrder(Zoom(Zoom(wm))) = order

-----------------------------------------------------------------------------
(* What a step may not do                                                  *)

Before(q, a, b) == \E i, j \in DOMAIN q : i < j /\ q[i] = a /\ q[j] = b

\* The stack is the focus history: no step reorders it other than by bringing
\* the client it selects to the front of what is in view.
FocusHistoryKept ==
  [][ \A m \in Mon :
        LET kept == (ToSet(wm.stack[m]) \cap ToSet(wm'.stack[m]))
                      \ {wm'.sel[m]}
        IN \A a, b \in kept :
             Visible(wm', a) /\ Before(wm.stack[m], a, b) =>
               Before(wm'.stack[m], a, b) ]_wm

\* A client is forgotten only when its window is gone: not when its monitor is
\* disconnected, when it moves to another monitor or when lists are reordered.
ClientsKept ==
  [][ \A c \in Managed(wm) : wm.gone[c] \/ wm'.lost \/ c \in Managed(wm') ]_wm

\* Windows go on being created on a tag in view through every command and event
\* but view() and toggleview(), which do not look at the create tag: comboview()
\* moves it along and a monitor that is connected again starts anew.
CreateTagFollows ==
  [][ CreateTagInView => CreateTagInView' \/ ViewCmd \/ ToggleViewCmd ]_wm

\* Only the selected client is given other tags, and only the view of the
\* selected monitor is changed; a client that is sent to another monitor gets
\* the tags in view there.
OthersUndisturbed ==
  [][ /\ \A c \in Managed(wm) \cap Managed(wm') :
           wm'.tags[c] # wm.tags[c] =>
             /\ c = SelOf(wm)
             /\ wm'.mon[c] # wm.mon[c] =>
                  wm'.tags[c] = ViewOf(wm', wm'.mon[c])
      /\ \A m \in Mons(wm) \cap Mons(wm') :
           ViewOf(wm', m) # ViewOf(wm, m) => m = wm.selmon ]_wm

\* The keyboard follows the selection through every command and event: only a
\* client that takes the input focus, or changes its hint that it wants none,
\* can part the two.
KeyboardFollows ==
  [][ KeyboardFollowsSelection =>
        KeyboardFollowsSelection' \/ TakeFocus \/ WmHintsChange ]_wm

-----------------------------------------------------------------------------
(* Liveness                                                                *)

\* A client that takes the input focus does not keep it: the selected client
\* gets it back, if there is one, it accepts the focus and its window exists
\* (focusin()).
StolenFocusReturns ==
  wm.xfocus \in wm.focusin ~>
    LET c == SelOf(wm)
    IN c = NULL \/ wm.neverfocus[c] \/ wm.gone[c] \/ wm.xfocus \in {c, NULL}
=============================================================================
