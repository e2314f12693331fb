------------------------------ MODULE Swallow ------------------------------
(***************************************************************************)
(* Window swallowing: the window of a program started from a terminal      *)
(* takes the terminal's place until it closes. A Client struct p of a      *)
(* terminal then holds the program's window, and p.swallowing the struct   *)
(* of the program, which is on no list and holds the terminal's window.    *)
(*                                                                         *)
(* Windows and the structs that hold them are separate here, and dwm       *)
(* learns what happened to a window from a queue of X events, in which its *)
(* own XUnmapWindow() requests appear as well. The X server reports each   *)
(* unmap and destroy twice, to the window and to the root; the second      *)
(* report finds no client that holds the window and is left out.           *)
(***************************************************************************)
EXTENDS DwmHandlers

CONSTANTS
  Window,     \* application windows
  Parent,     \* Parent[w]: the window of the terminal w is run from, or NULL
  RuleFor,    \* RuleFor[w]: the rules that match w, see Rule
  Commands,   \* the commands this configuration exercises
  MaxQueue    \* bound on the X events not yet handled

\* What the matching entries of rules[] in config.h say of a window; a window
\* without an entry leaves isterminal and isLeft of its client as they are.
Rule == [ matches : BOOLEAN, tags : SUBSET Tag, isfloating : BOOLEAN,
          isterminal : BOOLEAN, isLeft : BOOLEAN ]

ASSUME SwallowAssumption ==
  /\ NULL \notin Window
  /\ Parent \in [Window -> Window \cup {NULL}]
  /\ RuleFor \in [Window -> Rule]
  /\ MaxQueue \in Nat

VARIABLES
  wm,          \* the window manager, see DwmState
  win,         \* win[c]: the window of a client, managed or swallowed
  pid,         \* pid[c]: its process, known by the window it came with
  isterminal,
  swallowing,  \* swallowing[c]: the client whose window c shows, or NULL
  window,      \* window[w]: "none", "unmapped" or "mapped" at the X server
  queue        \* X events not yet handled

vars == <<wm, win, pid, isterminal, swallowing, window, queue>>

Event == [ type : {"map", "unmap", "destroy"}, win : Window,
           own : BOOLEAN ]  \* own: caused by a request of dwm

Unmapped(w, own) == [type |-> "unmap", win |-> w, own |-> own]
Destroyed(w) == [type |-> "destroy", win |-> w, own |-> FALSE]

Init ==
  /\ \E n \in Mon : \E m \in 1 .. n : wm = InitialState(n, m)
  /\ win = [c \in Client |-> NULL]
  /\ pid = [c \in Client |-> NULL]
  /\ isterminal = [c \in Client |-> FALSE]
  /\ swallowing = [c \in Client |-> NULL]
  /\ window = [w \in Window |-> "none"]
  /\ queue = << >>

-----------------------------------------------------------------------------
(* Looking windows and clients up                                          *)

\* wintoclient(): the managed clients that hold window w; there is at most
\* one, see WindowsHeldOnce.
Holding(w) == {c \in Managed(wm) : win[c] = w}

\* Fault: compares the window of the client, not of the one it swallowed.
StandingInItself(w) == {p \in Managed(wm) : swallowing[p] # NULL /\ win[p] = w}

\* swallowingclient(): the managed clients that stand in for window w.
StandingIn(w) ==
  {p \in Managed(wm) : swallowing[p] # NULL /\ win[swallowing[p]] = w}

Swallowed == {swallowing[p] : p \in Managed(wm)} \ {NULL}

\* The addresses calloc() may return.
Unused == Client \ (Managed(wm) \cup Swallowed)

\* isdescprocess(): the processes w runs under, and its own.
Ancestors(w) == {w} \cup (IF Parent[w] = NULL THEN {} ELSE {Parent[w]})

\* termforwin(): the terminal that swallows a new client, in state s: the
\* first in the order of the monitors and of their clients.
TermForWin(s, term, c, w) ==
  LET Swallower(p) ==
        term[p] /\ swallowing[p] = NULL /\ pid[p] \in Ancestors(w)
      First(m) == SelectInSeq(s.clients[m], Swallower)
      ms == {m \in Mons(s) : First(m) # 0}
  IN IF term[c] \/ ms = {} THEN NULL
     ELSE s.clients[Min(ms)][First(Min(ms))]

-----------------------------------------------------------------------------
(* Swallowing                                                              *)

\* applyrules(p) for window w: isfloating and the tags are always set anew.
ApplyRules(s, p, w) ==
  LET rule == RuleFor[w]
  IN [s EXCEPT !.isfloating[p] = rule.matches /\ rule.isfloating,
               !.isLeft[p] = IF rule.matches THEN rule.isLeft ELSE @,
               !.tags[p] = RuleTags(s, s.mon[p], rule)]

RuledTerminal(term, p, w) ==
  [term EXCEPT ![p] = IF RuleFor[w].matches THEN RuleFor[w].isterminal ELSE @]

\* Fault: the new client stays on its lists.
SwallowKeepsLists(s, p, c, w) ==
  LET taken == [s EXCEPT !.mon[c] = s.mon[p], !.gone[p] = s.gone[c],
                         !.xfocus = IF @ = p THEN NULL ELSE @]
  IN ApplyRules(Arrange(taken, s.mon[p]), p, w)

\* swallow(p, c): c leaves its lists and p takes over its window w. p is
\* arranged with the tags it had, and given those of the new window after.
SwallowClient(s, p, c, w) ==
  LET out == DetachStack(Detach(s, c), c)
      taken == [out EXCEPT !.mon[c] = s.mon[p], !.gone[p] = s.gone[c],
                           !.xfocus = IF @ = p THEN NULL ELSE @]
  IN ApplyRules(Arrange(taken, s.mon[p]), p, w)

\* Fault: the last arrange() is left out.
UnswallowUnarranged(s, p, exists) ==
  LET back == FreeClient([s EXCEPT !.gone[p] = ~exists], swallowing[p])
      placed == [Arrange(SetFullscreen(back, p, FALSE), s.mon[p])
                   EXCEPT !.shown[p] = TRUE]
  IN Focus(placed, NULL)

\* Fault: the input focus stays where the X server put it.
UnswallowUnfocused(s, p, exists) ==
  LET back == FreeClient([s EXCEPT !.gone[p] = ~exists], swallowing[p])
  IN Arrange(SetFullscreen(back, p, FALSE), s.mon[p])

\* unswallow(p): p holds the terminal's window again, which exists or not.
Unswallow(s, p, exists) ==
  LET back == FreeClient([s EXCEPT !.gone[p] = ~exists], swallowing[p])
      placed == [Arrange(SetFullscreen(back, p, FALSE), s.mon[p])
                   EXCEPT !.shown[p] = TRUE]
  IN Arrange(Focus(placed, NULL), s.mon[p])

\* unmanage() of the client that p has swallowed: p keeps its window. The
\* monitor arranged is the one the terminal was on when it swallowed; where
\* updategeom() has freed that one nothing is arranged here.
StandAlone(s, p) ==
  LET c == swallowing[p]
      m == s.mon[c]
      freed == FreeClient(s, c)
  IN Focus(IF m \in Mons(s) THEN Arrange(freed, m) ELSE freed, NULL)

-----------------------------------------------------------------------------
(* X events                                                                *)

\* The rest of a handler has nothing to do.
Ignore == UNCHANGED <<wm, win, pid, isterminal, swallowing, window>>

\* manage() of window w where no terminal is found that swallows it.
ManageWindow(c, w, s, term) ==
  /\ wm' = Focus(s, NULL)
  /\ win' = [win EXCEPT ![c] = w]
  /\ window' = [window EXCEPT ![w] = "mapped"]
  /\ isterminal' = term
  /\ queue' = Tail(queue)
  /\ UNCHANGED swallowing

\* manage() of window w that terminal p swallows. The program may withdraw or
\* destroy w meanwhile, before dwm unmaps the terminal's window.
ManageSwallowed(p, c, w, s, term) ==
  \E left \in {"mapped", "unmapped", "none"} :
    LET met == [s EXCEPT !.gone[c] = left # "mapped"]
        hidden == win[p]
    IN /\ wm' = Focus(SwallowClient(met, p, c, w), NULL)
       /\ win' = [win EXCEPT ![p] = w, ![c] = hidden]
       /\ window' = [window EXCEPT
            ![w] = left, ![hidden] = IF @ = "mapped" THEN "unmapped" ELSE @]
       /\ isterminal' = RuledTerminal(term, p, w)
       /\ swallowing' = [swallowing EXCEPT ![p] = c]
       /\ queue' = Tail(queue)
            \o (IF left = "mapped" THEN << >> ELSE <<Unmapped(w, FALSE)>>)
            \o (IF left = "none" THEN <<Destroyed(w)>> ELSE << >>)
            \o (IF window[hidden] = "mapped" THEN <<Unmapped(hidden, TRUE)>>
                                             ELSE << >>)

\* maprequest()
MapRequestEvent ==
  /\ queue # << >> /\ Head(queue).type = "map"
  /\ LET w == Head(queue).win
     IN IF window[w] = "none" \/ Holding(w) # {}
        THEN Ignore /\ queue' = Tail(queue)
        ELSE \E c \in Unused :
          LET rule == RuleFor[w]
              kind == [ transient |-> FALSE, tags |-> rule.tags,
                        isfloating |-> rule.matches /\ rule.isfloating,
                        isLeft |-> rule.matches /\ rule.isLeft,
                        fullscreen |-> FALSE, dialog |-> FALSE,
                        isfixed |-> FALSE, urgent |-> FALSE,
                        neverfocus |-> FALSE ]
              term == RuledTerminal([isterminal EXCEPT ![c] = FALSE], c, w)
              p == TermForWin(wm, term, c, w)
              s == ManageArranged(wm, c, kind, NULL)
          IN /\ pid' = [pid EXCEPT ![c] = w]
             /\ IF p = NULL THEN ManageWindow(c, w, s, term)
                            ELSE ManageSwallowed(p, c, w, s, term)

\* Fault: the terminal's window stays unmapped.
MapNothing(w) == window

\* XMapWindow(), which fails on a window that has been destroyed.
MapAgain(w) == [window EXCEPT ![w] = IF @ = "none" THEN @ ELSE "mapped"]

\* unmanage() of a client on the lists: the struct that goes is the swallowed
\* one, if there is one; the client is kept then and holds its own window.
UnmanageWindow(c) ==
  LET freed == IF swallowing[c] = NULL THEN c ELSE swallowing[c]
      w == win[freed]
  IN /\ pid' = [pid EXCEPT ![freed] = NULL]
     /\ isterminal' = [isterminal EXCEPT ![freed] = FALSE]
     /\ swallowing' = [swallowing EXCEPT ![c] = NULL]
     /\ IF freed = c
        THEN /\ wm' = Unmanage(wm, c)
             /\ win' = [win EXCEPT ![c] = NULL]
             /\ UNCHANGED window
        ELSE /\ wm' = Unswallow(wm, c, window[w] # "none")
             /\ win' = [win EXCEPT ![c] = w, ![freed] = NULL]
             /\ window' = MapAgain(w)

\* unmapnotify()
UnmapNotifyEvent ==
  /\ queue # << >> /\ Head(queue).type = "unmap"
  /\ queue' = Tail(queue)
  /\ LET held == Holding(Head(queue).win)
     IN IF held = {} THEN Ignore ELSE \E c \in held : UnmanageWindow(c)

\* Fault: the terminal's client is unmanaged, not the one it swallowed.
DestroyNotifyTerminal ==
  /\ queue # << >> /\ Head(queue).type = "destroy"
  /\ queue' = Tail(queue)
  /\ LET w == Head(queue).win
         held == Holding(w) \cup StandingIn(w)
     IN IF held = {} THEN Ignore ELSE \E c \in held : UnmanageWindow(c)

\* destroynotify(): unmanage() of a swallowed client leaves its terminal with
\* the program's window.
DestroyNotifyEvent ==
  /\ queue # << >> /\ Head(queue).type = "destroy"
  /\ queue' = Tail(queue)
  /\ LET held == Holding(Head(queue).win)
         standing == StandingIn(Head(queue).win)
     IN IF held # {} THEN \E c \in held : UnmanageWindow(c)
        ELSE IF standing = {} THEN Ignore
        ELSE \E p \in standing :
          /\ wm' = StandAlone(wm, p)
          /\ win' = [win EXCEPT ![swallowing[p]] = NULL]
          /\ pid' = [pid EXCEPT ![swallowing[p]] = NULL]
          /\ isterminal' = [isterminal EXCEPT ![swallowing[p]] = FALSE]
          /\ swallowing' = [swallowing EXCEPT ![p] = NULL]
          /\ UNCHANGED window

-----------------------------------------------------------------------------
(* What programs and the user do                                           *)

Room(n) == Len(queue) + n <= MaxQueue
Pending(w) == \E i \in DOMAIN queue : queue[i].win = w
Hidden == {win[c] : c \in Swallowed}

\* The state of the window manager once window w is off the screen.
WindowOff(w) ==
  [wm EXCEPT !.gone = [c \in Client |-> @[c] \/ c \in Holding(w)],
             !.xfocus = IF @ \in Holding(w) THEN NULL ELSE @]

Others == <<win, pid, isterminal, swallowing>>

\* A program maps a window; as the ICCCM asks of it, not one that the window
\* manager has unmapped. A new window has a new identifier.
MapWindow(w) ==
  /\ window[w] # "mapped" /\ w \notin Hidden /\ ~Pending(w) /\ Room(1)
  /\ window[w] = "none" => Holding(w) = {}
  /\ window' = [window EXCEPT ![w] = "unmapped"]
  /\ queue' = Append(queue, [type |-> "map", win |-> w, own |-> FALSE])
  /\ UNCHANGED <<wm, Others>>

UnmapWindow(w) ==
  /\ window[w] = "mapped" /\ Room(1)
  /\ window' = [window EXCEPT ![w] = "unmapped"]
  /\ wm' = WindowOff(w)
  /\ queue' = Append(queue, Unmapped(w, FALSE))
  /\ UNCHANGED Others

DestroyWindow(w) ==
  /\ window[w] # "none" /\ Room(2)
  /\ window' = [window EXCEPT ![w] = "none"]
  /\ wm' = WindowOff(w)
  /\ queue' = queue
       \o (IF window[w] = "mapped" THEN <<Unmapped(w, FALSE)>> ELSE << >>)
       \o <<Destroyed(w)>>
  /\ UNCHANGED Others

Command(name, t) ==
  name \in Commands /\ wm' = t /\ UNCHANGED <<Others, window, queue>>

UserCommand ==
  \/ \E tag \in Tag : Command("view", View(wm, {tag}))
  \/ \E dir \in {1, -1} : Command("focusmon", FocusMon(wm, dir))
  \/ \E dir \in {1, -1} : Command("tagmon", TagMon(wm, dir))
  \/ Command("togglefullscr", ToggleFullscr(wm))
  \/ \E n \in Mon : \E p \in 1 .. n :
       Command("geometry", ConfigureNotify(wm, n, p))

Next ==
  \/ MapRequestEvent \/ UnmapNotifyEvent \/ DestroyNotifyEvent
  \/ \E w \in Window : MapWindow(w) \/ UnmapWindow(w) \/ DestroyWindow(w)
  \/ UserCommand

Spec == Init /\ [][Next]_vars

-----------------------------------------------------------------------------
(* Properties                                                              *)

WM == INSTANCE WindowManager WITH Kinds <- {}, Ops <- {}

Held == {win[c] : c \in Managed(wm)}

\* The state has the types of the C declarations.
TypeOK ==
  /\ wm \in State
  /\ win \in [Client -> Window \cup {NULL}]
  /\ pid \in [Client -> Window \cup {NULL}]
  /\ isterminal \in [Client -> BOOLEAN]
  /\ swallowing \in [Client -> Client \cup {NULL}]
  /\ window \in [Window -> {"none", "unmapped", "mapped"}]
  /\ queue \in Seq(Event)

\* swallow() and unswallow() exchange windows and free structs so that no two
\* structs hold a window, no terminal points to a freed or to a listed struct,
\* and a client on a list always holds one.
WindowsHeldOnce ==
  LET used == Managed(wm) \cup Swallowed
  IN /\ TypeOK
     /\ \A c, d \in used : win[c] = win[d] => c = d
     /\ \A c \in used : win[c] # NULL
     /\ Managed(wm) \cap Swallowed = {}
     /\ \A p, q \in Managed(wm) :
          swallowing[p] = swallowing[q] /\ p # q => swallowing[p] = NULL
     /\ \A c \in Client \ Managed(wm) : swallowing[c] = NULL

\* Once the X events are handled every client on a list has a window on the
\* screen: no early return of unmanage() leaves a client behind.
NoGhostClients ==
  queue = << >> => \A c \in Managed(wm) : window[win[c]] = "mapped"

\* The lists, the selection and the X input focus stay right when one client
\* takes the place of another, wherever the terminal is (swallow(),
\* unswallow(), manage()).
FocusSurvivesSwallow ==
  WM!ListsAgree /\ WM!SelIsTopVisible /\ WM!KeyboardFollowsSelection

\* A window on the screen that dwm manages stays managed, with one exception:
\* the UnmapNotify that swallow() causes may arrive when unswallow() has mapped
\* the terminal's window again, and the terminal is forgotten.
WindowsKept ==
  [][ \A w \in Held :
        window[w] = "mapped" /\ window'[w] = "mapped" =>
          \/ w \in Held'
          \/ Head(queue) = Unmapped(w, TRUE) ]_vars

\* When the window that stands in for a terminal closes, the terminal's window
\* is on the screen again, or it has been destroyed itself (unswallow()).
TerminalComesBack ==
  [][ \A p \in Managed(wm) :
        swallowing[p] # NULL /\ swallowing'[p] # swallowing[p] =>
          LET w == win[swallowing[p]]
          IN window'[w] = "none" \/ (window'[w] = "mapped" /\ w \in Held') ]_vars

\* swallow() gives the terminal other tags and makes it tiled without
\* arranging or leaving fullscreen: it is the only step after which the screen
\* does not show the view, or a fullscreen client is tiled.
OnlySwallowDisturbs ==
  [][ WM!ScreenShowsView /\ WM!FullscreenFloats =>
        \/ (WM!ScreenShowsView /\ WM!FullscreenFloats)'
        \/ \E p \in Managed(wm) : swallowing[p] = NULL /\ swallowing'[p] # NULL
    ]_vars
=============================================================================
