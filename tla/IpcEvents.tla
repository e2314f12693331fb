----------------------------- MODULE IpcEvents -----------------------------
(***************************************************************************)
(* The events that tell IPC subscribers what changed. ipc_send_events()    *)
(* compares the window manager's state with the values it has seen last;   *)
(* it runs after each X event that has a handler and after each IPC        *)
(* command. Here it is composed with WindowManager, and with a subscriber  *)
(* that keeps what the answers to GET_MONITORS and the events told it.     *)
(* How messages reach a subscriber is the matter of IpcServer.             *)
(***************************************************************************)
EXTENDS WindowManager

ASSUME IpcEventsAssumption == NULL \notin Mon

VARIABLES
  last,    \* tagstate, lastsel, lastlt and lastltsymbol of each monitor,
           \* prevstate of each client, and lastselmon
  known    \* what the subscriber believes of them

evars == <<wm, last, known>>

-----------------------------------------------------------------------------
(* The values that are compared                                            *)

\* TagState
TagState(s, m) ==
  [ selected |-> ViewOf(s, m),
    occupied |-> UNION {s.tags[c] : c \in ToSet(s.clients[m])},
    urgent   |-> UNION {s.tags[c] : c \in {d \in ToSet(s.clients[m]) :
                                             s.isurgent[d]}} ]

\* The layout and its symbol, which monocle() makes a count of the clients in
\* view: arrange() runs wherever that count changes.
LayoutState(s, m) ==
  LET layout == s.lt[m][s.sellt[m]]
  IN [ layout |-> layout,
       count |-> IF layout # "monocle" THEN 0
                 ELSE Cardinality({c \in ToSet(s.clients[m]) : Visible(s, c)}) ]

\* ClientState
ClientState(s, c) ==
  <<s.oldstate[c], s.isfixed[c], s.isfloating[c], s.isfullscreen[c],
    s.isurgent[c], s.neverfocus[c]>>

\* What calloc() makes of them in createmon() and manage().
NoTags == [selected |-> {}, occupied |-> {}, urgent |-> {}]
NoLayout == [layout |-> "none", count |-> 0]
NoState == <<FALSE, FALSE, FALSE, FALSE, FALSE, FALSE>>

NewValues ==
  [ tags   |-> [m \in Mon |-> NoTags],
    sel    |-> [m \in Mon |-> NULL],
    layout |-> [m \in Mon |-> NoLayout],
    state  |-> [c \in Client |-> NoState],
    selmon |-> NULL ]

\* The values now, for connected monitors and their selected clients; the
\* others keep those in v.
Current(v, s, selmon) ==
  [ tags   |-> [m \in Mon |-> IF m \in Mons(s) THEN TagState(s, m)
                                               ELSE v.tags[m]],
    sel    |-> [m \in Mon |-> IF m \in Mons(s) THEN s.sel[m] ELSE v.sel[m]],
    layout |-> [m \in Mon |-> IF m \in Mons(s) THEN LayoutState(s, m)
                                               ELSE v.layout[m]],
    state  |-> [c \in Client |-> IF \E m \in Mons(s) : s.sel[m] = c
                                 THEN ClientState(s, c) ELSE v.state[c]],
    selmon |-> selmon ]

\* The values kept in structs that have been freed since: a monitor connected
\* again and a client with the same address start with new ones.
Forget(v, s) ==
  [v EXCEPT
     !.tags = [m \in Mon |-> IF m \in Mons(s) THEN @[m] ELSE NoTags],
     !.sel = [m \in Mon |-> IF m \in Mons(s) THEN @[m] ELSE NULL],
     !.layout = [m \in Mon |-> IF m \in Mons(s) THEN @[m] ELSE NoLayout],
     !.state = [c \in Client |-> IF c \in Managed(s) THEN @[c] ELSE NoState]]

-----------------------------------------------------------------------------
(* Events                                                                  *)

\* What a subscriber believes when the events of one kind have told it the
\* values in now that differ from those in old.
Told(belief, old, now) ==
  [x \in DOMAIN belief |-> IF old[x] # now[x] THEN now[x] ELSE belief[x]]

\* The subscriber's beliefs after the events of one ipc_send_events() call.
Hear(now, s, selmon) ==
  [ tags   |-> Told(known.tags, last.tags, now.tags),
    sel    |-> Told(known.sel, last.sel, now.sel),
    layout |-> Told(known.layout, last.layout, now.layout),
    state  |-> Told([c \in Client |-> IF c \in Managed(s) THEN known.state[c]
                                                          ELSE NoState],
                    last.state, now.state),
    selmon |-> IF last.selmon \in {NULL, selmon} THEN known.selmon
                                                 ELSE selmon ]

\* Fault: the loop goes on to the next monitor before it has compared sel.
SendEventsSkip(s, selmon) ==
  LET all == Current(last, s, selmon)
      now == [all EXCEPT !.sel = [m \in Mon |-> IF @[m] = NULL THEN last.sel[m]
                                                               ELSE @[m]]]
  IN last' = Forget(now, s) /\ known' = Hear(now, s, selmon)

\* Fault: lastsel of a monitor is not updated when nothing is selected on it.
SendEventsOldSel(s, selmon) ==
  LET now == Current(last, s, selmon)
      kept == [now EXCEPT !.sel = [m \in Mon |-> IF @[m] = NULL
                                                 THEN last.sel[m] ELSE @[m]]]
  IN last' = Forget(kept, s) /\ known' = Hear(now, s, selmon)

\* ipc_send_events(), in state s and with the monitor that its caller takes for
\* the selected one. The old value in a focus event may be read from a client
\* or monitor that has just been freed; it is left out, the new one is what
\* the subscriber uses. The first call reports no selected monitor.
SendEvents(s, selmon) ==
  LET now == Current(last, s, selmon)
  IN last' = Forget(now, s) /\ known' = Hear(now, s, selmon)

-----------------------------------------------------------------------------
(* The event loop                                                          *)

EventsInit == Init /\ last = NewValues /\ known = NewValues

\* The commands in ipccommands[].
IpcCommand ==
  \/ ViewCmd \/ ToggleViewCmd \/ TagCmd \/ ToggleTagCmd \/ TagMonCmd
  \/ FocusMonCmd \/ FocusStackCmd \/ ZoomCmd \/ IncNMasterCmd
  \/ ToggleFloatingCmd \/ SetLayoutCmd

\* What programs do without an event that has a handler in dwm.
Elsewhere == WindowGone \/ TakeFocus

\* ipc_handle_client_epoll_event() has been given selmon by value, before the
\* command runs.
IpcCommandStep == IpcCommand /\ SendEvents(wm', wm.selmon)

\* Fault: selmon is passed as it was before the handler ran.
XEventStepOldSelmon ==
  Next /\ ~Elsewhere /\ SendEvents(wm', wm.selmon)

\* handlexevent(): keys and buttons run commands as well.
XEventStep == Next /\ ~Elsewhere /\ SendEvents(wm', wm'.selmon)

ElsewhereStep == Elsewhere /\ UNCHANGED <<last, known>>

\* The subscriber asks for GET_MONITORS: dump_monitors() takes tag_state from
\* the values seen last.
GetMonitors ==
  /\ known' = [Current(known, wm, wm.selmon) EXCEPT
                 !.tags = [m \in Mon |-> IF m \in Mons(wm) THEN last.tags[m]
                                                           ELSE @[m]],
                 !.state = known.state]
  /\ UNCHANGED <<wm, last>>

EventsNext == IpcCommandStep \/ XEventStep \/ ElsewhereStep \/ GetMonitors

EventsSpec == EventsInit /\ [][EventsNext]_evars

-----------------------------------------------------------------------------
(* Properties                                                              *)

\* From the first call of ipc_send_events() on, the events are enough to know
\* the tags, layout, selected client and state of the selected client of each
\* monitor, with one exception: a monitor that was disconnected and comes back
\* has no selected client, and no event says so.
SubscriberKnows ==
  ~wm.lost /\ last.selmon # NULL =>
    \A m \in Mons(wm) :
      LET c == wm.sel[m]
      IN /\ known.tags[m] = TagState(wm, m)
         /\ known.layout[m] = LayoutState(wm, m)
         /\ known.sel[m] = c \/ (m > 1 /\ c = NULL)
         /\ c # NULL => known.state[c] = ClientState(wm, c)

\* A change of the selected monitor is reported with the X event that makes it;
\* only an IPC command leaves a subscriber behind. (Then lastselmon is behind as
\* well: a subscriber that asks for GET_MONITORS meanwhile learns of the new
\* monitor, and hears nothing when a key goes back to the old one.)
MonitorEventsTimely ==
  [][ known.selmon = wm.selmon /\ last.selmon = wm.selmon =>
        known'.selmon = wm'.selmon \/ IpcCommand ]_evars

\* Pointers to freed clients and monitors do not outlive the handler that frees
\* them: lastsel and lastselmon refer to what exists, or to nothing, whenever
\* ipc_send_events() has returned.
LastValuesAlive ==
  ~wm.lost =>
    /\ \A m \in Mons(wm) : last.sel[m] \in Managed(wm) \cup {NULL}
    /\ last.selmon \in Mons(wm) \cup {NULL}
=============================================================================
