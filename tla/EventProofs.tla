---------------------------- MODULE EventProofs ----------------------------
(***************************************************************************)
(* ipc_send_events() reports every change: what a subscriber has been told *)
(* adds up to the state, and the values that dwm compares the state with   *)
(* refer to clients and monitors that exist.                               *)
(***************************************************************************)
EXTENDS IpcEvents, WindowManagerProofs

-----------------------------------------------------------------------------
(* The invariant                                                           *)

\* After a call of ipc_send_events(), until the next handler: l holds the
\* values of s, and nothing of monitors that are not connected.
Reported(s, l) ==
  /\ \A m \in Mons(s) :
       /\ l.tags[m] = TagState(s, m) /\ l.layout[m] = LayoutState(s, m)
       /\ l.sel[m] = s.sel[m]
       /\ s.sel[m] # NULL => l.state[s.sel[m]] = ClientState(s, s.sel[m])
  /\ \A m \in Mon \ Mons(s) :
       l.tags[m] = NoTags /\ l.layout[m] = NoLayout /\ l.sel[m] = NULL
  /\ l.selmon \in Mons(s)

\* Before the first call: nothing has been managed yet.
Fresh(s, l) ==
  /\ l = NewValues
  /\ Managed(s) = {} /\ \A m \in Mon : s.sel[m] = NULL

\* The subscriber believes what was seen last, but for monitors that are new
\* (no view is without tags, no layout without a name) and for the selected
\* client of a monitor that was connected before.
Believed(l, k) ==
  /\ DOMAIN k.tags = Mon /\ DOMAIN k.layout = Mon /\ DOMAIN k.sel = Mon
  /\ \A m \in Mon :
       /\ k.tags[m] # l.tags[m] => l.tags[m] = NoTags
       /\ k.layout[m] # l.layout[m] => l.layout[m] = NoLayout
       /\ k.sel[m] # l.sel[m] => m > 1 /\ l.sel[m] = NULL
  /\ \A c \in Client : k.state[c] = l.state[c]

EventsInv ==
  /\ ClientsInv
  /\ ~wm.lost => Believed(last, known) /\ (Reported(wm, last) \/ Fresh(wm, last))

-----------------------------------------------------------------------------
(* The values that are compared                                            *)

\* No monitor in use looks like a new one.
LEMMA ValuesNotNew ==
  ASSUME NEW s, Good(s), NEW m \in Mon
  PROVE  TagState(s, m) # NoTags /\ LayoutState(s, m) # NoLayout
<1>1. s \in State /\ Proper(s)
  BY GoodFacts
<1>2. s.seltags[m] \in Slot /\ s.sellt[m] \in Slot
  BY <1>1 DEF State
<1>3. ViewOf(s, m) # {}
  BY <1>1, <1>2 DEF Proper, ViewOf
<1>4. s.lt[m][s.sellt[m]] \in Layout
  BY <1>1, <1>2 DEF State
<1>5. TagState(s, m).selected # NoTags.selected
  BY <1>3 DEF TagState, NoTags
<1>6. LayoutState(s, m).layout \in Layout /\ NoLayout.layout = "none"
  BY <1>4 DEF LayoutState, NoLayout
<1>7. "none" \notin Layout
  BY DEF Layout
<1> QED BY <1>5, <1>6, <1>7

\* A monitor's selected client is managed.
LEMMA SelManaged ==
  ASSUME NEW s, ListInv(s), NEW m \in Mons(s), s.sel[m] # NULL
  PROVE  s.sel[m] \in Managed(s) /\ s.sel[m] \in Client
<1>1. m \in Mon /\ s.clients[m] \in Seq(Client)
  BY StateFields, ConstantsAssumption DEF ListInv, Mons, Mon, State
<1>2. s.sel[m] \in ToSet(s.clients[m])
  BY <1>1 DEF ListInv, Owned
<1>3. In(s, s.sel[m])
  BY <1>1, <1>2, InOfMonitor
<1>4. s.sel[m] \in Client
  BY <1>3 DEF In
<1>5. s.sel[m] \in Managed(s)
  <2>1. s.sel[m] \notin Managed(s) => Out(s, s.sel[m])
    BY <1>4, ManagedIn
  <2> QED BY <1>1, <1>2, <2>1 DEF Out
<1> QED BY <1>4, <1>5

LEMMA FirstMonitor ==
  ASSUME NEW s \in State
  PROVE  /\ Mons(s) \subseteq Mon /\ 1 \in Mons(s)
         /\ \A m \in Mon \ Mons(s) : m > 1
BY StateFields, ConstantsAssumption DEF Mons, Mon

-----------------------------------------------------------------------------
(* ipc_send_events()                                                       *)

LEMMA SendReports ==
  ASSUME NEW s, Good(s), NEW selmon \in Mons(s), Believed(last, known),
         SendEvents(s, selmon)
  PROVE  Reported(s, last') /\ Believed(last', known')
<1> DEFINE now == Current(last, s, selmon)
<1>1. s \in State /\ ListInv(s)
  BY GoodFacts
<1>2. /\ Mons(s) \subseteq Mon /\ \A m \in Mon \ Mons(s) : m > 1
      /\ \A m \in Mons(s) : s.sel[m] # NULL =>
           s.sel[m] \in Managed(s) /\ s.sel[m] \in Client
  BY <1>1, FirstMonitor, SelManaged
<1>3. \A m \in Mons(s) : TagState(s, m) # NoTags /\ LayoutState(s, m) # NoLayout
  BY <1>2, ValuesNotNew
<1>4. /\ now.tags = [m \in Mon |-> IF m \in Mons(s) THEN TagState(s, m)
                                                   ELSE last.tags[m]]
      /\ now.sel = [m \in Mon |-> IF m \in Mons(s) THEN s.sel[m] ELSE last.sel[m]]
      /\ now.layout = [m \in Mon |-> IF m \in Mons(s) THEN LayoutState(s, m)
                                                     ELSE last.layout[m]]
      /\ now.state = [c \in Client |-> IF \E m \in Mons(s) : s.sel[m] = c
                                       THEN ClientState(s, c) ELSE last.state[c]]
      /\ now.selmon = selmon
  BY DEF Current
<1>5. /\ last'.tags = [m \in Mon |-> IF m \in Mons(s) THEN now.tags[m] ELSE NoTags]
      /\ last'.sel = [m \in Mon |-> IF m \in Mons(s) THEN now.sel[m] ELSE NULL]
      /\ last'.layout = [m \in Mon |-> IF m \in Mons(s) THEN now.layout[m]
                                                       ELSE NoLayout]
      /\ last'.state = [c \in Client |-> IF c \in Managed(s) THEN now.state[c]
                                                            ELSE NoState]
      /\ last'.selmon = now.selmon
  BY DEF SendEvents, Forget, Current
<1>6. /\ known'.tags = Told(known.tags, last.tags, now.tags)
      /\ known'.sel = Told(known.sel, last.sel, now.sel)
      /\ known'.layout = Told(known.layout, last.layout, now.layout)
      /\ known'.state = Told([c \in Client |-> IF c \in Managed(s)
                                               THEN known.state[c] ELSE NoState],
                             last.state, now.state)
  BY DEF SendEvents, Hear
<1> HIDE DEF now
<1>7. Reported(s, last')
  BY <1>2, <1>4, <1>5 DEF Reported
<1>8. /\ DOMAIN known.tags = Mon /\ DOMAIN known.layout = Mon
      /\ DOMAIN known.sel = Mon
  BY DEF Believed
<1>9. /\ DOMAIN known'.tags = Mon /\ DOMAIN known'.layout = Mon
      /\ DOMAIN known'.sel = Mon
  BY <1>6, <1>8 DEF Told
<1>10. ASSUME NEW m \in Mon
       PROVE  /\ known'.tags[m] # last'.tags[m] => last'.tags[m] = NoTags
              /\ known'.layout[m] # last'.layout[m] => last'.layout[m] = NoLayout
              /\ known'.sel[m] # last'.sel[m] => m > 1 /\ last'.sel[m] = NULL
  <2>1. /\ known.tags[m] # last.tags[m] => last.tags[m] = NoTags
        /\ known.layout[m] # last.layout[m] => last.layout[m] = NoLayout
        /\ known.sel[m] # last.sel[m] => m > 1 /\ last.sel[m] = NULL
    BY DEF Believed
  <2>2. /\ known'.tags[m] = IF last.tags[m] # now.tags[m] THEN now.tags[m]
                                                        ELSE known.tags[m]
        /\ known'.layout[m] = IF last.layout[m] # now.layout[m]
                              THEN now.layout[m] ELSE known.layout[m]
        /\ known'.sel[m] = IF last.sel[m] # now.sel[m] THEN now.sel[m]
                                                     ELSE known.sel[m]
    BY <1>6, <1>8 DEF Told
  <2>3. CASE m \in Mons(s)
    <3>1. /\ now.tags[m] # NoTags /\ last'.tags[m] = now.tags[m]
          /\ now.layout[m] # NoLayout /\ last'.layout[m] = now.layout[m]
          /\ last'.sel[m] = now.sel[m]
      BY <1>3, <1>4, <1>5, <2>3
    <3> QED BY <2>1, <2>2, <3>1
  <2>4. CASE m \notin Mons(s)
    BY <1>2, <1>5, <2>4
  <2> QED BY <2>3, <2>4
<1>11. ASSUME NEW c \in Client
       PROVE  known'.state[c] = last'.state[c]
  <2>1. known.state[c] = last.state[c]
    BY DEF Believed
  <2>2. known'.state[c] = IF last.state[c] # now.state[c] THEN now.state[c]
                          ELSE IF c \in Managed(s) THEN known.state[c]
                          ELSE NoState
    BY <1>6 DEF Told
  <2>3. c \notin Managed(s) => now.state[c] = last.state[c]
    <3>1. c # NULL
      BY ConstantsAssumption
    <3> QED BY <1>2, <1>4, <3>1
  <2> QED BY <1>5, <2>1, <2>2, <2>3
<1>12. Believed(last', known')
  BY <1>9, <1>10, <1>11 DEF Believed
<1> QED BY <1>7, <1>12

\* The first call of ipc_send_events(), or a later one.
LEMMA SendEventsInv ==
  ASSUME EventsInv, Next, NEW selmon, SendEvents(wm', selmon),
         ~(wm').lost => selmon \in Mons(wm')
  PROVE  EventsInv'
<1>1. ClientsInv' /\ ~wm.lost
  BY NextClients, NextNotLost DEF EventsInv
<1>2. Believed(last, known)
  BY <1>1 DEF EventsInv
<1>3. ASSUME ~(wm').lost
      PROVE  Reported(wm', last') /\ Believed(last', known')
  <2>1. Good(wm')
    BY <1>1, <1>3 DEF ClientsInv
  <2> QED BY <1>2, <1>3, <2>1, SendReports
<1> QED BY <1>1, <1>3 DEF EventsInv

\* No IPC command connects or disconnects a monitor.
LEMMA IpcCommandMonitors ==
  ASSUME Good(wm), IpcCommand
  PROVE  Next /\ (wm').nmon = wm.nmon
<1>1. Next
  BY DEF IpcCommand, Next
<1> SUFFICES (wm').nmon = wm.nmon
  BY <1>1
<1>2. ASSUME NEW t, wm' = t, Steady(wm, t) \/ Calm(wm, t)
      PROVE  (wm').nmon = wm.nmon
  BY <1>2 DEF Steady, Calm, Reordered, SamePlaces
<1>3. CASE ViewCmd \/ ToggleViewCmd
  BY <1>2, <1>3, ViewSteady DEF ViewCmd, ToggleViewCmd
<1>4. CASE TagCmd \/ ToggleTagCmd
  BY <1>2, <1>4, TagsSteady DEF TagCmd, ToggleTagCmd
<1>5. CASE TagMonCmd
  BY <1>5, TagMonOrderly DEF TagMonCmd
<1>6. CASE FocusMonCmd
  BY <1>2, <1>6, FocusMonCalm DEF FocusMonCmd
<1>7. CASE FocusStackCmd
  BY <1>2, <1>7, FocusStackCalm DEF FocusStackCmd
<1>8. CASE ZoomCmd
  BY <1>2, <1>8, ZoomCalm DEF ZoomCmd
<1>9. CASE IncNMasterCmd \/ SetLayoutCmd
  <2>1. (\A i \in {1, -1} : i \in Int) /\ 0 \in Int
    OBVIOUS
  <2>2. "toggle" \in Layout \cup {"toggle"}
    OBVIOUS
  <2> QED BY <1>2, <1>9, <2>1, <2>2, LayoutCalm DEF IncNMasterCmd, SetLayoutCmd
<1>10. CASE ToggleFloatingCmd
  BY <1>2, <1>10, ToggleCalm DEF ToggleFloatingCmd
<1> QED BY <1>1, <1>3, <1>4, <1>5, <1>6, <1>7, <1>8, <1>9, <1>10 DEF IpcCommand

LEMMA SelmonConnected ==
  ASSUME NEW s, Good(s)
  PROVE  s.selmon \in Mons(s)
<1>1. ListInv(s) /\ s \in State
  BY GoodFacts
<1> QED BY <1>1, StateFields, ConstantsAssumption
        DEF ListInv, Connected, Mons, Mon

-----------------------------------------------------------------------------
(* What happens between two calls                                          *)

\* What programs do on their own changes none of the values compared.
LEMMA ElsewhereReported ==
  ASSUME EventsInv, ElsewhereStep
  PROVE  EventsInv'
<1>1. Next
  BY DEF ElsewhereStep, Elsewhere, Next
<1>2. ClientsInv' /\ ~wm.lost /\ wm \in State
  BY <1>1, NextClients, NextNotLost DEF EventsInv, ClientsInv, Ended, Settled
<1>3. {"nmon", "clients", "sel", "tags", "tagset", "seltags", "mon", "isurgent",
       "lt", "sellt", "oldstate", "isfixed", "isfloating", "isfullscreen",
       "neverfocus"} \subseteq DOMAIN wm
  BY <1>2, StateDomain
<1>4. /\ (wm').nmon = wm.nmon /\ (wm').clients = wm.clients
      /\ (wm').sel = wm.sel /\ (wm').tags = wm.tags
      /\ (wm').tagset = wm.tagset /\ (wm').seltags = wm.seltags
      /\ (wm').mon = wm.mon /\ (wm').isurgent = wm.isurgent
      /\ (wm').lt = wm.lt /\ (wm').sellt = wm.sellt
      /\ (wm').oldstate = wm.oldstate /\ (wm').isfixed = wm.isfixed
      /\ (wm').isfloating = wm.isfloating
      /\ (wm').isfullscreen = wm.isfullscreen
      /\ (wm').neverfocus = wm.neverfocus
  BY <1>3, ZenonT(60) DEF ElsewhereStep, Elsewhere, WindowGone, TakeFocus
<1>5. Mons(wm') = Mons(wm) /\ Managed(wm') = Managed(wm)
  BY <1>4 DEF Mons, Managed
<1>6. \A m : TagState(wm', m) = TagState(wm, m)
  BY <1>4 DEF TagState, ViewOf
<1>7. \A c : Visible(wm', c) <=> Visible(wm, c)
  BY <1>4 DEF Visible, ViewOf
<1>8. \A m : LayoutState(wm', m) = LayoutState(wm, m)
  BY <1>4, <1>7 DEF LayoutState
<1>9. \A c : ClientState(wm', c) = ClientState(wm, c)
  BY <1>4 DEF ClientState
<1>10. last' = last /\ known' = known
  BY DEF ElsewhereStep
<1>11. Reported(wm, last) => Reported(wm', last')
  BY <1>4, <1>5, <1>6, <1>8, <1>9, <1>10 DEF Reported
<1>12. Fresh(wm, last) => Fresh(wm', last')
  BY <1>4, <1>5, <1>10 DEF Fresh
<1> QED BY <1>2, <1>10, <1>11, <1>12 DEF EventsInv

\* GET_MONITORS tells what was seen last: the state itself, once
\* ipc_send_events() has been called.
LEMMA GetMonitorsBelieved ==
  ASSUME EventsInv, GetMonitors
  PROVE  EventsInv'
<1>1. wm' = wm /\ last' = last
  BY DEF GetMonitors
<1>2. ClientsInv'
  BY <1>1 DEF EventsInv, ClientsInv
<1>3. ASSUME ~wm.lost
      PROVE  Believed(last, known')
  <2>1. Believed(last, known) /\ (Reported(wm, last) \/ Fresh(wm, last))
    BY <1>3 DEF EventsInv
  <2>2. /\ known'.tags = [m \in Mon |-> IF m \in Mons(wm) THEN last.tags[m]
                                                         ELSE known.tags[m]]
        /\ known'.sel = [m \in Mon |-> IF m \in Mons(wm) THEN wm.sel[m]
                                                        ELSE known.sel[m]]
        /\ known'.layout = [m \in Mon |-> IF m \in Mons(wm) THEN LayoutState(wm, m)
                                                           ELSE known.layout[m]]
        /\ known'.state = known.state
    BY DEF GetMonitors, Current
  <2>3. ASSUME NEW m \in Mon
        PROVE  /\ known'.tags[m] # last.tags[m] => last.tags[m] = NoTags
               /\ known'.layout[m] # last.layout[m] => last.layout[m] = NoLayout
               /\ known'.sel[m] # last.sel[m] => m > 1 /\ last.sel[m] = NULL
    <3>1. /\ known.tags[m] # last.tags[m] => last.tags[m] = NoTags
          /\ known.layout[m] # last.layout[m] => last.layout[m] = NoLayout
          /\ known.sel[m] # last.sel[m] => m > 1 /\ last.sel[m] = NULL
      BY <2>1 DEF Believed
    <3>2. CASE m \notin Mons(wm)
      BY <2>2, <3>1, <3>2
    <3>3. CASE m \in Mons(wm) /\ Reported(wm, last)
      BY <2>2, <3>3 DEF Reported
    <3>4. CASE m \in Mons(wm) /\ Fresh(wm, last)
      BY <2>2, <3>4 DEF Fresh, NewValues
    <3> QED BY <2>1, <3>2, <3>3, <3>4
  <2> QED BY <2>1, <2>2, <2>3 DEF Believed
<1> QED BY <1>1, <1>2, <1>3 DEF EventsInv

-----------------------------------------------------------------------------
(* The theorems                                                            *)

LEMMA InitEvents == EventsInit => EventsInv
<1> SUFFICES ASSUME EventsInit
             PROVE  EventsInv
  OBVIOUS
<1>1. Init /\ last = NewValues /\ known = NewValues
  BY DEF EventsInit
<1>2. ClientsInv
  BY <1>1, InitClients
<1>3. Believed(last, known)
  BY <1>1 DEF Believed, NewValues
<1>4. /\ wm.clients = [i \in Mon |-> << >>] /\ wm.sel = [i \in Mon |-> NULL]
      /\ wm \in State
  <2>1. wm \in State
    BY <1>1, InitType DEF TypeOK
  <2>2. PICK n, m : wm = InitialState(n, m)
    BY <1>1 DEF Init
  <2> QED BY <2>1, <2>2 DEF InitialState
<1>5. Managed(wm) = {}
  <2>1. Mons(wm) \subseteq Mon
    BY <1>4, FirstMonitor
  <2>2. \A c : ~Contains(<< >>, c)
    BY DEF Contains
  <2> QED BY <1>4, <2>1, <2>2 DEF Managed
<1> QED BY <1>1, <1>2, <1>3, <1>4, <1>5 DEF EventsInv, Fresh

LEMMA NextEvents == EventsInv /\ [EventsNext]_evars => EventsInv'
<1> SUFFICES ASSUME EventsInv, [EventsNext]_evars
             PROVE  EventsInv'
  OBVIOUS
<1>1. CASE IpcCommandStep
  <2>1. IpcCommand /\ SendEvents(wm', wm.selmon)
    BY <1>1 DEF IpcCommandStep
  <2>2. IpcCommand => ~wm.lost
    BY NextNotLost DEF IpcCommand, Next
  <2>3. Good(wm)
    BY <2>1, <2>2 DEF EventsInv, ClientsInv
  <2>4. Next /\ wm.selmon \in Mons(wm')
    BY <2>1, <2>3, IpcCommandMonitors, SelmonConnected DEF Mons
  <2> QED BY <2>1, <2>4, SendEventsInv
<1>2. CASE XEventStep
  <2>1. Next /\ SendEvents(wm', (wm').selmon)
    BY <1>2 DEF XEventStep
  <2>2. ~(wm').lost => (wm').selmon \in Mons(wm')
    <3>1. ClientsInv'
      BY <2>1, NextClients DEF EventsInv
    <3>2. ~(wm').lost => Good(wm')
      BY <3>1 DEF ClientsInv
    <3> QED BY <3>2, SelmonConnected
  <2> QED BY <2>1, <2>2, SendEventsInv
<1>3. CASE ElsewhereStep
  BY <1>3, ElsewhereReported
<1>4. CASE GetMonitors
  BY <1>4, GetMonitorsBelieved
<1>5. CASE UNCHANGED evars
  BY <1>5 DEF evars, EventsInv, ClientsInv
<1> QED BY <1>1, <1>2, <1>3, <1>4, <1>5 DEF EventsNext

\* A subscriber that hears every event knows the tags, the layout, the selected
\* client and its state of every monitor, whatever came between: an answer to
\* GET_MONITORS, monitors and clients that come back, an IPC command.
THEOREM SubscribersKnow == EventsSpec => []SubscriberKnows
<1>1. EventsInv => SubscriberKnows
  <2> SUFFICES ASSUME EventsInv, ~wm.lost, last.selmon # NULL, NEW m \in Mons(wm)
               PROVE  /\ known.tags[m] = TagState(wm, m)
                      /\ known.layout[m] = LayoutState(wm, m)
                      /\ known.sel[m] = wm.sel[m] \/ (m > 1 /\ wm.sel[m] = NULL)
                      /\ wm.sel[m] # NULL =>
                           known.state[wm.sel[m]] = ClientState(wm, wm.sel[m])
    BY DEF SubscriberKnows
  <2>1. Good(wm) /\ Believed(last, known) /\ Reported(wm, last)
    BY DEF EventsInv, ClientsInv, Fresh, NewValues
  <2>2. m \in Mon /\ (wm.sel[m] # NULL => wm.sel[m] \in Client)
    BY <2>1, GoodFacts, FirstMonitor, SelManaged
  <2>3. TagState(wm, m) # NoTags /\ LayoutState(wm, m) # NoLayout
    BY <2>1, <2>2, ValuesNotNew
  <2> QED BY <2>1, <2>2, <2>3 DEF Believed, Reported
<1> QED BY <1>1, InitEvents, NextEvents, PTL DEF EventsSpec

\* Whenever ipc_send_events() has returned, the last selected client of a
\* monitor is managed and the last selected monitor is connected: the next call
\* compares no pointer to memory that was freed before the handler it follows.
THEOREM LastValuesStayAlive == EventsSpec => []LastValuesAlive
<1>1. EventsInv => LastValuesAlive
  <2> SUFFICES ASSUME EventsInv, ~wm.lost
               PROVE  /\ \A m \in Mons(wm) : last.sel[m] \in Managed(wm) \cup {NULL}
                      /\ last.selmon \in Mons(wm) \cup {NULL}
    BY DEF LastValuesAlive
  <2>1. Good(wm) /\ (Reported(wm, last) \/ Fresh(wm, last))
    BY DEF EventsInv, ClientsInv
  <2>2. CASE Reported(wm, last)
    BY <2>1, <2>2, GoodFacts, SelManaged DEF Reported
  <2>3. CASE Fresh(wm, last)
    BY <2>1, <2>3, GoodFacts, FirstMonitor DEF Fresh, NewValues
  <2> QED BY <2>1, <2>2, <2>3
<1> QED BY <1>1, InitEvents, NextEvents, PTL DEF EventsSpec

\* An X event that changes the selected monitor is reported with that monitor:
\* unless an IPC command has left lastselmon behind, a subscriber is never
\* behind after a key, a button, the pointer or a change of the screens.
THEOREM SelmonReportedAtOnce == EventsSpec => MonitorEventsTimely
<1>1. EventsInv /\ [EventsNext]_evars =>
        [ known.selmon = wm.selmon /\ last.selmon = wm.selmon =>
            known'.selmon = (wm').selmon \/ IpcCommand ]_evars
  <2> SUFFICES ASSUME EventsInv, EventsNext,
                      known.selmon = wm.selmon, last.selmon = wm.selmon
               PROVE  known'.selmon = (wm').selmon \/ IpcCommand
    OBVIOUS
  <2>1. wm.selmon \in Mon
    BY StateFields DEF EventsInv, ClientsInv, Ended, Settled
  <2>2. wm.selmon # NULL
    BY <2>1, IpcEventsAssumption
  <2>3. CASE IpcCommandStep
    BY <2>3 DEF IpcCommandStep
  <2>4. CASE XEventStep
    <3>1. known'.selmon = IF last.selmon \in {NULL, (wm').selmon}
                          THEN known.selmon ELSE (wm').selmon
      BY <2>4 DEF XEventStep, SendEvents, Hear
    <3> QED BY <2>2, <3>1
  <2>5. CASE ElsewhereStep
    <3>1. wm \in State
      BY DEF EventsInv, ClientsInv, Ended, Settled
    <3>2. "selmon" \in DOMAIN wm
      BY <3>1, StateDomain
    <3>3. (wm').selmon = wm.selmon
      BY <2>5, <3>2, ZenonT(60)
         DEF ElsewhereStep, Elsewhere, WindowGone, TakeFocus
    <3> QED BY <2>5, <3>3 DEF ElsewhereStep
  <2>6. CASE GetMonitors
    BY <2>6 DEF GetMonitors, Current
  <2> QED BY <2>3, <2>4, <2>5, <2>6 DEF EventsNext
<1> QED BY <1>1, InitEvents, NextEvents, PTL DEF EventsSpec, MonitorEventsTimely
=============================================================================
