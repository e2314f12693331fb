------------------------ MODULE WindowManagerProofs -------------------------
(***************************************************************************)
(* The theorems about the window manager, one per property: what holds of  *)
(* every handler holds of every step and, by induction, in every reachable *)
(* state.                                                                  *)
(***************************************************************************)
EXTENDS WindowManager, ClientInvariant, FiniteSetTheorems

-----------------------------------------------------------------------------
(* Type correctness                                                        *)

\* The windows that events are about.
LEMMA ManagedType ==
  ASSUME NEW c \in Managed(wm)
  PROVE  c \in Client
BY DEF Managed

\* The events that change a single field or two.
LEMMA ClientEventsType ==
  ASSUME TypeOK
  PROVE  /\ WindowGone => TypeOK'
         /\ SizeHintsChange => TypeOK'
         /\ TakeFocus => TypeOK'
         /\ LateFocusInEvent => TypeOK'
<1>1. ASSUME NEW c \in Client,
             wm' = [wm EXCEPT !.gone[c] = TRUE,
                              !.xfocus = IF @ = c THEN NULL ELSE @]
      PROVE  TypeOK'
  <2> DEFINE x == IF wm.xfocus = c THEN NULL ELSE wm.xfocus
  <2>1. x \in ClientOrNull
    BY DEF TypeOK, State, ClientOrNull
  <2> HIDE DEF x
  <2>2. [wm EXCEPT !.gone[c] = TRUE, !.xfocus = x] \in State
    BY <2>1, ZenonT(60) DEF TypeOK, State
  <2> QED BY <1>1, <2>2 DEF TypeOK, x
<1>2. ASSUME NEW c \in Client, NEW fixed \in BOOLEAN,
             wm' = [wm EXCEPT !.isfixed[c] = fixed]
      PROVE  TypeOK'
  BY <1>2, ZenonT(60) DEF TypeOK, State
<1>3. ASSUME NEW c \in Client,
             wm' = [wm EXCEPT !.xfocus = c, !.focusin = @ \cup {c}]
      PROVE  TypeOK'
  <2> DEFINE x == wm.focusin \cup {c}
  <2>1. x \in SUBSET Client /\ c \in ClientOrNull
    BY DEF TypeOK, State, ClientOrNull
  <2> HIDE DEF x
  <2>2. [wm EXCEPT !.xfocus = c, !.focusin = x] \in State
    BY <2>1, ZenonT(60) DEF TypeOK, State
  <2> QED BY <1>3, <2>2 DEF TypeOK, x
<1>4. ASSUME NEW c \in Client,
             wm' = [FocusIn(wm, c) EXCEPT !.focusin = wm.focusin]
      PROVE  TypeOK'
  <2>1. FocusIn(wm, c) \in State
    BY FocusInType DEF TypeOK
  <2>2. wm.focusin \in SUBSET Client
    BY DEF TypeOK, State
  <2>3. ASSUME NEW r \in State
        PROVE  [r EXCEPT !.focusin = wm.focusin] \in State
    BY <2>2, ZenonT(60) DEF State
  <2> QED BY <1>4, <2>1, <2>3 DEF TypeOK
<1> QED BY <1>1, <1>2, <1>3, <1>4, ManagedType
        DEF WindowGone, SizeHintsChange, TakeFocus, LateFocusInEvent

LEMMA InitType == Init => TypeOK
<1> SUFFICES ASSUME NEW n \in Mon, NEW m \in 1 .. n, wm = InitialState(n, m)
             PROVE  TypeOK
  BY DEF Init
<1>1. m \in Mon
  BY ConstantsAssumption DEF Mon
<1> QED BY <1>1, InitialStateType DEF TypeOK

\* Every command and every event handler keeps the types.
LEMMA NextType == TypeOK /\ [Next]_wm => TypeOK'
<1> SUFFICES ASSUME TypeOK, [Next]_wm
             PROVE  TypeOK'
  OBVIOUS
<1>1. wm \in State
  BY DEF TypeOK
<1>2. \A ui \in SUBSET Tag :
        /\ wm' = View(wm, ui) => TypeOK'
        /\ wm' = ToggleView(wm, ui) => TypeOK'
        /\ wm' = TagSel(wm, ui) => TypeOK'
        /\ wm' = ToggleTag(wm, ui) => TypeOK'
  BY <1>1, ViewType, ToggleViewType, TagSelType, ToggleTagType DEF TypeOK
<1>3. \A t \in Tag : /\ wm' = ComboView(wm, t) => TypeOK'
                     /\ wm' = ComboTag(wm, {t}) => TypeOK'
  BY <1>1, ComboViewType, ComboTagType DEF TypeOK
<1>4. CASE ViewCmd
  BY <1>2, <1>4 DEF ViewCmd
<1>5. CASE ToggleViewCmd
  BY <1>2, <1>5 DEF ToggleViewCmd
<1>6. CASE ComboViewCmd
  BY <1>3, <1>6 DEF ComboViewCmd
<1>7. CASE KeyReleaseEvent
  BY <1>1, <1>7, KeyReleaseType DEF KeyReleaseEvent, TypeOK
<1>8. CASE ComboTagCmd
  BY <1>3, <1>8 DEF ComboTagCmd
<1>9. CASE TagCmd
  BY <1>2, <1>9 DEF TagCmd
<1>10. CASE ToggleTagCmd
  BY <1>2, <1>10 DEF ToggleTagCmd
<1>11. CASE FocusStackCmd
  BY <1>1, <1>11, FocusStackType DEF FocusStackCmd, TypeOK
<1>12. CASE ZoomCmd
  BY <1>1, <1>12, ZoomType DEF ZoomCmd, TypeOK
<1>13. CASE PushDownCmd
  BY <1>1, <1>13, PushType DEF PushDownCmd, TypeOK
<1>14. CASE PushUpCmd
  BY <1>1, <1>14, PushType DEF PushUpCmd, TypeOK
<1>15. CASE PushLeftCmd
  BY <1>1, <1>15, PushLeftType DEF PushLeftCmd, TypeOK
<1>16. CASE IncNMasterCmd
  BY <1>1, <1>16, IncNMasterType DEF IncNMasterCmd, TypeOK
<1>17. CASE SetLayoutCmd
  BY <1>1, <1>17, SetLayoutType DEF SetLayoutCmd, TypeOK
<1>18. CASE ToggleFloatingCmd
  BY <1>1, <1>18, ToggleFloatingType DEF ToggleFloatingCmd, TypeOK
<1>19. CASE ToggleFullscrCmd
  BY <1>1, <1>19, ToggleFullscrType DEF ToggleFullscrCmd, TypeOK
<1>20. CASE FocusMonCmd
  BY <1>1, <1>20, FocusMonType DEF FocusMonCmd, TypeOK
<1>21. CASE TagMonCmd
  BY <1>1, <1>21, TagMonType DEF TagMonCmd, TypeOK
<1>22. Mons(wm) \subseteq Mon
  BY <1>1, StateFields, ConstantsAssumption DEF Mons, Mon
<1>23. CASE EnterNotifyEvent
  <2>1. ASSUME NEW c \in Managed(wm), wm' = EnterClient(wm, c)
        PROVE  TypeOK'
    <3>1. c \in Client /\ 1 \in Mon
      BY ManagedType, ConstantsAssumption DEF Mon
    <3> QED BY <1>1, <2>1, <3>1, EnterType DEF TypeOK
  <2>2. ASSUME NEW m \in Mons(wm), wm' = EnterRoot(wm, m)
        PROVE  TypeOK'
    BY <1>1, <1>22, <2>2, StateFields, SelectMonType, FocusType
       DEF EnterRoot, TypeOK, ClientOrNull
  <2> QED BY <1>23, <2>1, <2>2 DEF EnterNotifyEvent
<1>24. CASE MotionNotifyEvent
  BY <1>1, <1>22, <1>24, MotionNotifyType DEF MotionNotifyEvent, TypeOK
<1>25. CASE ButtonPressEvent
  BY <1>1, <1>25, ManagedType, ButtonPressType, ToggleFloatingType
     DEF ButtonPressEvent, TypeOK
<1>26. CASE ConfigureNotifyEvent
  <2>1. PICK n \in Mon : \E p \in 1 .. n : wm' = ConfigureNotify(wm, n, p)
    BY <1>26 DEF ConfigureNotifyEvent
  <2>2. 1 .. n \subseteq Mon
    BY ConstantsAssumption DEF Mon
  <2> QED BY <1>1, <2>1, <2>2, ConfigureNotifyType DEF TypeOK
<1>27. CASE MapRequestEvent
  <2>1. PICK c \in Client, kind \in Kinds, p \in ClientOrNull :
          wm' = Manage(wm, c, kind, p)
    BY <1>27, ManagedType DEF MapRequestEvent, ClientOrNull
  <2>2. kind \in Kind
    BY WindowManagerAssumption
  <2> QED BY <1>1, <2>1, <2>2, ManageType DEF TypeOK
<1>28. CASE UnmapOrDestroyEvent
  BY <1>1, <1>28, ManagedType, UnmanageType DEF UnmapOrDestroyEvent, TypeOK
<1>29. CASE FullscreenMessage
  BY <1>1, <1>29, ManagedType, SetFullscreenType DEF FullscreenMessage, TypeOK
<1>30. CASE ActiveWindowEvent
  BY <1>1, <1>30, ManagedType, ActiveWindowMessageType
     DEF ActiveWindowEvent, TypeOK
<1>31. CASE WindowTypeChange
  BY <1>1, <1>31, ManagedType, UpdateWindowTypeType
     DEF WindowTypeChange, TypeOK
<1>32. CASE WmHintsChange
  BY <1>1, <1>32, ManagedType, UpdateWmHintsType DEF WmHintsChange, TypeOK
<1>33. CASE TransientForChange
  BY <1>1, <1>33, ManagedType, TransientForType DEF TransientForChange, TypeOK
<1>34. CASE FocusInEvent
  <2>1. wm.focusin \subseteq Client
    BY <1>1 DEF State
  <2> QED BY <1>1, <1>34, <2>1, FocusInType DEF FocusInEvent, TypeOK
<1>35. CASE WindowGone \/ SizeHintsChange \/ TakeFocus \/ LateFocusInEvent
  BY <1>35, ClientEventsType
<1>36. CASE UNCHANGED wm
  BY <1>1, <1>36 DEF TypeOK
<1> QED BY <1>4, <1>5, <1>6, <1>7, <1>8, <1>9, <1>10, <1>11, <1>12, <1>13,
           <1>14, <1>15, <1>16, <1>17, <1>18, <1>19, <1>20, <1>21, <1>23,
           <1>24, <1>25, <1>26, <1>27, <1>28, <1>29, <1>30, <1>31, <1>32,
           <1>33, <1>34, <1>35, <1>36 DEF Next

\* In every behaviour of the window manager, whatever the windows, the number
\* of tags and the number of monitors, every command and handler gets and
\* leaves a well-typed state.
THEOREM TypeCorrect == Spec => []TypeOK
BY InitType, NextType, PTL DEF Spec

-----------------------------------------------------------------------------
(* The lists                                                               *)

\* The inductive invariant: the lists are in step until pushup() loses a
\* client.
ListsInv == TypeOK /\ (~wm.lost => ListInv(wm))

LEMMA InitLists == Init => ListsInv
<1> SUFFICES ASSUME NEW n \in Mon, NEW m \in 1 .. n, wm = InitialState(n, m)
             PROVE  ListInv(wm)
  BY InitType DEF Init, ListsInv
<1>1. wm \in State
  BY InitType DEF Init, TypeOK
<1>2. /\ wm.clients = [i \in Mon |-> << >>] /\ wm.stack = [i \in Mon |-> << >>]
      /\ wm.sel = [i \in Mon |-> NULL] /\ wm.selmon = m /\ wm.nmon = n
  BY DEF InitialState
<1>3. Linked(wm)
  BY <1>2, EmptyList DEF Linked
<1>4. Owned(wm)
  BY <1>2 DEF Owned
<1>5. Connected(wm)
  BY <1>2, EmptyList DEF Connected
<1> QED BY <1>1, <1>3, <1>4, <1>5 DEF ListInv

\* Nothing happens any more once pushup() has lost a client.
LEMMA NextNotLost == Next => ~wm.lost
BY DEF Next, On, ViewCmd, ToggleViewCmd, ComboViewCmd, KeyReleaseEvent,
       ComboTagCmd, TagCmd, ToggleTagCmd, FocusStackCmd, ZoomCmd, PushDownCmd,
       PushUpCmd, PushLeftCmd, IncNMasterCmd, SetLayoutCmd, ToggleFloatingCmd,
       ToggleFullscrCmd, FocusMonCmd, TagMonCmd, EnterNotifyEvent,
       MotionNotifyEvent, ButtonPressEvent, ConfigureNotifyEvent,
       MapRequestEvent, WindowGone, UnmapOrDestroyEvent, FullscreenMessage,
       ActiveWindowEvent, WindowTypeChange, WmHintsChange, SizeHintsChange,
       TransientForChange, TakeFocus, FocusInEvent, LateFocusInEvent

\* Every step that leaves the lists whole leaves them in step.
LEMMA NextLists == ListsInv /\ [Next]_wm => ListsInv'
<1> SUFFICES ASSUME ListsInv, [Next]_wm, ~(wm.lost)'
             PROVE  ListInv(wm)'
  BY NextType DEF ListsInv
<1>1. CASE UNCHANGED wm
  BY <1>1 DEF ListsInv
<1>2. CASE Next
  <2>1. ListInv(wm)
    BY <1>2, NextNotLost DEF ListsInv
  <2>2. wm \in State
    BY <2>1 DEF ListInv
  <2>3. \A c \in Managed(wm) : c \in Client /\ In(wm, c)
    BY <2>1, ManagedIn, ManagedType
  <2>4. \A m \in Mons(wm) : m \in Mon /\ m <= wm.nmon
    BY <2>2, StateFields, ConstantsAssumption DEF Mons, Mon
  <2>5. ASSUME NEW t, Reordered(wm, t), wm' = t
        PROVE  ListInv(wm)'
    BY <2>5 DEF Reordered
  <2>6. CASE ViewCmd \/ ToggleViewCmd
    BY <2>1, <2>5, <2>6, ViewInv DEF ViewCmd, ToggleViewCmd
  <2>7. CASE ComboViewCmd
    BY <2>1, <2>5, <2>7, ComboViewInv DEF ComboViewCmd
  <2>8. CASE KeyReleaseEvent
    <3>1. KeyRelease(wm) \in State
      BY <2>2, KeyReleaseType
    <3>2. SameLists(wm, KeyRelease(wm))
      BY <2>2 DEF SameLists, KeyRelease, State
    <3> QED BY <2>1, <2>5, <2>8, <3>1, <3>2, ReorderedSame DEF KeyReleaseEvent
  <2>9. CASE ComboTagCmd \/ TagCmd \/ ToggleTagCmd
    <3>1. \A t \in Tag : {t} \in SUBSET Tag
      OBVIOUS
    <3> QED BY <2>1, <2>5, <2>9, <3>1, TagsInv
            DEF ComboTagCmd, TagCmd, ToggleTagCmd
  <2>10. CASE FocusStackCmd
    BY <2>1, <2>5, <2>10, FocusStackInv DEF FocusStackCmd
  <2>11. CASE ZoomCmd
    BY <2>1, <2>5, <2>11, ZoomInv DEF ZoomCmd
  <2>12. CASE PushDownCmd
    BY <2>1, <2>5, <2>12, PushDownInv DEF PushDownCmd
  <2>13. CASE PushUpCmd
    <3>1. wm' = PushUp(wm)
      BY <2>13 DEF PushUpCmd
    <3>2. ~PushUp(wm).lost
      BY <3>1
    <3>3. ListInv(PushUp(wm))
      BY <2>1, <3>2, PushUpInv DEF Reordered
    <3> QED BY <3>1, <3>3
  <2>14. CASE PushLeftCmd
    BY <2>1, <2>5, <2>14, PushLeftInv DEF PushLeftCmd
  <2>15. CASE IncNMasterCmd \/ SetLayoutCmd
    <3>1. \A i \in {1, -1} : i \in Int
      OBVIOUS
    <3>2. "toggle" \in Layout \cup {"toggle"} /\ 0 \in Int
      OBVIOUS
    <3> QED BY <2>1, <2>5, <2>15, <3>1, <3>2, LayoutInv
            DEF IncNMasterCmd, SetLayoutCmd
  <2>16. CASE ToggleFloatingCmd \/ ToggleFullscrCmd
    BY <2>1, <2>5, <2>16, ToggleInv DEF ToggleFloatingCmd, ToggleFullscrCmd
  <2>17. CASE FocusMonCmd
    BY <2>1, <2>5, <2>17, FocusMonInv DEF FocusMonCmd
  <2>18. CASE TagMonCmd
    BY <2>1, <2>18, TagMonInv DEF TagMonCmd
  <2>19. CASE EnterNotifyEvent
    <3>1. ASSUME NEW c \in Managed(wm), wm' = EnterClient(wm, c)
          PROVE  ListInv(wm)'
      <4>1. 1 \in Mon /\ 1 <= wm.nmon
        BY <2>2, StateFields, ConstantsAssumption DEF Mon
      <4> QED BY <2>1, <2>3, <2>5, <3>1, <4>1, EnterInv
    <3>2. ASSUME NEW m \in Mons(wm), wm' = EnterRoot(wm, m)
          PROVE  ListInv(wm)'
      BY <2>1, <2>4, <2>5, <3>2, PointerInv
    <3> QED BY <2>19, <3>1, <3>2 DEF EnterNotifyEvent
  <2>20. CASE MotionNotifyEvent
    BY <2>1, <2>4, <2>5, <2>20, PointerInv DEF MotionNotifyEvent
  <2>21. CASE ButtonPressEvent
    <3>1. PICK c \in Managed(wm) : \/ wm' = ButtonPress(wm, c)
                                   \/ wm' = ToggleFloating(ButtonPress(wm, c))
      BY <2>21 DEF ButtonPressEvent
    <3>2. 1 \in Mon /\ 1 <= wm.nmon
      BY <2>2, StateFields, ConstantsAssumption DEF Mon
    <3>3. Reordered(wm, ButtonPress(wm, c))
      BY <2>1, <2>3, <3>2, EnterInv
    <3>4. Reordered(wm, ToggleFloating(ButtonPress(wm, c)))
      <4>1. ListInv(ButtonPress(wm, c))
        BY <3>3 DEF Reordered
      <4> QED BY <3>3, <4>1, ToggleInv, ReorderedTwice
    <3> QED BY <2>5, <3>1, <3>3, <3>4
  <2>22. CASE ConfigureNotifyEvent
    BY <2>1, <2>22, ConfigureNotifyInv DEF ConfigureNotifyEvent
  <2>23. CASE MapRequestEvent
    <3>1. PICK c \in Client \ Managed(wm), kind \in Kinds,
               p \in {NULL} \cup Managed(wm) : wm' = Manage(wm, c, kind, p)
      BY <2>23 DEF MapRequestEvent
    <3>2. Out(wm, c) /\ kind \in Kind /\ (p = NULL \/ In(wm, p))
      BY <2>1, <2>3, ManagedIn, WindowManagerAssumption
    <3> QED BY <2>1, <3>1, <3>2, ManageInv
  <2>24. CASE UnmapOrDestroyEvent
    BY <2>1, <2>3, <2>24, UnmanageInv DEF UnmapOrDestroyEvent
  <2>25. CASE FullscreenMessage
    BY <2>1, <2>3, <2>5, <2>25, SetFullscreenInv DEF FullscreenMessage
  <2>26. ASSUME NEW c \in Client, NEW a \in BOOLEAN, NEW b \in BOOLEAN
         PROVE  /\ wm' = UpdateWindowType(wm, c, a, b) => ListInv(wm)'
                /\ wm' = UpdateWmHints(wm, c, a, b) => ListInv(wm)'
                /\ wm' = ActiveWindowMessage(wm, c) => ListInv(wm)'
                /\ wm' = TransientFor(wm, c, a) => ListInv(wm)'
                /\ wm' = FocusIn(wm, c) => ListInv(wm)'
                /\ wm' = [wm EXCEPT !.isfixed[c] = a] => ListInv(wm)'
    BY <2>1, <2>5, PropertiesInv
  <2>27. CASE ActiveWindowEvent
    BY <2>3, <2>26, <2>27 DEF ActiveWindowEvent
  <2>28. CASE WindowTypeChange
    BY <2>3, <2>26, <2>28 DEF WindowTypeChange
  <2>29. CASE WmHintsChange
    BY <2>3, <2>26, <2>29 DEF WmHintsChange
  <2>30. CASE SizeHintsChange
    BY <2>3, <2>26, <2>30 DEF SizeHintsChange
  <2>31. CASE TransientForChange
    BY <2>3, <2>26, <2>31 DEF TransientForChange
  <2>32. CASE FocusInEvent
    <3>1. wm.focusin \subseteq Client
      BY <2>2 DEF State
    <3> QED BY <2>26, <2>32, <3>1 DEF FocusInEvent
  <2>33. wm' \in State
    BY <1>2, <2>1, NextType DEF ListInv, TypeOK
  <2>34. CASE WindowGone \/ TakeFocus
    <3>1. {"clients", "stack", "sel", "selmon", "nmon", "lost", "mon"}
            \subseteq DOMAIN wm
      BY <2>2, StateDomain
    <3>2. SameLists(wm, wm')
      BY <2>34, <3>1, ZenonT(60) DEF WindowGone, TakeFocus, SameLists
    <3> QED BY <2>1, <2>33, <3>2, SameListsInv
  <2>35. CASE LateFocusInEvent
    <3>1. PICK c \in Managed(wm) :
            wm' = [FocusIn(wm, c) EXCEPT !.focusin = wm.focusin]
      BY <2>35 DEF LateFocusInEvent
    <3>2. ListInv(FocusIn(wm, c))
      BY <2>1, <2>3, PropertiesInv DEF Reordered
    <3>3. SameLists(FocusIn(wm, c), wm')
      <4> DEFINE f == FocusIn(wm, c)
      <4>1. f \in State
        BY <3>2 DEF ListInv
      <4> HIDE DEF f
      <4> QED BY <3>1, <4>1 DEF SameLists, State, f
    <3> QED BY <2>33, <3>2, <3>3, SameListsInv
  <2> QED BY <1>2, <2>6, <2>7, <2>8, <2>9, <2>10, <2>11, <2>12, <2>13, <2>14,
             <2>15, <2>16, <2>17, <2>18, <2>19, <2>20, <2>21, <2>22, <2>23,
             <2>24, <2>25, <2>27, <2>28, <2>29, <2>30, <2>31, <2>32, <2>34,
             <2>35 DEF Next
<1> QED BY <1>1, <1>2

LEMMA ListsInvImplies == ListsInv => ListsAgree /\ SelOwned
<1> SUFFICES ASSUME ListInv(wm)
             PROVE  ListsAgree /\ SelOwned
  BY DEF ListsInv, ListsAgree, SelOwned
<1>1. ASSUME NEW m \in Mon
      PROVE  /\ IsInjective(wm.clients[m]) /\ IsInjective(wm.stack[m])
             /\ ToSet(wm.clients[m]) = ToSet(wm.stack[m])
             /\ \A c \in ToSet(wm.stack[m]) : wm.mon[c] = m /\ m \in Mons(wm)
  <2>1. /\ List(wm.clients[m]) /\ List(wm.stack[m])
        /\ ToSet(wm.clients[m]) = ToSet(wm.stack[m])
    BY DEF ListInv, Linked
  <2>2. \A c \in ToSet(wm.clients[m]) : wm.mon[c] = m /\ m <= wm.nmon
    BY InOfMonitor
  <2>3. m <= wm.nmon => m \in Mons(wm)
    <3>1. wm.nmon \in Mon
      BY DEF ListInv, State
    <3> QED BY <3>1, ConstantsAssumption DEF Mons, Mon
  <2> QED BY <2>1, <2>2, <2>3, ListInjective
<1>2. ListsAgree
  BY <1>1 DEF ListsAgree
<1>3. SelOwned
  BY DEF SelOwned, ListInv, Owned
<1> QED BY <1>2, <1>3

\* attach(), attachBelow(), detach(), attachstack() and detachstack(), as all
\* commands and events use them, keep the two lists of every monitor in step,
\* for any number of windows, tags and monitors.
THEOREM ListsStayInStep == Spec => []ListsAgree
<1>1. ListsInv => ListsAgree
  BY ListsInvImplies
<1> QED BY <1>1, InitLists, NextLists, PTL DEF Spec

\* No sel pointer of a monitor is ever left dangling by detachstack(), focus(),
\* manage(), unmanage() or updategeom().
THEOREM SelNeverDangles == Spec => []SelOwned
<1>1. ListsInv => SelOwned
  BY ListsInvImplies
<1> QED BY <1>1, InitLists, NextLists, PTL DEF Spec

-----------------------------------------------------------------------------
(* Clients and views                                                       *)

\* The inductive invariant: all is in order, or pushup() has lost a client
\* and nothing more happens.
ClientsInv == Ended(wm) /\ (~wm.lost => Good(wm))

\* What a step does to a state in order.
StepsTo(s, t) == Orderly(s, t) \/ (t.lost /\ Ended(t) /\ SameTags(s, t))

LEMMA InitClients == Init => ClientsInv
<1> SUFFICES ASSUME NEW n \in Mon, NEW m \in 1 .. n, wm = InitialState(n, m)
             PROVE  ClientsInv
  BY DEF Init
<1>1. wm \in State
  BY InitType DEF Init, TypeOK
<1>2. /\ wm.clients = [i \in Mon |-> << >>] /\ wm.stack = [i \in Mon |-> << >>]
      /\ wm.sel = [i \in Mon |-> NULL] /\ ~wm.lost
      /\ wm.tagset = [i \in Mon |-> [k \in Slot |-> {0}]]
      /\ wm.isfullscreen = [c \in Client |-> FALSE]
  BY DEF InitialState
<1>3. ListInv(wm)
  BY <1>2, InitLists DEF Init, ListsInv
<1>4. \A c : ~In(wm, c)
  <2>1. \A c \in Client : wm.mon[c] \in Mon
    BY <1>1 DEF State
  <2> QED BY <1>2, <2>1, EmptyList DEF In
<1>5. Proper(wm)
  BY <1>2, <1>4 DEF Proper
<1>6. Settled(wm)
  <2>1. wm.selmon \in Mon
    BY <1>1, StateFields
  <2>2. wm.sel[wm.selmon] = NULL /\ wm.stack[wm.selmon] = << >>
    BY <1>2, <2>1
  <2>3. FirstVisible(wm, << >>) = NULL
    <3>1. << >> \in Seq(Client) /\ ToSet(<< >>) = {}
      BY EmptyList, EmptySeq
    <3> QED BY <3>1, FirstVisibleType
  <2> QED BY <1>1, <2>2, <2>3 DEF Settled
<1>7. Good(wm)
  BY <1>3, <1>4, <1>5, <1>6 DEF Good, Whole
<1> QED BY <1>7, GoodEnds DEF ClientsInv

\* Each command and each event leaves everything in order.
LEMMA NextOrderly == ClientsInv /\ Next => StepsTo(wm, wm')
<1> SUFFICES ASSUME ClientsInv, Next
             PROVE  StepsTo(wm, wm')
  OBVIOUS
<1>1. ~wm.lost /\ Good(wm)
  BY NextNotLost DEF ClientsInv
<1>2. wm \in State /\ ListInv(wm)
  BY <1>1, GoodFacts
<1>3. \A c \in Managed(wm) : c \in Client /\ In(wm, c)
  BY <1>2, ManagedIn, ManagedType
<1>4. \A m \in Mons(wm) : m \in Mon /\ m <= wm.nmon
  BY <1>2, StateFields, ConstantsAssumption DEF Mons, Mon
<1>5. ASSUME NEW t, wm' = t, Steady(wm, t) \/ Calm(wm, t) \/ Orderly(wm, t)
      PROVE  StepsTo(wm, wm')
  BY <1>1, <1>5, CalmSteady, SteadyOrderly DEF StepsTo
<1>6. CASE ViewCmd \/ ToggleViewCmd
  BY <1>1, <1>5, <1>6, ViewSteady DEF ViewCmd, ToggleViewCmd
<1>7. CASE ComboViewCmd
  BY <1>1, <1>5, <1>7, ComboViewSteady DEF ComboViewCmd
<1>8. CASE KeyReleaseEvent
  BY <1>1, <1>5, <1>8, KeyReleaseCalm DEF KeyReleaseEvent
<1>9. CASE ComboTagCmd \/ TagCmd \/ ToggleTagCmd
  <2>1. \A t \in Tag : {t} \in SUBSET Tag
    OBVIOUS
  <2> QED BY <1>1, <1>5, <1>9, <2>1, TagsSteady
          DEF ComboTagCmd, TagCmd, ToggleTagCmd
<1>10. CASE FocusStackCmd
  BY <1>1, <1>5, <1>10, FocusStackCalm DEF FocusStackCmd
<1>11. CASE ZoomCmd
  BY <1>1, <1>5, <1>11, ZoomCalm DEF ZoomCmd
<1>12. CASE PushDownCmd
  BY <1>1, <1>5, <1>12, PushDownCalm DEF PushDownCmd
<1>13. CASE PushUpCmd
  <2>1. wm' = PushUp(wm)
    BY <1>13 DEF PushUpCmd
  <2>2. ~PushUp(wm).lost => Calm(wm, PushUp(wm))
    BY <1>1, PushUpEnds
  <2>3. PushUp(wm).lost => Ended(PushUp(wm)) /\ SameTags(wm, PushUp(wm))
    BY <1>1, PushUpEnds
  <2> QED BY <1>5, <2>1, <2>2, <2>3 DEF StepsTo
<1>14. CASE PushLeftCmd
  BY <1>1, <1>5, <1>14, PushLeftCalm DEF PushLeftCmd
<1>15. CASE IncNMasterCmd \/ SetLayoutCmd
  <2>1. (\A i \in {1, -1} : i \in Int) /\ 0 \in Int
    OBVIOUS
  <2>2. "toggle" \in Layout \cup {"toggle"}
    OBVIOUS
  <2> QED BY <1>1, <1>5, <1>15, <2>1, <2>2, LayoutCalm
          DEF IncNMasterCmd, SetLayoutCmd
<1>16. CASE ToggleFloatingCmd \/ ToggleFullscrCmd
  BY <1>1, <1>5, <1>16, ToggleCalm DEF ToggleFloatingCmd, ToggleFullscrCmd
<1>17. CASE FocusMonCmd
  BY <1>1, <1>5, <1>17, FocusMonCalm DEF FocusMonCmd
<1>18. CASE TagMonCmd
  BY <1>1, <1>5, <1>18, TagMonOrderly DEF TagMonCmd
<1>19. CASE EnterNotifyEvent
  <2>1. ASSUME NEW c \in Managed(wm), wm' = EnterClient(wm, c)
        PROVE  StepsTo(wm, wm')
    BY <1>1, <1>3, <1>5, <2>1, EnterCalm
  <2>2. ASSUME NEW m \in Mons(wm), wm' = EnterRoot(wm, m)
        PROVE  StepsTo(wm, wm')
    BY <1>1, <1>4, <1>5, <2>2, PointerCalm
  <2> QED BY <1>19, <2>1, <2>2 DEF EnterNotifyEvent
<1>20. CASE MotionNotifyEvent
  BY <1>1, <1>4, <1>5, <1>20, PointerCalm DEF MotionNotifyEvent
<1>21. CASE ButtonPressEvent
  <2>1. PICK c \in Managed(wm) : \/ wm' = ButtonPress(wm, c)
                                 \/ wm' = ToggleFloating(ButtonPress(wm, c))
    BY <1>21 DEF ButtonPressEvent
  <2>2. Calm(wm, ButtonPress(wm, c))
    BY <1>1, <1>3, EnterCalm
  <2>3. Calm(wm, ToggleFloating(ButtonPress(wm, c)))
    BY <2>2, ToggleCalm, CalmTwice DEF Calm
  <2> QED BY <1>5, <2>1, <2>2, <2>3
<1>22. CASE ConfigureNotifyEvent
  BY <1>1, <1>5, <1>22, ConfigureNotifyOrderly DEF ConfigureNotifyEvent
<1>23. CASE MapRequestEvent
  <2>1. PICK c \in Client \ Managed(wm), kind \in Kinds,
             p \in {NULL} \cup Managed(wm) : wm' = Manage(wm, c, kind, p)
    BY <1>23 DEF MapRequestEvent
  <2>2. Out(wm, c) /\ kind \in Kind /\ (p = NULL \/ In(wm, p))
    BY <1>2, <1>3, ManagedIn, WindowManagerAssumption
  <2> QED BY <1>1, <1>5, <2>1, <2>2, ManageOrderly
<1>24. CASE UnmapOrDestroyEvent
  BY <1>1, <1>3, <1>5, <1>24, UnmanageOrderly DEF UnmapOrDestroyEvent
<1>25. CASE FullscreenMessage
  BY <1>1, <1>3, <1>5, <1>25, SetFullscreenCalm DEF FullscreenMessage
<1>26. CASE ActiveWindowEvent
  <2>1. TRUE \in BOOLEAN
    OBVIOUS
  <2> QED BY <1>1, <1>3, <1>5, <1>26, <2>1, HintsCalm DEF ActiveWindowEvent
<1>27. CASE WindowTypeChange
  BY <1>1, <1>3, <1>5, <1>27, PropertiesCalm DEF WindowTypeChange
<1>28. CASE WmHintsChange
  BY <1>1, <1>3, <1>5, <1>28, HintsCalm DEF WmHintsChange
<1>29. CASE SizeHintsChange \/ TransientForChange
  BY <1>1, <1>3, <1>5, <1>29, PropertiesCalm
     DEF SizeHintsChange, TransientForChange
<1>30. wm' \in State
  BY <1>2, NextType DEF TypeOK
<1>31. CASE WindowGone \/ TakeFocus
  <2>1. {"clients", "stack", "sel", "selmon", "nmon", "lost", "mon", "tags",
         "tagset", "seltags", "isfloating", "isfullscreen", "oldstate",
         "shown", "isurgent"} \subseteq DOMAIN wm
    BY <1>2, StateDomain
  <2>2. /\ SameLists(wm, wm') /\ Untouched(wm, wm')
        /\ (wm').isurgent = wm.isurgent
    BY <1>31, <2>1, ZenonT(60)
       DEF WindowGone, TakeFocus, SameLists, Untouched
  <2> QED BY <1>1, <1>5, <1>30, <2>2, FieldsCalm
<1>32. CASE FocusInEvent
  <2>1. wm.focusin \subseteq Client
    BY <1>2 DEF State
  <2> QED BY <1>1, <1>5, <1>32, <2>1, FocusInCalm DEF FocusInEvent
<1>33. CASE LateFocusInEvent
  <2>1. PICK c \in Managed(wm) :
          wm' = [FocusIn(wm, c) EXCEPT !.focusin = wm.focusin]
    BY <1>33 DEF LateFocusInEvent
  <2> DEFINE f == FocusIn(wm, c)
  <2>2. Calm(wm, f)
    BY <1>1, <1>3, FocusInCalm
  <2>3. f \in State /\ Good(f)
    BY <2>2, GoodFacts DEF Calm
  <2> HIDE DEF f
  <2>4. SameLists(f, wm') /\ Untouched(f, wm') /\ (wm').isurgent = f.isurgent
    BY <2>1, <2>3 DEF SameLists, Untouched, State, f
  <2>5. Calm(wm, wm')
    BY <1>30, <2>2, <2>3, <2>4, FieldsCalm, CalmTwice
  <2> QED BY <1>5, <2>5
<1> QED BY <1>6, <1>7, <1>8, <1>9, <1>10, <1>11, <1>12, <1>13, <1>14, <1>15,
           <1>16, <1>17, <1>18, <1>19, <1>20, <1>21, <1>22, <1>23, <1>24,
           <1>25, <1>26, <1>27, <1>28, <1>29, <1>31, <1>32, <1>33 DEF Next

LEMMA NextClients == ClientsInv /\ [Next]_wm => ClientsInv'
<1> SUFFICES ASSUME ClientsInv, [Next]_wm
             PROVE  ClientsInv'
  OBVIOUS
<1>1. CASE UNCHANGED wm
  BY <1>1 DEF ClientsInv
<1>2. CASE Next
  <2>1. StepsTo(wm, wm')
    BY <1>2, NextOrderly
  <2>2. Ended(wm') /\ ((wm').lost \/ Good(wm'))
    BY <2>1, GoodEnds DEF StepsTo, Orderly
  <2> QED BY <2>2 DEF ClientsInv
<1> QED BY <1>1, <1>2

\* What ClientsInv says of the managed clients, in the words of WindowManager.
LEMMA ClientsInvImplies ==
  ClientsInv => /\ SelIsTopVisible /\ SelectedNotUrgent /\ FullscreenFloats
                /\ TagsNotEmpty /\ ScreenShowsView
<1> SUFFICES ASSUME ClientsInv
             PROVE  /\ SelIsTopVisible /\ SelectedNotUrgent /\ FullscreenFloats
                    /\ TagsNotEmpty /\ ScreenShowsView
  OBVIOUS
<1>1. Ended(wm) /\ wm \in State
  BY DEF ClientsInv, Ended, Settled
<1>2. SelIsTopVisible /\ SelectedNotUrgent
  BY <1>1 DEF SelIsTopVisible, SelectedNotUrgent, Ended, Settled
<1>3. FullscreenFloats
  BY <1>1 DEF FullscreenFloats, Managed, Ended
<1>4. TagsNotEmpty
  <2>1. \A m \in Mons(wm) : m \in Mon
    BY <1>1, StateFields, ConstantsAssumption DEF Mons, Mon
  <2>2. wm.clients \in [Mon -> Seq(Client)]
    BY <1>1 DEF State
  <2>3. \A m \in Mon : \A c : Contains(wm.clients[m], c) => c \in ToSet(wm.clients[m])
    BY <2>2, LenProperties DEF Contains, ToSet
  <2>4. \A c \in Managed(wm) : wm.tags[c] # {}
    BY <1>1, <2>1, <2>3 DEF Managed, Ended
  <2> QED BY <1>1, <2>4 DEF TagsNotEmpty, Ended
<1>5. ASSUME ~wm.lost, NEW c \in Managed(wm)
      PROVE  OnScreen(wm, c)
  <2>1. Good(wm) /\ ListInv(wm) /\ c \in Client
    BY <1>5, GoodFacts DEF ClientsInv, Managed
  <2> QED BY <2>1, ManagedIn DEF Good, Whole
<1>6. ScreenShowsView
  BY <1>5 DEF ScreenShowsView, OnScreen
<1> QED BY <1>2, <1>3, <1>4, <1>6

\* The selected client of the selected monitor is always the visible client
\* that was focused last: every command ends in focus(), or changes nothing
\* that decides which client that is.
THEOREM SelectionOnTop == Spec => []SelIsTopVisible
<1>1. ClientsInv => SelIsTopVisible
  BY ClientsInvImplies
<1> QED BY <1>1, InitClients, NextClients, PTL DEF Spec

\* The selected client is never marked urgent: focus() clears the mark, and
\* clientmessage() and updatewmhints() do not set it on the selected client.
THEOREM SelectionNotUrgent == Spec => []SelectedNotUrgent
<1>1. ClientsInv => SelectedNotUrgent
  BY ClientsInvImplies
<1> QED BY <1>1, InitClients, NextClients, PTL DEF Spec

\* No sequence of setfullscreen(), togglefloating(), updatewindowtype() and
\* manage() leaves a fullscreen client to the layouts.
THEOREM FullscreenStaysFloating == Spec => []FullscreenFloats
<1>1. ClientsInv => FullscreenFloats
  BY ClientsInvImplies
<1> QED BY <1>1, InitClients, NextClients, PTL DEF Spec

\* Neither a view nor a managed client is ever left without tags, whatever
\* view(), toggleview(), tag(), toggletag(), sendmon() and manage() do.
THEOREM TagsStayNonempty == Spec => []TagsNotEmpty
<1>1. ClientsInv => TagsNotEmpty
  BY ClientsInvImplies
<1> QED BY <1>1, InitClients, NextClients, PTL DEF Spec

\* Between two events the windows on the screen are those in view: every
\* handler that changes what is visible on a monitor arranges that monitor.
THEOREM ScreenMatchesView == Spec => []ScreenShowsView
<1>1. ClientsInv => ScreenShowsView
  BY ClientsInvImplies
<1> QED BY <1>1, InitClients, NextClients, PTL DEF Spec

\* What a step does to clients and monitors, in the words of WindowManager.
LEMMA StepKeepsClients ==
  ASSUME ClientsInv, Next
  PROVE  /\ \A c \in Managed(wm) :
              wm.gone[c] \/ (wm').lost \/ c \in Managed(wm')
         /\ \A c \in Managed(wm) \cap Managed(wm') :
              (wm').tags[c] # wm.tags[c] =>
                /\ c = SelOf(wm)
                /\ (wm').mon[c] # wm.mon[c] =>
                     (wm').tags[c] = ViewOf(wm', (wm').mon[c])
         /\ \A m \in Mons(wm) \cap Mons(wm') :
              ViewOf(wm', m) # ViewOf(wm, m) => m = wm.selmon
<1>1. StepsTo(wm, wm')
  BY NextOrderly
<1>2. CASE (wm').lost /\ Ended(wm') /\ SameTags(wm, wm')
  BY <1>2 DEF SameTags, ViewOf
<1>3. CASE Orderly(wm, wm')
  <2>1. ListInv(wm') /\ wm' \in State
    BY <1>3, GoodFacts DEF Orderly
  <2>2. ListInv(wm) /\ wm \in State
    BY NextNotLost, GoodFacts DEF ClientsInv
  <2>3. \A c \in Client : /\ c \in Managed(wm) <=> In(wm, c)
                          /\ c \in Managed(wm') <=> In(wm', c)
    <3>1. ASSUME NEW s, ListInv(s), NEW c \in Client, In(s, c)
          PROVE  c \in Managed(s)
      <4>1. s.mon[c] \in Mon
        BY <3>1 DEF ListInv, State
      <4> QED BY <3>1, <4>1, ManagedIn DEF In, Out
    <3> QED BY <2>1, <2>2, <3>1, ManagedIn
  <2>4. Managed(wm) \subseteq Client
    BY DEF Managed
  <2>5. /\ \A m \in Mons(wm) : m \in Mon /\ m <= wm.nmon
        /\ \A m \in Mons(wm') : m <= (wm').nmon
    BY <2>1, <2>2, StateFields, ConstantsAssumption DEF Mons, Mon
  <2>6. Undisturbed(wm, wm') /\ \A c : In(wm, c) => wm.gone[c] \/ In(wm', c)
    BY <1>3 DEF Orderly
  <2> HIDE DEF Undisturbed
  <2>7. \A c \in Managed(wm) : wm.gone[c] \/ c \in Managed(wm')
    BY <2>3, <2>4, <2>6
  <2>8. \A c \in Managed(wm) \cap Managed(wm') : In(wm, c) /\ In(wm', c)
    BY <2>3, <2>4
  <2> QED BY <2>5, <2>6, <2>7, <2>8 DEF Undisturbed
<1> QED BY <1>1, <1>2, <1>3 DEF StepsTo

\* dwm forgets a client only when its window is gone, or when pushup() loses
\* it: not in sendmon(), in updategeom() or when it relinks the lists.
THEOREM ClientsNeverForgotten == Spec => ClientsKept
<1>1. ClientsInv /\ [Next]_wm =>
        [\A c \in Managed(wm) :
           wm.gone[c] \/ (wm').lost \/ c \in Managed(wm')]_wm
  BY StepKeepsClients
<1> QED BY <1>1, InitClients, NextClients, PTL DEF Spec, ClientsKept

\* No step gives other tags to a client that is not selected or another view
\* to a monitor that is not selected; updategeom() keeps all tags.
THEOREM OnlySelectionChanges == Spec => OthersUndisturbed
<1>1. ClientsInv /\ [Next]_wm =>
        [/\ \A c \in Managed(wm) \cap Managed(wm') :
              (wm').tags[c] # wm.tags[c] =>
                /\ c = SelOf(wm)
                /\ (wm').mon[c] # wm.mon[c] =>
                     (wm').tags[c] = ViewOf(wm', (wm').mon[c])
         /\ \A m \in Mons(wm) \cap Mons(wm') :
              ViewOf(wm', m) # ViewOf(wm, m) => m = wm.selmon]_wm
  BY StepKeepsClients
<1> QED BY <1>1, InitClients, NextClients, PTL DEF Spec, OthersUndisturbed

\* Every step but the two that the property names leaves the keyboard where the
\* selection is.
LEMMA NextKeyed ==
  TypeOK /\ Next /\ Keyed(wm) => Keyed(wm') \/ TakeFocus \/ WmHintsChange
<1> SUFFICES ASSUME TypeOK, Next, Keyed(wm), ~TakeFocus, ~WmHintsChange
             PROVE  Keyed(wm')
  OBVIOUS
<1>1. wm \in State /\ Managed(wm) \subseteq Client
  BY DEF TypeOK, Managed
<1>2. Mons(wm) \subseteq Mon /\ 1 \in Mon
  BY <1>1, StateFields, ConstantsAssumption DEF Mons, Mon
<1>3. CASE ViewCmd \/ ToggleViewCmd \/ ComboViewCmd
  BY <1>1, <1>3, ViewKeyed, ComboViewKeyed
     DEF ViewCmd, ToggleViewCmd, ComboViewCmd
<1>4. CASE ComboTagCmd \/ TagCmd \/ ToggleTagCmd
  <2>1. \A t \in Tag : {t} \in SUBSET Tag
    OBVIOUS
  <2> QED BY <1>1, <1>4, <2>1, TagsKeyed DEF ComboTagCmd, TagCmd, ToggleTagCmd
<1>5. CASE FocusStackCmd
  BY <1>1, <1>5, FocusStackKeyed DEF FocusStackCmd
<1>6. CASE ZoomCmd \/ PushDownCmd \/ PushUpCmd
  BY <1>1, <1>6, RelinkKeyed DEF ZoomCmd, PushDownCmd, PushUpCmd
<1>7. CASE PushLeftCmd
  BY <1>1, <1>7, PushLeftKeyed DEF PushLeftCmd
<1>8. CASE IncNMasterCmd \/ SetLayoutCmd
  <2>1. (\A i \in {1, -1} : i \in Int) /\ 0 \in Int
    OBVIOUS
  <2>2. "toggle" \in Layout \cup {"toggle"}
    OBVIOUS
  <2> QED BY <1>1, <1>8, <2>1, <2>2, LayoutKeyed DEF IncNMasterCmd, SetLayoutCmd
<1>9. CASE ToggleFloatingCmd \/ ToggleFullscrCmd
  BY <1>1, <1>9, ToggleKeyed DEF ToggleFloatingCmd, ToggleFullscrCmd
<1>10. CASE FocusMonCmd \/ TagMonCmd
  BY <1>1, <1>10, FocusMonKeyed, TagMonKeyed DEF FocusMonCmd, TagMonCmd
<1>11. CASE EnterNotifyEvent
  <2>1. ASSUME NEW c \in Managed(wm), wm' = EnterClient(wm, c)
        PROVE  Keyed(wm')
    BY <1>1, <1>2, <2>1, PointerKeyed
  <2>2. ASSUME NEW m \in Mons(wm), wm' = EnterRoot(wm, m)
        PROVE  Keyed(wm')
    BY <1>1, <1>2, <2>2, RootPointerKeyed
  <2> QED BY <1>11, <2>1, <2>2 DEF EnterNotifyEvent
<1>12. CASE MotionNotifyEvent
  <2>1. PICK m \in Mons(wm) : wm' = MotionNotify(wm, m)
    BY <1>12 DEF MotionNotifyEvent
  <2> QED BY <1>1, <1>2, <2>1, RootPointerKeyed
<1>13. CASE ButtonPressEvent
  <2>1. PICK c \in Managed(wm) : \/ wm' = ButtonPress(wm, c)
                                 \/ wm' = ToggleFloating(ButtonPress(wm, c))
    BY <1>13 DEF ButtonPressEvent
  <2>2. ButtonPress(wm, c) \in State /\ Keyed(ButtonPress(wm, c))
    BY <1>1, <1>2, ButtonPressType, PointerKeyed
  <2> QED BY <2>1, <2>2, ToggleKeyed
<1>14. CASE ConfigureNotifyEvent
  <2>1. PICK n \in Mon : \E p \in 1 .. n : wm' = ConfigureNotify(wm, n, p)
    BY <1>14 DEF ConfigureNotifyEvent
  <2>2. 1 .. n \subseteq Mon
    BY ConstantsAssumption DEF Mon
  <2> QED BY <1>1, <2>1, <2>2, ConfigureNotifyKeyed
<1>15. CASE MapRequestEvent
  <2>1. PICK c \in Client, kind \in Kinds, p \in ClientOrNull :
          wm' = Manage(wm, c, kind, p)
    BY <1>1, <1>15 DEF MapRequestEvent, ClientOrNull
  <2> QED BY <1>1, <2>1, ManageKeyed, WindowManagerAssumption
<1>16. CASE WindowGone
  <2>1. PICK c \in Client : wm' = [wm EXCEPT !.gone[c] = TRUE,
                                     !.xfocus = IF @ = c THEN NULL ELSE @]
    BY <1>16 DEF WindowGone
  <2> QED BY <1>1, <2>1, GoneKeyed
<1>17. CASE UnmapOrDestroyEvent
  BY <1>1, <1>17, UnmanageKeyed DEF UnmapOrDestroyEvent
<1>18. CASE FullscreenMessage
  BY <1>1, <1>18, SetFullscreenKeyed DEF FullscreenMessage
<1>19. CASE KeyReleaseEvent
  BY <1>1, <1>19, KeyReleaseKeyed DEF KeyReleaseEvent
<1>20. CASE ActiveWindowEvent
  <2>1. TRUE \in BOOLEAN
    OBVIOUS
  <2> QED BY <1>1, <1>20, <2>1, PropertiesKeyed DEF ActiveWindowEvent
<1>21. CASE WindowTypeChange \/ SizeHintsChange \/ TransientForChange
  <2>1. ASSUME NEW c \in Client, NEW a \in BOOLEAN, NEW b \in BOOLEAN
        PROVE  /\ wm' = UpdateWindowType(wm, c, a, b) => Keyed(wm')
               /\ wm' = TransientFor(wm, c, a) => Keyed(wm')
               /\ wm' = [wm EXCEPT !.isfixed[c] = a] => Keyed(wm')
    BY <1>1, PropertiesKeyed
  <2>2. CASE WindowTypeChange
    BY <1>1, <2>1, <2>2 DEF WindowTypeChange
  <2>3. CASE SizeHintsChange
    BY <1>1, <2>1, <2>3 DEF SizeHintsChange
  <2>4. CASE TransientForChange
    BY <1>1, <2>1, <2>4 DEF TransientForChange
  <2> QED BY <1>21, <2>2, <2>3, <2>4
<1>22. CASE FocusInEvent
  <2>1. wm.focusin \subseteq Client
    BY <1>1 DEF State
  <2> QED BY <1>1, <1>22, <2>1, FocusInKeyed DEF FocusInEvent
<1>23. CASE LateFocusInEvent
  <2>1. PICK c \in Managed(wm) :
          wm' = [FocusIn(wm, c) EXCEPT !.focusin = wm.focusin]
    BY <1>23 DEF LateFocusInEvent
  <2> DEFINE f == FocusIn(wm, c)
  <2>2. f \in State /\ Keyed(f)
    BY <1>1, FocusInType, FocusInKeyed
  <2> HIDE DEF f
  <2>3. SameKeys(f, wm')
    BY <2>1, <2>2 DEF SameKeys, State, f
  <2> QED BY <2>2, <2>3, SameKeysKeyed
<1> QED BY <1>3, <1>4, <1>5, <1>6, <1>7, <1>8, <1>9, <1>10, <1>11, <1>12,
           <1>13, <1>14, <1>15, <1>16, <1>17, <1>18, <1>19, <1>20, <1>21,
           <1>22, <1>23 DEF Next

\* No command and no event of the user, of another window or of the screen
\* parts the keyboard from the selection: only a client that takes the input
\* focus, or changes whether it wants it, does.
THEOREM KeyboardStaysWithSelection == Spec => KeyboardFollows
<1>1. TypeOK /\ [Next]_wm =>
        [KeyboardFollowsSelection =>
           KeyboardFollowsSelection' \/ TakeFocus \/ WmHintsChange]_wm
  BY NextKeyed DEF KeyboardFollowsSelection, Keyed, SelOf
<1> QED BY <1>1, InitType, NextType, PTL DEF Spec, KeyboardFollows

-----------------------------------------------------------------------------
(* The focus history                                                       *)

\* s and t hold the clients that t has on a monitor in the same order.
InStep(q, r) == \A a, b \in ToSet(r) : Before(q, a, b) => Before(r, a, b)

\* The clients that t has on a monitor are in the order that s has them in.
SameHistory(s, t) == \A m \in Mon : InStep(s.stack[m], t.stack[m])

\* The same but for the selected clients.
History(s, t) ==
  \A m \in Mon : \A a, b \in ToSet(t.stack[m]) \ {t.sel[m]} :
    Before(s.stack[m], a, b) => Before(t.stack[m], a, b)

\* Who leaves a history leaves the others in their order.
LEMMA RemoveFirstOrder ==
  ASSUME NEW q \in Seq(Client), NEW c, NEW a, NEW b, a # c, b # c,
         Before(q, a, b)
  PROVE  Before(RemoveFirst(q, c), a, b)
<1>1. RemoveFirst(q, c) = IF \E i \in 1 .. Len(q) : q[i] = c
                          THEN RemoveAt(q, IndexOf(q, c)) ELSE q
  BY DEF RemoveFirst, IndexOf
<1>2. CASE ~ \E i \in 1 .. Len(q) : q[i] = c
  BY <1>1, <1>2
<1>3. CASE \E i \in 1 .. Len(q) : q[i] = c
  <2> DEFINE k == IndexOf(q, c)
             r == RemoveAt(q, k)
  <2>1. k \in 1 .. Len(q) /\ q[k] = c
    <3>1. Contains(q, c)
      BY <1>3 DEF Contains
    <3> QED BY <3>1, IndexOfRange
  <2>2. r \in Seq(Client) /\ Len(r) = Len(q) - 1
    BY <2>1, RemoveAtType, RemoveAtElements
  <2>3. /\ \A j \in 1 .. k - 1 : r[j] = q[j]
        /\ \A j \in k .. Len(q) - 1 : r[j] = q[j + 1]
    BY <2>1, RemoveAtElements
  <2>4. Len(q) \in Nat /\ DOMAIN q = 1 .. Len(q) /\ DOMAIN r = 1 .. Len(r)
    BY <2>2, LenProperties
  <2>5. PICK i \in 1 .. Len(q), j \in 1 .. Len(q) :
          i < j /\ q[i] = a /\ q[j] = b
    BY <2>4 DEF Before
  <2> HIDE DEF k, r
  <2> DEFINE At1(x) == IF x < k THEN x ELSE x - 1
  <2>6. ASSUME NEW x \in 1 .. Len(q), x # k
        PROVE  At1(x) \in 1 .. Len(r) /\ r[At1(x)] = q[x]
    <3>1. CASE x < k
      <4>1. x \in 1 .. k - 1 /\ x \in 1 .. Len(r)
        BY <2>1, <2>2, <2>4, <2>6, <3>1
      <4> QED BY <2>3, <3>1, <4>1
    <3>2. CASE ~(x < k)
      <4>1. x - 1 \in k .. Len(q) - 1 /\ x - 1 \in 1 .. Len(r)
            /\ (x - 1) + 1 = x
        BY <2>1, <2>2, <2>4, <2>6, <3>2
      <4> QED BY <2>3, <3>2, <4>1
    <3> QED BY <3>1, <3>2
  <2>7. i # k /\ j # k
    BY <2>1, <2>5
  <2>8. At1(i) < At1(j)
    BY <2>1, <2>4, <2>5, <2>7
  <2>9. Before(r, a, b)
    BY <2>4, <2>5, <2>6, <2>7, <2>8 DEF Before
  <2> QED BY <1>1, <1>3, <2>9 DEF r, k
<1> QED BY <1>2, <1>3

\* Who comes in front of a history leaves the others in their order.
LEMMA PrefixOrder ==
  ASSUME NEW p \in Seq(Client), NEW q \in Seq(Client), NEW a, NEW b,
         Before(q, a, b)
  PROVE  Before(p \o q, a, b)
<1> DEFINE r == p \o q
<1>1. Len(p) \in Nat /\ Len(q) \in Nat /\ DOMAIN q = 1 .. Len(q)
  BY LenProperties
<1>2. /\ r \in Seq(Client) /\ Len(r) = Len(p) + Len(q)
      /\ \A k \in 1 .. Len(p) + Len(q) :
           r[k] = IF k <= Len(p) THEN p[k] ELSE q[k - Len(p)]
  BY ConcatProperties
<1> HIDE DEF r
<1>3. DOMAIN r = 1 .. Len(r)
  BY <1>2, LenProperties
<1>4. PICK i \in 1 .. Len(q), j \in 1 .. Len(q) : i < j /\ q[i] = a /\ q[j] = b
  BY <1>1 DEF Before
<1>5. ASSUME NEW x \in 1 .. Len(q)
      PROVE  x + Len(p) \in 1 .. Len(r) /\ r[x + Len(p)] = q[x]
  <2>1. x + Len(p) \in 1 .. Len(p) + Len(q) /\ ~(x + Len(p) <= Len(p))
        /\ (x + Len(p)) - Len(p) = x
    BY <1>1
  <2> QED BY <1>2, <2>1
<1>6. i + Len(p) < j + Len(p)
  BY <1>1, <1>4
<1> QED BY <1>3, <1>4, <1>5, <1>6 DEF Before, r

\* Who is in front is before everybody else.
LEMMA FrontFirst ==
  ASSUME NEW q \in Seq(Client), NEW c \in Client, NEW b \in ToSet(q)
  PROVE  Before(<<c>> \o q, c, b)
<1> DEFINE r == <<c>> \o q
<1>1. <<c>> \in Seq(Client) /\ Len(<<c>>) = 1 /\ <<c>>[1] = c
  OBVIOUS
<1>2. PICK x \in 1 .. Len(q) : q[x] = b
  BY LenProperties DEF ToSet
<1>3. Len(q) \in Nat
  BY LenProperties
<1>4. /\ r \in Seq(Client) /\ Len(r) = 1 + Len(q) /\ r[1] = c
      /\ \A k \in 1 .. 1 + Len(q) : r[k] = IF k <= 1 THEN <<c>>[k] ELSE q[k - 1]
  BY <1>1, <1>3, ConcatProperties
<1> HIDE DEF r
<1>5. DOMAIN r = 1 .. Len(r)
  BY <1>4, LenProperties
<1>6. x + 1 \in 1 .. Len(r) /\ ~(x + 1 <= 1) /\ (x + 1) - 1 = x /\ 1 < x + 1
      /\ 1 \in 1 .. Len(r)
  BY <1>3, <1>4
<1>7. r[x + 1] = b
  BY <1>2, <1>4, <1>6
<1> QED BY <1>4, <1>5, <1>6, <1>7 DEF Before, r

-----------------------------------------------------------------------------
(* What the shared helpers leave alone                                     *)

\* arrange() leaves the histories alone, too.
LEMMA ArrangeFrame ==
  ASSUME NEW s \in State, NEW m
  PROVE  SameFrame(s, Arrange(s, m)) /\ SameFrame(s, ArrangeAll(s))
<1> SUFFICES ASSUME NEW ms
             PROVE  SameFrame(s, ArrangeMon(ShowHide(s, ms), ms))
  BY DEF Arrange, ArrangeAll
<1>1. {"stack", "tagset", "seltags", "createtag", "nmon"} \subseteq DOMAIN s
  BY FrameFields
<1> QED BY <1>1, ZenonT(60) DEF SameFrame, SameCreates, ArrangeMon, ShowHide

\* focus() reorders a history, and that is all.
LEMMA FocusCreates ==
  ASSUME NEW s \in State, NEW want \in ClientOrNull
  PROVE  SameCreates(s, Focus(s, want))
<1> DEFINE c == Chosen(s, want)
           none == [s EXCEPT !.xfocus = NULL, !.sel[s.selmon] = NULL]
           u == [s EXCEPT !.selmon = s.mon[c], !.isurgent[c] = FALSE]
           d == DetachStack(u, c)
           a == AttachStack(d, c)
           v == SetFocus(a, c)
           t == [v EXCEPT !.sel[v.selmon] = c]
<1>1. Focus(s, want) = IF c = NULL THEN none ELSE t
  BY ZenonT(60) DEF Focus, Chosen
<1>2. c \in ClientOrNull
  <2>1. s.stack[s.selmon] \in Seq(Client)
    BY DEF State
  <2> QED BY <2>1, FirstVisibleType, ToSetOfSeq DEF Chosen, ClientOrNull
<1> HIDE DEF c
<1>3. SameCreates(s, none)
  BY FrameFields, ZenonT(60) DEF SameCreates
<1>4. ASSUME c # NULL
      PROVE  SameCreates(s, t)
  <2>1. c \in Client /\ s.mon[c] \in Mon
    BY <1>2, <1>4 DEF ClientOrNull, State
  <2>2. u \in State
    BY <2>1, ZenonT(60) DEF State
  <2>3. SameCreates(s, u)
    BY FrameFields, ZenonT(60) DEF SameCreates
  <2> HIDE DEF u
  <2>4. d \in State /\ SameCreates(u, d)
    BY <2>1, <2>2, DetachStackType, LinksFrame
  <2> HIDE DEF d
  <2>5. a \in State /\ SameCreates(d, a)
    BY <2>1, <2>4, AttachStackType, LinksFrame
  <2> HIDE DEF a
  <2>6. v \in State /\ SameCreates(a, v)
    BY <2>1, <2>5, SetFocusType, LinksFrame DEF SameFrame
  <2> HIDE DEF v
  <2>7. SameCreates(v, t)
    BY <2>6, FrameFields, ZenonT(60) DEF SameCreates
  <2> HIDE DEF t
  <2> QED BY <2>3, <2>4, <2>5, <2>6, <2>7 DEF SameCreates
<1> HIDE DEF none, t
<1> QED BY <1>1, <1>3, <1>4

-----------------------------------------------------------------------------
(* Focusing                                                                *)

\* The client that focus() selects comes to the front, the others of its
\* monitor stay in their order.
LEMMA FocusHistory ==
  ASSUME NEW s, NEW u \in State, SameHistory(s, u),
         \A i \in Mon : List(u.stack[i]), NEW want \in ClientOrNull
  PROVE  History(s, Focus(u, want))
<1> DEFINE c == Chosen(u, want)
           t == Focus(u, want)
<1>1. CASE c = NULL
  <2>1. t.stack = u.stack
    <3>1. t = [u EXCEPT !.xfocus = NULL, !.sel[u.selmon] = NULL]
      BY <1>1, ZenonT(60) DEF Focus, Chosen
    <3> QED BY <3>1, FrameFields
  <2> QED BY <2>1 DEF History, SameHistory, InStep
<1>2. CASE c # NULL
  <2>1. u.stack[u.selmon] \in Seq(Client)
    BY DEF State
  <2>2. c \in Client
    BY <1>2, <2>1, FirstVisibleType, ToSetOfSeq DEF Chosen, ClientOrNull
  <2> DEFINE m == u.mon[c]
  <2>3. /\ t.stack = [u.stack EXCEPT ![m] = <<c>> \o RemoveFirst(@, c)]
        /\ t.sel = [u.sel EXCEPT ![m] = c]
    BY <2>2, FocusFields
  <2>4. m \in Mon /\ u.stack \in [Mon -> Seq(Client)]
        /\ u.sel \in [Mon -> ClientOrNull]
    BY <2>2 DEF State
  <2> HIDE DEF c, t, m
  <2> DEFINE rest == RemoveFirst(u.stack[m], c)
  <2>5. List(rest) /\ ToSet(rest) = ToSet(u.stack[m]) \ {c}
    BY <2>4, RemoveFirstList
  <2>6. t.stack[m] = <<c>> \o rest /\ t.sel[m] = c
    BY <2>3, <2>4
  <2>7. ToSet(t.stack[m]) = ToSet(rest) \cup {c}
    BY <2>2, <2>5, <2>6, ConsList
  <2>8. ASSUME NEW a \in ToSet(t.stack[m]) \ {c},
               NEW b \in ToSet(t.stack[m]) \ {c}, Before(s.stack[m], a, b)
        PROVE  Before(t.stack[m], a, b)
    <3>1. Before(u.stack[m], a, b)
      BY <2>4, <2>5, <2>7, <2>8 DEF SameHistory, InStep
    <3>2. Before(rest, a, b)
      BY <2>4, <2>8, <3>1, RemoveFirstOrder
    <3>3. rest \in Seq(Client) /\ <<c>> \in Seq(Client)
      BY <2>2, <2>5 DEF List
    <3> HIDE DEF rest
    <3> QED BY <2>6, <3>2, <3>3, PrefixOrder
  <2>9. \A i \in Mon \ {m} : t.stack[i] = u.stack[i]
    BY <2>3, <2>4
  <2>10. \A i \in Mon \ {m} :
           \A a, b \in ToSet(t.stack[i]) :
             Before(s.stack[i], a, b) => Before(t.stack[i], a, b)
    BY <2>9 DEF SameHistory, InStep
  <2>11. \A i \in Mon : \A a, b \in ToSet(t.stack[i]) \ {t.sel[i]} :
           Before(s.stack[i], a, b) => Before(t.stack[i], a, b)
    BY <2>6, <2>8, <2>10
  <2> QED BY <2>11 DEF History, t
<1> QED BY <1>1, <1>2

LEMMA SameStackHistory ==
  ASSUME NEW s, NEW t, t.stack = s.stack
  PROVE  SameHistory(s, t) /\ History(s, t)
BY DEF SameHistory, History, InStep

\* What arrange() adds to a step makes no difference.
LEMMA ArrangeHistory ==
  ASSUME NEW s, NEW t \in State, History(s, t), NEW m
  PROVE  History(s, Arrange(t, m)) /\ History(s, ArrangeAll(t))
<1> SUFFICES ASSUME NEW ms
             PROVE  History(s, ArrangeMon(ShowHide(t, ms), ms))
  BY DEF Arrange, ArrangeAll
<1>1. /\ ArrangeMon(ShowHide(t, ms), ms).stack = t.stack
      /\ ArrangeMon(ShowHide(t, ms), ms).sel = t.sel
  BY ArrangeFields
<1> QED BY <1>1 DEF History

-----------------------------------------------------------------------------
(* Steps that focus once                                                   *)

\* What most handlers do: fields are written that decide nothing about views
\* or histories, a client may be focused, and its monitor may be arranged.
OneFocus(s, t) ==
  \/ SameFrame(s, t)
  \/ \E u \in State, w \in ClientOrNull :
       SameFrame(s, u) /\ SameFrame(Focus(u, w), t) /\ t.sel = Focus(u, w).sel

\* All histories are lists.
Stacked(s) == s \in State /\ \A m \in Mon : List(s.stack[m])

LEMMA OneFocusKeeps ==
  ASSUME NEW s, Stacked(s), NEW t, OneFocus(s, t)
  PROVE  SameCreates(s, t) /\ History(s, t)
<1>1. CASE SameFrame(s, t)
  BY <1>1, SameStackHistory DEF SameFrame
<1>2. ASSUME NEW u \in State, NEW w \in ClientOrNull, SameFrame(s, u),
             SameFrame(Focus(u, w), t), t.sel = Focus(u, w).sel
      PROVE  SameCreates(s, t) /\ History(s, t)
  <2> DEFINE f == Focus(u, w)
  <2>1. SameHistory(s, u) /\ \A i \in Mon : List(u.stack[i])
    BY <1>2, SameStackHistory DEF SameFrame, Stacked
  <2>2. History(s, f) /\ SameCreates(u, f)
    BY <2>1, FocusHistory, FocusCreates
  <2> HIDE DEF f
  <2>3. t.stack = f.stack /\ SameCreates(f, t) /\ t.sel = f.sel
    BY <1>2 DEF SameFrame, f
  <2>4. SameCreates(s, t)
    BY <1>2, <2>2, <2>3 DEF SameFrame, SameCreates
  <2> QED BY <2>2, <2>3, <2>4 DEF History
<1> QED BY <1>1, <1>2 DEF OneFocus

\* Two ways to make such a step.
LEMMA FocusStep ==
  ASSUME NEW s, NEW u \in State, SameFrame(s, u), NEW w \in ClientOrNull
  PROVE  OneFocus(s, Focus(u, w)) /\ \A m : OneFocus(s, Arrange(Focus(u, w), m))
<1> DEFINE f == Focus(u, w)
<1>1. f \in State
  BY FocusType
<1>2. OneFocus(s, f)
  BY SameFrameSelf DEF OneFocus
<1>3. ASSUME NEW m
      PROVE  OneFocus(s, Arrange(f, m))
  <2>1. SameFrame(f, Arrange(f, m)) /\ Arrange(f, m).sel = f.sel
    <3> HIDE DEF f
    <3> QED BY <1>1, ArrangeFrame, ArrangeFields DEF Arrange
  <2> QED BY <2>1 DEF OneFocus
<1> QED BY <1>2, <1>3

LEMMA FieldsStep ==
  ASSUME NEW s, NEW u \in State, SameFrame(s, u)
  PROVE  OneFocus(s, u) /\ \A m : OneFocus(s, Arrange(u, m))
BY ArrangeFrame, SameFrameTwice DEF OneFocus

LEMMA RefreshStep ==
  ASSUME NEW s, NEW u \in State, SameFrame(s, u)
  PROVE  OneFocus(s, Refresh(u))
<1>1. NULL \in ClientOrNull
  BY DEF ClientOrNull
<1> QED BY <1>1, FocusStep DEF Refresh

LEMMA PopStep ==
  ASSUME NEW s, NEW u \in State, SameFrame(s, u), NEW c \in Client
  PROVE  OneFocus(s, Pop(u, c))
<1> DEFINE v == Attach(Detach(u, c), c)
<1>1. v \in State /\ SameFrame(s, v)
  BY DetachType, AttachType, LinksFrame, SameFrameTwice
<1>2. c \in ClientOrNull
  BY DEF ClientOrNull
<1> HIDE DEF v
<1>3. \A m : OneFocus(s, Arrange(Focus(v, c), m))
  BY <1>1, <1>2, FocusStep
<1> QED BY <1>3 DEF Pop, v

LEMMA TagsStep ==
  ASSUME NEW s \in State, NEW ui \in SUBSET Tag
  PROVE  /\ OneFocus(s, ComboTag(s, ui)) /\ OneFocus(s, TagSel(s, ui))
         /\ OneFocus(s, ToggleTag(s, ui))
<1> DEFINE c == s.sel[s.selmon]
           new == IF s.combo THEN s.tags[c] \cup ui ELSE ui
           diff == SymDiff(s.tags[c], ui)
<1>1. ASSUME c # NULL
      PROVE  c \in Client /\ new \in SUBSET Tag /\ diff \in SUBSET Tag
  BY <1>1, StateFields, SymDiffType DEF ClientOrNull
<1> HIDE DEF c, new, diff
<1>2. ASSUME c # NULL
      PROVE  /\ [s EXCEPT !.combo = TRUE, !.tags[c] = new] \in State
             /\ [s EXCEPT !.tags[c] = ui] \in State
             /\ [s EXCEPT !.tags[c] = diff] \in State
  BY <1>1, <1>2, SetComboTagsType, SetTagsType
<1>3. /\ SameFrame(s, [s EXCEPT !.combo = TRUE, !.tags[c] = new])
      /\ \A x : SameFrame(s, [s EXCEPT !.tags[c] = x])
  BY FrameFields, ZenonT(60) DEF SameFrame, SameCreates
<1>4. OneFocus(s, s)
  BY SameFrameSelf DEF OneFocus
<1>5. OneFocus(s, ComboTag(s, ui))
  BY <1>2, <1>3, <1>4, RefreshStep DEF ComboTag, c, new
<1>6. OneFocus(s, TagSel(s, ui))
  BY <1>2, <1>3, <1>4, RefreshStep DEF TagSel, c
<1>7. OneFocus(s, ToggleTag(s, ui))
  BY <1>2, <1>3, <1>4, RefreshStep DEF ToggleTag, c, diff
<1> QED BY <1>5, <1>6, <1>7

LEMMA RelinksStep ==
  ASSUME NEW s \in State, NEW dir
  PROVE  /\ OneFocus(s, FocusStack(s, dir)) /\ OneFocus(s, Zoom(s))
         /\ OneFocus(s, PushDown(s)) /\ OneFocus(s, PushUp(s))
<1>1. \A i \in 1 .. Len(s.clients[s.selmon]) :
        s.clients[s.selmon][i] \in ClientOrNull
  BY StateFields DEF ClientOrNull
<1>2. SameFrame(s, s) /\ OneFocus(s, s)
  BY SameFrameSelf DEF OneFocus
<1>3. OneFocus(s, FocusStack(s, dir))
  BY <1>1, <1>2, FocusStackStep, FocusStep
<1>4. OneFocus(s, Zoom(s))
  BY <1>2, ZoomStep, PopStep
<1>5. ASSUME NEW t, RelinkStep(s, t)
      PROVE  OneFocus(s, t)
  BY <1>2, <1>5, FocusStep DEF RelinkStep, ClientOrNull
<1> QED BY <1>3, <1>4, <1>5, PushDownStep, PushUpStep

LEMMA PushLeftStep ==
  ASSUME NEW s \in State
  PROVE  OneFocus(s, PushLeft(s))
<1> DEFINE c == s.sel[s.selmon]
           left == ~s.isLeft[c]
           t == [s EXCEPT !.isLeft[c] = left]
<1>1. c \in ClientOrNull /\ left \in BOOLEAN
  BY StateFields
<1> HIDE DEF c, left
<1>2. c # NULL => t \in State
  BY <1>1, SetIsLeftType DEF ClientOrNull
<1>3. SameFrame(s, t)
  BY FrameFields, ZenonT(60) DEF SameFrame, SameCreates
<1> HIDE DEF t
<1>4. \A m : OneFocus(s, Arrange(s, m))
  BY SameFrameSelf, FieldsStep
<1>5. c # NULL => \A m : OneFocus(s, Arrange(Focus(t, c), m))
  BY <1>1, <1>2, <1>3, FocusStep
<1> QED BY <1>4, <1>5 DEF PushLeft, c, t, left

LEMMA LayoutStep ==
  ASSUME NEW s \in State, NEW i \in Int, NEW layout \in Layout \cup {"toggle"}
  PROVE  OneFocus(s, IncNMaster(s, i)) /\ OneFocus(s, SetLayout(s, layout))
<1> DEFINE n == s.nmaster[s.selmon] + i
           new == IF n > 0 THEN n ELSE 0
           masters == [s EXCEPT !.nmaster[s.selmon] = new]
           m == s.selmon
           flip == layout = "toggle" \/ layout # s.lt[m][s.sellt[m]]
           k == IF flip THEN 1 - s.sellt[m] ELSE s.sellt[m]
           lt == IF layout = "toggle" THEN s.lt[m][k] ELSE layout
           t == [s EXCEPT !.sellt[m] = k, !.lt[m][k] = lt]
<1>1. m \in Mon /\ k \in Slot
  BY DEF State, Slot
<1>2. new \in Nat
  BY DEF State
<1>3. lt \in Layout
  <2> HIDE DEF m, k
  <2> QED BY <1>1 DEF State
<1> HIDE DEF k, lt, new
<1>4. masters \in State /\ t \in State
  BY <1>1, <1>2, <1>3, SetNMasterType, SetLtType
<1>5. SameFrame(s, masters) /\ SameFrame(s, t)
  BY FrameFields, ZenonT(60) DEF SameFrame, SameCreates
<1> HIDE DEF masters, t
<1>6. /\ OneFocus(s, Arrange(masters, m))
      /\ OneFocus(s, t) /\ OneFocus(s, Arrange(t, m))
  BY <1>4, <1>5, FieldsStep
<1>7. OneFocus(s, IncNMaster(s, i))
  BY <1>6 DEF IncNMaster, masters, new
<1>8. OneFocus(s, SetLayout(s, layout))
  BY <1>6 DEF SetLayout, t, k, lt
<1> QED BY <1>7, <1>8

\* Floating, fullscreen and the other properties of a client.
LEMMA SetFloatingFrame ==
  ASSUME NEW s \in State, NEW c \in Client, NEW float \in BOOLEAN
  PROVE  LET t == [s EXCEPT !.isfloating[c] = float]
         IN SameFrame(s, t) /\ \A m : SameFrame(s, Arrange(t, m))
<1> DEFINE t == [s EXCEPT !.isfloating[c] = float]
<1>1. t \in State
  BY SetFloatingType
<1>2. SameFrame(s, t)
  BY FrameFields, ZenonT(60) DEF SameFrame, SameCreates
<1> HIDE DEF t
<1>3. SameFrame(s, t) /\ \A m : SameFrame(s, Arrange(t, m))
  BY <1>1, <1>2, ArrangeFrame, SameFrameTwice
<1> QED BY <1>3 DEF t

LEMMA SetFullscreenFrame ==
  ASSUME NEW s \in State, NEW c \in Client, NEW on \in BOOLEAN
  PROVE  SameFrame(s, SetFullscreen(s, c, on))
<1> DEFINE float == s.isfloating[c]
           old == s.oldstate[c]
           in == [s EXCEPT !.isfullscreen[c] = TRUE, !.oldstate[c] = float,
                           !.isfloating[c] = TRUE, !.shown[c] = TRUE]
           out == [s EXCEPT !.isfullscreen[c] = FALSE, !.isfloating[c] = old,
                            !.shown[c] = TRUE]
<1>1. float \in BOOLEAN /\ old \in BOOLEAN
  BY StateFlags
<1> HIDE DEF float, old
<1>2. in \in State /\ out \in State
  BY <1>1, SetFullscreenFieldsType
<1>3. SameFrame(s, in) /\ SameFrame(s, out)
  BY FrameFields, ZenonT(60) DEF SameFrame, SameCreates
<1> HIDE DEF in, out
<1>4. SameFrame(s, in) /\ \A m : SameFrame(s, Arrange(out, m))
  BY <1>2, <1>3, ArrangeFrame, SameFrameTwice
<1> QED BY <1>4, SameFrameSelf DEF SetFullscreen, in, out, float, old

LEMMA ToggleFrame ==
  ASSUME NEW s \in State
  PROVE  /\ SameFrame(s, ToggleFloating(s)) /\ SameFrame(s, ToggleFullscr(s))
         /\ ToggleFloating(s).sel = s.sel
<1> DEFINE c == s.sel[s.selmon]
           float == ~s.isfloating[c] \/ s.isfixed[c]
           on == ~s.isfullscreen[c]
           t == [s EXCEPT !.isfloating[c] = float]
<1>1. c \in ClientOrNull /\ float \in BOOLEAN /\ on \in BOOLEAN
  BY StateFields
<1> HIDE DEF c, float, on
<1>2. c # NULL => /\ t \in State
                  /\ \A m : SameFrame(s, Arrange(t, m))
                  /\ SameFrame(s, SetFullscreen(s, c, on))
  BY <1>1, SetFloatingType, SetFloatingFrame, SetFullscreenFrame
     DEF ClientOrNull
<1>3. t.sel = s.sel
  BY StateDomain, ZenonT(60)
<1>4. \A m : c # NULL => Arrange(t, m).sel = s.sel
  <2> HIDE DEF t
  <2> QED BY <1>2, <1>3, ArrangeFields DEF Arrange
<1>5. SameFrame(s, ToggleFloating(s)) /\ ToggleFloating(s).sel = s.sel
  BY <1>2, <1>4, SameFrameSelf DEF ToggleFloating, c, float
<1>6. SameFrame(s, ToggleFullscr(s))
  BY <1>2, SameFrameSelf DEF ToggleFullscr, c, on
<1> QED BY <1>5, <1>6

LEMMA PropertiesFrame ==
  ASSUME NEW s \in State, NEW c \in Client, NEW a \in BOOLEAN, NEW b \in BOOLEAN
  PROVE  /\ SameFrame(s, UpdateWindowType(s, c, a, b))
         /\ SameFrame(s, TransientFor(s, c, a))
         /\ SameFrame(s, UpdateWmHints(s, c, a, b))
         /\ SameFrame(s, ActiveWindowMessage(s, c))
         /\ SameFrame(s, [s EXCEPT !.isfixed[c] = a])
         /\ SameFrame(s, FocusIn(s, c))
<1> DEFINE full == SetFullscreen(s, c, TRUE)
           rest == s.focusin \ {c}
           in == [s EXCEPT !.focusin = rest]
<1>1. full \in State /\ SameFrame(s, full)
  BY SetFullscreenType, SetFullscreenFrame
<1> HIDE DEF full
<1>2. SameFrame(s, [full EXCEPT !.isfloating[c] = TRUE])
  BY <1>1, SetFloatingFrame, SameFrameTwice
<1>3. SameFrame(s, UpdateWindowType(s, c, a, b))
  BY <1>1, <1>2, SetFloatingFrame, SameFrameSelf DEF UpdateWindowType, full
<1>4. SameFrame(s, TransientFor(s, c, a))
  BY SetFloatingFrame, SameFrameSelf DEF TransientFor
<1>5. /\ SameFrame(s, [s EXCEPT !.isurgent[c] = TRUE])
      /\ SameFrame(s, [s EXCEPT !.isfixed[c] = a])
      /\ \A x : SameFrame(s, [s EXCEPT !.isurgent[c] = x, !.neverfocus[c] = b])
  BY FrameFields, ZenonT(60) DEF SameFrame, SameCreates
<1>6. SameFrame(s, ActiveWindowMessage(s, c))
  BY <1>5, SameFrameSelf DEF ActiveWindowMessage
<1>7. SameFrame(s, UpdateWmHints(s, c, a, b))
  BY <1>5, ZenonT(60) DEF UpdateWmHints
<1>8. in \in State
  <2>1. rest \in SUBSET Client
    BY DEF State
  <2> QED BY <2>1, SetFocusInType
<1>9. SameFrame(s, in)
  BY FrameFields, ZenonT(60) DEF SameFrame, SameCreates
<1> HIDE DEF in
<1>10. \A d : SameFrame(s, SetFocus(in, d))
  BY <1>8, <1>9, LinksFrame, SameFrameTwice
<1>11. SameFrame(s, FocusIn(s, c))
  BY <1>9, <1>10 DEF FocusIn, in
<1> QED BY <1>3, <1>4, <1>5, <1>6, <1>7, <1>11

\* Whatever selects a monitor, but buttonpress().
LEMMA PointerStep ==
  ASSUME NEW s \in State, NEW m \in Mon, NEW dir
  PROVE  /\ OneFocus(s, FocusMon(s, dir))
         /\ \A c \in Client : OneFocus(s, EnterClient(s, c))
         /\ OneFocus(s, EnterRoot(s, m)) /\ OneFocus(s, MotionNotify(s, m))
<1>1. /\ NULL \in ClientOrNull /\ DirToMon(s, dir) \in Mon
      /\ \A c \in Client : c \in ClientOrNull /\ s.mon[c] \in Mon
  BY StateFields, DirToMonType DEF ClientOrNull
<1>2. \A i \in Mon : /\ [s EXCEPT !.selmon = i] \in State
                     /\ SelectMon(s, i) \in State
  BY SetSelmonType, SelectMonType
<1>3. ASSUME NEW i
      PROVE  SameFrame(s, [s EXCEPT !.selmon = i]) /\ SameFrame(s, SelectMon(s, i))
  <2> DEFINE u == Unfocus(s, s.sel[s.selmon])
  <2>1. u \in State /\ SameFrame(s, u)
    BY UnfocusType, LinksFrame
  <2> HIDE DEF u
  <2>2. /\ SameFrame(s, [s EXCEPT !.selmon = i])
        /\ SameFrame(u, [u EXCEPT !.selmon = i])
    BY <2>1, FrameFields, ZenonT(60) DEF SameFrame, SameCreates
  <2> QED BY <2>1, <2>2, SameFrameTwice DEF SelectMon, u
<1>4. OneFocus(s, s) /\ \A c \in Client : OneFocus(s, Focus(s, c))
  BY <1>1, SameFrameSelf, FocusStep DEF OneFocus
<1>5. \A i \in Mon : /\ OneFocus(s, Focus([s EXCEPT !.selmon = i], NULL))
                     /\ OneFocus(s, Focus(SelectMon(s, i), NULL))
                     /\ \A c \in Client :
                          OneFocus(s, Focus(SelectMon(s, i), c))
  BY <1>1, <1>2, <1>3, FocusStep
<1>6. OneFocus(s, MotionNotify(s, m))
  <2>1. ASSUME NEW t \in State
        PROVE  /\ SameFrame(t, [t EXCEPT !.motionmon = m])
               /\ [t EXCEPT !.motionmon = m].sel = t.sel
    BY StateDomain, ZenonT(60) DEF SameFrame, SameCreates
  <2>2. SelectMon(s, m) \in State /\ SameFrame(s, SelectMon(s, m))
    BY <1>2, <1>3
  <2> DEFINE f == Focus(SelectMon(s, m), NULL)
  <2>3. f \in State
    BY <1>1, <2>2, FocusType
  <2>4. OneFocus(s, [s EXCEPT !.motionmon = m])
    BY <2>1 DEF OneFocus
  <2>5. OneFocus(s, [f EXCEPT !.motionmon = m])
    BY <1>1, <2>1, <2>2, <2>3 DEF OneFocus
  <2> HIDE DEF f
  <2> QED BY <2>4, <2>5 DEF MotionNotify, f
<1>7. ASSUME NEW c \in Client
      PROVE  OneFocus(s, EnterClient(s, c))
  BY <1>1, <1>4, <1>5 DEF EnterClient
<1> QED BY <1>1, <1>4, <1>5, <1>6, <1>7 DEF FocusMon, EnterRoot

-----------------------------------------------------------------------------
(* Steps that focus twice                                                  *)

\* focus(NULL) after a focus() that has settled the selection selects the same
\* client again.
LEMMA FocusAgain ==
  ASSUME NEW s, NEW t, Good(t), History(s, t)
  PROVE  History(s, Focus(t, NULL))
<1> DEFINE m == t.selmon
           c == Chosen(t, NULL)
           u == Focus(t, NULL)
<1>1. /\ t \in State /\ ListInv(t) /\ m \in Mon /\ c \in ClientOrNull
      /\ c = t.sel[m]
  BY GoodFacts, StateFields DEF Settled, Chosen
<1>2. t.sel \in [Mon -> ClientOrNull] /\ t.stack \in [Mon -> Seq(Client)]
  BY <1>1 DEF State
<1>3. CASE c = NULL
  <2>1. u = [t EXCEPT !.xfocus = NULL, !.sel[t.selmon] = NULL]
    BY <1>3, ZenonT(60) DEF Focus, Chosen
  <2>2. u.stack = t.stack /\ u.sel = [t.sel EXCEPT ![m] = NULL]
    BY <1>1, <2>1, StateDomain
  <2>3. u.sel = t.sel
    BY <1>1, <1>2, <1>3, <2>2
  <2> HIDE DEF u
  <2>4. History(s, u)
    BY <2>2, <2>3 DEF History
  <2> QED BY <2>4 DEF u
<1>4. CASE c # NULL
  <2>1. c \in Client /\ t.mon[c] = m /\ c \in ToSet(t.stack[m])
    <3> HIDE DEF c
    <3> QED BY <1>1, <1>4, SelIn DEF ClientOrNull, ListInv, Linked, In
  <2>2. /\ u.stack = [t.stack EXCEPT ![m] = <<c>> \o RemoveFirst(@, c)]
        /\ u.sel = [t.sel EXCEPT ![m] = c]
    <3>1. /\ u.stack = [t.stack EXCEPT ![t.mon[c]] = <<c>> \o RemoveFirst(@, c)]
          /\ u.sel = [t.sel EXCEPT ![t.mon[c]] = c]
      BY <1>1, <2>1, FocusFields
    <3> QED BY <2>1, <3>1
  <2>3. u.sel = t.sel
    BY <1>1, <1>2, <2>2
  <2> HIDE DEF u, c, m
  <2> DEFINE rest == RemoveFirst(t.stack[m], c)
  <2>4. List(t.stack[m]) /\ List(rest) /\ ToSet(rest) = ToSet(t.stack[m]) \ {c}
    BY <1>1, RemoveFirstList DEF ListInv, Linked
  <2>5. u.stack[m] = <<c>> \o rest /\ \A i \in Mon \ {m} : u.stack[i] = t.stack[i]
    BY <1>1, <1>2, <2>2
  <2>6. ToSet(u.stack[m]) = ToSet(t.stack[m])
    <3> HIDE DEF rest
    <3>1. ToSet(<<c>> \o rest) = ToSet(rest) \cup {c}
      BY <2>1, <2>4, ConsList
    <3> QED BY <2>1, <2>4, <2>5, <3>1
  <2>7. ASSUME NEW a \in ToSet(u.stack[m]) \ {c},
               NEW b \in ToSet(u.stack[m]) \ {c}, Before(t.stack[m], a, b)
        PROVE  Before(u.stack[m], a, b)
    <3>1. Before(rest, a, b)
      BY <1>1, <1>2, <2>7, RemoveFirstOrder
    <3>2. rest \in Seq(Client) /\ <<c>> \in Seq(Client)
      BY <2>1, <2>4 DEF List
    <3> HIDE DEF rest
    <3> QED BY <2>5, <3>1, <3>2, PrefixOrder
  <2> HIDE DEF rest
  <2>8. u.sel[m] = c
    BY <1>1, <2>3
  <2>9. ASSUME NEW i \in Mon, NEW a \in ToSet(u.stack[i]) \ {u.sel[i]},
               NEW b \in ToSet(u.stack[i]) \ {u.sel[i]}, Before(s.stack[i], a, b)
        PROVE  Before(u.stack[i], a, b)
    <3>1. ToSet(u.stack[i]) = ToSet(t.stack[i])
      BY <2>5, <2>6
    <3>2. Before(t.stack[i], a, b)
      BY <2>3, <2>9, <3>1 DEF History
    <3> QED BY <2>5, <2>7, <2>8, <2>9, <3>2
  <2>10. History(s, u)
    BY <2>9 DEF History
  <2> QED BY <2>10 DEF u
<1> QED BY <1>3, <1>4

\* No client before the first visible one is visible.
LEMMA NoneBeforeFirst ==
  ASSUME NEW s, NEW q, List(q), FirstVisible(s, q) # NULL, NEW a,
         Before(q, a, FirstVisible(s, q))
  PROVE  ~Visible(s, a)
<1> DEFINE I == {i \in 1 .. Len(q) : Visible(s, q[i])}
           f == FirstVisible(s, q)
<1>1. f = At(q, IF I # {} THEN Min(I) ELSE 0)
  BY DEF FirstVisible, SelectInSeq
<1>2. /\ q \in Seq(Client) /\ Len(q) \in Nat /\ DOMAIN q = 1 .. Len(q)
      /\ \A i, j \in 1 .. Len(q) : q[i] = q[j] => i = j
  BY ListFacts, LenProperties
<1>3. I \in SUBSET Nat
  BY <1>2
<1>4. I # {} /\ f = q[Min(I)]
  <2> HIDE DEF I
  <2> QED BY <1>1 DEF At
<1>5. Min(I) \in I /\ \A j \in I : Min(I) <= j
  BY <1>3, <1>4, MinNat
<1>6. PICK i \in 1 .. Len(q), j \in 1 .. Len(q) : i < j /\ q[i] = a /\ q[j] = f
  BY <1>2 DEF Before
<1>7. j = Min(I)
  <2>1. Min(I) \in 1 .. Len(q)
    BY <1>5
  <2> HIDE DEF I, f
  <2> QED BY <1>2, <1>4, <1>6, <2>1
<1>8. i \notin I
  <2> HIDE DEF I
  <2> QED BY <1>2, <1>5, <1>6, <1>7
<1> QED BY <1>6, <1>8

LEMMA BeforeElements ==
  ASSUME NEW q \in Seq(Client), NEW a, NEW b, Before(q, a, b)
  PROVE  a \in ToSet(q) /\ b \in ToSet(q)
BY LenProperties DEF Before, ToSet

\* What FocusHistoryKept says of a step: the selected client may pass those
\* that are in view.
Remembers(s, t) ==
  \A m \in Mon : \A a, b \in ToSet(t.stack[m]) \ {t.sel[m]} :
    Visible(t, a) /\ Before(s.stack[m], a, b) => Before(t.stack[m], a, b)

LEMMA HistoryRemembers ==
  ASSUME NEW s, NEW t, History(s, t)
  PROVE  Remembers(s, t)
BY DEF History, Remembers

\* buttonpress() on a client of another monitor focuses first the client that
\* was focused last there, then the one under the pointer.
LEMMA ButtonPressRemembers ==
  ASSUME NEW s, Good(s), NEW c, In(s, c)
  PROVE  Remembers(s, ButtonPress(s, c)) /\ SameCreates(s, ButtonPress(s, c))
<1> DEFINE m == s.mon[c]
           u == SelectMon(s, m)
           v == Focus(u, NULL)
           t == Focus(v, c)
           f == Chosen(u, NULL)
<1>1. s \in State /\ ListInv(s) /\ c \in Client /\ m \in Mon /\ Stacked(s)
      /\ m <= s.nmon /\ c \in ClientOrNull /\ NULL \in ClientOrNull
  BY GoodFacts, InFacts DEF Stacked, ListInv, Linked, ClientOrNull
<1>2. CASE m = s.selmon
  <2>1. OneFocus(s, Focus(s, c))
    BY <1>1, SameFrameSelf, FocusStep
  <2> QED BY <1>1, <1>2, <2>1, OneFocusKeeps, HistoryRemembers DEF ButtonPress
<1>3. CASE m # s.selmon
  <2>1. ButtonPress(s, c) = t
    BY <1>3 DEF ButtonPress
  <2>2. u \in State /\ SameFrame(s, u) /\ u.selmon = m
    <3> DEFINE n == Unfocus(s, s.sel[s.selmon])
    <3>1. n \in State /\ SameFrame(s, n)
      BY <1>1, UnfocusType, LinksFrame
    <3> HIDE DEF n
    <3>2. SameFrame(n, [n EXCEPT !.selmon = m]) /\ [n EXCEPT !.selmon = m].selmon = m
      BY <3>1, StateDomain, ZenonT(60) DEF SameFrame, SameCreates
    <3> QED BY <1>1, <3>1, <3>2, SelectMonType, SameFrameTwice DEF SelectMon, n
  <2>3. Untouched(s, u) /\ u.mon = s.mon
    BY <1>1, SelectMonUntouched, SelectMonInv DEF Reordered, SamePlaces
  <2> HIDE DEF m, u
  <2>4. v \in State /\ Untouched(u, v) /\ v.mon = u.mon /\ SameCreates(u, v)
    BY <1>1, <2>2, FocusType, FocusLeaves, FocusCreates
  <2>5. /\ t \in State /\ Untouched(v, t) /\ t.mon = v.mon /\ SameCreates(v, t)
    BY <1>1, <2>4, FocusType, FocusLeaves, FocusCreates
  <2>6. SameCreates(s, t)
    BY <2>2, <2>4, <2>5 DEF SameFrame, SameCreates
  <2>7. \A x : /\ Visible(u, x) = Visible(s, x) /\ Visible(v, x) = Visible(s, x)
               /\ Visible(t, x) = Visible(s, x)
    <3>1. SameView(s, u) /\ SameView(s, v) /\ SameView(s, t)
      BY <2>3, <2>4, <2>5 DEF SameView, Untouched
    <3> QED BY <3>1, SameVisible
  <2>8. f = FirstVisible(u, s.stack[m]) /\ s.stack[m] \in Seq(Client)
    BY <1>1, <2>2 DEF Chosen, SameFrame, State
  <2>9. CASE f = NULL
    <3>1. v = [u EXCEPT !.xfocus = NULL, !.sel[u.selmon] = NULL]
      BY <2>9, ZenonT(60) DEF Focus, Chosen
    <3>2. SameFrame(s, v)
      BY <2>2, <2>4, <3>1, FrameFields DEF SameFrame, SameCreates
    <3>3. OneFocus(s, t)
      <4> HIDE DEF v
      <4> QED BY <1>1, <2>4, <3>2, FocusStep
    <3> QED BY <1>1, <2>1, <2>6, <3>3, OneFocusKeeps, HistoryRemembers
  <2>10. CASE f # NULL
    <3>1. f \in Client /\ f \in ToSet(s.stack[m]) /\ Visible(u, f) /\ s.mon[f] = m
      BY <1>1, <2>8, <2>10, FirstVisibleType, ToSetOfSeq, FirstVisibleIsVisible
         DEF ListInv, Linked
    <3>2. u.mon[f] = m
      BY <2>3, <3>1
    <3>3. /\ v.stack = [s.stack EXCEPT ![m] = <<f>> \o RemoveFirst(@, f)]
          /\ v.selmon = m
      <4>1. /\ v.stack = [u.stack EXCEPT ![u.mon[f]] = <<f>> \o RemoveFirst(@, f)]
            /\ v.selmon = u.mon[f]
        BY <2>2, <3>1, FocusFields
      <4>2. u.stack = s.stack
        BY <2>2 DEF SameFrame
      <4> QED BY <3>2, <4>1, <4>2
    <3>4. s.stack \in [Mon -> Seq(Client)] /\ v.stack \in [Mon -> Seq(Client)]
      BY <1>1, <2>4 DEF State
    <3> HIDE DEF f, v
    <3> DEFINE rest == RemoveFirst(s.stack[m], f)
    <3>5. /\ v.stack[m] = <<f>> \o rest
          /\ \A i \in Mon \ {m} : v.stack[i] = s.stack[i]
      BY <1>1, <3>3, <3>4
    <3>6. /\ rest \in Seq(Client) /\ ToSet(rest) = ToSet(s.stack[m]) \ {f}
          /\ List(s.stack[m]) /\ v.stack[m] \in Seq(Client)
      BY <1>1, <3>4, RemoveFirstList DEF Stacked, List
    <3> HIDE DEF rest
    <3>7. ASSUME NEW a, NEW b, Visible(s, a), Before(s.stack[m], a, b)
          PROVE  Before(v.stack[m], a, b)
      <4>1. b # f
        BY <2>7, <2>8, <2>10, <3>6, <3>7, NoneBeforeFirst
      <4>2. a \in ToSet(s.stack[m]) /\ b \in ToSet(s.stack[m])
        BY <2>8, <3>7, BeforeElements
      <4>3. CASE a = f
        BY <3>1, <3>5, <3>6, <4>1, <4>2, <4>3, FrontFirst
      <4>4. CASE a # f
        <5>1. Before(rest, a, b)
          BY <2>8, <3>7, <4>1, <4>4, RemoveFirstOrder DEF rest
        <5>2. <<f>> \in Seq(Client)
          BY <3>1
        <5> QED BY <3>5, <3>6, <5>1, <5>2, PrefixOrder
      <4> QED BY <4>3, <4>4
    <3> DEFINE d == Chosen(v, c)
    <3>8. d \in Client /\ v.mon[d] = m
      <4>1. FirstVisible(v, v.stack[v.selmon]) = f
        <5>1. Visible(v, f)
          BY <2>7, <3>1
        <5> QED BY <3>1, <3>3, <3>5, <3>6, <5>1, FirstVisibleFront
      <4>2. d = c \/ d = f
        BY <4>1 DEF Chosen
      <4>3. v.mon[c] = m /\ v.mon[f] = m
        BY <2>3, <2>4, <3>2 DEF m
      <4> QED BY <1>1, <3>1, <4>2, <4>3
    <3>9. /\ t.stack = [v.stack EXCEPT ![m] = <<d>> \o RemoveFirst(@, d)]
          /\ t.sel = [v.sel EXCEPT ![m] = d]
      BY <2>4, <3>8, FocusFields
    <3>10. v.sel \in [Mon -> ClientOrNull]
      BY <2>4 DEF State
    <3> HIDE DEF d, t
    <3>11. /\ t.stack[m] = <<d>> \o RemoveFirst(v.stack[m], d) /\ t.sel[m] = d
           /\ \A i \in Mon \ {m} : t.stack[i] = s.stack[i]
      BY <1>1, <3>4, <3>5, <3>9, <3>10
    <3>12. ASSUME NEW a, NEW b, a # d, b # d, Visible(t, a),
                  Before(s.stack[m], a, b)
           PROVE  Before(t.stack[m], a, b)
      <4>1. Before(v.stack[m], a, b)
        BY <2>7, <3>7, <3>12
      <4>2. Before(RemoveFirst(v.stack[m], d), a, b)
        BY <3>6, <3>12, <4>1, RemoveFirstOrder
      <4>3. <<d>> \in Seq(Client) /\ RemoveFirst(v.stack[m], d) \in Seq(Client)
        BY <3>6, <3>8, RemoveFirstType
      <4> QED BY <3>11, <4>2, <4>3, PrefixOrder
    <3>13. Remembers(s, t)
      BY <3>11, <3>12 DEF Remembers
    <3> QED BY <2>1, <2>6, <3>13
  <2> QED BY <2>9, <2>10
<1> QED BY <1>2, <1>3

-----------------------------------------------------------------------------
(* Views                                                                   *)

\* New windows of monitor m are created on a tag in view.
Creates(s, m) == s.createtag[m][s.seltags[m]] \in ViewOf(s, m)

\* Wherever that is so, it stays so; but perhaps on one monitor.
KeepsCreatesBut(s, t, ms) ==
  /\ t.nmon = s.nmon
  /\ \A m \in Mon \ ms : Creates(s, m) => Creates(t, m)

KeepsCreates(s, t) == KeepsCreatesBut(s, t, {})

LEMMA SameCreatesKeeps ==
  ASSUME NEW s, NEW t, SameCreates(s, t)
  PROVE  KeepsCreates(s, t)
BY DEF SameCreates, KeepsCreates, KeepsCreatesBut, Creates, ViewOf

LEMMA KeepsThenSame ==
  ASSUME NEW s, NEW t, NEW u, NEW ms,
         KeepsCreatesBut(s, t, ms), SameCreates(t, u)
  PROVE  KeepsCreatesBut(s, u, ms)
BY DEF SameCreates, KeepsCreatesBut, Creates, ViewOf

\* A change of views, then the tail of the command.
LEMMA RefreshHistory ==
  ASSUME NEW s, Stacked(s), NEW u \in State, u.stack = s.stack
  PROVE  History(s, Refresh(u)) /\ SameCreates(u, Refresh(u))
<1>1. Stacked(u) /\ OneFocus(u, Refresh(u))
  BY SameFrameSelf, RefreshStep DEF Stacked
<1>2. History(u, Refresh(u)) /\ SameCreates(u, Refresh(u))
  BY <1>1, OneFocusKeeps
<1> QED BY <1>2 DEF History

\* view() and toggleview() may leave the create tag of the selected monitor
\* behind.
LEMMA ViewHistory ==
  ASSUME NEW s, Stacked(s), NEW ui \in SUBSET Tag
  PROVE  /\ History(s, View(s, ui)) /\ History(s, ToggleView(s, ui))
         /\ KeepsCreatesBut(s, View(s, ui), {s.selmon})
         /\ KeepsCreatesBut(s, ToggleView(s, ui), {s.selmon})
<1> DEFINE m == s.selmon
           k == s.seltags[m]
           old == IF ui = {} THEN s.tagset[m][1 - k] ELSE ui
           new == SymDiff(ViewOf(s, m), ui)
           other == [s EXCEPT !.seltags[m] = 1 - k, !.tagset[m][1 - k] = old]
           same == [s EXCEPT !.tagset[m][k] = new]
<1>1. s \in State /\ m \in Mon /\ k \in Slot /\ 1 - k \in Slot
      /\ new \in SUBSET Tag
  BY StateFields, SymDiffType DEF Stacked
<1>2. old \in SUBSET Tag
  BY <1>1 DEF State
<1>3. History(s, s) /\ KeepsCreatesBut(s, s, {m})
  BY SameStackHistory DEF KeepsCreatesBut
<1> HIDE DEF m, k, old, new
<1>4. other \in State /\ same \in State
  BY <1>1, <1>2, SetViewType
<1>5. /\ other.stack = s.stack /\ same.stack = s.stack
      /\ other.nmon = s.nmon /\ same.nmon = s.nmon
      /\ other.createtag = s.createtag /\ same.createtag = s.createtag
      /\ other.seltags = [s.seltags EXCEPT ![m] = 1 - k]
      /\ same.seltags = s.seltags
      /\ other.tagset = [s.tagset EXCEPT ![m][1 - k] = old]
      /\ same.tagset = [s.tagset EXCEPT ![m][k] = new]
  BY <1>1 DEF State
<1> HIDE DEF other, same
<1>6. \A i \in Mon \ {m} :
        /\ other.seltags[i] = s.seltags[i] /\ other.tagset[i] = s.tagset[i]
        /\ same.seltags[i] = s.seltags[i] /\ same.tagset[i] = s.tagset[i]
  BY <1>1, <1>5 DEF State
<1>7. KeepsCreatesBut(s, other, {m}) /\ KeepsCreatesBut(s, same, {m})
  BY <1>5, <1>6 DEF KeepsCreatesBut, Creates, ViewOf
<1>8. /\ History(s, Refresh(other)) /\ History(s, Refresh(same))
      /\ KeepsCreatesBut(s, Refresh(other), {m})
      /\ KeepsCreatesBut(s, Refresh(same), {m})
  BY <1>4, <1>5, <1>7, RefreshHistory, KeepsThenSame
<1>9. View(s, ui) = s \/ View(s, ui) = Refresh(other)
  BY DEF View, m, k, old, other
<1>10. ToggleView(s, ui) = s \/ ToggleView(s, ui) = Refresh(same)
  BY DEF ToggleView, m, k, new, same
<1> QED BY <1>3, <1>8, <1>9, <1>10 DEF m

\* comboview(): the first press of a chord selects a tag with its create tag,
\* further presses add tags to the view.
LEMMA SelectTagCreates ==
  ASSUME NEW s \in State, NEW t \in Tag
  PROVE  LET u == SelectTag(s, t)
         IN u.stack = s.stack /\ KeepsCreates(s, u)
<1> DEFINE m == s.selmon
           k == 1 - s.seltags[m]
           again == s.createtag[m][s.seltags[m]] = t
           view == {t} \cup (IF again THEN {} ELSE s.remtagset[m][t])
           zoomed == IF again THEN s.zoomed[m][k] ELSE s.remzoomed[m][t]
           u == [s EXCEPT !.seltags[m] = k, !.combo = TRUE,
                          !.tagset[m][k] = view, !.zoomed[m][k] = zoomed,
                          !.createtag[m][k] = t]
<1>1. m \in Mon /\ k \in Slot /\ t \in view
      /\ s.tagset \in [Mon -> [Slot -> SUBSET Tag]]
      /\ s.seltags \in [Mon -> Slot]
      /\ s.createtag \in [Mon -> [Slot -> Tag]]
  BY StateFields DEF State
<1>2. SelectTag(s, t) = u
  BY DEF SelectTag
<1> HIDE DEF m, k, view, zoomed
<1>3. /\ u.stack = s.stack /\ u.nmon = s.nmon
      /\ u.seltags = [s.seltags EXCEPT ![m] = k]
      /\ u.tagset = [s.tagset EXCEPT ![m][k] = view]
      /\ u.createtag = [s.createtag EXCEPT ![m][k] = t]
  BY DEF State
<1> HIDE DEF u
<1>4. Creates(u, m)
  <2>1. u.seltags[m] = k /\ u.tagset[m][k] = view /\ u.createtag[m][k] = t
    BY <1>1, <1>3
  <2> QED BY <1>1, <2>1 DEF Creates, ViewOf
<1>5. ASSUME NEW i \in Mon \ {m}
      PROVE  Creates(s, i) => Creates(u, i)
  <2>1. /\ u.seltags[i] = s.seltags[i] /\ u.tagset[i] = s.tagset[i]
        /\ u.createtag[i] = s.createtag[i]
    BY <1>1, <1>3
  <2> QED BY <2>1 DEF Creates, ViewOf
<1>6. KeepsCreates(s, u)
  BY <1>3, <1>4, <1>5 DEF KeepsCreates, KeepsCreatesBut
<1> QED BY <1>2, <1>3, <1>6

LEMMA AddTagCreates ==
  ASSUME NEW s \in State, NEW m \in Mon, NEW k \in Slot, NEW t \in Tag
  PROVE  LET u == [s EXCEPT !.tagset[m][k] = @ \cup {t}]
         IN u \in State /\ u.stack = s.stack /\ KeepsCreates(s, u)
<1> DEFINE view == s.tagset[m][k] \cup {t}
           u == [s EXCEPT !.tagset[m][k] = view]
<1>1. s.tagset \in [Mon -> [Slot -> SUBSET Tag]] /\ s.seltags \in [Mon -> Slot]
  BY DEF State
<1>2. view \in SUBSET Tag /\ s.tagset[m][k] \subseteq view
  <2>1. s.tagset[m][k] \in SUBSET Tag
    BY <1>1
  <2> QED BY <2>1
<1> HIDE DEF view
<1>3. u \in State
  BY <1>2, SetViewType
<1>4. /\ u.stack = s.stack /\ u.nmon = s.nmon /\ u.seltags = s.seltags
      /\ u.createtag = s.createtag
      /\ u.tagset = [s.tagset EXCEPT ![m][k] = view]
  BY DEF State
<1> HIDE DEF u
<1>5. \A i \in Mon, j \in Slot : s.tagset[i][j] \subseteq u.tagset[i][j]
  BY <1>1, <1>2, <1>4
<1>6. KeepsCreates(s, u)
  BY <1>1, <1>4, <1>5 DEF KeepsCreates, KeepsCreatesBut, Creates, ViewOf
<1> QED BY <1>3, <1>4, <1>6 DEF u, view

LEMMA ComboViewHistory ==
  ASSUME NEW s, Good(s), NEW t \in Tag
  PROVE  History(s, ComboView(s, t)) /\ KeepsCreates(s, ComboView(s, t))
<1> DEFINE m == s.selmon
           k == s.seltags[m]
           r == RememberTag(s)
           selected == SelectTag(r, t)
           zoomed == selected.zoomed[m][selected.seltags[m]]
           added == [r EXCEPT !.tagset[m][k] = @ \cup {t}]
           popped == Pop(selected, zoomed)
<1>1. s \in State /\ m \in Mon /\ k \in Slot /\ ListInv(s) /\ Stacked(s)
  BY GoodFacts, StateFields DEF ListInv, Linked, Stacked
<1>2. NewView(s, r) /\ r \in State
  BY RememberTagView DEF NewView
<1>3. NewView(s, selected) /\ selected \in State
  <2>1. NewView(r, selected)
    BY <1>2, SelectTagView DEF NewView
  <2> QED BY <1>2, <2>1, NewViewTwice DEF NewView
<1>4. SameFrame(s, r)
  BY <1>1, FrameFields, ZenonT(60) DEF RememberTag, SameFrame, SameCreates
<1>5. /\ selected.stack = s.stack /\ KeepsCreates(s, selected)
      /\ added \in State /\ added.stack = s.stack /\ KeepsCreates(s, added)
  <2>1. selected.stack = r.stack /\ KeepsCreates(r, selected)
    BY <1>2, SelectTagCreates
  <2>2. added \in State /\ added.stack = r.stack /\ KeepsCreates(r, added)
    BY <1>1, <1>2, AddTagCreates
  <2>3. KeepsCreates(s, r) /\ r.stack = s.stack
    BY <1>4, SameCreatesKeeps DEF SameFrame
  <2> QED BY <2>1, <2>2, <2>3 DEF KeepsCreates, KeepsCreatesBut
<1> HIDE DEF r, selected, m, k, added
<1>6. /\ History(s, Refresh(added)) /\ KeepsCreates(s, Refresh(added))
      /\ History(s, Refresh(selected)) /\ KeepsCreates(s, Refresh(selected))
  BY <1>1, <1>3, <1>5, RefreshHistory, KeepsThenSame DEF KeepsCreates
<1>7. ASSUME Contains(s.clients[m], zoomed)
      PROVE  History(s, Refresh(popped)) /\ KeepsCreates(s, Refresh(popped))
  <2>1. zoomed \in ToSet(s.clients[m])
    BY <1>1, <1>7, LenProperties DEF Contains, ToSet, State
  <2>2. In(s, zoomed) /\ s.mon[zoomed] = m /\ zoomed \in Client
    BY <1>1, <2>1, InOfMonitor
  <2> HIDE DEF zoomed
  <2>3. Ready(selected, m) /\ Reordered(s, selected) /\ selected.mon[zoomed] = m
    BY <1>3, <2>2, NewViewReady DEF Reordered, SamePlaces, m
  <2>4. In(selected, zoomed)
    BY <1>1, <2>2, <2>3, ReorderedIn
  <2>5. Good(popped)
    BY <2>3, <2>4, PopGood
  <2>6. OneFocus(selected, popped) /\ Stacked(selected)
    BY <1>1, <1>3, <1>5, <2>2, SameFrameSelf, PopStep DEF Stacked
  <2> HIDE DEF popped
  <2>7. History(s, popped) /\ SameCreates(selected, popped)
    BY <1>5, <2>6, OneFocusKeeps DEF History
  <2> DEFINE f == Focus(popped, NULL)
  <2>8. f \in State /\ History(s, f) /\ SameCreates(popped, f)
    BY <2>5, <2>7, GoodFacts, FocusAgain, FocusType, FocusCreates
       DEF ClientOrNull
  <2> HIDE DEF f
  <2>9. \A i : History(s, Arrange(f, i)) /\ SameCreates(f, Arrange(f, i))
    BY <2>8, ArrangeHistory, ArrangeFrame DEF SameFrame
  <2>10. \A i : KeepsCreates(s, Arrange(f, i))
    BY <1>5, <2>7, <2>8, <2>9, KeepsThenSame DEF KeepsCreates
  <2> QED BY <2>9, <2>10 DEF Refresh, f
<1>8. \/ ComboView(s, t) = Refresh(added)
      \/ ComboView(s, t) = Refresh(selected)
      \/ /\ Contains(s.clients[m], zoomed)
         /\ ComboView(s, t) = Refresh(popped)
  BY DEF ComboView, m, k, r, selected, added
<1> QED BY <1>6, <1>7, <1>8

-----------------------------------------------------------------------------
(* Clients come, move and go                                               *)

LEMMA RemoveFirstInStep ==
  ASSUME NEW q, List(q), NEW c
  PROVE  InStep(q, RemoveFirst(q, c))
<1>1. q \in Seq(Client) /\ ToSet(RemoveFirst(q, c)) = ToSet(q) \ {c}
  BY RemoveFirstList DEF List
<1> QED BY <1>1, RemoveFirstOrder DEF InStep

LEMMA FrontInStep ==
  ASSUME NEW q \in Seq(Client), NEW c \in Client
  PROVE  InStep(q, <<c>> \o q)
<1>1. <<c>> \in Seq(Client)
  OBVIOUS
<1> QED BY <1>1, PrefixOrder DEF InStep

\* A client leaves the history of m for the front of that of n.
LEMMA MovedHistory ==
  ASSUME NEW s, Stacked(s), NEW c \in Client, NEW m \in Mon, NEW n \in Mon,
         NEW t, t.stack[m] = RemoveFirst(s.stack[m], c),
         t.stack[n] = <<c>> \o s.stack[n],
         \A i \in Mon \ {m, n} : t.stack[i] = s.stack[i]
  PROVE  SameHistory(s, t)
<1>1. s.stack \in [Mon -> Seq(Client)] /\ \A i \in Mon : List(s.stack[i])
  BY DEF Stacked, State
<1>3. InStep(s.stack[m], t.stack[m]) /\ InStep(s.stack[n], t.stack[n])
  BY <1>1, RemoveFirstInStep, FrontInStep
<1>4. \A i \in Mon \ {m, n} : InStep(s.stack[i], t.stack[i])
  BY DEF InStep
<1> QED BY <1>3, <1>4 DEF SameHistory

LEMMA LinkFields ==
  ASSUME NEW s \in State, NEW c \in Client
  PROVE  /\ Link(s, c).stack = [s.stack EXCEPT ![s.mon[c]] = <<c>> \o @]
         /\ SameCreates(s, Link(s, c)) /\ SameCreates(s, Unlink(s, c))
<1> DEFINE a == AttachBelow(s, c)
           d == Detach(s, c)
<1>1. /\ a \in State /\ d \in State
      /\ SameFrame(s, a) /\ SameFrame(s, d)
  BY AttachBelowType, DetachType, LinksFrame
<1>2. a.mon = s.mon
  <2>1. "mon" \in DOMAIN s
    BY StateDomain
  <2> QED BY <2>1, ZenonT(60) DEF AttachBelow, Attach
<1> HIDE DEF a, d
<1>3. /\ AttachStack(a, c).stack = [s.stack EXCEPT ![s.mon[c]] = <<c>> \o @]
      /\ SameCreates(a, AttachStack(a, c)) /\ SameCreates(d, DetachStack(d, c))
  <2>1. AttachStack(a, c).stack = [a.stack EXCEPT ![a.mon[c]] = <<c>> \o @]
    BY <1>1, AttachStackFields
  <2>2. a.stack = s.stack
    BY <1>1 DEF SameFrame
  <2>3. /\ SameCreates(a, AttachStack(a, c))
        /\ SameCreates(d, DetachStack(d, c))
    BY <1>1, LinksFrame
  <2> QED BY <1>2, <2>1, <2>2, <2>3
<1> QED BY <1>1, <1>3, SameCreatesTwice DEF Link, Unlink, SameFrame, a, d

\* The tails of sendmon(), unmanage() and manage().
LEMMA FocusArrangeHistory ==
  ASSUME NEW s, NEW u, ListInv(u), SameHistory(s, u)
  PROVE  /\ History(s, ArrangeAll(Focus(u, NULL)))
         /\ SameCreates(u, ArrangeAll(Focus(u, NULL)))
         /\ \A m : /\ History(s, Focus(Arrange(u, m), NULL))
                   /\ SameCreates(u, Focus(Arrange(u, m), NULL))
<1>1. NULL \in ClientOrNull /\ u \in State /\ \A i \in Mon : List(u.stack[i])
  BY DEF ClientOrNull, ListInv, Linked
<1>2. ASSUME NEW t \in State, SameFrame(u, t)
      PROVE  /\ History(s, Focus(t, NULL)) /\ SameCreates(u, Focus(t, NULL))
             /\ Focus(t, NULL) \in State
  <2>1. SameHistory(s, t) /\ \A i \in Mon : List(t.stack[i])
    BY <1>1, <1>2 DEF SameHistory, SameFrame
  <2> QED BY <1>1, <1>2, <2>1, FocusHistory, FocusCreates, SameCreatesTwice,
             FocusType DEF SameFrame
<1>3. \A m : Arrange(u, m) \in State /\ SameFrame(u, Arrange(u, m))
  BY <1>1, ArrangeType, ArrangeFrame
<1> DEFINE f == Focus(u, NULL)
<1>4. History(s, f) /\ SameCreates(u, f) /\ f \in State
  BY <1>1, <1>2, SameFrameSelf
<1> HIDE DEF f
<1>5. History(s, ArrangeAll(f)) /\ SameCreates(u, ArrangeAll(f))
  BY <1>4, ArrangeHistory, ArrangeFrame, SameCreatesTwice DEF SameFrame
<1> QED BY <1>2, <1>3, <1>5 DEF f

LEMMA SendMonHistory ==
  ASSUME NEW s, ListInv(s), NEW c, In(s, c), NEW m \in Mon, m <= s.nmon
  PROVE  History(s, SendMon(s, c, m)) /\ SameCreates(s, SendMon(s, c, m))
<1> DEFINE u == Unfocus(s, c)
           out == Unlink(u, c)
           view == ViewOf(s, m)
           t == [out EXCEPT !.mon[c] = m, !.tags[c] = view]
           l == Link(t, c)
<1>1. s \in State /\ c \in Client /\ Stacked(s) /\ s.mon[c] \in Mon
  BY InFacts DEF In, ListInv, Linked, Stacked
<1>2. Reordered(s, u) /\ u.mon = s.mon /\ SameFrame(s, u)
  BY <1>1, UnfocusType, SetFocusFields, ReorderedSame, LinksFrame DEF SameLists
<1>3. ListInv(u) /\ In(u, c) /\ u.nmon = s.nmon /\ u \in State
  BY <1>1, <1>2, ReorderedIn DEF Reordered, SamePlaces, ListInv
<1> HIDE DEF u
<1>4. /\ out \in State /\ SameCreates(u, out)
      /\ out.stack = [s.stack EXCEPT ![s.mon[c]] = RemoveFirst(@, c)]
  <2>1. out \in State
    BY <1>1, <1>3, DetachType, DetachStackType DEF Unlink
  <2>2. SameCreates(u, out)
    BY <1>1, <1>3, LinkFields
  <2>3. out.stack = [u.stack EXCEPT ![u.mon[c]] = RemoveFirst(@, c)]
    BY <1>1, <1>3, UnlinkFields
  <2> HIDE DEF out
  <2> QED BY <1>2, <2>1, <2>2, <2>3 DEF SameFrame
<1>5. view \in SUBSET Tag
  BY <1>1, ViewOfType
<1> HIDE DEF view
<1>6. t \in State
  <2> HIDE DEF out
  <2> QED BY <1>1, <1>4, <1>5, MoveRetagType
<1>7. /\ t.clients = out.clients /\ t.stack = out.stack /\ t.sel = out.sel
      /\ t.selmon = out.selmon /\ t.nmon = out.nmon /\ t.lost = out.lost
      /\ t.mon = [out.mon EXCEPT ![c] = m]
  <2> HIDE DEF out
  <2> QED BY <1>4 DEF State
<1>8. SameFrame(out, t) /\ t.mon[c] = m
  <2> HIDE DEF out
  <2> QED BY <1>1, <1>4 DEF State, SameFrame, SameCreates
<1> HIDE DEF t
<1>9. ListInv(l)
  BY <1>3, <1>6, <1>7, MoveInv
<1>10. l.stack = [out.stack EXCEPT ![m] = <<c>> \o @] /\ SameCreates(t, l)
  BY <1>1, <1>6, <1>8, LinkFields DEF SameFrame
<1> HIDE DEF l
<1>11. SameCreates(s, l)
  <2> HIDE DEF out
  <2> QED BY <1>2, <1>4, <1>8, <1>10 DEF SameFrame, SameCreates
<1>12. ASSUME s.mon[c] # m
       PROVE  SameHistory(s, l)
  <2> DEFINE o == s.mon[c]
  <2>1. /\ o \in Mon /\ o # m
        /\ out.stack = [s.stack EXCEPT ![o] = RemoveFirst(@, c)]
    BY <1>1, <1>4, <1>12
  <2>2. s.stack \in [Mon -> Seq(Client)]
    BY <1>1 DEF State
  <2> HIDE DEF out, o
  <2>3. /\ l.stack[o] = RemoveFirst(s.stack[o], c)
        /\ l.stack[m] = <<c>> \o s.stack[m]
        /\ \A i \in Mon \ {o, m} : l.stack[i] = s.stack[i]
    BY <1>10, <2>1, <2>2
  <2> QED BY <1>1, <2>1, <2>3, MovedHistory
<1>13. SendMon(s, c, m) = IF s.mon[c] = m THEN s
                          ELSE ArrangeAll(Focus(l, NULL))
  BY DEF SendMon, Unlink, Link, l, t, out, u, view
<1>14. SameCreates(s, s) /\ History(s, s)
  BY SameStackHistory DEF SameCreates
<1>15. ASSUME s.mon[c] # m
       PROVE  /\ History(s, ArrangeAll(Focus(l, NULL)))
              /\ SameCreates(s, ArrangeAll(Focus(l, NULL)))
  BY <1>9, <1>11, <1>12, <1>15, FocusArrangeHistory, SameCreatesTwice
<1> QED BY <1>13, <1>14, <1>15

LEMMA TagMonHistory ==
  ASSUME NEW s, ListInv(s), NEW dir
  PROVE  History(s, TagMon(s, dir)) /\ SameCreates(s, TagMon(s, dir))
<1>1. SameCreates(s, s) /\ History(s, s)
  BY SameStackHistory DEF SameCreates
<1> QED BY <1>1, SelmonFacts, DirToMonConnected, SendMonHistory DEF TagMon

\* unmanage() takes a client off its history.
LEMMA UnmanageHistory ==
  ASSUME NEW s, ListInv(s), NEW c, In(s, c)
  PROVE  History(s, Unmanage(s, c)) /\ SameCreates(s, Unmanage(s, c))
<1> DEFINE u == Unlink(s, c)
           t == FreeClient(u, c)
<1>1. ListInv(u) /\ Out(u, c)
  BY UnlinkInv
<1>2. u \in State /\ c \in Client /\ s \in State /\ s.mon[c] \in Mon
  BY <1>1, InFacts DEF ListInv, Out
<1>3. /\ u.stack = [s.stack EXCEPT ![s.mon[c]] = RemoveFirst(@, c)]
      /\ SameCreates(s, u)
  BY <1>2, UnlinkFields, LinkFields
<1> HIDE DEF u
<1>4. t \in State
  BY <1>2, FreeClientType
<1>5. /\ t.clients = u.clients /\ t.stack = u.stack /\ t.sel = u.sel
      /\ t.selmon = u.selmon /\ t.nmon = u.nmon /\ t.lost = u.lost
      /\ t.mon = [u.mon EXCEPT ![c] = 1]
  BY <1>2, FreeClientFields
<1>6. SameCreates(u, t)
  BY <1>2, FrameFields, ZenonT(60) DEF FreeClient, SameCreates
<1> HIDE DEF t
<1>7. \A d \in Client \ {c} : t.mon[d] = u.mon[d]
  BY <1>2, <1>5 DEF State
<1>8. ListInv(t)
  BY <1>1, <1>4, <1>5, <1>7, OutFieldsInv
<1>9. SameHistory(s, t)
  <2>1. s.stack \in [Mon -> Seq(Client)] /\ \A i \in Mon : List(s.stack[i])
    BY <1>2 DEF ListInv, Linked, State
  <2>2. InStep(s.stack[s.mon[c]], t.stack[s.mon[c]])
    BY <1>2, <1>3, <1>5, <2>1, RemoveFirstInStep
  <2>3. \A i \in Mon \ {s.mon[c]} : t.stack[i] = s.stack[i]
    BY <1>2, <1>3, <1>5, <2>1
  <2> QED BY <2>2, <2>3 DEF SameHistory, InStep
<1>10. Unmanage(s, c) = Focus(Arrange(t, s.mon[c]), NULL)
  BY DEF Unmanage, Unlink, t, u
<1>11. /\ History(s, Unmanage(s, c)) /\ SameCreates(t, Unmanage(s, c))
  BY <1>8, <1>9, <1>10, FocusArrangeHistory
<1> QED BY <1>3, <1>6, <1>11, SameCreatesTwice

LEMMA UpdateWindowTypeMon ==
  ASSUME NEW s \in State, NEW c, NEW a, NEW b
  PROVE  UpdateWindowType(s, c, a, b).mon = s.mon
<1> DEFINE float == s.isfloating[c]
           in == [s EXCEPT !.isfullscreen[c] = TRUE, !.oldstate[c] = float,
                           !.isfloating[c] = TRUE, !.shown[c] = TRUE]
           t == IF a THEN SetFullscreen(s, c, TRUE) ELSE s
<1>1. "mon" \in DOMAIN s
  BY StateDomain
<1>2. in.mon = s.mon /\ "mon" \in DOMAIN in
  BY <1>1
<1>3. t = s \/ t = in
  BY DEF SetFullscreen
<1>4. t.mon = s.mon /\ "mon" \in DOMAIN t
  <2> HIDE DEF t, in
  <2> QED BY <1>1, <1>2, <1>3
<1> HIDE DEF t
<1>5. [t EXCEPT !.isfloating[c] = TRUE].mon = s.mon
  BY <1>4
<1> QED BY <1>4, <1>5 DEF UpdateWindowType, t

\* manage() puts the new client in front of the history of monitor m.
LEMMA ManageFrame ==
  ASSUME NEW s \in State, NEW c \in Client, NEW kind \in Kind,
         NEW p \in ClientOrNull
  PROVE  LET m == IF p = NULL THEN s.selmon ELSE s.mon[p]
             t == ManageArranged(s, c, kind, p)
         IN /\ SameCreates(s, t) /\ m \in Mon
            /\ t.stack = [s.stack EXCEPT ![m] = <<c>> \o @]
<1> DEFINE m == IF p = NULL THEN s.selmon ELSE s.mon[p]
           ruled == p = NULL
           tags == IF ruled THEN RuleTags(s, m, kind) ELSE s.tags[p]
           isfloating == ruled /\ kind.isfloating
           isLeft == ruled /\ kind.isLeft
           born == [s EXCEPT !.mon[c] = m, !.tags[c] = tags,
                             !.isfloating[c] = isfloating, !.isLeft[c] = isLeft]
           typed == UpdateWindowType(born, c, kind.fullscreen, kind.dialog)
           fixed == [typed EXCEPT !.isfixed[c] = kind.isfixed]
           hinted == UpdateWmHints(fixed, c, kind.urgent, kind.neverfocus)
           float == kind.transient \/ kind.isfixed
           floated == [hinted EXCEPT !.isfloating[c] = float,
                                     !.oldstate[c] = float]
           placed == IF hinted.isfloating[c] THEN hinted ELSE floated
           linked == Link(placed, c)
           selected == [linked EXCEPT !.sel[m] = c]
<1>1. /\ kind.isfloating \in BOOLEAN /\ kind.isLeft \in BOOLEAN
      /\ kind.fullscreen \in BOOLEAN /\ kind.dialog \in BOOLEAN
      /\ kind.isfixed \in BOOLEAN /\ kind.urgent \in BOOLEAN
      /\ kind.neverfocus \in BOOLEAN /\ kind.transient \in BOOLEAN
  BY DEF Kind
<1>2. m \in Mon
  BY StateFields DEF ClientOrNull
<1>3. tags \in SUBSET Tag
  BY <1>2, StateFields, RuleTagsType DEF ClientOrNull
<1>4. isfloating \in BOOLEAN /\ isLeft \in BOOLEAN /\ float \in BOOLEAN
  BY <1>1
<1> HIDE DEF m, tags, isfloating, isLeft, float
<1>5. born \in State /\ SameFrame(s, born) /\ born.mon[c] = m
  <2>1. born \in State
    BY <1>2, <1>3, <1>4, BornType
  <2>2. SameFrame(s, born)
    BY FrameFields, ZenonT(60) DEF SameFrame, SameCreates
  <2>3. born.mon[c] = m
    BY DEF State
  <2> QED BY <2>1, <2>2, <2>3
<1> HIDE DEF born
<1>6. typed \in State /\ SameFrame(s, typed)
  BY <1>1, <1>5, UpdateWindowTypeType, PropertiesFrame, SameFrameTwice
<1>7. typed.mon[c] = m
  BY <1>5, UpdateWindowTypeMon
<1> HIDE DEF typed
<1>8. fixed \in State /\ SameFrame(s, fixed) /\ fixed.mon[c] = m
  <2>1. fixed \in State /\ SameFrame(s, fixed)
    BY <1>1, <1>6, SetFixedType, PropertiesFrame, SameFrameTwice
  <2>2. fixed.mon = typed.mon
    BY <1>6 DEF State
  <2> QED BY <1>7, <2>1, <2>2
<1> HIDE DEF fixed
<1>9. hinted \in State /\ SameFrame(s, hinted) /\ hinted.mon[c] = m
  <2>1. hinted \in State /\ SameFrame(s, hinted)
    BY <1>1, <1>8, UpdateWmHintsType, PropertiesFrame, SameFrameTwice
  <2>2. hinted.mon = fixed.mon
    BY <1>8, StateDomain, ZenonT(60) DEF UpdateWmHints
  <2> QED BY <1>8, <2>1, <2>2
<1> HIDE DEF hinted
<1>10. floated \in State /\ SameFrame(s, floated) /\ floated.mon[c] = m
  <2>1. floated \in State
    BY <1>4, <1>9, FloatedType
  <2>2. SameFrame(hinted, floated) /\ floated.mon = hinted.mon
    BY <1>9 DEF SameFrame, SameCreates, State
  <2> HIDE DEF floated
  <2> QED BY <1>9, <2>1, <2>2, SameFrameTwice
<1> HIDE DEF floated
<1>11. placed \in State /\ SameFrame(s, placed) /\ placed.mon[c] = m
  BY <1>9, <1>10
<1> HIDE DEF placed
<1>12. /\ linked \in State /\ SameCreates(s, linked)
       /\ linked.stack = [s.stack EXCEPT ![m] = <<c>> \o @]
  <2>1. linked \in State
    BY <1>11, AttachBelowType, AttachStackType DEF Link
  <2>2. /\ linked.stack = [placed.stack EXCEPT ![placed.mon[c]] = <<c>> \o @]
        /\ SameCreates(placed, linked)
    BY <1>11, LinkFields
  <2> HIDE DEF linked
  <2>3. placed.stack = s.stack /\ SameCreates(s, placed)
    BY <1>11 DEF SameFrame
  <2> QED BY <1>11, <2>1, <2>2, <2>3, SameCreatesTwice
<1> HIDE DEF linked
<1>13. SameFrame(linked, selected) /\ selected \in State
  <2>1. selected \in State
    BY <1>2, <1>12, SetSelType DEF ClientOrNull
  <2>2. SameFrame(linked, selected)
    BY <1>12 DEF SameFrame, SameCreates, State
  <2> QED BY <2>1, <2>2
<1> HIDE DEF selected
<1>14. SameFrame(linked, Arrange(selected, m))
  BY <1>13, ArrangeFrame, SameFrameTwice
<1>15. ManageArranged(s, c, kind, p) = Arrange(selected, m)
  BY DEF ManageArranged, Link, selected, linked, placed, floated,
         hinted, fixed, typed, born, m, tags, isfloating, isLeft, float
<1> DEFINE t == Arrange(selected, m)
<1>16. SameCreates(s, t) /\ t.stack = [s.stack EXCEPT ![m] = <<c>> \o @]
  <2> HIDE DEF t
  <2>1. t.stack = linked.stack /\ SameCreates(linked, t)
    BY <1>14 DEF SameFrame, t
  <2> QED BY <1>12, <2>1, SameCreatesTwice
<1> QED BY <1>2, <1>15, <1>16 DEF m

LEMMA ManageHistory ==
  ASSUME NEW s, ListInv(s), NEW c, Out(s, c), NEW kind \in Kind,
         NEW p, p = NULL \/ In(s, p)
  PROVE  /\ History(s, Manage(s, c, kind, p))
         /\ SameCreates(s, Manage(s, c, kind, p))
<1> DEFINE m == IF p = NULL THEN s.selmon ELSE s.mon[p]
           t == ManageArranged(s, c, kind, p)
<1>1. s \in State /\ c \in Client /\ p \in ClientOrNull /\ Stacked(s)
  BY DEF ListInv, Out, In, ClientOrNull, Stacked, Linked
<1>2. /\ SameCreates(s, t) /\ m \in Mon
      /\ t.stack = [s.stack EXCEPT ![m] = <<c>> \o @]
  BY <1>1, ManageFrame
<1>3. ListInv(t)
  BY ManageLinks, ArrangeInv DEF Reordered
<1> HIDE DEF t, m
<1>4. SameHistory(s, t)
  <2>1. s.stack \in [Mon -> Seq(Client)]
    BY <1>1 DEF State
  <2>2. InStep(s.stack[m], t.stack[m])
    BY <1>1, <1>2, <2>1, FrontInStep
  <2>3. \A i \in Mon \ {m} : t.stack[i] = s.stack[i]
    BY <1>2, <2>1
  <2> QED BY <2>2, <2>3 DEF SameHistory, InStep
<1>5. NULL \in ClientOrNull /\ t \in State /\ \A i \in Mon : List(t.stack[i])
  BY <1>3 DEF ClientOrNull, ListInv, Linked
<1>6. History(s, Focus(t, NULL)) /\ SameCreates(t, Focus(t, NULL))
  BY <1>4, <1>5, FocusHistory, FocusCreates
<1> QED BY <1>2, <1>6, SameCreatesTwice DEF Manage, t

-----------------------------------------------------------------------------
(* Monitors are connected and disconnected                                 *)

\* Clients move to the front of the history of the first monitor only.
Gathered(s, t) ==
  /\ SameHistory(s, t)
  /\ ToSet(s.stack[1]) \subseteq ToSet(t.stack[1])
  /\ \A m \in Mon \ {1} : ToSet(t.stack[m]) \subseteq ToSet(s.stack[m])

LEMMA GatheredSelf ==
  ASSUME NEW s, NEW t, t.stack = s.stack
  PROVE  Gathered(s, t)
BY SameStackHistory DEF Gathered

LEMMA GatheredTwice ==
  ASSUME NEW s \in State, NEW t, NEW u, Gathered(s, t), Gathered(t, u)
  PROVE  Gathered(s, u)
<1>1. 1 \in Mon /\ s.stack \in [Mon -> Seq(Client)]
  BY ConstantsAssumption DEF Mon, State
<1>2. ASSUME NEW m \in Mon, NEW a \in ToSet(u.stack[m]),
             NEW b \in ToSet(u.stack[m]), Before(s.stack[m], a, b)
      PROVE  Before(u.stack[m], a, b)
  <2>1. a \in ToSet(s.stack[m]) /\ b \in ToSet(s.stack[m])
    BY <1>1, <1>2, BeforeElements
  <2>2. a \in ToSet(t.stack[m]) /\ b \in ToSet(t.stack[m])
    BY <1>2, <2>1 DEF Gathered
  <2>3. Before(t.stack[m], a, b)
    BY <1>2, <2>2 DEF Gathered, SameHistory, InStep
  <2> QED BY <1>2, <2>3 DEF Gathered, SameHistory, InStep
<1>3. SameHistory(s, u)
  BY <1>2 DEF SameHistory, InStep
<1>4. /\ ToSet(s.stack[1]) \subseteq ToSet(u.stack[1])
      /\ \A m \in Mon \ {1} : ToSet(u.stack[m]) \subseteq ToSet(s.stack[m])
  BY DEF Gathered
<1> QED BY <1>3, <1>4 DEF Gathered

LEMMA MoveToFirstGathers ==
  ASSUME NEW s, ListInv(s), NEW c, In(s, c), s.mon[c] # 1
  PROVE  /\ Gathered(s, MoveToFirst(s, c))
         /\ SameCreates(s, MoveToFirst(s, c))
<1> DEFINE out == Unlink(s, c)
           t == [out EXCEPT !.mon[c] = 1]
           l == Link(t, c)
           m == s.mon[c]
<1>1. /\ s \in State /\ c \in Client /\ 1 \in Mon /\ m \in Mon /\ m # 1
      /\ Stacked(s) /\ \A i \in Mon : List(s.stack[i])
  BY InFacts, ConstantsAssumption DEF In, ListInv, Linked, Mon, Stacked
<1>2. /\ out \in State /\ SameCreates(s, out)
      /\ out.stack = [s.stack EXCEPT ![m] = RemoveFirst(@, c)]
  BY <1>1, DetachType, DetachStackType, LinkFields, UnlinkFields DEF Unlink
<1>3. t \in State /\ SameFrame(out, t) /\ t.mon[c] = 1
  <2> HIDE DEF out
  <2>1. t \in State
    BY <1>1, <1>2, MoveType
  <2>2. SameFrame(out, t)
    BY <1>2, FrameFields, ZenonT(60) DEF SameFrame, SameCreates
  <2>3. "mon" \in DOMAIN out /\ c \in DOMAIN out.mon
    BY <1>1, <1>2 DEF State
  <2>4. t.mon[c] = 1
    BY <2>3
  <2> QED BY <2>1, <2>2, <2>4
<1>4. MoveToFirst(s, c) = l
  BY Zenon DEF MoveToFirst, Link, Unlink, l, t, out
<1> HIDE DEF out, t
<1>5. l.stack = [out.stack EXCEPT ![1] = <<c>> \o @] /\ SameCreates(t, l)
  BY <1>1, <1>3, LinkFields DEF SameFrame
<1> HIDE DEF l, m
<1>6. SameCreates(s, l)
  BY <1>2, <1>3, <1>5 DEF SameFrame, SameCreates
<1>7. s.stack \in [Mon -> Seq(Client)]
  BY <1>1 DEF State
<1>8. /\ l.stack[m] = RemoveFirst(s.stack[m], c)
      /\ l.stack[1] = <<c>> \o s.stack[1]
      /\ \A i \in Mon \ {m, 1} : l.stack[i] = s.stack[i]
  BY <1>1, <1>2, <1>5, <1>7
<1>9. SameHistory(s, l)
  BY <1>1, <1>8, MovedHistory
<1>10. c \notin ToSet(s.stack[1])
  BY <1>1 DEF ListInv, Linked, m
<1>11. ToSet(s.stack[1]) \subseteq ToSet(l.stack[1])
  BY <1>1, <1>8, <1>10, ConsList
<1>12. ToSet(l.stack[m]) \subseteq ToSet(s.stack[m])
  BY <1>1, <1>8, RemoveFirstList
<1>13. Gathered(s, l)
  BY <1>8, <1>9, <1>11, <1>12 DEF Gathered
<1> QED BY <1>4, <1>6, <1>13

LEMMA MoveAllGathers ==
  ASSUME NEW s, ListInv(s), NEW m \in Mon, m # 1
  PROVE  Gathered(s, MoveAll(s, m)) /\ SameCreates(s, MoveAll(s, m))
<1> DEFINE q == s.clients[m]
           n == Len(q)
           Moved(r, i) == /\ ListInv(r) /\ Gathered(s, r) /\ SameCreates(s, r)
                          /\ \A j \in i + 1 .. n : In(r, q[j]) /\ r.mon[q[j]] = m
<1>1. PICK moved : MoveAll(s, m) = moved[n] /\ MovedSoFar(moved, s, q)
  BY MoveAllUnfolds DEF ListInv
<1>2. /\ List(q) /\ n \in Nat /\ s \in State
      /\ ToSet(q) = {q[i] : i \in 1 .. n}
      /\ \A i, j \in 1 .. n : q[i] = q[j] => i = j
  BY ListFacts DEF ListInv, Linked
<1>3. moved[0] = s /\ \A i \in 1 .. n : moved[i] = MoveToFirst(moved[i - 1], q[i])
  BY <1>1 DEF MovedSoFar
<1>4. Moved(s, 0)
  <2>1. \A j \in 1 .. n : In(s, q[j]) /\ s.mon[q[j]] = m
    BY <1>2, InOfMonitor
  <2>2. Gathered(s, s) /\ SameCreates(s, s)
    BY GatheredSelf DEF SameCreates
  <2> HIDE DEF n, q
  <2> QED BY <1>2, <2>1, <2>2
<1>5. ASSUME NEW i \in 1 .. n, NEW r, Moved(r, i - 1)
      PROVE  Moved(MoveToFirst(r, q[i]), i)
  <2> DEFINE c == q[i]
             t == MoveToFirst(r, c)
  <2>1. ListInv(r) /\ In(r, c) /\ r.mon[c] = m
    BY <1>2, <1>5
  <2>2. ListInv(t) /\ OthersStay(r, t, c)
    BY <2>1, MoveToFirstInv
  <2>3. Gathered(r, t) /\ SameCreates(r, t)
    BY <2>1, MoveToFirstGathers
  <2>4. Gathered(s, t) /\ SameCreates(s, t)
    BY <1>2, <1>5, <2>3, GatheredTwice, SameCreatesTwice
  <2>5. ASSUME NEW j \in i + 1 .. n
        PROVE  In(t, q[j]) /\ t.mon[q[j]] = m
    <3>1. j \in 1 .. n /\ j # i /\ j \in i .. n
      BY <1>2
    <3>2. q[j] # c /\ In(r, q[j]) /\ r.mon[q[j]] = m
      BY <1>2, <1>5, <3>1
    <3> HIDE DEF c, t, q
    <3>3. In(t, q[j])
      BY <2>1, <2>2, <3>2, OthersIn DEF ListInv
    <3> QED BY <2>2, <3>2, <3>3 DEF OthersStay, In
  <2>6. Moved(t, i)
    BY <2>2, <2>4, <2>5
  <2> QED BY <2>6
<1> HIDE DEF n, q, Moved
<1> DEFINE T == {i \in 0 .. n : Moved(moved[i], i)}
<1>6. 0 \in T
  BY <1>2, <1>3, <1>4
<1>7. ASSUME NEW i \in 1 .. n, i - 1 \in T
      PROVE  i \in T
  BY <1>2, <1>3, <1>5, <1>7
<1>8. \A i \in 0 .. n : i \in T
  <2> HIDE DEF T
  <2> QED BY <1>2, <1>6, <1>7, InductionUpTo
<1>9. Moved(moved[n], n)
  BY <1>2, <1>8
<1> QED BY <1>1, <1>9 DEF Moved, n, q

\* The next monitor in the place of m creates its windows in view.
LEMMA CleanupMonCreates ==
  ASSUME NEW s \in State, NEW m \in Mon
  PROVE  LET t == CleanupMon(s, m)
         IN /\ t.stack = s.stack /\ Creates(t, m)
            /\ \A i \in Mon : Creates(s, i) => Creates(t, i)
<1> DEFINE new == InitialState(1, 1)
           t == CleanupMon(s, m)
<1>1. /\ new.tagset = [i \in Mon |-> [k \in Slot |-> {0}]]
      /\ new.createtag = [i \in Mon |-> [k \in Slot |-> 0]]
  BY DEF InitialState
<1>2. new.tagset[m] = [k \in Slot |-> {0}] /\ new.createtag[m] = [k \in Slot |-> 0]
  BY <1>1
<1> HIDE DEF new
<1>3. {"stack", "tagset", "seltags", "createtag"} \subseteq DOMAIN s
  BY StateDomain
<1>4. t.stack = s.stack
  BY <1>3, ZenonT(60) DEF CleanupMon
<1>5. t.tagset = [s.tagset EXCEPT ![m] = new.tagset[m]]
  BY <1>3, ZenonT(60) DEF CleanupMon, new
<1>6. t.seltags = [s.seltags EXCEPT ![m] = 0]
  BY <1>3, ZenonT(60) DEF CleanupMon
<1>7. t.createtag = [s.createtag EXCEPT ![m] = new.createtag[m]]
  BY <1>3, ZenonT(60) DEF CleanupMon, new
<1> HIDE DEF t
<1>8. DOMAIN s.tagset = Mon /\ DOMAIN s.seltags = Mon /\ DOMAIN s.createtag = Mon
  BY DEF State
<1>9. /\ t.seltags[m] = 0 /\ t.tagset[m] = [k \in Slot |-> {0}]
      /\ t.createtag[m] = [k \in Slot |-> 0]
  BY <1>2, <1>5, <1>6, <1>7, <1>8
<1>10. \A i \in Mon \ {m} : /\ t.seltags[i] = s.seltags[i]
                            /\ t.tagset[i] = s.tagset[i]
                            /\ t.createtag[i] = s.createtag[i]
  BY <1>5, <1>6, <1>7, <1>8
<1>11. Creates(t, m)
  <2>1. 0 \in Slot
    BY DEF Slot
  <2> QED BY <1>9, <2>1 DEF Creates, ViewOf
<1>12. \A i \in Mon : Creates(s, i) => Creates(t, i)
  BY <1>10, <1>11 DEF Creates, ViewOf
<1> QED BY <1>4, <1>11, <1>12 DEF t

LEMMA RemoveMonGathers ==
  ASSUME NEW s, ListInv(s), s.nmon # 1
  PROVE  LET t == RemoveMon(s)
         IN /\ Gathered(s, t) /\ Creates(t, s.nmon)
            /\ \A i \in Mon : Creates(s, i) => Creates(t, i)
<1> DEFINE m == s.nmon
           k == m - 1
           empty == MoveAll(s, m)
           sel == IF empty.selmon = m THEN 1 ELSE empty.selmon
           left == [empty EXCEPT !.selmon = sel, !.nmon = k]
           t == CleanupMon(left, m)
<1>1. s \in State /\ m \in Mon /\ k \in Mon /\ 1 \in Mon
  BY StateFields, ConstantsAssumption DEF ListInv, Mon
<1>2. empty \in State /\ Gathered(s, empty) /\ SameCreates(s, empty)
  BY <1>1, MoveAllType, MoveAllGathers
<1> HIDE DEF k, empty
<1>3. sel \in Mon
  BY <1>1, <1>2 DEF State
<1> HIDE DEF m, sel
<1>4. left \in State
  BY <1>1, <1>2, <1>3, ZenonT(60) DEF State
<1>5. /\ left.stack = empty.stack /\ left.tagset = empty.tagset
      /\ left.seltags = empty.seltags /\ left.createtag = empty.createtag
  BY <1>2 DEF State
<1> HIDE DEF left
<1>6. /\ t.stack = left.stack /\ Creates(t, m)
      /\ \A i \in Mon : Creates(left, i) => Creates(t, i)
  BY <1>1, <1>4, CleanupMonCreates
<1> HIDE DEF t
<1>7. Gathered(s, t)
  BY <1>2, <1>5, <1>6 DEF Gathered, SameHistory
<1>8. \A i \in Mon : Creates(s, i) => Creates(left, i)
  BY <1>2, <1>5 DEF SameCreates, Creates, ViewOf
<1> QED BY <1>6, <1>7, <1>8 DEF RemoveMon, t, left, sel, k, empty, m

LEMMA RemoveMonsGather ==
  ASSUME NEW s, ListInv(s), NEW k \in Nat, k < s.nmon
  PROVE  LET t == RemoveMons(s, k)
         IN /\ Gathered(s, t)
            /\ \A i \in Mon : Creates(s, i) => Creates(t, i)
            /\ \A i \in Mon : s.nmon - k < i /\ i <= s.nmon => Creates(t, i)
<1> DEFINE n == s.nmon
           Removed(t, j) ==
             /\ ListInv(t) /\ Gathered(s, t)
             /\ \A i \in Mon : Creates(s, i) => Creates(t, i)
             /\ \A i \in Mon : n - j < i /\ i <= n => Creates(t, i)
<1>1. s \in State /\ n \in Nat /\ Mon \subseteq Nat /\ n \in Mon
  BY StateFields, ConstantsAssumption DEF ListInv, Mon
<1>2. PICK removed : /\ RemoveMons(s, k) = removed[k]
                     /\ RemovedSoFar(removed, s, k)
  BY <1>1, RemoveMonsUnfolds
<1> DEFINE T == {j \in 0 .. k : Removed(removed[j], j)}
<1>3. 0 \in T
  <2>1. removed[0] = s
    BY <1>2 DEF RemovedSoFar
  <2>2. \A i \in Mon : ~(n - 0 < i /\ i <= n)
    BY <1>1
  <2>3. Gathered(s, s)
    BY GatheredSelf
  <2> QED BY <2>1, <2>2, <2>3
<1>4. ASSUME NEW j \in 1 .. k, j - 1 \in T
      PROVE  j \in T
  <2> DEFINE r == removed[j - 1]
             t == removed[j]
  <2>1. t = RemoveMon(r) /\ r.nmon = n - (j - 1)
    BY <1>2 DEF RemovedSoFar
  <2>2. r.nmon # 1 /\ n - (j - 1) = n - j + 1
    BY <1>1, <2>1
  <2>3. Removed(r, j - 1)
    BY <1>4
  <2>4. ListInv(t)
    BY <2>1, <2>2, <2>3, RemoveMonInv
  <2>5. /\ Gathered(r, t) /\ Creates(t, n - (j - 1))
        /\ \A i \in Mon : Creates(r, i) => Creates(t, i)
    BY <2>1, <2>2, <2>3, RemoveMonGathers
  <2>6. Gathered(s, t)
    BY <1>1, <2>3, <2>5, GatheredTwice
  <2>7. \A i \in Mon : Creates(s, i) => Creates(t, i)
    BY <2>3, <2>5
  <2>8. \A i \in Mon : n - j < i /\ i <= n => Creates(t, i)
    <3> SUFFICES ASSUME NEW i \in Mon, n - j < i, i <= n
                 PROVE  Creates(t, i)
      OBVIOUS
    <3>1. i \in Nat /\ (i = n - (j - 1) \/ n - (j - 1) < i)
      BY <1>1
    <3> QED BY <2>3, <2>5, <3>1
  <2> QED BY <2>4, <2>6, <2>7, <2>8
<1>5. \A j \in 0 .. k : j \in T
  <2> HIDE DEF T
  <2> QED BY <1>3, <1>4, InductionUpTo
<1>6. Removed(removed[k], k)
  BY <1>5
<1> QED BY <1>2, <1>6

\* Monitors that are not connected would create windows in view.
SparesCreate(s) == \A m \in Mon : s.nmon < m => Creates(s, m)

LEMMA ConfigureNotifyHistory ==
  ASSUME NEW s, ListInv(s), NEW n \in Mon, NEW p \in 1 .. n
  PROVE  LET t == ConfigureNotify(s, n, p)
         IN /\ History(s, t)
            /\ \A m \in Mon : Creates(s, m) => Creates(t, m)
            /\ SparesCreate(s) => SparesCreate(t)
<1> DEFINE more == [s EXCEPT !.nmon = n]
           t == IF n >= s.nmon THEN more ELSE RemoveMons(s, s.nmon - n)
           dirty == n >= s.nmon \/ \E m \in n + 1 .. s.nmon : s.clients[m] # << >>
           sel == IF dirty THEN p ELSE t.selmon
           u == [t EXCEPT !.selmon = sel]
           Kept(r) == /\ \A m \in Mon : Creates(s, m) => Creates(r, m)
                      /\ SparesCreate(s) => SparesCreate(r)
<1>1. s \in State /\ s.nmon \in Mon /\ s.nmon \in Nat /\ n \in Nat /\ p \in Mon
      /\ p <= n /\ Mon \subseteq Nat
  BY StateFields, ConstantsAssumption DEF ListInv, Mon
<1>2. ASSUME n >= s.nmon
      PROVE  /\ ListInv(more) /\ more.nmon = n
             /\ Gathered(s, more) /\ Kept(more)
  <2>1. more \in State
    BY <1>1, SetNMonType
  <2>2. /\ more.clients = s.clients /\ more.stack = s.stack
        /\ more.mon = s.mon /\ more.sel = s.sel /\ more.selmon = s.selmon
        /\ more.nmon = n /\ more.tagset = s.tagset
        /\ more.seltags = s.seltags /\ more.createtag = s.createtag
    BY <1>1 DEF State
  <2> HIDE DEF more
  <2>3. Connected(more)
    <3>1. s.selmon <= s.nmon /\ s.selmon \in Nat
      BY <1>1, StateFields, ConstantsAssumption DEF ListInv, Connected, Mon
    <3>2. \A i \in Mon : n < i => s.nmon < i
      BY <1>1, <1>2, ConstantsAssumption DEF Mon
    <3> QED BY <1>1, <1>2, <2>2, <3>1, <3>2 DEF ListInv, Connected
  <2>4. \A m \in Mon : Creates(more, m) = Creates(s, m)
    BY <2>2 DEF Creates, ViewOf
  <2>5. \A m \in Mon : n < m => s.nmon < m
    BY <1>1, <1>2
  <2>6. Gathered(s, more)
    BY <2>2, GatheredSelf
  <2> QED BY <2>1, <2>2, <2>3, <2>4, <2>5, <2>6
          DEF ListInv, Linked, Owned, SparesCreate
<1>3. ASSUME ~(n >= s.nmon)
      PROVE  LET r == RemoveMons(s, s.nmon - n)
             IN ListInv(r) /\ r.nmon = n /\ Gathered(s, r) /\ Kept(r)
  <2> DEFINE k == s.nmon - n
             r == RemoveMons(s, k)
  <2>1. k \in Nat /\ k < s.nmon /\ s.nmon - k = n
    BY <1>1, <1>3
  <2> HIDE DEF k
  <2>2. ListInv(r) /\ r.nmon = s.nmon - k
    BY <2>1, RemoveMonsInv
  <2>3. /\ Gathered(s, r)
        /\ \A i \in Mon : Creates(s, i) => Creates(r, i)
        /\ \A i \in Mon : s.nmon - k < i /\ i <= s.nmon => Creates(r, i)
    BY <2>1, RemoveMonsGather
  <2>4. \A i \in Mon : n < i => s.nmon < i \/ (n < i /\ i <= s.nmon)
    BY <1>1
  <2> HIDE DEF r
  <2>5. SparesCreate(s) => SparesCreate(r)
    BY <2>1, <2>2, <2>3, <2>4 DEF SparesCreate
  <2>6. ListInv(r) /\ r.nmon = n /\ Gathered(s, r) /\ Kept(r)
    BY <2>1, <2>2, <2>3, <2>5
  <2> QED BY <2>6 DEF r, k
<1>4. ListInv(t) /\ t.nmon = n /\ Gathered(s, t) /\ Kept(t)
  BY <1>2, <1>3
<1> HIDE DEF t, dirty
<1>5. sel \in Mon /\ sel <= n
  BY <1>1, <1>4, StateFields DEF ListInv, Connected
<1> HIDE DEF sel
<1>6. ListInv(u)
  BY <1>4, <1>5, SetSelmonInv DEF Reordered
<1>7. u.stack = t.stack /\ SameCreates(t, u)
  <2>1. t \in State
    BY <1>4 DEF ListInv
  <2> QED BY <2>1, FrameFields, ZenonT(60) DEF SameCreates
<1> HIDE DEF u
<1>8. SameHistory(s, u)
  BY <1>4, <1>7 DEF Gathered, SameHistory
<1> DEFINE v == ArrangeAll(Focus(u, NULL))
<1>9. History(s, v) /\ SameCreates(u, v)
  BY <1>6, <1>8, FocusArrangeHistory
<1> HIDE DEF v
<1>10. SameCreates(t, v)
  BY <1>7, <1>9, SameCreatesTwice
<1>11. v.nmon = t.nmon /\ \A m \in Mon : Creates(v, m) = Creates(t, m)
  BY <1>10 DEF SameCreates, Creates, ViewOf
<1>12. Kept(v)
  BY <1>4, <1>11 DEF SparesCreate
<1> QED BY <1>9, <1>12 DEF ConfigureNotify, v, u, sel, dirty, t, more

-----------------------------------------------------------------------------
(* The focus history and the create tags in every step                     *)

\* What FocusHistoryKept and CreateTagFollows say of a step.
Mindful(s, t) ==
  /\ Remembers(s, t)
  /\ \A m \in Mon : Creates(s, m) => Creates(t, m)
  /\ SparesCreate(s) => SparesCreate(t)

LEMMA HistoryMindful ==
  ASSUME NEW s, NEW t, History(s, t) \/ Remembers(s, t),
         SameCreates(s, t) \/ KeepsCreates(s, t)
  PROVE  Mindful(s, t)
<1>1. Remembers(s, t) /\ KeepsCreates(s, t)
  BY HistoryRemembers, SameCreatesKeeps
<1>2. t.nmon = s.nmon /\ \A m \in Mon : Creates(s, m) => Creates(t, m)
  BY <1>1 DEF KeepsCreates, KeepsCreatesBut
<1> QED BY <1>1, <1>2 DEF Mindful, SparesCreate

LEMMA OneFocusMindful ==
  ASSUME NEW s, Stacked(s), NEW t, OneFocus(s, t) \/ SameFrame(s, t)
  PROVE  Mindful(s, t)
<1>1. OneFocus(s, t)
  BY DEF OneFocus
<1> QED BY <1>1, OneFocusKeeps, HistoryMindful

\* view() and toggleview() may leave the create tag behind, on a monitor that
\* is connected.
LEMMA ViewRemembers ==
  ASSUME NEW s, ListInv(s), NEW ui \in SUBSET Tag,
         NEW t, t = View(s, ui) \/ t = ToggleView(s, ui)
  PROVE  Remembers(s, t) /\ (SparesCreate(s) => SparesCreate(t))
<1>1. Stacked(s) /\ s \in State /\ s.selmon <= s.nmon
  BY DEF ListInv, Linked, Connected, Stacked
<1>2. History(s, t) /\ KeepsCreatesBut(s, t, {s.selmon})
  BY <1>1, ViewHistory
<1>3. \A m \in Mon : s.nmon < m => m # s.selmon
  BY <1>1, StateFields, ConstantsAssumption DEF Mon
<1>4. SparesCreate(s) => SparesCreate(t)
  BY <1>2, <1>3 DEF KeepsCreatesBut, SparesCreate
<1> QED BY <1>2, <1>4, HistoryRemembers

\* A click that focuses and then makes the client float or tiled.
LEMMA ButtonPressMindful ==
  ASSUME NEW s, Good(s), NEW c, In(s, c)
  PROVE  /\ Mindful(s, ButtonPress(s, c))
         /\ Mindful(s, ToggleFloating(ButtonPress(s, c)))
<1> DEFINE u == ButtonPress(s, c)
           t == ToggleFloating(u)
<1>1. Remembers(s, u) /\ SameCreates(s, u)
  BY ButtonPressRemembers
<1>2. Good(u)
  BY EnterCalm DEF Calm
<1> HIDE DEF u
<1>3. SameFrame(u, t) /\ t.sel = u.sel
  BY <1>2, GoodFacts, ToggleFrame
<1>4. SameTags(u, t) /\ t.mon = u.mon
  BY <1>2, ToggleCalm DEF Calm, Reordered, SamePlaces
<1> HIDE DEF t
<1>5. \A a : Visible(t, a) = Visible(u, a)
  BY <1>4 DEF SameTags, Visible, ViewOf
<1>6. Remembers(s, t)
  BY <1>1, <1>3, <1>5 DEF SameFrame, Remembers
<1>7. SameCreates(s, t)
  BY <1>1, <1>3, SameCreatesTwice DEF SameFrame
<1> QED BY <1>1, <1>6, <1>7, HistoryMindful DEF u, t

\* Each command and each event but view() and toggleview().
LEMMA NextMindful ==
  ASSUME ClientsInv, Next, ~ViewCmd, ~ToggleViewCmd
  PROVE  Mindful(wm, wm')
<1>1. Good(wm)
  BY NextNotLost DEF ClientsInv
<1>2. wm \in State /\ ListInv(wm) /\ Stacked(wm)
  BY <1>1, GoodFacts DEF Stacked, ListInv, Linked
<1>3. \A c \in Managed(wm) : c \in Client /\ In(wm, c)
  BY <1>2, ManagedIn, ManagedType
<1>4. \A m \in Mons(wm) : m \in Mon /\ m <= wm.nmon
  BY <1>2, StateFields, ConstantsAssumption DEF Mons, Mon
<1>5. ASSUME NEW t, wm' = t, OneFocus(wm, t) \/ SameFrame(wm, t)
      PROVE  Mindful(wm, wm')
  BY <1>2, <1>5, OneFocusMindful
<1>6. ASSUME NEW t, wm' = t, History(wm, t),
             SameCreates(wm, t) \/ KeepsCreates(wm, t)
      PROVE  Mindful(wm, wm')
  BY <1>6, HistoryMindful
<1>7. CASE ComboViewCmd
  BY <1>1, <1>6, <1>7, ComboViewHistory DEF ComboViewCmd
<1>8. CASE KeyReleaseEvent
  <2>1. SameFrame(wm, KeyRelease(wm))
    BY <1>2, FrameFields, ZenonT(60) DEF KeyRelease, SameFrame, SameCreates
  <2> QED BY <1>5, <1>8, <2>1 DEF KeyReleaseEvent
<1>9. CASE ComboTagCmd \/ TagCmd \/ ToggleTagCmd
  <2>1. \A t \in Tag : {t} \in SUBSET Tag
    OBVIOUS
  <2> QED BY <1>2, <1>5, <1>9, <2>1, TagsStep
          DEF ComboTagCmd, TagCmd, ToggleTagCmd
<1>10. CASE FocusStackCmd \/ ZoomCmd \/ PushDownCmd \/ PushUpCmd
  BY <1>2, <1>5, <1>10, RelinksStep
     DEF FocusStackCmd, ZoomCmd, PushDownCmd, PushUpCmd
<1>11. CASE PushLeftCmd
  BY <1>2, <1>5, <1>11, PushLeftStep DEF PushLeftCmd
<1>12. CASE IncNMasterCmd \/ SetLayoutCmd
  <2>1. (\A i \in {1, -1} : i \in Int) /\ 0 \in Int
    OBVIOUS
  <2>2. "toggle" \in Layout \cup {"toggle"}
    OBVIOUS
  <2> QED BY <1>2, <1>5, <1>12, <2>1, <2>2, LayoutStep
          DEF IncNMasterCmd, SetLayoutCmd
<1>13. CASE ToggleFloatingCmd \/ ToggleFullscrCmd
  BY <1>2, <1>5, <1>13, ToggleFrame DEF ToggleFloatingCmd, ToggleFullscrCmd
<1>14. ASSUME NEW m \in Mon, NEW dir
       PROVE  /\ OneFocus(wm, FocusMon(wm, dir))
              /\ \A c \in Client : OneFocus(wm, EnterClient(wm, c))
              /\ OneFocus(wm, EnterRoot(wm, m))
              /\ OneFocus(wm, MotionNotify(wm, m))
  BY <1>2, PointerStep
<1>15. CASE FocusMonCmd
  <2>1. PICK dir \in {1, -1} : wm' = FocusMon(wm, dir)
    BY <1>15 DEF FocusMonCmd
  <2>2. wm.selmon \in Mon
    BY <1>2, StateFields
  <2>3. OneFocus(wm, FocusMon(wm, dir))
    BY <1>14, <2>2
  <2> QED BY <1>5, <2>1, <2>3
<1>16. CASE TagMonCmd
  BY <1>2, <1>6, <1>16, TagMonHistory DEF TagMonCmd
<1>17. CASE EnterNotifyEvent
  <2>1. 1 \in Mon
    BY ConstantsAssumption DEF Mon
  <2>2. ASSUME NEW c \in Managed(wm), wm' = EnterClient(wm, c)
        PROVE  Mindful(wm, wm')
    BY <1>3, <1>5, <1>14, <2>1, <2>2
  <2>3. ASSUME NEW m \in Mons(wm), wm' = EnterRoot(wm, m)
        PROVE  Mindful(wm, wm')
    BY <1>4, <1>5, <1>14, <2>3
  <2> QED BY <1>17, <2>2, <2>3 DEF EnterNotifyEvent
<1>18. CASE MotionNotifyEvent
  BY <1>4, <1>5, <1>14, <1>18 DEF MotionNotifyEvent
<1>19. CASE ButtonPressEvent
  BY <1>1, <1>3, <1>19, ButtonPressMindful DEF ButtonPressEvent
<1>20. CASE ConfigureNotifyEvent
  <2>1. PICK n \in Mon : \E p \in 1 .. n : wm' = ConfigureNotify(wm, n, p)
    BY <1>20 DEF ConfigureNotifyEvent
  <2> QED BY <1>2, <2>1, ConfigureNotifyHistory, HistoryRemembers DEF Mindful
<1>21. CASE MapRequestEvent
  <2>1. PICK c \in Client \ Managed(wm), kind \in Kinds,
             p \in {NULL} \cup Managed(wm) : wm' = Manage(wm, c, kind, p)
    BY <1>21 DEF MapRequestEvent
  <2>2. Out(wm, c) /\ kind \in Kind /\ (p = NULL \/ In(wm, p))
    BY <1>2, <1>3, ManagedIn, WindowManagerAssumption
  <2> QED BY <1>2, <1>6, <2>1, <2>2, ManageHistory
<1>22. CASE UnmapOrDestroyEvent
  BY <1>2, <1>3, <1>6, <1>22, UnmanageHistory DEF UnmapOrDestroyEvent
<1>23. CASE FullscreenMessage
  BY <1>2, <1>3, <1>5, <1>23, SetFullscreenFrame DEF FullscreenMessage
<1>24. ASSUME NEW c \in Client, NEW a \in BOOLEAN, NEW b \in BOOLEAN
       PROVE  /\ wm' = UpdateWindowType(wm, c, a, b) => Mindful(wm, wm')
              /\ wm' = TransientFor(wm, c, a) => Mindful(wm, wm')
              /\ wm' = UpdateWmHints(wm, c, a, b) => Mindful(wm, wm')
              /\ wm' = ActiveWindowMessage(wm, c) => Mindful(wm, wm')
              /\ wm' = [wm EXCEPT !.isfixed[c] = a] => Mindful(wm, wm')
              /\ wm' = FocusIn(wm, c) => Mindful(wm, wm')
  BY <1>2, <1>5, PropertiesFrame
<1>25. CASE ActiveWindowEvent
  BY <1>3, <1>24, <1>25 DEF ActiveWindowEvent
<1>26. CASE WindowTypeChange
  BY <1>3, <1>24, <1>26 DEF WindowTypeChange
<1>27. CASE WmHintsChange
  BY <1>3, <1>24, <1>27 DEF WmHintsChange
<1>28. CASE SizeHintsChange
  BY <1>3, <1>24, <1>28 DEF SizeHintsChange
<1>29. CASE TransientForChange
  BY <1>3, <1>24, <1>29 DEF TransientForChange
<1>30. CASE FocusInEvent
  <2>1. wm.focusin \subseteq Client
    BY <1>2 DEF State
  <2> QED BY <1>24, <1>30, <2>1 DEF FocusInEvent
<1>31. CASE WindowGone \/ TakeFocus
  <2>1. SameFrame(wm, wm')
    BY <1>2, <1>31, FrameFields, ZenonT(60)
       DEF WindowGone, TakeFocus, SameFrame, SameCreates
  <2> QED BY <1>2, <2>1, OneFocusMindful
<1>32. CASE LateFocusInEvent
  <2>1. PICK c \in Managed(wm) :
          wm' = [FocusIn(wm, c) EXCEPT !.focusin = wm.focusin]
    BY <1>32 DEF LateFocusInEvent
  <2> DEFINE f == FocusIn(wm, c)
  <2>2. f \in State /\ SameFrame(wm, f)
    BY <1>2, <1>3, FocusInType, PropertiesFrame
  <2> HIDE DEF f
  <2>3. SameFrame(f, wm')
    BY <2>1, <2>2, FrameFields, ZenonT(60) DEF SameFrame, SameCreates, f
  <2>4. SameFrame(wm, wm')
    BY <2>2, <2>3, SameFrameTwice
  <2> QED BY <1>2, <2>4, OneFocusMindful
<1> QED BY <1>7, <1>8, <1>9, <1>10, <1>11, <1>12, <1>13, <1>15, <1>16, <1>17,
           <1>18, <1>19, <1>20, <1>21, <1>22, <1>23, <1>25, <1>26, <1>27,
           <1>28, <1>29, <1>30, <1>31, <1>32 DEF Next

LEMMA InitSpares == Init => SparesCreate(wm)
<1> SUFFICES ASSUME NEW n \in Mon, NEW m \in 1 .. n, wm = InitialState(n, m),
                    NEW i \in Mon
             PROVE  Creates(wm, i)
  BY DEF Init, SparesCreate
<1>1. /\ wm.createtag[i] = [k \in Slot |-> 0] /\ wm.seltags[i] = 0
      /\ wm.tagset[i] = [k \in Slot |-> {0}]
  BY DEF InitialState
<1>2. wm.createtag[i][0] = 0 /\ wm.tagset[i][0] = {0}
  BY <1>1 DEF Slot
<1> QED BY <1>1, <1>2 DEF Creates, ViewOf

LEMMA NextSpares ==
  ClientsInv /\ SparesCreate(wm) /\ [Next]_wm => SparesCreate(wm)'
<1> SUFFICES ASSUME ClientsInv, SparesCreate(wm), [Next]_wm
             PROVE  SparesCreate(wm')
  BY DEF SparesCreate, Creates, ViewOf
<1>1. CASE UNCHANGED wm
  BY <1>1
<1>2. CASE Next /\ (ViewCmd \/ ToggleViewCmd)
  <2>1. ListInv(wm)
    BY <1>2, NextNotLost, GoodFacts DEF ClientsInv
  <2> QED BY <1>2, <2>1, ViewRemembers DEF ViewCmd, ToggleViewCmd
<1>3. CASE Next /\ ~ViewCmd /\ ~ToggleViewCmd
  BY <1>3, NextMindful DEF Mindful
<1> QED BY <1>1, <1>2, <1>3

\* Each step, view() and toggleview() too, keeps the order of the history.
LEMMA NextRemembers ==
  ASSUME ClientsInv, Next
  PROVE  Remembers(wm, wm')
<1>1. CASE ViewCmd \/ ToggleViewCmd
  <2>1. ListInv(wm)
    BY NextNotLost, GoodFacts DEF ClientsInv
  <2> QED BY <1>1, <2>1, ViewRemembers DEF ViewCmd, ToggleViewCmd
<1>2. CASE ~ViewCmd /\ ~ToggleViewCmd
  BY <1>2, NextMindful DEF Mindful
<1> QED BY <1>1, <1>2

\* The order in which clients that stay on a monitor were focused is never
\* forgotten: not by arranging or reordering lists, by disconnected monitors or
\* by windows that come and go. Only the selected client moves, to the front.
THEOREM HistoryStays == Spec => FocusHistoryKept
<1>1. ClientsInv /\ [Next]_wm =>
        [\A m \in Mon :
           LET kept == (ToSet(wm.stack[m]) \cap ToSet((wm').stack[m]))
                         \ {(wm').sel[m]}
           IN \A a, b \in kept :
                Visible(wm', a) /\ Before(wm.stack[m], a, b) =>
                  Before((wm').stack[m], a, b)]_wm
  BY NextRemembers DEF Remembers
<1> QED BY <1>1, InitClients, NextClients, PTL DEF Spec, FocusHistoryKept

\* manage() gives new clients the monitor's create tag, and that tag stays in
\* view, so that new clients show: the chords of comboview() see to it, and a
\* monitor that is connected comes with its create tag in view (SparesCreate).
\* Every step but view() and toggleview() keeps it so.
THEOREM CreateTagStays == Spec => CreateTagFollows
<1> DEFINE Inv == ClientsInv /\ SparesCreate(wm)
<1>1. Init => Inv
  BY InitClients, InitSpares
<1>2. Inv /\ [Next]_wm => Inv'
  BY NextClients, NextSpares
<1>3. Inv /\ [Next]_wm =>
        [CreateTagInView => CreateTagInView' \/ ViewCmd \/ ToggleViewCmd]_wm
  <2> SUFFICES ASSUME ClientsInv, SparesCreate(wm), Next, ~ViewCmd,
                      ~ToggleViewCmd, CreateTagInView
               PROVE  CreateTagInView'
    OBVIOUS
  <2>1. wm \in State /\ wm.nmon \in Mon
    BY NextNotLost, GoodFacts, StateFields DEF ClientsInv
  <2>2. \A m \in Mon : Creates(wm, m)
    BY <2>1, ConstantsAssumption
       DEF CreateTagInView, Creates, SparesCreate, Mons, Mon
  <2>3. \A m \in Mon : Creates(wm', m)
    BY <2>2, NextMindful DEF Mindful
  <2>4. wm' \in State
    BY NextClients DEF ClientsInv, Ended, Settled
  <2>5. \A m \in Mons(wm') : m \in Mon
    BY <2>4, StateFields, ConstantsAssumption DEF Mons, Mon
  <2> QED BY <2>3, <2>5 DEF CreateTagInView, Creates
<1>4. Spec => [](ClientsInv /\ SparesCreate(wm))
  BY <1>1, <1>2, PTL DEF Spec
<1> QED BY <1>3, <1>4, PTL DEF Spec, CreateTagFollows

-----------------------------------------------------------------------------
(* focusstack() goes round                                                 *)

\* e lists the places of the clients of q that are in S, from the front.
Places(e, n, q, S) ==
  /\ n \in Nat /\ e \in [1 .. n -> 1 .. Len(q)]
  /\ \A j, k \in 1 .. n : j < k => e[j] < e[k]
  /\ \A i \in 1 .. Len(q) : q[i] \in S <=> \E k \in 1 .. n : e[k] = i

\* There are as many as there are such clients.
LEMMA PlacesExist ==
  ASSUME NEW q, List(q), NEW S
  PROVE  \E e : Places(e, Cardinality(ToSet(q) \cap S), q, S)
<1> DEFINE N == Len(q)
           Of(i) == {q[j] : j \in 1 .. i} \cap S
           UpTo(e, n, i) ==
             /\ n \in Nat /\ e \in [1 .. n -> 1 .. i]
             /\ \A j, k \in 1 .. n : j < k => e[j] < e[k]
             /\ \A j \in 1 .. i : q[j] \in S <=> \E k \in 1 .. n : e[k] = j
           T == {i \in 0 .. N : /\ IsFiniteSet(Of(i))
                                /\ \E e : UpTo(e, Cardinality(Of(i)), i)}
<1>1. /\ N \in Nat /\ ToSet(q) = {q[i] : i \in 1 .. N}
      /\ \A i, j \in 1 .. N : q[i] = q[j] => i = j
  BY ListFacts
<1>2. 0 \in T
  <2>1. Of(0) = {} /\ 0 \in 0 .. N
    BY <1>1
  <2>2. IsFiniteSet(Of(0)) /\ Cardinality(Of(0)) = 0
    BY <2>1, FS_EmptySet
  <2>3. UpTo([k \in 1 .. 0 |-> 1], 0, 0)
    OBVIOUS
  <2> HIDE DEF Of, UpTo
  <2> QED BY <2>1, <2>2, <2>3
<1>3. ASSUME NEW i \in 1 .. N, i - 1 \in T
      PROVE  i \in T
  <2> DEFINE n == Cardinality(Of(i - 1))
  <2>1. IsFiniteSet(Of(i - 1)) /\ i \in 0 .. N /\ i \in Nat /\ i >= 1
    BY <1>1, <1>3
  <2>2. PICK e : UpTo(e, n, i - 1)
    BY <1>3
  <2>3. Of(i) = IF q[i] \in S THEN Of(i - 1) \cup {q[i]} ELSE Of(i - 1)
    <3>1. 1 .. i = (1 .. i - 1) \cup {i}
      BY <2>1
    <3> QED BY <3>1
  <2>4. CASE q[i] \notin S
    <3>1. UpTo(e, n, i)
      <4>1. e \in [1 .. n -> 1 .. i] /\ n \in Nat
        BY <2>1, <2>2
      <4>2. \A k \in 1 .. n : e[k] # i
        BY <2>1, <2>2
      <4>3. \A j \in 1 .. i : j \in 1 .. i - 1 \/ j = i
        BY <2>1
      <4>4. \A j \in 1 .. i : q[j] \in S <=> \E k \in 1 .. n : e[k] = j
        BY <2>2, <2>4, <4>2, <4>3
      <4> QED BY <2>2, <4>1, <4>4
    <3>2. Of(i) = Of(i - 1)
      BY <2>3, <2>4
    <3> HIDE DEF Of, UpTo
    <3> QED BY <2>1, <3>1, <3>2
  <2>5. CASE q[i] \in S
    <3> DEFINE f == [k \in 1 .. n + 1 |-> IF k = n + 1 THEN i ELSE e[k]]
    <3>1. n \in Nat /\ \A k \in 1 .. n : e[k] \in 1 .. i - 1
      BY <2>2
    <3> HIDE DEF n
    <3>2. f \in [1 .. n + 1 -> 1 .. i]
      BY <2>1, <3>1
    <3>3. ASSUME NEW j \in 1 .. n + 1, NEW k \in 1 .. n + 1, j < k
          PROVE  f[j] < f[k]
      <4>1. j \in 1 .. n /\ f[j] = e[j]
        BY <3>1, <3>3
      <4>2. CASE k = n + 1
        BY <2>1, <3>1, <4>1, <4>2
      <4>3. CASE k # n + 1
        <5>1. k \in 1 .. n /\ f[k] = e[k]
          BY <3>1, <4>3
        <5> QED BY <2>2, <3>3, <4>1, <5>1 DEF n
      <4> QED BY <4>2, <4>3
    <3>4. ASSUME NEW j \in 1 .. i
          PROVE  q[j] \in S <=> \E k \in 1 .. n + 1 : f[k] = j
      <4>1. CASE j = i
        <5>1. n + 1 \in 1 .. n + 1 /\ f[n + 1] = i
          BY <3>1
        <5> QED BY <2>5, <4>1, <5>1
      <4>2. CASE j # i
        <5>1. j \in 1 .. i - 1
          BY <2>1, <4>2
        <5>2. q[j] \in S <=> \E k \in 1 .. n : e[k] = j
          BY <2>2, <5>1 DEF n
        <5>3. \A k \in 1 .. n : k \in 1 .. n + 1 /\ f[k] = e[k]
          BY <3>1
        <5>4. \A k \in 1 .. n + 1 : k \in 1 .. n \/ f[k] = i
          BY <3>1
        <5> HIDE DEF f
        <5> QED BY <4>2, <5>2, <5>3, <5>4
      <4> QED BY <4>1, <4>2
    <3>5. q[i] \notin Of(i - 1)
      <4>1. \A j \in 1 .. i - 1 : j \in 1 .. N /\ j # i
        BY <1>1, <2>1
      <4> QED BY <1>1, <4>1
    <3>6. Of(i) = Of(i - 1) \cup {q[i]}
      BY <2>3, <2>5
    <3> HIDE DEF Of
    <3>7. IsFiniteSet(Of(i)) /\ Cardinality(Of(i)) = n + 1
      BY <2>1, <3>5, <3>6, FS_AddElement DEF n
    <3>8. n + 1 \in Nat
      BY <3>1
    <3> HIDE DEF f
    <3>9. UpTo(f, n + 1, i)
      BY <3>2, <3>3, <3>4, <3>8
    <3> HIDE DEF UpTo
    <3> QED BY <2>1, <3>7, <3>9
  <2> QED BY <2>4, <2>5
<1>4. \A i \in 0 .. N : i \in T
  <2> HIDE DEF T, N
  <2> QED BY <1>1, <1>2, <1>3, InductionUpTo
<1>5. N \in T
  <2>1. N \in 0 .. N
    BY <1>1
  <2> HIDE DEF T, N
  <2> QED BY <1>4, <2>1
<1>6. Of(N) = ToSet(q) \cap S
  BY <1>1
<1>7. PICK e : UpTo(e, Cardinality(Of(N)), N)
  BY <1>5
<1>8. Places(e, Cardinality(Of(N)), q, S)
  BY <1>7 DEF Places
<1> HIDE DEF Of
<1> QED BY <1>6, <1>8

\* The least and the greatest of a set of places.
LEMMA LeastPlace ==
  ASSUME NEW I \in SUBSET Nat, NEW k \in I, \A j \in I : k <= j
  PROVE  Min(I) = k
<1>1. Min(I) \in I /\ \A j \in I : Min(I) <= j
  BY MinNat
<1>2. Min(I) \in Nat /\ k \in Nat /\ Min(I) <= k /\ k <= Min(I)
  BY <1>1
<1> QED BY <1>2

LEMMA GreatestPlace ==
  ASSUME NEW n \in Nat, NEW I \in SUBSET (0 .. n), NEW k \in I,
         \A j \in I : j <= k
  PROVE  Max(I) = k
<1>1. Max(I) \in I /\ \A j \in I : j <= Max(I)
  BY MaxNat
<1>1a. \A j \in I : j \in Nat
  OBVIOUS
<1>2. Max(I) \in Nat /\ k \in Nat /\ Max(I) <= k /\ k <= Max(I)
  BY <1>1, <1>1a
<1> QED BY <1>2

\* The place after and before the k-th of n, round the corner.
After(k, n) == IF k < n THEN k + 1 ELSE 1
Ahead(k, n) == IF k > 1 THEN k - 1 ELSE n

VisibleClients(s) == {c \in Client : Visible(s, c)}

\* focusstack() goes to the next visible client, or to the one before.
LEMMA FocusStackGoes ==
  ASSUME NEW s, ListInv(s), NEW e, NEW n,
         Places(e, n, s.clients[s.selmon], VisibleClients(s)),
         NEW k \in 1 .. n, SelOf(s) = s.clients[s.selmon][e[k]]
  PROVE  LET q == s.clients[s.selmon]
         IN /\ FocusStack(s, 1) = Focus(s, q[e[After(k, n)]])
            /\ FocusStack(s, -1) = Focus(s, q[e[Ahead(k, n)]])
<1> DEFINE q == s.clients[s.selmon]
           N == Len(q)
           c == s.sel[s.selmon]
           i == IndexOf(q, c)
           I == {j \in i + 1 .. N : Visible(s, q[j])}
           J == {j \in 1 .. i - 1 : Visible(s, q[j])}
           K == {j \in i .. N : Visible(s, q[j])}
           A == {j \in 1 .. N : Visible(s, q[j])}
           after == IF I # {} THEN Min(I) ELSE 0
           before == IF J # {} THEN Max(J) ELSE 0
           first == IF A # {} THEN Min(A) ELSE 0
           last == IF K # {} THEN Max(K) ELSE 0
           next == IF after # 0 THEN after ELSE first
           prev == IF before # 0 THEN before ELSE last
<1>1. /\ List(q) /\ q \in Seq(Client) /\ N \in Nat
      /\ \A j \in 1 .. N : q[j] \in Client
      /\ \A j, l \in 1 .. N : q[j] = q[l] => j = l
  BY SelmonFacts, ListFacts
<1>2. /\ n \in Nat /\ e \in [1 .. n -> 1 .. N]
      /\ \A j, l \in 1 .. n : j < l => e[j] < e[l]
      /\ \A j \in 1 .. N : q[j] \in VisibleClients(s) <=> \E l \in 1 .. n : e[l] = j
  BY DEF Places
<1>3. \A j \in 1 .. N : Visible(s, q[j]) <=> \E l \in 1 .. n : e[l] = j
  BY <1>1, <1>2 DEF VisibleClients
<1>4. c = q[e[k]] /\ e[k] \in 1 .. N /\ c \in Client
  BY <1>1, <1>2 DEF SelOf
<1>5. c # NULL
  BY <1>4, ConstantsAssumption
<1> HIDE DEF q, c
<1>6. i = e[k]
  <2>1. Contains(q, c)
    BY <1>4 DEF Contains
  <2>2. i \in 1 .. N /\ q[i] = c
    BY <1>1, <2>1, IndexOfRange
  <2> QED BY <1>1, <1>4, <2>2
<1>7. FocusStack(s, 1) = IF c = NULL \/ next = 0 THEN s ELSE Focus(s, q[next])
  BY DEF FocusStack, SelectInSubSeq, SelectInSeq, q, c
<1>8. FocusStack(s, -1) = IF c = NULL \/ prev = 0 THEN s ELSE Focus(s, q[prev])
  BY DEF FocusStack, SelectLastInSubSeq, q, c
<1> HIDE DEF i, N
<1>9. \A j \in 1 .. n : e[j] \in 1 .. N /\ e[j] \in A
  BY <1>2, <1>3
<1>10. \A j, l \in 1 .. n : e[j] < e[l] => j < l
  <2> SUFFICES ASSUME NEW j \in 1 .. n, NEW l \in 1 .. n, e[j] < e[l], ~(j < l)
               PROVE  FALSE
    OBVIOUS
  <2>1. e[j] \in Nat /\ e[l] \in Nat
    BY <1>1, <1>9
  <2>2. j = l \/ l < j
    BY <1>2
  <2> QED BY <1>2, <2>1, <2>2
<1>11. I \in SUBSET Nat /\ A \in SUBSET Nat /\ J \in SUBSET (0 .. N) /\ K \in SUBSET (0 .. N)
  BY <1>1, <1>4, <1>6
<1>12. n # 0 /\ 1 \in 1 .. n /\ n \in 1 .. n
  BY <1>2
<1>13. next = e[After(k, n)]
  <2>1. CASE k < n
    <3>1. k + 1 \in 1 .. n
      BY <1>2, <2>1
    <3>2. e[k + 1] \in I
      BY <1>1, <1>2, <1>3, <1>6, <1>9, <3>1
    <3>3. ASSUME NEW j \in I
          PROVE  e[k + 1] <= j
      <4>1. j \in 1 .. N /\ e[k] < j
        BY <1>1, <1>4, <1>6
      <4>2. PICK l \in 1 .. n : e[l] = j
        BY <1>3, <3>3, <4>1
      <4>3. k < l
        BY <1>10, <4>1, <4>2
      <4>4. l = k + 1 \/ k + 1 < l
        BY <1>2, <4>3
      <4> QED BY <1>1, <1>2, <1>9, <3>1, <4>2, <4>4
    <3>4. Min(I) = e[k + 1]
      <4> HIDE DEF I
      <4> QED BY <1>11, <3>2, <3>3, LeastPlace
    <3>5. e[k + 1] # 0
      BY <1>1, <1>9, <3>1
    <3> HIDE DEF I
    <3> QED BY <2>1, <3>2, <3>4, <3>5 DEF After
  <2>2. CASE ~(k < n)
    <3>1. k = n
      BY <1>2, <2>2
    <3>2. I = {}
      <4> SUFFICES ASSUME NEW j \in I
                   PROVE  FALSE
        OBVIOUS
      <4>1. j \in 1 .. N /\ e[k] < j
        BY <1>1, <1>4, <1>6
      <4>2. PICK l \in 1 .. n : e[l] = j
        BY <1>3, <4>1
      <4>3. k < l
        BY <1>10, <4>1, <4>2
      <4> QED BY <1>2, <3>1, <4>3
    <3>3. \A j \in A : e[1] <= j
      <4> SUFFICES ASSUME NEW j \in A
                   PROVE  e[1] <= j
        OBVIOUS
      <4>1. PICK l \in 1 .. n : e[l] = j
        BY <1>3
      <4>2. l = 1 \/ 1 < l
        BY <1>2
      <4> QED BY <1>1, <1>2, <1>9, <1>12, <4>1, <4>2
    <3>4. Min(A) = e[1] /\ A # {}
      <4>1. e[1] \in A
        BY <1>9, <1>12
      <4> HIDE DEF A
      <4> QED BY <1>11, <3>3, <4>1, LeastPlace
    <3>5. after = 0
      BY <3>2
    <3> HIDE DEF A, I, after
    <3> QED BY <2>2, <3>4, <3>5 DEF After
  <2> QED BY <2>1, <2>2
<1>14. prev = e[Ahead(k, n)]
  <2>1. CASE k > 1
    <3>1. k - 1 \in 1 .. n
      BY <1>2, <2>1
    <3>2. e[k - 1] \in J
      <4>1. e[k - 1] < e[k]
        BY <1>2, <3>1
      <4> QED BY <1>1, <1>3, <1>4, <1>6, <1>9, <3>1, <4>1
    <3>3. ASSUME NEW j \in J
          PROVE  j <= e[k - 1]
      <4>1. j \in 1 .. N /\ j < e[k]
        BY <1>1, <1>4, <1>6
      <4>2. PICK l \in 1 .. n : e[l] = j
        BY <1>3, <3>3, <4>1
      <4>3. l < k
        BY <1>10, <4>1, <4>2
      <4>4. l = k - 1 \/ l < k - 1
        BY <1>2, <4>3
      <4> QED BY <1>1, <1>2, <1>9, <3>1, <4>2, <4>4
    <3>4. Max(J) = e[k - 1]
      <4> HIDE DEF J
      <4> QED BY <1>1, <1>11, <3>2, <3>3, GreatestPlace
    <3>5. e[k - 1] # 0
      BY <1>1, <1>9, <3>1
    <3> HIDE DEF J
    <3> QED BY <2>1, <3>2, <3>4, <3>5 DEF Ahead
  <2>2. CASE ~(k > 1)
    <3>1. k = 1
      BY <1>2, <2>2
    <3>2. J = {}
      <4> SUFFICES ASSUME NEW j \in J
                   PROVE  FALSE
        OBVIOUS
      <4>1. j \in 1 .. N /\ j < e[k]
        BY <1>1, <1>4, <1>6
      <4>2. PICK l \in 1 .. n : e[l] = j
        BY <1>3, <4>1
      <4>3. l < k
        BY <1>10, <4>1, <4>2
      <4> QED BY <1>2, <3>1, <4>3
    <3>3. \A j \in K : j <= e[n]
      <4> SUFFICES ASSUME NEW j \in K
                   PROVE  j <= e[n]
        OBVIOUS
      <4>0. j \in 1 .. N
        BY <1>1, <1>4, <1>6
      <4>1. PICK l \in 1 .. n : e[l] = j
        BY <1>3, <4>0
      <4>2. l = n \/ l < n
        BY <1>2
      <4> QED BY <1>1, <1>2, <1>9, <1>12, <4>1, <4>2
    <3>4. Max(K) = e[n] /\ K # {}
      <4>1. e[n] \in K
        <5>1. k = n \/ e[k] < e[n]
          BY <1>2, <1>12, <3>1
        <5> QED BY <1>1, <1>4, <1>6, <1>9, <1>12, <5>1
      <4> HIDE DEF K
      <4> QED BY <1>1, <1>11, <3>3, <4>1, GreatestPlace
    <3>5. before = 0
      BY <3>2
    <3> HIDE DEF K, J, before
    <3> QED BY <2>2, <3>4, <3>5 DEF Ahead
  <2> QED BY <2>1, <2>2
<1>15. After(k, n) \in 1 .. n /\ Ahead(k, n) \in 1 .. n
  BY <1>2 DEF After, Ahead
<1>16. e[After(k, n)] # 0 /\ e[Ahead(k, n)] # 0
  BY <1>1, <1>9, <1>15
<1> HIDE DEF next, prev
<1> QED BY <1>5, <1>7, <1>8, <1>13, <1>14, <1>16 DEF q

\* t is s but for the focus, which is at the k-th visible client.
Round(s, t, e, n, k) ==
  /\ ListInv(t) /\ t.clients = s.clients /\ t.selmon = s.selmon /\ SameView(s, t)
  /\ k \in 1 .. n /\ SelOf(t) = s.clients[s.selmon][e[k]]

\* A visible client of the selected monitor gets the focus it is given.
LEMMA FocusGiven ==
  ASSUME NEW s, ListInv(s), NEW c \in ToSet(s.clients[s.selmon]), Visible(s, c)
  PROVE  LET t == Focus(s, c)
         IN /\ ListInv(t) /\ t.clients = s.clients /\ t.selmon = s.selmon
            /\ SameView(s, t) /\ SelOf(t) = c
<1> DEFINE t == Focus(s, c)
<1>1. s \in State /\ s.selmon \in Mon
  BY SelmonFacts
<1>2. In(s, c) /\ s.mon[c] = s.selmon /\ c \in Client
  BY <1>1, InOfMonitor
<1>3. c # NULL /\ c \in ClientOrNull
  BY <1>2, ConstantsAssumption DEF ClientOrNull
<1>4. Chosen(s, c) = c
  BY <1>3 DEF Chosen
<1>5. Reordered(s, t)
  BY <1>2, FocusInv
<1>6. Untouched(s, t) /\ t.mon = s.mon /\ t.clients = s.clients
  BY <1>1, <1>3, FocusLeaves
<1>7. t.sel = [s.sel EXCEPT ![s.selmon] = c] /\ t.selmon = s.selmon
  <2>1. Chosen(s, c) \in Client
    BY <1>2, <1>4
  <2>2. /\ t.sel = [s.sel EXCEPT ![s.mon[Chosen(s, c)]] = Chosen(s, c)]
        /\ t.selmon = s.mon[Chosen(s, c)]
    BY <1>1, <2>1, FocusFields, Zenon
  <2> HIDE DEF t
  <2> QED BY <1>2, <1>4, <2>2
<1> HIDE DEF t
<1>8. SelOf(t) = c
  <2>1. s.sel \in [Mon -> ClientOrNull]
    BY <1>1 DEF State
  <2> QED BY <1>1, <1>7, <2>1 DEF SelOf
<1> QED BY <1>5, <1>6, <1>7, <1>8 DEF Reordered, SameView, Untouched, t

\* Each focusstack() is one step round.
LEMMA FocusRound ==
  ASSUME NEW s, ListInv(s), NEW e, NEW n,
         Places(e, n, s.clients[s.selmon], VisibleClients(s)),
         NEW t, NEW k, Round(s, t, e, n, k)
  PROVE  /\ Round(s, FocusStack(t, 1), e, n, After(k, n))
         /\ Round(s, FocusStack(t, -1), e, n, Ahead(k, n))
<1> DEFINE q == s.clients[s.selmon]
<1>1. /\ ListInv(t) /\ t.clients = s.clients /\ t.selmon = s.selmon
      /\ SameView(s, t) /\ k \in 1 .. n /\ SelOf(t) = q[e[k]]
  BY DEF Round
<1>2. \A c : Visible(t, c) = Visible(s, c)
  BY <1>1, SameVisible
<1>3. VisibleClients(t) = VisibleClients(s)
  BY <1>2 DEF VisibleClients
<1>4. /\ n \in Nat /\ e \in [1 .. n -> 1 .. Len(q)]
      /\ \A i \in 1 .. Len(q) : q[i] \in VisibleClients(s) <=> \E j \in 1 .. n : e[j] = i
  BY DEF Places
<1>5. t.clients[t.selmon] = q /\ ToSet(q) = {q[i] : i \in 1 .. Len(q)}
  BY <1>1, SelmonFacts, ListFacts
<1>6. Places(e, n, t.clients[t.selmon], VisibleClients(t))
  BY <1>3, <1>5
<1> HIDE DEF q
<1>7. ASSUME NEW j \in 1 .. n
      PROVE  Round(s, Focus(t, q[e[j]]), e, n, j)
  <2> DEFINE c == q[e[j]]
             u == Focus(t, c)
  <2>1. e[j] \in 1 .. Len(q) /\ c \in VisibleClients(s)
    BY <1>4
  <2>2. c \in ToSet(t.clients[t.selmon]) /\ Visible(t, c)
    BY <1>2, <1>5, <2>1 DEF VisibleClients
  <2> HIDE DEF c
  <2>3. /\ ListInv(u) /\ u.clients = t.clients /\ u.selmon = t.selmon
        /\ SameView(t, u) /\ SelOf(u) = c
    BY <1>1, <2>2, FocusGiven
  <2> HIDE DEF u
  <2>4. SameView(s, u)
    BY <1>1, <2>3 DEF SameView
  <2>5. Round(s, u, e, n, j)
    BY <1>1, <2>3, <2>4 DEF Round, c, q
  <2> QED BY <2>5 DEF u, c
<1>8. /\ FocusStack(t, 1) = Focus(t, q[e[After(k, n)]])
      /\ FocusStack(t, -1) = Focus(t, q[e[Ahead(k, n)]])
  <2>1. SelOf(t) = t.clients[t.selmon][e[k]]
    BY <1>1, <1>5
  <2>2. /\ FocusStack(t, 1) = Focus(t, t.clients[t.selmon][e[After(k, n)]])
        /\ FocusStack(t, -1) = Focus(t, t.clients[t.selmon][e[Ahead(k, n)]])
    BY <1>1, <1>6, <2>1, FocusStackGoes
  <2> QED BY <1>5, <2>2
<1>9. After(k, n) \in 1 .. n /\ Ahead(k, n) \in 1 .. n
  BY <1>1, <1>4 DEF After, Ahead
<1> QED BY <1>7, <1>8, <1>9

\* Where i steps from the k-th of n lead.
Turn(k, i, n) == IF k + i <= n THEN k + i ELSE k + i - n

LEMMA FocusTurns ==
  ASSUME NEW s, ListInv(s), NEW e, NEW n,
         Places(e, n, s.clients[s.selmon], VisibleClients(s)),
         NEW k \in 1 .. n, SelOf(s) = s.clients[s.selmon][e[k]],
         NEW f, f[0] = s, \A i \in 1 .. n : f[i] = FocusStack(f[i - 1], 1)
  PROVE  \A i \in 0 .. n : Round(s, f[i], e, n, Turn(k, i, n))
<1> DEFINE T == {i \in 0 .. n : Round(s, f[i], e, n, Turn(k, i, n))}
<1>1. n \in Nat
  BY DEF Places
<1>2. 0 \in T
  <2>1. Turn(k, 0, n) = k /\ 0 \in 0 .. n
    BY <1>1 DEF Turn
  <2>2. Round(s, s, e, n, k)
    BY DEF Round, SameView
  <2> QED BY <2>1, <2>2
<1>3. ASSUME NEW i \in 1 .. n, i - 1 \in T
      PROVE  i \in T
  <2>1. Round(s, f[i - 1], e, n, Turn(k, i - 1, n))
    BY <1>3
  <2>2. Round(s, FocusStack(f[i - 1], 1), e, n, After(Turn(k, i - 1, n), n))
    BY <2>1, FocusRound
  <2>3. After(Turn(k, i - 1, n), n) = Turn(k, i, n) /\ i \in 0 .. n
    BY <1>1 DEF After, Turn
  <2> QED BY <2>2, <2>3
<1> HIDE DEF T
<1>4. \A i \in 0 .. n : i \in T
  BY <1>1, <1>2, <1>3, InductionUpTo
<1> QED BY <1>4 DEF T

\* The function that FocusStackCycles defines by recursion.
Rounds(f, s, n) ==
  /\ DOMAIN f = 0 .. n /\ f[0] = s
  /\ \A i \in 1 .. n : f[i] = FocusStack(f[i - 1], 1)

LEMMA RoundsUnfold ==
  ASSUME NEW s \in State, NEW n \in Nat
  PROVE  Rounds(CHOOSE f : f = [i \in 0 .. n |->
                  IF i = 0 THEN s ELSE FocusStack(f[i - 1], 1)], s, n)
<1> DEFINE Up(f) == f = [i \in 0 .. n |-> IF i = 0 THEN s ELSE FocusStack(f[i - 1], 1)]
           after == CHOOSE f : Up(f)
<1>1. \E f : Up(f)
  <2> DEFINE step == [p \in (1 .. n) \X State |-> FocusStack(p[2], 1)]
  <2>1. \A p \in (1 .. n) \X State : FocusStack(p[2], 1) \in State
    BY FocusStackType
  <2>2. step \in [(1 .. n) \X State -> State]
    BY <2>1
  <2>3. \A i \in 1 .. n, t \in State : step[<<i, t>>] = FocusStack(t, 1)
    OBVIOUS
  <2> HIDE DEF step
  <2>4. PICK f : Recursion(f, State, n, s, step)
    BY <2>2, RecursionExists
  <2>5. \A i \in 0 .. n : i # 0 => f[i - 1] \in State /\ i \in 1 .. n
    BY <2>4 DEF Recursion
  <2>6. \A i \in 0 .. n : f[i] = IF i = 0 THEN s ELSE FocusStack(f[i - 1], 1)
    BY <2>3, <2>4, <2>5 DEF Recursion
  <2>7. f = [i \in 0 .. n |-> f[i]]
    BY <2>4 DEF Recursion
  <2>8. Up(f)
    BY <2>6, <2>7
  <2> QED BY <2>8
<1>2. Up(after)
  BY <1>1
<1>3. DOMAIN after = 0 .. n
  BY <1>2
<1>4. \A i \in 0 .. n : after[i] = IF i = 0 THEN s ELSE FocusStack(after[i - 1], 1)
  BY <1>2, Zenon
<1> HIDE DEF after
<1>5. after[0] = s
  <2>1. 0 \in 0 .. n
    OBVIOUS
  <2> QED BY <1>4, <2>1, Zenon
<1>6. \A i \in 1 .. n : after[i] = FocusStack(after[i - 1], 1)
  <2>1. \A i \in 1 .. n : i \in 0 .. n /\ i # 0
    OBVIOUS
  <2> QED BY <1>4, <2>1, Zenon
<1>7. Rounds(after, s, n)
  BY <1>3, <1>5, <1>6 DEF Rounds
<1> QED BY <1>7 DEF after

\* focusstack() goes round the visible clients of the list.
LEMMA RoundsVisit ==
  ASSUME NEW s, Good(s), SelOf(s) # NULL, NEW f,
         NEW n, n = Cardinality({c \in ToSet(s.clients[s.selmon]) : Visible(s, c)}),
         Rounds(f, s, n)
  PROVE  /\ {SelOf(f[i]) : i \in 0 .. n}
              = {c \in ToSet(s.clients[s.selmon]) : Visible(s, c)}
         /\ SelOf(f[n]) = SelOf(s)
         /\ SelOf(FocusStack(f[1], -1)) = SelOf(s)
<1> DEFINE q == s.clients[s.selmon]
           visible == {c \in ToSet(q) : Visible(s, c)}
<1>1. ListInv(s) /\ s \in State /\ List(q)
  BY GoodFacts, SelmonFacts
<1>2. /\ q \in Seq(Client) /\ Len(q) \in Nat /\ ToSet(q) = {q[i] : i \in 1 .. Len(q)}
      /\ \A i \in 1 .. Len(q) : q[i] \in Client
  BY <1>1, ListFacts
<1>3. visible = ToSet(q) \cap VisibleClients(s)
  BY <1>2 DEF VisibleClients
<1>4. PICK e : Places(e, n, q, VisibleClients(s))
  BY <1>1, <1>3, PlacesExist
<1>5. SelOf(s) \in ToSet(q) /\ Visible(s, SelOf(s))
  <2>1. SelOf(s) \in ToSet(q)
    BY <1>1, SelmonFacts DEF SelOf
  <2>2. SelOf(s) = FirstVisible(s, s.stack[s.selmon])
    BY GoodFacts DEF Settled, SelOf
  <2>3. s.stack[s.selmon] \in Seq(Client)
    BY <1>1 DEF State
  <2> QED BY <2>1, <2>2, <2>3, FirstVisibleIsVisible
<1> HIDE DEF q
<1>6. /\ n \in Nat /\ e \in [1 .. n -> 1 .. Len(q)]
      /\ \A i \in 1 .. Len(q) : q[i] \in VisibleClients(s) <=> \E k \in 1 .. n : e[k] = i
  BY <1>4 DEF Places
<1>7. \A c : c \in visible <=> \E k \in 1 .. n : q[e[k]] = c
  <2> HIDE DEF visible
  <2>1. ASSUME NEW c \in visible
        PROVE  \E k \in 1 .. n : q[e[k]] = c
    <3>1. c \in ToSet(q) /\ c \in VisibleClients(s)
      BY <1>3
    <3>2. PICK i \in 1 .. Len(q) : c = q[i]
      BY <1>2, <3>1
    <3> QED BY <1>6, <3>1, <3>2
  <2>2. ASSUME NEW k \in 1 .. n
        PROVE  q[e[k]] \in visible
    <3>1. e[k] \in 1 .. Len(q)
      BY <1>6
    <3>2. q[e[k]] \in VisibleClients(s) /\ q[e[k]] \in ToSet(q)
      BY <1>2, <1>6, <3>1
    <3> QED BY <1>3, <3>2
  <2> QED BY <2>1, <2>2
<1>8. PICK k \in 1 .. n : q[e[k]] = SelOf(s)
  BY <1>5, <1>7
<1>9. \A i \in 0 .. n : Round(s, f[i], e, n, Turn(k, i, n))
  BY <1>1, <1>4, <1>8, FocusTurns DEF Rounds, q
<1>10. \A i \in 0 .. n : Turn(k, i, n) \in 1 .. n /\ SelOf(f[i]) = q[e[Turn(k, i, n)]]
  BY <1>9 DEF Round, q
<1>11. {SelOf(f[i]) : i \in 0 .. n} = visible
  <2>1. \A i \in 0 .. n : SelOf(f[i]) \in visible
    BY <1>7, <1>10
  <2>2. ASSUME NEW c \in visible
        PROVE  \E i \in 0 .. n : SelOf(f[i]) = c
    <3>1. PICK j \in 1 .. n : q[e[j]] = c
      BY <1>7
    <3> DEFINE i == IF j >= k THEN j - k ELSE j - k + n
    <3>2. i \in 0 .. n /\ Turn(k, i, n) = j
      BY <1>6 DEF Turn
    <3> HIDE DEF i
    <3> QED BY <1>10, <3>1, <3>2
  <2> QED BY <2>1, <2>2
<1>12. SelOf(f[n]) = SelOf(s)
  <2>1. n \in 0 .. n /\ Turn(k, n, n) = k
    BY <1>6 DEF Turn
  <2> QED BY <1>8, <1>10, <2>1
<1>13. SelOf(FocusStack(f[1], -1)) = SelOf(s)
  <2>1. 1 \in 0 .. n /\ Ahead(Turn(k, 1, n), n) = k
    BY <1>6 DEF Turn, Ahead
  <2>2. Round(s, f[1], e, n, Turn(k, 1, n))
    BY <1>9, <2>1
  <2>3. Round(s, FocusStack(f[1], -1), e, n, Ahead(Turn(k, 1, n), n))
    BY <1>1, <1>4, <2>2, FocusRound DEF q
  <2> QED BY <1>8, <2>1, <2>3 DEF Round, q
<1> QED BY <1>11, <1>12, <1>13 DEF q

LEMMA InvCycles == ClientsInv => FocusStackCycles
<1> SUFFICES ASSUME ClientsInv
             PROVE  FocusStackCycles
  OBVIOUS
<1> DEFINE visible == {c \in ToSet(wm.clients[wm.selmon]) : Visible(wm, c)}
           n == Cardinality(visible)
           after == CHOOSE f : f = [i \in 0 .. n |->
                      IF i = 0 THEN wm ELSE FocusStack(f[i - 1], 1)]
<1>1. ASSUME ~wm.lost, SelOf(wm) # NULL
      PROVE  /\ {SelOf(after[i]) : i \in DOMAIN after} = visible
             /\ SelOf(after[n]) = SelOf(wm)
             /\ SelOf(FocusStack(after[1], -1)) = SelOf(wm)
  <2>1. Good(wm) /\ wm \in State /\ List(wm.clients[wm.selmon])
    BY <1>1, GoodFacts, SelmonFacts DEF ClientsInv
  <2>2. n \in Nat
    <3>1. visible = ToSet(wm.clients[wm.selmon]) \cap VisibleClients(wm)
      BY <2>1, ListFacts DEF VisibleClients
    <3>2. \E e : Places(e, n, wm.clients[wm.selmon], VisibleClients(wm))
      BY <2>1, <3>1, PlacesExist
    <3> HIDE DEF n
    <3> QED BY <3>2 DEF Places
  <2>3. Rounds(after, wm, n)
    <3> HIDE DEF n
    <3> QED BY <2>1, <2>2, RoundsUnfold
  <2> HIDE DEF after
  <2>4. DOMAIN after = 0 .. n
    BY <2>3 DEF Rounds
  <2>5. /\ {SelOf(after[i]) : i \in 0 .. n} = visible
        /\ SelOf(after[n]) = SelOf(wm)
        /\ SelOf(FocusStack(after[1], -1)) = SelOf(wm)
    BY <1>1, <2>1, <2>3, RoundsVisit
  <2> QED BY <2>4, <2>5
<1> QED BY <1>1, Zenon DEF FocusStackCycles

\* focusstack(+1) pressed as often as clients are visible selects each of them
\* and comes back to the first, and focusstack(-1) takes one step of it back.
THEOREM FocusGoesRound == Spec => []FocusStackCycles
BY InvCycles, InitClients, NextClients, PTL DEF Spec

-----------------------------------------------------------------------------
(* Relinking the selected client                                           *)

\* And c for the selected client.
Relisted(s, t, r, c) ==
  /\ ListInv(t) /\ t.selmon = s.selmon /\ SameTiled(s, t)
  /\ t.clients[t.selmon] = r /\ SelOf(t) = c

\* A visible client that was relinked gets the focus, and the order stays.
LEMMA RelinkedFocus ==
  ASSUME NEW s, ListInv(s), NoneLeft(s), NEW t, NEW r, WithList(s, t, r),
         List(r), ToSet(r) = ToSet(s.clients[s.selmon]),
         NEW c \in ToSet(s.clients[s.selmon]), Visible(s, c)
  PROVE  Relisted(s, Arrange(Focus(t, c), s.selmon), r, c)
<1> DEFINE m == s.selmon
           f == Focus(t, c)
           a == Arrange(f, m)
<1>1. s \in State /\ m \in Mon /\ c \in Client /\ c \in ClientOrNull
  <2>1. s \in State /\ m \in Mon /\ List(s.clients[m])
    BY SelmonFacts
  <2>2. c \in Client
    BY <2>1, ToSetOfSeq DEF List
  <2> QED BY <2>1, <2>2 DEF ClientOrNull
<1>2. /\ t \in State /\ t.selmon = m /\ t.clients[m] = r /\ SameTiled(s, t)
      /\ ListInv(t)
  <2>1. t.clients = [s.clients EXCEPT ![m] = r] /\ t \in State /\ SameTiled(s, t)
        /\ t.selmon = m
    BY DEF WithList
  <2>2. s.clients \in [Mon -> Seq(Client)]
    BY <1>1 DEF State
  <2>3. Reordered(s, t)
    BY NewListInv DEF WithList
  <2> QED BY <1>1, <2>1, <2>2, <2>3 DEF Reordered
<1>3. Visible(t, c) /\ NoneLeft(t)
  BY <1>2, SameTiledClients
<1>4. /\ ListInv(f) /\ f.clients = t.clients /\ f.selmon = m
      /\ SameView(t, f) /\ SelOf(f) = c
  BY <1>2, <1>3, FocusGiven
<1>5. f.isLeft = t.isLeft /\ f.isfloating = t.isfloating
  BY <1>1, <1>2, FocusMemory, FocusLeaves DEF Untouched, SameMemory
<1> HIDE DEF f
<1>6. SameTiled(t, f) /\ f \in State
  BY <1>4, <1>5 DEF SameTiled, ListInv
<1>7. NoneLeft(f)
  BY <1>3, <1>6, SameTiledClients
<1>8. a.clients = f.clients /\ a.isLeft = f.isLeft
  BY <1>6, <1>7, ArrangeStays
<1>9. ListInv(a)
  BY <1>4, ArrangeInv DEF Reordered
<1>10. /\ SameView(f, a) /\ a.isfloating = f.isfloating
       /\ a.sel = f.sel /\ a.selmon = f.selmon
  <2>1. a = ArrangeMon(ShowHide(f, {m}), {m})
    BY DEF Arrange
  <2> HIDE DEF a
  <2> QED BY <1>6, <2>1, ArrangeFields DEF SameView
<1> HIDE DEF a
<1>11. SameTiled(f, a)
  BY <1>8, <1>10 DEF SameTiled
<1>12. SameTiled(s, a)
  BY <1>2, <1>6, <1>11, SameTiledTwice
<1>13. SelOf(a) = c
  BY <1>4, <1>10 DEF SelOf
<1> QED BY <1>2, <1>4, <1>8, <1>9, <1>10, <1>12, <1>13 DEF Relisted, a, f

\* The client that pushdown() moves, the clients before it (a), those it passes
\* (b), the tiled one it is put behind (n) and the rest (d).
Passed(s, t, c, a, b, n, d) ==
  /\ s.clients[s.selmon] = (a \o <<c>>) \o ((b \o <<n>>) \o d)
  /\ n \in Client /\ Tiled(s, n) /\ NoneIn(b, TiledClients(s))
  /\ Relisted(s, t, (((a \o b) \o <<n>>) \o <<c>>) \o d, c)

\* Or all those before and behind it.
Fronted(s, t, c, a, b) ==
  /\ s.clients[s.selmon] = (a \o <<c>>) \o b
  /\ NoneIn(b, TiledClients(s))
  /\ Relisted(s, t, <<c>> \o (a \o b), c)

LEMMA PushDownOrder ==
  ASSUME NEW s, ListInv(s), NoneLeft(s), SelOf(s) # NULL, Tiled(s, SelOf(s))
  PROVE  LET c == SelOf(s)
             t == PushDown(s)
         IN \E a, b \in Seq(Client) :
              \/ Fronted(s, t, c, a, b)
              \/ \E n \in Client, d \in Seq(Client) : Passed(s, t, c, a, b, n, d)
<1> DEFINE m == s.selmon
           c == s.sel[m]
           q == s.clients[m]
           i == IndexOf(q, c)
           next == NextTiled(s, q, i + 1)
           new == InsertAt(RemoveAt(q, i), next, c)
           linked == [s EXCEPT !.clients[m] = new]
           front == Attach(Detach(s, c), c)
           moved == IF next # 0 THEN linked ELSE front
           t == PushDown(s)
<1>1. /\ s \in State /\ m \in Mon /\ List(q) /\ q \in Seq(Client)
      /\ Len(q) \in Nat
      /\ c \in Client /\ s.mon[c] = m /\ c \in ToSet(q)
  BY SelmonFacts, ListFacts DEF SelOf
<1>2. i \in 1 .. Len(q) /\ q[i] = c
  BY SelIndex DEF SelOf
<1>3. Visible(s, c) /\ ~s.isfloating[c] /\ c # NULL
  BY DEF SelOf, Tiled
<1>4. t = Arrange(Focus(moved, c), m)
  BY <1>3 DEF PushDown
<1>5. SelOf(s) = c
  BY DEF SelOf
<1> HIDE DEF t, c, i
<1>6. i + 1 \in 1 .. Len(q) + 1
  BY <1>1, <1>2
<1>7. /\ next = 0 => \A j \in i + 1 .. Len(q) : ~Tiled(s, q[j])
      /\ next # 0 => /\ next \in i + 1 .. Len(q) /\ Tiled(s, q[next])
                     /\ \A j \in i + 1 .. next - 1 : ~Tiled(s, q[j])
  BY <1>1, <1>6, NextTiledStops
<1>8. PICK a, y \in Seq(Client) :
        /\ q = (a \o <<c>>) \o y /\ Len(a) = i - 1 /\ Len(y) = Len(q) - i
        /\ \A k \in 1 .. Len(q) - i : y[k] = q[i + k]
  BY <1>1, <1>2, SplitAt
<1>9. RemoveAt(q, i) = a \o y /\ RemoveFirst(q, c) = a \o y
  <2>1. Len(a) + 1 = i
    BY <1>1, <1>2, <1>8
  <2> HIDE DEF q
  <2> QED BY <1>1, <1>8, <2>1, RemoveBetween, TakenOut
<1> HIDE DEF next
<1>10. CASE next = 0
  <2>1. NoneIn(y, TiledClients(s))
    <3>1. ASSUME NEW k \in 1 .. Len(y)
          PROVE  y[k] \notin TiledClients(s)
      <4>1. i + k \in i + 1 .. Len(q) /\ k \in 1 .. Len(q) - i
        BY <1>1, <1>2, <1>8
      <4>2. y[k] = q[i + k] /\ ~Tiled(s, q[i + k])
        BY <1>7, <1>8, <1>10, <4>1
      <4> QED BY <4>2 DEF TiledClients
    <3> QED BY <3>1 DEF NoneIn
  <2>2. WithList(s, front, <<c>> \o (a \o y))
    BY <1>1, <1>9, WithFront
  <2>3. List(<<c>> \o (a \o y)) /\ ToSet(<<c>> \o (a \o y)) = ToSet(q)
    <3>1. List(a \o y) /\ ToSet(a \o y) = ToSet(q) \ {c}
      <4> HIDE DEF q
      <4> QED BY <1>1, <1>9, RemoveFirstList
    <3> DEFINE p == a \o y
    <3>2. List(p) /\ ToSet(p) = ToSet(q) \ {c} /\ c \notin ToSet(p)
      BY <3>1
    <3> HIDE DEF p, q
    <3>3. List(<<c>> \o p) /\ ToSet(<<c>> \o p) = ToSet(p) \cup {c}
      BY <1>1, <3>2, ConsList
    <3> QED BY <1>1, <3>2, <3>3 DEF p
  <2>4. moved = front
    BY <1>10
  <2> HIDE DEF moved, front
  <2>5. Relisted(s, t, <<c>> \o (a \o y), c)
    BY <1>1, <1>3, <1>4, <2>2, <2>3, <2>4, RelinkedFocus
  <2>6. Fronted(s, t, c, a, y)
    BY <1>8, <2>1, <2>5 DEF Fronted
  <2> QED BY <1>5, <2>6 DEF t
<1>11. CASE next # 0
  <2> DEFINE k == next - i
             n == y[k]
  <2>1. k \in 1 .. Len(y) /\ k \in 1 .. Len(q) - i /\ i + k = next
    BY <1>1, <1>2, <1>7, <1>8, <1>11
  <2>2. n = q[next] /\ n \in Client /\ Tiled(s, n)
    <3>1. n = q[next]
      BY <1>8, <2>1
    <3>2. n \in Client
      BY <2>1, ElementOfSeq
    <3> QED BY <1>7, <1>11, <3>1, <3>2
  <2>3. PICK b, d \in Seq(Client) :
          /\ y = (b \o <<n>>) \o d /\ Len(b) = k - 1
          /\ \A j \in 1 .. k - 1 : b[j] = y[j]
    BY <2>1, SplitAt
  <2>3a. /\ i \in Nat /\ k \in Nat /\ Len(q) \in Nat /\ i + k = next
         /\ k >= 1 /\ k <= Len(q) - i /\ Len(b) = k - 1 /\ Len(a) = i - 1
    BY <1>1, <1>2, <1>8, <2>1, <2>3
  <2>4. NoneIn(b, TiledClients(s))
    <3>1. ASSUME NEW j \in 1 .. Len(b)
          PROVE  b[j] \notin TiledClients(s)
      <4>1. /\ i + j \in i + 1 .. next - 1 /\ j \in 1 .. Len(q) - i
            /\ j \in 1 .. k - 1
        <5> HIDE DEF k, q
        <5> QED BY <2>3a
      <4>2. b[j] = q[i + j] /\ ~Tiled(s, q[i + j])
        BY <1>7, <1>8, <1>11, <2>3, <4>1
      <4> QED BY <4>2 DEF TiledClients
    <3> QED BY <3>1 DEF NoneIn
  <2> HIDE DEF n
  <2> DEFINE x == (a \o b) \o <<n>>
             r == (x \o <<c>>) \o d
  <2>5. /\ <<n>> \in Seq(Client) /\ a \o b \in Seq(Client) /\ x \in Seq(Client)
        /\ b \o <<n>> \in Seq(Client) /\ Len(x) + 1 = next
    <3>1. <<n>> \in Seq(Client) /\ Len(<<n>>) = 1
      BY <2>2, SingleSeq
    <3> DEFINE e == <<n>>
    <3> HIDE DEF e
    <3>2. e \in Seq(Client) /\ Len(e) = 1
      BY <3>1 DEF e
    <3>3. a \o b \in Seq(Client) /\ Len(a \o b) = Len(a) + Len(b)
      BY ConcatProperties
    <3> DEFINE ab == a \o b
    <3> HIDE DEF ab
    <3>4. ab \in Seq(Client) /\ Len(ab) = Len(a) + Len(b)
      BY <3>3 DEF ab
    <3>5. ab \o e \in Seq(Client) /\ Len(ab \o e) = Len(ab) + Len(e)
      BY <3>2, <3>4, ConcatProperties
    <3>6. b \o e \in Seq(Client)
      BY <3>2, ConcatProperties
    <3>7. Len(ab) + Len(e) + 1 = next
      <4> HIDE DEF k, q
      <4> QED BY <2>3a, <3>2, <3>4
    <3> QED BY <3>2, <3>4, <3>5, <3>6, <3>7 DEF ab, e
  <2>6. a \o y = x \o d
    <3>1. Together(y, b, n, d)
      BY <2>3 DEF Together
    <3>2. Together(a \o y, a \o b, n, d)
      BY <2>2, <3>1, JoinInFront
    <3> QED BY <3>2 DEF Together
  <2> HIDE DEF x
  <2>7. new = r
    <3>1. InsertAt(x \o d, Len(x) + 1, c) = (x \o <<c>>) \o d
      BY <1>1, <2>5, InsertBetween
    <3> QED BY <1>9, <2>5, <2>6, <3>1
  <2>8. List(new) /\ ToSet(new) = ToSet(q)
    <3>1. next \in 1 .. Len(q)
      BY <1>1, <1>2, <1>7, <1>11
    <3> HIDE DEF q
    <3> QED BY <1>1, <1>2, <3>1, RelinkList
  <2>9. WithList(s, linked, new)
    <3> HIDE DEF new
    <3> QED BY <1>1, <2>8, WithNewList DEF List
  <2>10. moved = linked
    BY <1>11
  <2> HIDE DEF moved, linked, new
  <2>11. Relisted(s, t, new, c)
    BY <1>1, <1>3, <1>4, <2>8, <2>9, <2>10, RelinkedFocus
  <2>12. Passed(s, t, c, a, b, n, d)
    BY <1>8, <2>2, <2>3, <2>4, <2>7, <2>11 DEF Passed, x
  <2> QED BY <1>5, <2>2, <2>12 DEF t
<1> QED BY <1>10, <1>11

\* pushup() of a client behind a tiled one puts it before that one.
LEMMA PushUpOver ==
  ASSUME NEW s, ListInv(s), NoneLeft(s), NEW c \in Client, SelOf(s) = c,
         Tiled(s, c), NEW w \in Seq(Client), NEW n \in Client, Tiled(s, n),
         NEW d \in Seq(Client),
         Together(s.clients[s.selmon], w \o <<n>>, c, d)
  PROVE  Relisted(s, PushUp(s), (w \o <<c>>) \o (<<n>> \o d), c)
<1> DEFINE m == s.selmon
           q == s.clients[m]
           i == IndexOf(q, c)
           J == {j \in 1 .. i - 1 : Tiled(s, q[j])}
           prev == IF J # {} THEN Max(J) ELSE 0
           new == InsertAt(RemoveAt(q, i), prev, c)
           moved == IF prev # 0 THEN new
                    ELSE IF i = Len(q) THEN RemoveAt(q, i)
                    ELSE Append(RemoveAt(q, i), c)
           t == [s EXCEPT !.clients[m] = moved,
                          !.lost = s.lost \/ (prev = 0 /\ i = Len(q))]
           x == w \o <<n>>
<1>1. /\ s \in State /\ m \in Mon /\ List(q) /\ q \in Seq(Client)
      /\ Len(q) \in Nat /\ c # NULL /\ c \in ToSet(q) /\ s.sel[m] = c
  BY SelmonFacts, ListFacts, ConstantsAssumption DEF SelOf
<1>2. PushUp(s) = Arrange(Focus(t, c), m)
  BY <1>1 DEF PushUp, SelectLastInSubSeq, Tiled
<1>3. /\ x \in Seq(Client) /\ Len(x) = Len(w) + 1 /\ Len(w) \in Nat
      /\ <<c>> \in Seq(Client) /\ <<n>> \in Seq(Client)
      /\ <<c>> \o d \in Seq(Client) /\ <<n>> \o d \in Seq(Client)
  <2>1. /\ <<c>> \in Seq(Client) /\ <<n>> \in Seq(Client) /\ Len(<<n>>) = 1
        /\ Len(w) \in Nat
    BY SingleSeq, LenProperties
  <2> DEFINE e == <<n>>
  <2>2. e \in Seq(Client) /\ Len(e) = 1
    BY <2>1
  <2> HIDE DEF e
  <2>3. w \o e \in Seq(Client) /\ Len(w \o e) = Len(w) + Len(e)
    BY <2>2, ConcatProperties
  <2>4. <<c>> \o d \in Seq(Client) /\ <<n>> \o d \in Seq(Client)
    BY ConsType
  <2> QED BY <2>1, <2>2, <2>3, <2>4 DEF e
<1>4. q = (x \o <<c>>) \o d
  BY DEF Together
<1>5. (x \o <<c>>) \o d = x \o (<<c>> \o d)
  <2> DEFINE e == <<c>>
  <2>1. x \in Seq(Client) /\ e \in Seq(Client)
    BY <1>3
  <2> HIDE DEF e, x
  <2>2. x \o (e \o d) = (x \o e) \o d
    BY <2>1, ConcatThree, Zenon
  <2> QED BY <2>2, Zenon DEF e
<1>6. x \o d = w \o (<<n>> \o d)
  <2> DEFINE e == <<n>>
  <2>1. e \in Seq(Client)
    BY <1>3
  <2> HIDE DEF e
  <2>2. w \o (e \o d) = (w \o e) \o d
    BY <2>1, ConcatThree, Zenon
  <2> QED BY <2>2, Zenon DEF e
<1> HIDE DEF q
<1>7. i = Len(x) + 1 /\ RemoveAt(q, i) = x \o d
  <2> DEFINE p == (x \o <<c>>) \o d
  <2>1. List(p) /\ x \in Seq(Client)
    BY <1>1, <1>3, <1>4
  <2> HIDE DEF x
  <2>2. IndexOf(p, c) = Len(x) + 1 /\ RemoveAt(p, Len(x) + 1) = x \o d
    BY <2>1, TakenOut, RemoveBetween
  <2>3. q = p
    BY <1>4
  <2> HIDE DEF p
  <2> QED BY <2>2, <2>3
<1>8. q[Len(x)] = n
  <2>1. ((w \o <<n>>) \o (<<c>> \o d))[Len(w) + 1] = n
    BY <1>3, RemoveBetween
  <2> QED BY <1>3, <1>4, <1>5, <2>1
<1> HIDE DEF i
<1>9. prev = Len(w) + 1
  <2>1. i - 1 \in Nat /\ i - 1 \in 1 .. i - 1 /\ i - 1 = Len(x)
    BY <1>3, <1>7
  <2>2. i - 1 \in J
    BY <1>8, <2>1
  <2>3. J \in SUBSET (0 .. i - 1) /\ J # {}
    BY <2>1, <2>2
  <2>4. Max(J) \in J /\ \A j \in J : j <= Max(J)
    <3> HIDE DEF J
    <3> QED BY <2>1, <2>3, MaxNat
  <2>5. \A j \in J : j \in Nat /\ j <= i - 1
    BY <2>1
  <2> HIDE DEF J
  <2>6. Max(J) \in Nat /\ Max(J) <= i - 1 /\ i - 1 <= Max(J)
    BY <2>2, <2>4, <2>5
  <2>7. Max(J) = i - 1
    BY <2>1, <2>6
  <2> QED BY <1>3, <2>1, <2>3, <2>7
<1> HIDE DEF prev, x
<1>10. prev # 0 /\ new = (w \o <<c>>) \o (<<n>> \o d)
  <2>1. InsertAt(w \o (<<n>> \o d), Len(w) + 1, c) = (w \o <<c>>) \o (<<n>> \o d)
    BY <1>3, InsertBetween
  <2>2. RemoveAt(q, i) = w \o (<<n>> \o d)
    BY <1>6, <1>7, Zenon
  <2>3. new = InsertAt(w \o (<<n>> \o d), Len(w) + 1, c)
    BY <1>9, <2>2, Zenon
  <2>4. prev # 0
    BY <1>3, <1>9
  <2> QED BY <2>1, <2>3, <2>4, Zenon
<1>11. List(new) /\ ToSet(new) = ToSet(q)
  <2>1. i \in 1 .. Len(q) /\ q[i] = c
    BY <1>1, SelIndex DEF i, q
  <2>2. prev \in 1 .. Len(q)
    BY <1>1, <1>3, <1>7, <1>9, <2>1
  <2> QED BY <1>1, <2>1, <2>2, RelinkList
<1> HIDE DEF new
<1>12. WithList(s, t, new)
  <2>1. t = [s EXCEPT !.clients[m] = new, !.lost = s.lost]
    <3>1. s.lost \in BOOLEAN
      BY <1>1 DEF State
    <3> QED BY <1>10, <3>1
  <2> QED BY <1>1, <1>11, <2>1, WithNewList DEF List
<1> HIDE DEF t
<1>13. Relisted(s, PushUp(s), new, c)
  BY <1>1, <1>2, <1>11, <1>12, RelinkedFocus DEF Tiled, q
<1> QED BY <1>10, <1>13

\* pushup() of the first client puts it behind the others, if there are any.
LEMMA PushUpRound ==
  ASSUME NEW s, ListInv(s), NoneLeft(s), NEW c \in Client, SelOf(s) = c,
         Tiled(s, c), NEW y \in Seq(Client),
         Together(s.clients[s.selmon], << >>, c, y)
  PROVE  PushUp(s).lost \/ Relisted(s, PushUp(s), y \o <<c>>, c)
<1> DEFINE m == s.selmon
           q == s.clients[m]
           i == IndexOf(q, c)
           J == {j \in 1 .. i - 1 : Tiled(s, q[j])}
           prev == IF J # {} THEN Max(J) ELSE 0
           rest == RemoveAt(q, i)
           moved == IF prev # 0 THEN InsertAt(rest, prev, c)
                    ELSE IF i = Len(q) THEN rest ELSE Append(rest, c)
           lost == s.lost \/ (prev = 0 /\ i = Len(q))
           t == [s EXCEPT !.clients[m] = moved, !.lost = lost]
<1>1. /\ s \in State /\ m \in Mon /\ List(q) /\ q \in Seq(Client)
      /\ Len(q) \in Nat /\ c # NULL /\ c \in ToSet(q) /\ s.sel[m] = c
  BY SelmonFacts, ListFacts, ConstantsAssumption DEF SelOf
<1>2. PushUp(s) = Arrange(Focus(t, c), m)
  BY <1>1 DEF PushUp, SelectLastInSubSeq, Tiled
<1>3. << >> \in Seq(Client) /\ Len(<< >>) = 0 /\ << >> \o y = y
  BY EmptySeq, ConcatEmptySeq
<1>4. q = (<< >> \o <<c>>) \o y
  BY DEF Together
<1> HIDE DEF q
<1>5. i = 1 /\ rest = y
  <2> DEFINE e == << >>
  <2> HIDE DEF e
  <2>1. List((e \o <<c>>) \o y) /\ e \in Seq(Client) /\ Len(e) = 0
        /\ q = (e \o <<c>>) \o y /\ e \o y = y
    BY <1>1, <1>3, <1>4 DEF e
  <2>2. i = Len(e) + 1 /\ RemoveAt(q, Len(e) + 1) = e \o y
    BY <2>1, TakenOut, RemoveBetween
  <2> QED BY <2>1, <2>2
<1> HIDE DEF rest, i
<1>6. prev = 0
  BY <1>5
<1> HIDE DEF prev
<1>7. s.lost \in BOOLEAN /\ {"lost", "clients"} \subseteq DOMAIN s
  BY <1>1, StateDomain DEF State
<1>8. CASE i = Len(q)
  <2>1. lost = TRUE /\ moved = rest
    BY <1>6, <1>7, <1>8
  <2>2. t = [s EXCEPT !.clients[m] = y, !.lost = TRUE]
    BY <1>5, <2>1
  <2>3. t \in State /\ t.lost
    BY <1>1, <1>7, <2>2, SetLostType
  <2> HIDE DEF t
  <2>4. Focus(t, c) \in State /\ Focus(t, c).lost = t.lost
    BY <2>3, FocusType, FocusLeaves DEF ClientOrNull
  <2> DEFINE f == Focus(t, c)
  <2> HIDE DEF f
  <2>5. Arrange(f, m).lost = f.lost
    <3>1. f \in State
      BY <2>4 DEF f
    <3> QED BY <3>1, ArrangeFields DEF Arrange
  <2> QED BY <1>2, <2>3, <2>4, <2>5 DEF f
<1>9. CASE i # Len(q)
  <2> DEFINE new == y \o <<c>>
  <2>1. Append(y, c) = new
    BY AppendIsConcat
  <2>2. List(new) /\ ToSet(new) = ToSet(q)
    <3>1. i \in 1 .. Len(q) /\ q[i] = c
      BY <1>1, SelIndex DEF i, q
    <3>2. List(y) /\ ToSet(y) = ToSet(q) \ {c}
      BY <1>1, <1>5, <3>1, RemoveAtList DEF rest
    <3> DEFINE e == <<c>>
    <3>3. List(e) /\ ToSet(e) = {c}
      BY SingleList
    <3> HIDE DEF e
    <3>4. List(y \o e) /\ ToSet(y \o e) = ToSet(y) \cup ToSet(e)
      BY <3>2, <3>3, ConcatList
    <3> QED BY <1>1, <3>2, <3>3, <3>4 DEF e
  <2>3. moved = new /\ lost = s.lost
    BY <1>5, <1>6, <1>7, <1>9, <2>1
  <2> HIDE DEF new, moved, lost
  <2>4. WithList(s, t, new)
    <3>1. t = [s EXCEPT !.clients[m] = new, !.lost = s.lost]
      BY <2>3
    <3> QED BY <1>1, <2>2, <3>1, WithNewList DEF List
  <2> HIDE DEF t
  <2>5. Relisted(s, PushUp(s), new, c)
    BY <1>1, <1>2, <2>2, <2>4, RelinkedFocus DEF Tiled, q
  <2> QED BY <2>5 DEF new
<1> QED BY <1>8, <1>9

-----------------------------------------------------------------------------
(* The order of the tiled clients                                          *)

LEMMA RelistedOrder ==
  ASSUME NEW s, NEW t, NEW r, NEW c, Relisted(s, t, r, c)
  PROVE  TiledOrder(t) = Keep(r, TiledClients(s))
<1>1. TiledClients(t) = TiledClients(s)
  BY SameTiledClients DEF Relisted
<1>2. t.clients[t.selmon] = r
  BY DEF Relisted
<1>3. TiledOrder(t) = Keep(t.clients[t.selmon], TiledClients(t))
  BY Zenon DEF TiledOrder, TiledClients
<1> QED BY <1>1, <1>2, <1>3, Zenon

\* What the next command finds after one that relinked the selected client.
LEMMA RelistedNext ==
  ASSUME NEW s, NoneLeft(s), NEW t, NEW r, NEW c, Relisted(s, t, r, c),
         Tiled(s, c)
  PROVE  /\ ListInv(t) /\ NoneLeft(t) /\ SelOf(t) = c /\ Tiled(t, c)
         /\ t.clients[t.selmon] = r /\ TiledClients(t) = TiledClients(s)
         /\ \A e : Tiled(t, e) = Tiled(s, e)
BY SameTiledClients DEF Relisted

\* The order after both commands is that before them.
SameOrder(s, t) == TiledOrder(t) = TiledOrder(s)

\* pushup() puts back what pushdown() put behind a tiled client.
LEMMA UpAfterPassed ==
  ASSUME NEW s, ListInv(s), NoneLeft(s), NEW c \in Client, Tiled(s, c),
         NEW a \in Seq(Client), NEW b \in Seq(Client), NEW n \in Client,
         NEW d \in Seq(Client), Passed(s, PushDown(s), c, a, b, n, d)
  PROVE  SameOrder(s, PushUp(PushDown(s)))
<1> DEFINE t == PushDown(s)
           u == PushUp(t)
           T == TiledClients(s)
           ab == a \o b
           nd == <<n>> \o d
           x == (ab \o <<n>>)
           y == (b \o <<n>>) \o d
           q == s.clients[s.selmon]
           r == (x \o <<c>>) \o d
           p == (ab \o <<c>>) \o nd
<1>1. /\ Relisted(s, t, r, c) /\ q = (a \o <<c>>) \o y
      /\ Tiled(s, n) /\ NoneIn(b, T)
  BY DEF Passed
<1>2. c \in T /\ n \in T
  BY <1>1 DEF TiledClients
<1>3. ab \in Seq(Client) /\ nd \in Seq(Client) /\ y \in Seq(Client)
  <2>1. ab \in Seq(Client) /\ nd \in Seq(Client)
    BY ConcatProperties, ConsType
  <2>2. y \in Seq(Client)
    BY RemoveBetween
  <2> QED BY <2>1, <2>2
<1>4. /\ Together(q, a, c, y) /\ Together(y, b, n, d)
      /\ Together(r, x, c, d) /\ Together(p, ab, c, nd)
  BY <1>1, Zenon DEF Together
<1> HIDE DEF t, u, T, q, y, r, p, nd, ab
<1>5. /\ ListInv(t) /\ NoneLeft(t) /\ SelOf(t) = c /\ Tiled(t, c)
      /\ t.clients[t.selmon] = r /\ TiledClients(t) = T /\ Tiled(t, n)
  BY <1>1, RelistedNext DEF T
<1>6. Relisted(t, u, p, c)
  <2>1. Together(t.clients[t.selmon], ab \o <<n>>, c, d)
    BY <1>4, <1>5
  <2>2. Relisted(t, PushUp(t), (ab \o <<c>>) \o (<<n>> \o d), c)
    BY <1>3, <1>5, <2>1, PushUpOver
  <2> QED BY <2>2, Zenon DEF u, p, nd
<1>7. TiledOrder(u) = Keep(p, T)
  BY <1>5, <1>6, RelistedOrder
<1>8. TiledOrder(s) = Keep(q, T)
  BY Zenon DEF TiledOrder, T, TiledClients, q
<1>9. Amid(Keep(q, T), Keep(a, T), c, Keep(y, T))
  BY <1>2, <1>3, <1>4, KeepAround
<1>10. Begins(Keep(y, T), n, Keep(d, T))
  BY <1>1, <1>2, <1>4, KeepSkips
<1>11. Amid(Keep(p, T), Keep(ab, T), c, Keep(nd, T))
  BY <1>2, <1>3, <1>4, KeepAround
<1>12. Keep(ab, T) = Keep(a, T)
  BY <1>1, KeepDrops, Zenon DEF ab
<1>13. Keep(nd, T) = <<n>> \o Keep(d, T)
  BY <1>2, KeepFront, Zenon DEF nd
<1>14. Keep(p, T) = Keep(q, T)
  BY <1>9, <1>10, <1>11, <1>12, <1>13, Zenon DEF Amid, Begins
<1> QED BY <1>7, <1>8, <1>14, Zenon DEF SameOrder, u, t

\* And what it put in front.
LEMMA UpAfterFronted ==
  ASSUME NEW s, ListInv(s), NoneLeft(s), NEW c \in Client, Tiled(s, c),
         NEW a \in Seq(Client), NEW b \in Seq(Client),
         Fronted(s, PushDown(s), c, a, b)
  PROVE  LET u == PushUp(PushDown(s))
         IN u.lost \/ SameOrder(s, u)
<1> DEFINE t == PushDown(s)
           u == PushUp(t)
           T == TiledClients(s)
           ab == a \o b
           e == <<c>>
           q == s.clients[s.selmon]
<1>1. Relisted(s, t, e \o ab, c) /\ q = (a \o e) \o b /\ NoneIn(b, T)
  BY DEF Fronted
<1>2. c \in T /\ e \in Seq(Client) /\ ab \in Seq(Client)
  <2>1. ab \in Seq(Client)
    BY ConcatProperties
  <2> QED BY <2>1 DEF TiledClients
<1>3. Together(q, a, c, b)
  BY <1>1, Zenon DEF Together
<1> HIDE DEF t, u, T, q, ab
<1>4. /\ ListInv(t) /\ NoneLeft(t) /\ SelOf(t) = c /\ Tiled(t, c)
      /\ t.clients[t.selmon] = e \o ab /\ TiledClients(t) = T
  BY <1>1, RelistedNext DEF T
<1>5. Together(t.clients[t.selmon], << >>, c, ab)
  <2>1. << >> \o e = e
    BY <1>2, ConcatEmptySeq
  <2> HIDE DEF e
  <2>2. t.clients[t.selmon] = (<< >> \o e) \o ab
    BY <1>4, <2>1, Zenon
  <2> QED BY <2>2, Zenon DEF Together, e
<1>6. u.lost \/ Relisted(t, u, ab \o e, c)
  BY <1>2, <1>4, <1>5, PushUpRound DEF u
<1>7. ASSUME Relisted(t, u, ab \o e, c)
      PROVE  SameOrder(s, u)
  <2>1. TiledOrder(u) = Keep(ab \o e, T)
    BY <1>4, <1>7, RelistedOrder
  <2>2. TiledOrder(s) = Keep(q, T)
    BY Zenon DEF TiledOrder, T, TiledClients, q
  <2>3. Keep(e, T) = e
    <3>1. Len(e) = 1 /\ e[1] = c
      BY SingleSeq
    <3> HIDE DEF e
    <3>2. \A i \in 1 .. Len(e) : e[i] \in T
      BY <1>2, <3>1
    <3> QED BY <1>2, <3>2, KeepAll
  <2> HIDE DEF e
  <2>4. KeepsBoth(ab, e, T)
    BY <1>2, KeepBoth
  <2>5. Keep(ab, T) = Keep(a, T)
    BY <1>1, KeepDrops, Zenon DEF ab
  <2>6. Keep(q, T) = Keep(a \o e, T)
    <3>1. a \o e \in Seq(Client)
      BY <1>2, ConcatProperties
    <3> QED BY <1>1, <3>1, KeepDrops, Zenon
  <2>7. KeepsBoth(a, e, T)
    BY <1>2, KeepBoth
  <2> QED BY <2>1, <2>2, <2>4, <2>5, <2>6, <2>7, Zenon
          DEF SameOrder, KeepsBoth
<1> QED BY <1>6, <1>7 DEF u, t

LEMMA PushUpUndoes ==
  ASSUME NEW s, Good(s), NoneLeft(s)
  PROVE  LET u == PushUp(PushDown(s))
         IN u.lost \/ SameOrder(s, u)
<1> DEFINE c == SelOf(s)
<1>1. ListInv(s) /\ s \in State /\ Settled(s)
  BY GoodFacts
<1>2. CASE c = NULL \/ s.isfloating[c]
  <2>1. PushDown(s) = s /\ PushUp(s) = s
    BY <1>2 DEF PushDown, PushUp, SelOf
  <2> QED BY <2>1 DEF SameOrder
<1>3. CASE c # NULL /\ ~s.isfloating[c]
  <2>1. c \in Client
    BY <1>1, <1>3, SelmonFacts DEF SelOf
  <2>2. Visible(s, c)
    <3>1. s.selmon \in Mon /\ s.stack[s.selmon] \in Seq(Client)
      BY <1>1, StateFields DEF State
    <3>2. c = FirstVisible(s, s.stack[s.selmon])
      BY <1>1 DEF Settled, SelOf
    <3> QED BY <1>3, <3>1, <3>2, FirstVisibleIsVisible
  <2>3. Tiled(s, c)
    BY <1>3, <2>2 DEF Tiled
  <2>4. PICK a, b \in Seq(Client) :
          \/ Fronted(s, PushDown(s), c, a, b)
          \/ \E n \in Client, d \in Seq(Client) :
               Passed(s, PushDown(s), c, a, b, n, d)
    BY <1>1, <1>3, <2>3, PushDownOrder
  <2> HIDE DEF c
  <2> QED BY <1>1, <2>1, <2>3, <2>4, UpAfterFronted, UpAfterPassed
<1> QED BY <1>2, <1>3

\* pop() puts a visible client in front, and selects it.
LEMMA PopOrder ==
  ASSUME NEW s, ListInv(s), NoneLeft(s), NEW a \in Seq(Client),
         NEW c \in Client, NEW b \in Seq(Client), Visible(s, c),
         Together(s.clients[s.selmon], a, c, b)
  PROVE  Relisted(s, Pop(s, c), <<c>> \o (a \o b), c)
<1> DEFINE m == s.selmon
           q == s.clients[m]
           front == Attach(Detach(s, c), c)
           f == Focus(front, c)
<1>1. s \in State /\ m \in Mon /\ List(q) /\ q = (a \o <<c>>) \o b
  BY SelmonFacts DEF Together
<1>2. RemoveFirst(q, c) = a \o b
  <2> HIDE DEF q
  <2> QED BY <1>1, TakenOut
<1>3. c \in ToSet(q)
  <2>1. Together(q, a, c, b) /\ List(q)
    BY <1>1
  <2> HIDE DEF q
  <2> QED BY <2>1, InBetween
<1>4. s.mon[c] = m
  BY <1>1, <1>3 DEF ListInv, Linked
<1>5. WithList(s, front, <<c>> \o (a \o b))
  BY <1>1, <1>2, <1>4, WithFront
<1>6. List(<<c>> \o (a \o b)) /\ ToSet(<<c>> \o (a \o b)) = ToSet(q)
  <2>1. List(a \o b) /\ ToSet(a \o b) = ToSet(q) \ {c}
    <3> HIDE DEF q
    <3> QED BY <1>1, <1>2, RemoveFirstList
  <2> DEFINE p == a \o b
  <2>2. List(p) /\ ToSet(p) = ToSet(q) \ {c} /\ c \notin ToSet(p)
    BY <2>1
  <2> HIDE DEF p, q
  <2>3. List(<<c>> \o p) /\ ToSet(<<c>> \o p) = ToSet(p) \cup {c}
    BY <2>2, ConsList
  <2> QED BY <1>3, <2>2, <2>3 DEF p
<1>7. f.mon = s.mon
  <2>1. front \in State /\ front.mon = s.mon
    BY <1>5 DEF WithList
  <2> HIDE DEF front
  <2> QED BY <2>1, FocusLeaves DEF ClientOrNull
<1>8. Pop(s, c) = Arrange(f, m)
  BY <1>4, <1>7 DEF Pop
<1> HIDE DEF front
<1>9. Relisted(s, Arrange(Focus(front, c), s.selmon), <<c>> \o (a \o b), c)
  BY <1>3, <1>5, <1>6, RelinkedFocus
<1> QED BY <1>8, <1>9

\* The next tiled client of a list behind element i, taken as a piece of it.
NextOne(s, q, y, k, b, g, d) ==
  /\ k # 0 /\ At(q, k) = g /\ Tiled(s, g)
  /\ Together(y, b, g, d) /\ NoneIn(b, TiledClients(s))

LEMMA NextIn ==
  ASSUME NEW s, NEW a \in Seq(Client), NEW c \in Client, NEW y \in Seq(Client),
         NEW q \in Seq(Client), Together(q, a, c, y)
  PROVE  LET k == NextTiled(s, q, Len(a) + 2)
         IN \/ k = 0 /\ NoneIn(y, TiledClients(s))
            \/ \E b, d \in Seq(Client), g \in Client : NextOne(s, q, y, k, b, g, d)
<1> DEFINE i == Len(a) + 2
           k == NextTiled(s, q, i)
<1>1. /\ q = (a \o <<c>>) \o y /\ Len(a) \in Nat /\ Len(y) \in Nat
      /\ Len(q) = Len(a) + 1 + Len(y)
  BY LenProperties, RemoveBetween DEF Together
<1>2. \A j \in 1 .. Len(y) : q[Len(a) + 1 + j] = y[j]
  <2> DEFINE p == a \o <<c>>
  <2>1. p \in Seq(Client) /\ Len(p) = Len(a) + 1
    BY <1>1, SingleSeq, ConcatProperties
  <2> HIDE DEF p
  <2>2. q = p \o y
    BY <1>1 DEF p
  <2>3. \A j \in 1 .. Len(p) + Len(y) :
          (p \o y)[j] = IF j <= Len(p) THEN p[j] ELSE y[j - Len(p)]
    BY <2>1, ConcatProperties
  <2>4. ASSUME NEW j \in 1 .. Len(y)
        PROVE  q[Len(a) + 1 + j] = y[j]
    <3>1. /\ Len(a) + 1 + j \in 1 .. Len(p) + Len(y)
          /\ ~(Len(a) + 1 + j <= Len(p)) /\ Len(a) + 1 + j - Len(p) = j
      BY <1>1, <2>1
    <3> QED BY <2>2, <2>3, <3>1
  <2> QED BY <2>4
<1>3. i \in 1 .. Len(q) + 1
  BY <1>1
<1>4. /\ k = 0 => \A j \in i .. Len(q) : ~Tiled(s, q[j])
      /\ k # 0 => /\ k \in i .. Len(q) /\ Tiled(s, q[k])
                  /\ \A j \in i .. k - 1 : ~Tiled(s, q[j])
  BY <1>3, NextTiledStops
<1> HIDE DEF k
<1>5. CASE k = 0
  <2>1. ASSUME NEW j \in 1 .. Len(y)
        PROVE  y[j] \notin TiledClients(s)
    <3>1. Len(a) + 1 + j \in i .. Len(q)
      BY <1>1
    <3> QED BY <1>2, <1>4, <1>5, <3>1 DEF TiledClients
  <2> QED BY <1>5, <2>1 DEF NoneIn, k
<1>6. CASE k # 0
  <2> DEFINE l == k - (Len(a) + 1)
             g == y[l]
  <2>0. /\ k \in Int /\ k >= Len(a) + 2 /\ k <= Len(a) + 1 + Len(y)
        /\ Len(a) \in Nat /\ Len(y) \in Nat
    <3>1. k \in i .. Len(q)
      BY <1>4, <1>6
    <3> QED BY <1>1, <3>1
  <2>1. /\ l \in 1 .. Len(y) /\ Len(a) + 1 + l = k
        /\ \A j \in 1 .. l - 1 : Len(a) + 1 + j \in i .. k - 1 /\ j \in 1 .. Len(y)
    BY <2>0
  <2>2. g = q[k] /\ g \in Client /\ Tiled(s, g)
    <3>1. g = q[k]
      BY <1>2, <2>1
    <3>2. g \in Client
      BY <2>1, ElementOfSeq
    <3> QED BY <1>4, <1>6, <3>1, <3>2
  <2>3. PICK b, d \in Seq(Client) :
          /\ y = (b \o <<g>>) \o d /\ Len(b) = l - 1
          /\ \A j \in 1 .. l - 1 : b[j] = y[j]
    BY <2>1, SplitAt
  <2>4. NoneIn(b, TiledClients(s))
    <3>1. ASSUME NEW j \in 1 .. Len(b)
          PROVE  b[j] \notin TiledClients(s)
      <4>1. j \in 1 .. l - 1
        BY <2>3
      <4>2. b[j] = q[Len(a) + 1 + j] /\ Len(a) + 1 + j \in i .. k - 1
        BY <1>2, <2>1, <2>3, <4>1
      <4>3. ~Tiled(s, q[Len(a) + 1 + j])
        BY <1>4, <1>6, <4>2
      <4> QED BY <4>2, <4>3 DEF TiledClients
    <3> QED BY <3>1 DEF NoneIn
  <2>5. At(q, k) = g
    BY <1>6, <2>2 DEF At
  <2> HIDE DEF g
  <2>6. NextOne(s, q, y, k, b, g, d)
    BY <1>6, <2>2, <2>3, <2>4, <2>5 DEF NextOne, Together
  <2> QED BY <2>2, <2>6 DEF k
<1> QED BY <1>5, <1>6

\* The first tiled client of a list.
LEMMA FirstIn ==
  ASSUME NEW s, NEW a \in Seq(Client), NEW c \in Client, NEW y \in Seq(Client),
         NEW q \in Seq(Client), Together(q, a, c, y), Tiled(s, c),
         NoneIn(a, TiledClients(s))
  PROVE  NextTiled(s, q, 1) = Len(a) + 1 /\ q[Len(a) + 1] = c
<1> DEFINE n == NextTiled(s, q, 1)
           m == Len(a) + 1
<1>1. /\ q = (a \o <<c>>) \o y /\ Len(a) \in Nat /\ Len(y) \in Nat
      /\ Len(q) = m + Len(y) /\ q[m] = c
  BY LenProperties, RemoveBetween DEF Together
<1>2. \A j \in 1 .. Len(a) : q[j] = a[j]
  <2> DEFINE p == a \o <<c>>
  <2>1. /\ p \in Seq(Client) /\ Len(p) = Len(a) + 1
        /\ \A j \in 1 .. Len(a) : p[j] = a[j]
    BY <1>1, SingleSeq, ConcatProperties
  <2> HIDE DEF p
  <2>2. q = p \o y
    BY <1>1 DEF p
  <2>3. \A j \in 1 .. Len(p) + Len(y) :
          (p \o y)[j] = IF j <= Len(p) THEN p[j] ELSE y[j - Len(p)]
    BY <2>1, ConcatProperties
  <2>4. ASSUME NEW j \in 1 .. Len(a)
        PROVE  q[j] = a[j]
    <3>1. j \in 1 .. Len(p) + Len(y) /\ j <= Len(p)
      BY <1>1, <2>1
    <3> QED BY <2>1, <2>2, <2>3, <3>1
  <2> QED BY <2>4
<1>3. \A j \in 1 .. Len(a) : ~Tiled(s, q[j])
  <2>1. ASSUME NEW j \in 1 .. Len(a)
        PROVE  ~Tiled(s, q[j])
    <3>1. q[j] = a[j] /\ a[j] \notin TiledClients(s) /\ a[j] \in Client
      BY <1>2, ElementOfSeq DEF NoneIn
    <3> QED BY <3>1 DEF TiledClients
  <2> QED BY <2>1
<1>4. 1 \in 1 .. Len(q) + 1
  BY <1>1
<1>5. /\ n = 0 => \A j \in 1 .. Len(q) : ~Tiled(s, q[j])
      /\ n # 0 => /\ n \in 1 .. Len(q) /\ Tiled(s, q[n])
                  /\ \A j \in 1 .. n - 1 : ~Tiled(s, q[j])
  BY <1>4, NextTiledStops
<1> HIDE DEF n
<1>6. m \in 1 .. Len(q) /\ Tiled(s, q[m])
  BY <1>1
<1>7. n # 0 /\ n \in 1 .. Len(q) /\ Tiled(s, q[n])
  BY <1>5, <1>6
<1>8. ~(m \in 1 .. n - 1) /\ ~(n \in 1 .. Len(a))
  BY <1>3, <1>5, <1>6, <1>7
<1>9. n = m
  BY <1>1, <1>7, <1>8
<1> QED BY <1>1, <1>9 DEF n

\* zoom() of the first tiled client takes the next one, if there is one, in
\* front of all.
Zoomed(s, t, a, c, b, g, d) ==
  /\ Relisted(s, t, <<g>> \o (((a \o <<c>>) \o b) \o d), g)
  /\ Tiled(s, g) /\ NoneIn(b, TiledClients(s))

LEMMA ZoomFirst ==
  ASSUME NEW s, ListInv(s), NoneLeft(s), NEW a \in Seq(Client),
         NEW c \in Client, NEW y \in Seq(Client), SelOf(s) = c, Tiled(s, c),
         Together(s.clients[s.selmon], a, c, y), NoneIn(a, TiledClients(s))
  PROVE  \/ Zoom(s) = s /\ NoneIn(y, TiledClients(s))
         \/ \E b, d \in Seq(Client), g \in Client :
              Together(y, b, g, d) /\ Zoomed(s, Zoom(s), a, c, b, g, d)
<1> DEFINE m == s.selmon
           q == s.clients[m]
           first == NextTiled(s, q, 1)
           k == NextTiled(s, q, Len(a) + 2)
<1>1. /\ q \in Seq(Client) /\ Together(q, a, c, y) /\ s.sel[m] = c
      /\ c # NULL /\ ~s.isfloating[c]
  <2>1. List(q)
    BY SelmonFacts
  <2> QED BY <2>1, ConstantsAssumption DEF List, SelOf, Tiled
<1>2. first = Len(a) + 1 /\ q[first] = c
  <2> HIDE DEF q
  <2> QED BY <1>1, FirstIn
<1>3. first # 0 /\ first + 1 = Len(a) + 2 /\ At(q, first) = c
  <2>1. Len(a) \in Nat
    BY LenProperties
  <2> HIDE DEF first
  <2> QED BY <1>2, <2>1 DEF At
<1>4. Zoom(s) = IF At(q, k) = NULL THEN s ELSE Pop(s, At(q, k))
  BY <1>1, <1>3 DEF Zoom
<1>5. \/ k = 0 /\ NoneIn(y, TiledClients(s))
      \/ \E b, d \in Seq(Client), g \in Client : NextOne(s, q, y, k, b, g, d)
  <2> HIDE DEF q
  <2> QED BY <1>1, NextIn
<1> HIDE DEF k
<1>6. CASE k = 0 /\ NoneIn(y, TiledClients(s))
  BY <1>4, <1>6 DEF At
<1>7. ASSUME NEW b \in Seq(Client), NEW d \in Seq(Client), NEW g \in Client,
             NextOne(s, q, y, k, b, g, d)
      PROVE  Together(y, b, g, d) /\ Zoomed(s, Zoom(s), a, c, b, g, d)
  <2>1. /\ At(q, k) = g /\ g # NULL /\ Tiled(s, g) /\ Together(y, b, g, d)
        /\ NoneIn(b, TiledClients(s))
    BY <1>7, ConstantsAssumption DEF NextOne
  <2>2. Zoom(s) = Pop(s, g)
    BY <1>4, <2>1
  <2> DEFINE e == a \o <<c>>
             x == e \o b
  <2>3. e \in Seq(Client) /\ x \in Seq(Client)
    <3>1. e \in Seq(Client)
      BY SingleSeq, ConcatProperties
    <3> HIDE DEF e
    <3> QED BY <3>1, ConcatProperties
  <2>4. q = e \o y
    BY <1>1 DEF Together
  <2> HIDE DEF e
  <2>5. Together(e \o y, x, g, d)
    BY <2>1, <2>3, JoinInFront
  <2>6. Together(s.clients[s.selmon], x, g, d)
    BY <2>4, <2>5
  <2>7. Visible(s, g)
    BY <2>1 DEF Tiled
  <2> HIDE DEF x
  <2>8. Relisted(s, Pop(s, g), <<g>> \o (x \o d), g)
    BY <2>3, <2>6, <2>7, PopOrder
  <2>9. Zoomed(s, Zoom(s), a, c, b, g, d)
    BY <2>1, <2>2, <2>8, Zenon DEF Zoomed, x, e
  <2> QED BY <2>1, <2>9
<1> QED BY <1>5, <1>6, <1>7

\* A list with tiled clients, taken apart at the first.
LEMMA AtFirst ==
  ASSUME NEW s, NEW q \in Seq(Client), Keep(q, TiledClients(s)) # << >>
  PROVE  \E a, y \in Seq(Client), c \in Client :
           Together(q, a, c, y) /\ Tiled(s, c) /\ NoneIn(a, TiledClients(s))
<1> DEFINE n == NextTiled(s, q, 1)
<1>1. Len(q) \in Nat /\ 1 \in 1 .. Len(q) + 1
  BY LenProperties
<1>2. /\ n = 0 => \A j \in 1 .. Len(q) : ~Tiled(s, q[j])
      /\ n # 0 => /\ n \in 1 .. Len(q) /\ Tiled(s, q[n])
                  /\ \A j \in 1 .. n - 1 : ~Tiled(s, q[j])
  BY <1>1, NextTiledStops
<1> HIDE DEF n
<1>3. n # 0
  <2> SUFFICES ASSUME n = 0 PROVE FALSE
    OBVIOUS
  <2>1. \A j \in 1 .. Len(q) : q[j] \notin TiledClients(s)
    BY <1>2 DEF TiledClients
  <2> QED BY <2>1, KeepNone
<1>4. n \in 1 .. Len(q) /\ Tiled(s, q[n]) /\ q[n] \in Client
  BY <1>2, <1>3, ElementOfSeq
<1>5. PICK a, y \in Seq(Client) :
        /\ q = (a \o <<q[n]>>) \o y /\ Len(a) = n - 1
        /\ \A j \in 1 .. n - 1 : a[j] = q[j]
  BY <1>4, SplitAt
<1>6. NoneIn(a, TiledClients(s))
  BY <1>2, <1>3, <1>5 DEF NoneIn, TiledClients
<1> DEFINE c == q[n]
<1>7. Together(q, a, c, y) /\ Tiled(s, c) /\ c \in Client
  BY <1>4, <1>5 DEF Together
<1> HIDE DEF c
<1> QED BY <1>6, <1>7

\* zoom() of the first tiled client, then of the one it brought to the front.
LEMMA ZoomUndoes ==
  ASSUME NEW s, ListInv(s), NoneLeft(s), TiledOrder(s) # << >>,
         SelOf(s) = TiledOrder(s)[1]
  PROVE  SameOrder(s, Zoom(Zoom(s)))
<1> DEFINE q == s.clients[s.selmon]
           T == TiledClients(s)
           t == Zoom(s)
           u == Zoom(t)
<1>1. q \in Seq(Client) /\ TiledOrder(s) = Keep(q, T)
  BY SelmonFacts, Zenon DEF TiledOrder, TiledClients, List
<1>2. PICK a, y \in Seq(Client), c \in Client :
        Together(q, a, c, y) /\ Tiled(s, c) /\ NoneIn(a, T)
  <2> HIDE DEF q
  <2> QED BY <1>1, AtFirst
<1>3. c \in T
  BY <1>2 DEF TiledClients
<1>4. Begins(Keep(q, T), c, Keep(y, T))
  <2> HIDE DEF q, T
  <2> QED BY <1>2, <1>3, KeepSkips
<1>5. Keep(y, T) \in Seq(Client)
  BY KeepType
<1>6. SelOf(s) = c
  <2> DEFINE k == Keep(q, T)
             r == Keep(y, T)
  <2>1. Begins(k, c, r) /\ r \in Seq(Client)
    BY <1>4, <1>5
  <2> HIDE DEF k, r
  <2>2. k[1] = c
    BY <2>1, BeginsOnce
  <2> QED BY <1>1, <2>2 DEF k
<1>7. \/ t = s
      \/ \E b, d \in Seq(Client), g \in Client :
           Together(y, b, g, d) /\ Zoomed(s, t, a, c, b, g, d)
  BY <1>2, <1>6, ZoomFirst
<1>8. CASE t = s
  BY <1>8 DEF SameOrder
<1>9. ASSUME NEW b \in Seq(Client), NEW d \in Seq(Client), NEW g \in Client,
             Together(y, b, g, d), Zoomed(s, t, a, c, b, g, d)
      PROVE  SameOrder(s, u)
  <2> DEFINE z == ((a \o <<c>>) \o b) \o d
  <2>1. Relisted(s, t, <<g>> \o z, g) /\ Tiled(s, g) /\ NoneIn(b, T) /\ g \in T
    BY <1>9, Zenon DEF Zoomed, TiledClients
  <2>2. z \in Seq(Client) /\ Begins(Keep(z, T), c, Keep(d, T))
    BY <1>2, <1>3, <2>1, KeepMoved
  <2> HIDE DEF z, t
  <2>3. /\ ListInv(t) /\ NoneLeft(t) /\ SelOf(t) = g /\ Tiled(t, g)
        /\ t.clients[t.selmon] = <<g>> \o z /\ TiledClients(t) = T
        /\ \A e : Tiled(t, e) = Tiled(s, e)
    <3> HIDE DEF T
    <3> DEFINE r == <<g>> \o z
    <3>1. Relisted(s, t, r, g)
      BY <2>1
    <3> HIDE DEF r
    <3>2. /\ ListInv(t) /\ NoneLeft(t) /\ SelOf(t) = g /\ Tiled(t, g)
          /\ t.clients[t.selmon] = r /\ TiledClients(t) = TiledClients(s)
          /\ \A e : Tiled(t, e) = Tiled(s, e)
      BY <2>1, <3>1, RelistedNext
    <3> QED BY <3>2, Zenon DEF r, T
  <2>4. << >> \in Seq(Client) /\ << >> \o <<g>> = <<g>> /\ NoneIn(<< >>, T)
    BY SingleSeq, ConcatEmptySeq DEF NoneIn
  <2> DEFINE o == << >>
  <2>5. o \in Seq(Client) /\ NoneIn(o, T) /\ o \o <<g>> = <<g>>
    BY <2>4
  <2> HIDE DEF T, o
  <2>6. Together(t.clients[t.selmon], o, g, z)
    BY <2>3, <2>5, Zenon DEF Together
  <2>7. NoneIn(o, TiledClients(t))
    BY <2>3, <2>5
  <2>8. \/ u = t /\ NoneIn(z, TiledClients(t))
        \/ \E b2, d2 \in Seq(Client), h \in Client :
             Together(z, b2, h, d2) /\ Zoomed(t, u, o, g, b2, h, d2)
    BY <2>2, <2>3, <2>5, <2>6, <2>7, ZoomFirst
  <2>9. Keep(d, T) \in Seq(Client)
    BY KeepType
  <2>10. ASSUME NoneIn(z, TiledClients(t))
         PROVE  FALSE
    <3>1. Keep(z, T) = << >>
      BY <2>2, <2>3, <2>10, KeepNone DEF NoneIn
    <3> DEFINE k == Keep(z, T)
               r == Keep(d, T)
    <3>2. Begins(k, c, r) /\ r \in Seq(Client) /\ k = << >>
      BY <2>2, <2>9, <3>1
    <3> HIDE DEF k, r
    <3> QED BY <3>2, BeginsOnce
  <2>11. ASSUME NEW b2 \in Seq(Client), NEW d2 \in Seq(Client), NEW h \in Client,
                Together(z, b2, h, d2), Zoomed(t, u, o, g, b2, h, d2)
         PROVE  SameOrder(s, u)
    <3> DEFINE v == ((o \o <<g>>) \o b2) \o d2
    <3>1. /\ Relisted(t, u, <<h>> \o v, h) /\ NoneIn(b2, T) /\ h \in T
      <4>1. Relisted(t, u, <<h>> \o v, h) /\ NoneIn(b2, T) /\ Tiled(t, h)
        BY <2>3, <2>11, Zenon DEF Zoomed
      <4>2. h \in T
        BY <2>3, <4>1 DEF TiledClients, T
      <4> QED BY <4>1, <4>2
    <3>2. v \in Seq(Client) /\ Begins(Keep(v, T), g, Keep(d2, T))
      BY <2>1, <2>5, <3>1, KeepMoved
    <3> HIDE DEF v
    <3>3. Begins(Keep(z, T), h, Keep(d2, T))
      BY <2>11, <3>1, KeepSkips
    <3>4. Keep(d2, T) \in Seq(Client)
      BY KeepType
    <3>5. h = c /\ Keep(d2, T) = Keep(d, T)
      <4> DEFINE k == Keep(z, T)
                 r == Keep(d, T)
                 r2 == Keep(d2, T)
      <4>1. /\ Begins(k, c, r) /\ r \in Seq(Client)
            /\ Begins(k, h, r2) /\ r2 \in Seq(Client)
        BY <2>2, <2>9, <3>3, <3>4
      <4> HIDE DEF k, r, r2
      <4>2. h = c /\ r2 = r
        BY <4>1, BeginsOnce
      <4> QED BY <4>2 DEF r, r2
    <3>6. TiledOrder(u) = Keep(<<h>> \o v, T)
      <4> DEFINE w == <<h>> \o v
      <4>1. Relisted(t, u, w, h)
        BY <3>1
      <4> HIDE DEF w
      <4>2. TiledOrder(u) = Keep(w, TiledClients(t))
        BY <4>1, RelistedOrder
      <4> QED BY <2>3, <4>2, Zenon DEF w
    <3>7. Begins(Keep(<<h>> \o v, T), h, Keep(v, T))
      BY <3>1, <3>2, KeepFront, Zenon DEF Begins
    <3>8. Begins(Keep(y, T), g, Keep(d, T))
      BY <1>9, <2>1, KeepSkips
    <3>9. Keep(v, T) = Keep(y, T)
      BY <3>2, <3>5, <3>8, Zenon DEF Begins
    <3>10. TiledOrder(u) = TiledOrder(s)
      BY <1>1, <1>4, <3>5, <3>6, <3>7, <3>9, Zenon DEF Begins
    <3> QED BY <3>10 DEF SameOrder
  <2> QED BY <2>8, <2>10, <2>11
<1> QED BY <1>7, <1>8, <1>9

LEMMA InvUndo == ClientsInv => PushAndZoomUndo
<1> SUFFICES ASSUME ClientsInv PROVE PushAndZoomUndo
  OBVIOUS
<1> DEFINE order == TiledOrder(wm)
           up == PushUp(PushDown(wm))
<1>1. SUFFICES ASSUME ~wm.lost, \A c \in Client : ~IsLeft(wm, c)
               PROVE  /\ up.lost \/ TiledOrder(up) = order
                      /\ order # << >> /\ SelOf(wm) = order[1] =>
                           TiledOrder(Zoom(Zoom(wm))) = order
  BY DEF PushAndZoomUndo
<1>2. Good(wm) /\ NoneLeft(wm)
  BY <1>1 DEF ClientsInv, NoneLeft
<1>3. ListInv(wm)
  BY <1>2, GoodFacts
<1>4. up.lost \/ TiledOrder(up) = order
  BY <1>2, PushUpUndoes DEF SameOrder
<1>5. ASSUME order # << >>, SelOf(wm) = order[1]
      PROVE  TiledOrder(Zoom(Zoom(wm))) = order
  BY <1>2, <1>3, <1>5, ZoomUndoes DEF SameOrder
<1> QED BY <1>4, <1>5

\* With no column left of the master area, pushup() after pushdown() leaves the
\* tiled clients in their order, and zoom() pressed twice on the first of them
\* exchanges it with the next and exchanges them back.
THEOREM PushAndZoomComeBack == Spec => []PushAndZoomUndo
BY InvUndo, InitClients, NextClients, PTL DEF Spec

-----------------------------------------------------------------------------
(* Remembered views                                                        *)

LEMMA InvRemembered ==
  ClientsInv => (~wm.lost /\ NoneLeft(wm) => RememberedViewRestored)
<1> SUFFICES ASSUME ClientsInv, ~wm.lost, NoneLeft(wm), NEW t \in Tag
             PROVE  LET m == wm.selmon
                        home == wm.createtag[m][wm.seltags[m]]
                        away == ComboView(KeyRelease(wm), t)
                        back == ComboView(KeyRelease(away), home)
                    IN t # home =>
                         /\ ViewOf(back, m) = ViewOf(wm, m) \cup {home}
                         /\ wm.clients[m] # << >> =>
                              back.clients[m][1] = wm.clients[m][1]
  BY DEF RememberedViewRestored
<1>1. ListInv(wm)
  BY GoodFacts DEF ClientsInv
<1> QED BY <1>1, ThereAndBack

\* A chord that leaves a tag and one that selects it again bring back what was
\* viewed with it and the first client of the list, wherever the keys, windows
\* and monitors have led before, if no client belongs to the left column.
THEOREM ViewsComeBack ==
  Spec => [](~wm.lost /\ NoneLeft(wm) => RememberedViewRestored)
BY InvRemembered, InitClients, NextClients, PTL DEF Spec
=============================================================================
