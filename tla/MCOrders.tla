------------------------------ MODULE MCOrders ------------------------------
(* Two workloads in one run of TLC, both with three clients: the order of   *)
(* the client list on one wide monitor, and the focus history on two        *)
(* monitors.                                                                 *)
EXTENDS MCWindowManager

VARIABLE workload

OrderKinds == ListKinds
OrderOps == ListOps \cup HistoryOps

\* varcol and one other layout at a time.
TwoLayouts == SetLayoutCmd /\ wm'.lt[1][0] = "varcol"

Lists ==
  \/ FocusStackCmd \/ ZoomCmd \/ PushDownCmd \/ PushUpCmd \/ PushLeftCmd
  \/ IncNMasterCmd \/ TwoLayouts \/ ToggleFloatingCmd
  \/ MapRequestEvent \/ WindowGone \/ UnmapOrDestroyEvent

OpenPlainWindow ==
  MapRequestEvent /\ \A c \in Managed(wm') : ~wm'.isLeft[c]

History ==
  \/ FocusMonCmd \/ TagMonCmd \/ ButtonPressEvent \/ ConfigureNotifyEvent
  \/ ToggleTagCmd
  \/ OpenPlainWindow \/ WindowGone \/ UnmapOrDestroyEvent

MCInit ==
  /\ Init
  /\ workload \in {"lists", "history"}
  /\ workload = "lists" => wm.nmon = 1
MCNext ==
  /\ workload' = workload
  /\ \/ workload = "lists" /\ Lists
     \/ workload = "history" /\ History
MCSpec == MCInit /\ [][MCNext]_<<wm, workload>>
=============================================================================
