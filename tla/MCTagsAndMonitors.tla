------------------------- MODULE MCTagsAndMonitors -------------------------
(* Two workloads in one run of TLC: view and tag commands beside windows    *)
(* that take the input focus, on one monitor; and everything that selects   *)
(* another monitor, or another client, while monitors come and go.          *)
EXTENDS MCWindowManager

VARIABLE workload

TagAndMonitorKinds == TagKinds \cup MonitorKinds
TagAndMonitorOps == TagOps \cup MonitorOps

OpenTiledWindow ==
  MapRequestEvent /\ \A c \in Managed(wm') : ~wm'.isfloating[c]

\* A dialog of another window, or a window that is in view.
OpenFocusableWindow ==
  /\ MapRequestEvent
  /\ \A c \in Managed(wm') \ Managed(wm) :
       ~wm'.neverfocus[c] /\ (wm'.isfloating[c] \/ Visible(wm', c))

Tags ==
  \/ ViewCmd \/ ToggleViewCmd \/ TagCmd \/ ToggleTagCmd \/ FocusStackCmd
  \/ OpenTiledWindow \/ WindowGone \/ UnmapOrDestroyEvent
  \/ TakeFocus \/ FocusInEvent \/ LateFocusInEvent

\* Views change on the first monitor only.
ToggleFirstView == ToggleViewCmd /\ wm.selmon = 1

Monitors ==
  \/ ToggleFirstView \/ FocusMonCmd \/ TagMonCmd
  \/ EnterNotifyEvent \/ MotionNotifyEvent \/ ButtonPressEvent
  \/ ConfigureNotifyEvent
  \/ OpenFocusableWindow \/ WindowGone \/ UnmapOrDestroyEvent

MCInit ==
  /\ Init /\ workload \in {"tags", "monitors"}
  /\ workload = "tags" => wm.nmon = 1
MCNext ==
  /\ workload' = workload
  /\ \/ workload = "tags" /\ Tags
     \/ workload = "monitors" /\ Monitors

\* The fairness of FairSpec.
MCSpec ==
  /\ MCInit /\ [][MCNext]_<<wm, workload>>
  /\ WF_<<wm, workload>>(workload' = workload /\ FocusInEvent)
=============================================================================
