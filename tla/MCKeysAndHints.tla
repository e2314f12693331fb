--------------------------- MODULE MCKeysAndHints ---------------------------
(* Two workloads in one run of TLC: chords of the tag keys, and the hints,  *)
(* types and messages of windows beside floating, fullscreen and view       *)
(* commands. Together they would be too many states.                        *)
EXTENDS MCWindowManager

VARIABLE workload

ChordAndHintOps == ChordOps \cup HintOps

\* Only plain windows, tiled and not urgent, are opened beside chords.
OpenPlainWindow ==
  /\ MapRequestEvent
  /\ \A c \in Managed(wm') : ~wm'.isfloating[c] /\ ~wm'.isurgent[c]

Chords ==
  \/ ComboViewCmd \/ KeyReleaseEvent \/ ComboTagCmd \/ OpenPlainWindow

Hints ==
  \/ ViewCmd \/ ToggleFloatingCmd \/ ToggleFullscrCmd
  \/ MapRequestEvent \/ WindowGone \/ UnmapOrDestroyEvent
  \/ FullscreenMessage \/ ActiveWindowEvent \/ WindowTypeChange
  \/ WmHintsChange \/ SizeHintsChange \/ TransientForChange

MCInit == Init /\ workload \in {"chords", "hints"}
MCNext ==
  /\ workload' = workload
  /\ \/ workload = "chords" /\ Chords
     \/ workload = "hints" /\ Hints
MCSpec == MCInit /\ [][MCNext]_<<wm, workload>>
=============================================================================
