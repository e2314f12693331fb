---------------------------- MODULE MCIpcEvents ----------------------------
(* An instance of IpcEvents for TLC.                                        *)
EXTENDS IpcEvents

ClientSymmetry == Permutations(Client)

Plain == [ transient |-> FALSE, tags |-> {}, isfloating |-> FALSE,
           isLeft |-> FALSE, fullscreen |-> FALSE, dialog |-> FALSE,
           isfixed |-> FALSE, urgent |-> FALSE, neverfocus |-> FALSE ]

EventKinds == {Plain, [Plain EXCEPT !.isfloating = TRUE, !.urgent = TRUE]}
EventOps == {"focusmon", "tagmon", "togglefloating", "setlayout", "tag",
             "geometry", "map", "close"}

\* The default layouts only.
Bounds == \A m \in Mon : wm.lt[m] = (0 :> "varcol") @@ (1 :> "monocle")
=============================================================================
