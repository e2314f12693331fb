----------------------------- MODULE MCSwallow -----------------------------
(* An instance of Swallow for TLC: a terminal, and two programs it runs.    *)
EXTENDS Swallow, TLC

CONSTANTS shell, viewer, editor

ClientSymmetry == Permutations(Client)

ParentOf == [w \in Window |-> IF w = shell THEN NULL ELSE shell]

NoRule == [ matches |-> FALSE, tags |-> {}, isfloating |-> FALSE,
            isterminal |-> FALSE, isLeft |-> FALSE ]

\* As the rules for kitty and for Code in config.h.
Rules ==
  (shell :> [NoRule EXCEPT !.matches = TRUE, !.isterminal = TRUE])
  @@ (viewer :> NoRule)
  @@ (editor :> [NoRule EXCEPT !.matches = TRUE, !.tags = {1}])

\* Two windows on two monitors, or three on one.
Bounds ==
  window[viewer] # "none" \/ Pending(viewer) \/ (\E c \in Client : win[c] = viewer)
    => wm.nmon = 1 /\ \A c \in Client : wm.mon[c] = 1
=============================================================================
