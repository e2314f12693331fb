------------------------------ MODULE MCDwmMsg ------------------------------
(***************************************************************************)
(* Model values and workloads for TLC.                                     *)
(***************************************************************************)
EXTENDS DwmMsg

CONSTANTS p1, p2

Run(c, as) == <<[type |-> "run_command", arg |-> [name |-> c, args |-> as]]>>
Sub(e) == [type |-> "subscribe", arg |-> e]
Unsub(e) == [type |-> "unsubscribe", arg |-> e]
Get(t) == <<[type |-> t, arg |-> "none"]>>

Both(s1, s2) == (p1 :> s1) @@ (p2 :> s2)

\* Subscribers beside another use of dwm-msg, and two uses that change
\* nothing.
Workloads ==
  { Both(<<Sub("tag"), Sub("focus")>>, Run("view", <<"natural">>)),
    Both(<<Sub("tag")>>, <<Sub("tag")>>),
    Both(<<Sub("focus"), Unsub("focus")>>, Run("quit", << >>)),
    Both(Get("get_dwm_client"), Run("view", <<"string">>)) }

\* Commands that arrange a monitor, beside X events.
Commands == { Both(Run("view", <<"natural">>), Run("zoom", << >>)) }

\* One subscriber that may be killed.
Subscriber == { Both(<<Sub("tag")>>, Get("get")) }
=============================================================================
