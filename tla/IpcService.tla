----------------------------- MODULE IpcService -----------------------------
(***************************************************************************)
(* What dwm promises the programs that connect to its socket, whatever its *)
(* buffers, the sockets and epoll_wait() do: each request takes effect in  *)
(* one step, in the order it was sent, and has one reply; each event is    *)
(* published in one step, to all who subscribe to it at that time; and a   *)
(* program is told everything once and in order, as long as its connection *)
(* lasts. DwmMsg shows that ipc.c and IPCClient.c implement it.            *)
(***************************************************************************)
EXTENDS Integers, SequencesExt

CONSTANTS
  Peer, Request, Event,
  MaxLog     \* bound on the events published

VARIABLES
  conn,       \* of each peer: "new", "served" or "over"
  pending,    \* the requests it has sent that are not answered
  interests,  \* the events it subscribes to
  told,       \* the messages it has been sent
  published   \* the events so far

vars == <<conn, pending, interests, told, published>>

Init ==
  /\ conn = [p \in Peer |-> "new"]
  /\ pending = [p \in Peer |-> << >>]
  /\ interests = [p \in Peer |-> {}]
  /\ told = [p \in Peer |-> << >>]
  /\ published = << >>

Open(p) ==
  /\ conn[p] = "new" /\ conn' = [conn EXCEPT ![p] = "served"]
  /\ UNCHANGED <<pending, interests, told, published>>

Ask(p, r) ==
  /\ conn[p] = "served"
  /\ pending' = [pending EXCEPT ![p] = Append(@, r)]
  /\ UNCHANGED <<conn, interests, told, published>>

\* One command, or what the user does, makes at most two events here.
Bursts == {s \in SeqOf(Event, 2) : Len(published) + Len(s) <= MaxLog}

\* What p is told of them.
Announced(p, burst) ==
  LET heard[n \in 0 .. Len(burst)] ==
        IF n = 0 THEN << >>
        ELSE heard[n - 1] \o
             IF burst[n] \notin interests[p] THEN << >>
             ELSE <<[kind |-> "event", event |-> burst[n],
                     n |-> Len(published) + n]>>
  IN heard[Len(burst)]

\* The messages in first are sent to each peer, and then the events of burst.
Tell(first, burst) ==
  /\ told' = [p \in Peer |-> told[p] \o first[p] \o Announced(p, burst)]
  /\ published' = published \o burst

Publish(burst) ==
  /\ Tell([p \in Peer |-> << >>], burst)
  /\ UNCHANGED <<conn, pending, interests>>

\* The first request of p is answered. When it is a command that can be run,
\* what changes is published.
Serve(p, ok, burst) ==
  LET r == Head(pending[p])
      reply == [kind |-> "reply", to |-> r, ok |-> ok, at |-> Len(published)]
  IN /\ conn[p] = "served" /\ pending[p] # << >>
     /\ burst # << >> => r.type = "run_command" /\ ok
     /\ pending' = [pending EXCEPT ![p] = Tail(@)]
     /\ Tell([q \in Peer |-> IF q = p THEN <<reply>> ELSE << >>], burst)
     /\ interests' =
          [interests EXCEPT ![p] =
             IF ~(r.type \in {"subscribe", "unsubscribe"} /\ ok) THEN @
             ELSE IF r.type = "unsubscribe" /\ r.arg \in @ THEN @ \ {r.arg}
             ELSE @ \cup {r.arg}]
     /\ UNCHANGED conn

\* Connections end, one at a time or all of them, and with them what the peers
\* have not read.
End(peers) ==
  /\ conn' = [p \in Peer |-> IF p \in peers /\ conn[p] = "served"
                             THEN "over" ELSE conn[p]]
  /\ pending' = [p \in Peer |-> IF p \in peers THEN << >> ELSE pending[p]]
  /\ interests' = [p \in Peer |-> IF p \in peers THEN {} ELSE interests[p]]
  /\ told' = [p \in Peer |-> IF p \in peers THEN << >> ELSE told[p]]
  /\ UNCHANGED published

Next ==
  \/ \E p \in Peer : \/ Open(p) \/ End({p})
                     \/ \E r \in Request : Ask(p, r)
                     \/ \E ok \in BOOLEAN, burst \in Bursts : Serve(p, ok, burst)
  \/ \E burst \in Bursts : Publish(burst)
  \/ End(Peer)

Spec == Init /\ [][Next]_vars
=============================================================================
