----------------------------- MODULE IpcProofs -----------------------------
(***************************************************************************)
(* Proofs about the IPC server and its clients: no message is left in a    *)
(* buffer that run() would never be told to write; the events that run()   *)
(* handles are still true; every request has its reply and every           *)
(* subscriber its events, each once and in order; and the server with its  *)
(* buffers and sockets implements the service without them.                *)
(***************************************************************************)
EXTENDS DwmMsg, SequenceTheorems, FiniteSetTheorems, TLAPS

\* BufferWatched for every peer, registered or not, and what the proof needs
\* of the shape of the two tables.
WatchInv ==
  /\ DOMAIN buffer = Peer /\ DOMAIN epollout = Peer
  /\ \A p \in Peer : buffer[p] # << >> => epollout[p]

\* setup() leaves the server without clients and without messages.
LEMMA WatchInit == Init => WatchInv
BY DEF Init, ServerInit, WatchInv

\* ipc_prepare_send_message() watches every client that it gives something.
LEMMA PrepareSendWatches ==
  ASSUME WatchInv, NEW add, PrepareSend(add)
  PROVE  WatchInv'
<1>1. ASSUME NEW p \in Peer, buffer[p] \o add[p] # << >>
      PROVE  buffer[p] # << >> \/ add[p] # << >>
  <2>1. << >> \o << >> = << >>
    OBVIOUS
  <2> QED BY <1>1, <2>1
<1>2. ASSUME NEW p \in Peer, buffer'[p] # << >>
      PROVE  epollout'[p]
  <2>1. buffer'[p] = buffer[p] \o add[p]
    BY DEF PrepareSend
  <2>2. epollout'[p] = (epollout[p] \/ add[p] # << >>)
    BY DEF PrepareSend
  <2> QED BY <1>1, <1>2, <2>1, <2>2 DEF WatchInv
<1>3. DOMAIN buffer' = Peer /\ DOMAIN epollout' = Peer
  BY DEF PrepareSend
<1> QED BY <1>2, <1>3 DEF WatchInv

\* A client that comes or goes starts with an empty buffer.
LEMMA EmptiedWatches ==
  ASSUME WatchInv, NEW q, buffer' = [buffer EXCEPT ![q] = << >>],
         epollout' = [epollout EXCEPT ![q] = FALSE]
  PROVE  WatchInv'
BY DEF WatchInv

\* A request is answered, and its events published, through the lemma above.
LEMMA RequestWatches == WatchInv /\ HandleRequest => WatchInv'
<1> SUFFICES ASSUME WatchInv, HandleRequest PROVE WatchInv'
  OBVIOUS
<1>1. PICK p, r : \/ Answer(p, r) \/ RunCommand(p, r)
                  \/ RejectCommand(p, r) \/ Subscribe(p, r)
  BY DEF HandleRequest
<1>2. CASE Answer(p, r)
  BY <1>2, PrepareSendWatches DEF Answer
<1>3. CASE RunCommand(p, r)
  BY <1>3, PrepareSendWatches DEF RunCommand, SendEvents
<1>4. CASE RejectCommand(p, r)
  BY <1>4, PrepareSendWatches DEF RejectCommand
<1>5. CASE Subscribe(p, r)
  BY <1>5, PrepareSendWatches DEF Subscribe
<1> QED BY <1>1, <1>2, <1>3, <1>4, <1>5

\* No step of dwm, of a peer or of the X server leaves an unwatched message.
LEMMA WatchNext == WatchInv /\ [Next]_vars => WatchInv'
<1> SUFFICES ASSUME WatchInv, [Next]_vars PROVE WatchInv'
  OBVIOUS
<1>1. ASSUME UNCHANGED <<buffer, epollout>> PROVE WatchInv'
  BY <1>1 DEF WatchInv
<1>2. CASE UNCHANGED vars
  BY <1>1, <1>2 DEF vars, tables
<1>3. CASE EpollWait \/ StartWrite \/ XEvent
  BY <1>1, <1>3 DEF EpollWait, StartWrite, XEvent, tables
<1>4. CASE AcceptClient
  BY <1>4, EmptiedWatches DEF AcceptClient
<1>5. CASE HangUp
  BY <1>5, EmptiedWatches DEF HangUp, DropClient
<1>6. CASE WriteMessage
  BY <1>6 DEF WriteMessage, WatchInv
<1>7. CASE FinishWrite
  BY <1>7 DEF FinishWrite, WatchInv
<1>8. CASE WriteToClosed \/ Cleanup
  BY <1>8 DEF WriteToClosed, Cleanup, Exit, WatchInv
<1>9. CASE HandleRequest
  BY <1>9, RequestWatches
<1>10. CASE HandleDisplay
  <2>1. \/ \E add : PrepareSend(add)
        \/ UNCHANGED <<buffer, epollout>>
    BY <1>10 DEF HandleDisplay, SendEvents
  <2>2. CASE \E add : PrepareSend(add)
    BY <2>2, PrepareSendWatches
  <2>3. CASE UNCHANGED <<buffer, epollout>>
    BY <2>3 DEF WatchInv
  <2> QED BY <2>1, <2>2, <2>3
<1>11. CASE \E p \in Peer : Connect(p) \/ PeerNext(p) \/ Kill(p)
  BY <1>1, <1>11 DEF Connect, PeerNext, SendMessage, ReadSocket,
     ConnectionLost, Kill, tables
<1> QED BY <1>2, <1>3, <1>4, <1>5, <1>6, <1>7, <1>8, <1>9, <1>10, <1>11
        DEF Next, ServerNext

\* Whatever the clients ask for, and wherever they are killed: a message that
\* waits in the buffer of a client of ipc_clients is one that epoll_wait() is
\* asked to report room for.
THEOREM BufferAlwaysWatched == Spec => []BufferWatched
<1>1. WatchInv => BufferWatched
  BY DEF WatchInv, BufferWatched
<1> QED BY <1>1, WatchInit, WatchNext, PTL DEF Spec
-----------------------------------------------------------------------------
(* Sequences                                                               *)

\* A sequence and one that has an element more.
LEMMA AppendFacts ==
  ASSUME NEW S, NEW s \in Seq(S), NEW x \in S
  PROVE  /\ Append(s, x) \in Seq(S) /\ ToSet(Append(s, x)) = ToSet(s) \cup {x}
         /\ Append(s, x) # << >>
         /\ IsInjective(s) /\ x \notin ToSet(s) => IsInjective(Append(s, x))
<1> DEFINE t == Append(s, x)
<1>1. /\ t \in Seq(S) /\ Len(s) \in Nat /\ Len(t) = Len(s) + 1
      /\ DOMAIN s = 1 .. Len(s) /\ DOMAIN t = 1 .. Len(s) + 1
      /\ \A i \in 1 .. Len(s) : t[i] = s[i]
      /\ t[Len(s) + 1] = x
  OBVIOUS
<1> HIDE DEF t
<1>2. ToSet(t) = ToSet(s) \cup {x}
  BY <1>1 DEF ToSet
<1>3. IsInjective(s) /\ x \notin ToSet(s) => IsInjective(t)
  BY <1>1 DEF ToSet, IsInjective
<1>4. t # << >>
  BY <1>1
<1> QED BY <1>1, <1>2, <1>3, <1>4 DEF t

\* A sequence without its first element.
LEMMA TailFacts ==
  ASSUME NEW S, NEW s \in Seq(S), s # << >>
  PROVE  /\ Head(s) \in S /\ Tail(s) \in Seq(S) /\ Len(s) \in Nat \ {0}
         /\ Len(Tail(s)) = Len(s) - 1
         /\ ToSet(s) = {Head(s)} \cup ToSet(Tail(s))
         /\ IsInjective(s) => Head(s) \notin ToSet(Tail(s))
         /\ IsInjective(s) => IsInjective(Tail(s))
<1> DEFINE t == Tail(s)
<1>1. /\ t \in Seq(S) /\ Len(s) \in Nat \ {0} /\ Len(t) = Len(s) - 1
      /\ DOMAIN s = 1 .. Len(s) /\ DOMAIN t = 1 .. Len(s) - 1
      /\ \A i \in 1 .. Len(s) - 1 : t[i] = s[i + 1]
      /\ Head(s) = s[1] /\ s[1] \in S
  OBVIOUS
<1> HIDE DEF t
<1>2. ASSUME NEW i \in DOMAIN s, i # 1
      PROVE  i - 1 \in DOMAIN t /\ t[i - 1] = s[i]
  BY <1>1, <1>2
<1>3. ASSUME NEW j \in DOMAIN t
      PROVE  j + 1 \in DOMAIN s /\ 1 \in DOMAIN s /\ j + 1 # 1 /\ t[j] = s[j + 1]
  BY <1>1, <1>3
<1>4. ToSet(s) = {Head(s)} \cup ToSet(t)
  <2>1. \A x : x \in ToSet(s) <=> \E i \in DOMAIN s : s[i] = x
    BY DEF ToSet
  <2>2. \A x : x \in ToSet(t) <=> \E j \in DOMAIN t : t[j] = x
    BY DEF ToSet
  <2>3. Head(s) = s[1] /\ 1 \in DOMAIN s
    BY <1>1
  <2> QED BY <1>2, <1>3, <2>1, <2>2, <2>3
<1>5. IsInjective(s) => Head(s) \notin ToSet(t)
  BY <1>1, <1>3 DEF ToSet, IsInjective
<1>6. ASSUME IsInjective(s), NEW i \in DOMAIN t, NEW j \in DOMAIN t, t[i] = t[j]
      PROVE  i = j
  <2>1. i + 1 = j + 1
    BY <1>3, <1>6 DEF IsInjective
  <2> QED BY <1>1, <2>1
<1> QED BY <1>1, <1>4, <1>5, <1>6 DEF t, IsInjective

\* Without the only place of x, nothing else is missing.
LEMMA RemoveFacts ==
  ASSUME NEW S, NEW s \in Seq(S), IsInjective(s), NEW x \in ToSet(s),
         NEW r, r = RemoveAt(s, CHOOSE i \in DOMAIN s : s[i] = x)
  PROVE  r \in Seq(S) /\ ToSet(r) = ToSet(s) \ {x} /\ IsInjective(r)
<1> DEFINE k == CHOOSE i \in DOMAIN s : s[i] = x
           u == SubSeq(s, 1, k - 1)
           v == SubSeq(s, k + 1, Len(s))
<1>1. k \in 1 .. Len(s) /\ s[k] = x /\ Len(s) \in Nat /\ DOMAIN s = 1 .. Len(s)
  BY DEF ToSet
<1>2. r = u \o v
  BY DEF RemoveAt
<1> HIDE DEF k
<1>3. /\ u \in Seq(S) /\ Len(u) = k - 1
      /\ \A i \in 1 .. k - 1 : u[i] = s[i]
  <2>1. \A i \in 1 .. k - 1 : s[i] \in S
    BY <1>1
  <2> QED BY <1>1, <2>1, SubSeqProperties
<1>4. /\ v \in Seq(S) /\ Len(v) = Len(s) - k
      /\ \A i \in 1 .. Len(s) - k : v[i] = s[k + i]
  <2>1. \A i \in k + 1 .. Len(s) : s[i] \in S
    BY <1>1
  <2>2. /\ v \in Seq(S)
        /\ Len(v) = IF k + 1 <= Len(s) THEN Len(s) - (k + 1) + 1 ELSE 0
        /\ \A i \in 1 .. Len(s) - (k + 1) + 1 : v[i] = s[(k + 1) + i - 1]
    BY <1>1, <2>1, SubSeqProperties
  <2> HIDE DEF v
  <2>3. Len(s) - (k + 1) + 1 = Len(s) - k
    BY <1>1
  <2>3a. (IF k + 1 <= Len(s) THEN Len(s) - (k + 1) + 1 ELSE 0) = Len(s) - k
    <3>1. \A a, b \in Nat : a <= b =>
            (IF a + 1 <= b THEN b - (a + 1) + 1 ELSE 0) = b - a
      OBVIOUS
    <3>2. k \in Nat /\ Len(s) \in Nat /\ k <= Len(s)
      BY <1>1
    <3> QED BY <3>1, <3>2
  <2>4. \A i \in 1 .. Len(s) - k : (k + 1) + i - 1 = k + i
    BY <1>1
  <2> QED BY <2>2, <2>3, <2>3a, <2>4
<1> HIDE DEF u, v
<1>5. /\ r \in Seq(S) /\ Len(r) = Len(s) - 1 /\ DOMAIN r = 1 .. Len(s) - 1
      /\ \A i \in 1 .. Len(s) - 1 : r[i] = IF i < k THEN s[i] ELSE s[i + 1]
  <2>1. /\ r \in Seq(S) /\ Len(r) = Len(s) - 1
        /\ \A i \in 1 .. Len(s) - 1 : r[i] = IF i <= k - 1 THEN u[i]
                                              ELSE v[i - (k - 1)]
    <3>1. /\ u \o v \in Seq(S) /\ Len(u \o v) = Len(u) + Len(v)
          /\ \A i \in 1 .. Len(u) + Len(v) :
               (u \o v)[i] = IF i <= Len(u) THEN u[i] ELSE v[i - Len(u)]
      BY <1>3, <1>4, ConcatProperties
    <3>2. Len(u) = k - 1 /\ Len(u) + Len(v) = Len(s) - 1
      BY <1>1, <1>3, <1>4
    <3> QED BY <1>2, <3>1, <3>2
  <2>2. ASSUME NEW i \in 1 .. Len(s) - 1
        PROVE  r[i] = IF i < k THEN s[i] ELSE s[i + 1]
    <3>1. CASE i < k
      <4>1. i \in 1 .. k - 1 /\ i <= k - 1
        BY <1>1, <3>1
      <4> QED BY <1>3, <2>1, <3>1, <4>1
    <3>2. CASE ~(i < k)
      <4>1. /\ i - (k - 1) \in 1 .. Len(s) - k /\ ~(i <= k - 1)
            /\ k + (i - (k - 1)) = i + 1
        BY <1>1, <3>2
      <4> QED BY <1>4, <2>1, <3>2, <4>1
    <3> QED BY <3>1, <3>2
  <2> QED BY <2>1, <2>2, LenProperties
<1>6. ASSUME NEW i \in DOMAIN s, s[i] # x
      PROVE  \E j \in DOMAIN r : r[j] = s[i]
  <2>1. CASE i < k
    <3>1. i \in DOMAIN r
      BY <1>1, <1>5, <2>1
    <3> QED BY <1>5, <2>1, <3>1
  <2>2. CASE k < i
    <3>1. i - 1 \in DOMAIN r /\ ~(i - 1 < k) /\ (i - 1) + 1 = i
      BY <1>1, <1>5, <2>2
    <3> QED BY <1>5, <3>1
  <2>3. i < k \/ k < i
    BY <1>1, <1>6
  <2> QED BY <2>1, <2>2, <2>3, Zenon
\* The place in s of what is at j in r.
<1> DEFINE at(j) == IF j < k THEN j ELSE j + 1
<1>7. ASSUME NEW j \in DOMAIN r
      PROVE  at(j) \in DOMAIN s /\ at(j) # k /\ r[j] = s[at(j)]
  BY <1>1, <1>5
<1>8. ASSUME NEW j \in DOMAIN r
      PROVE  r[j] # x
  BY <1>1, <1>7 DEF IsInjective
<1>9. ToSet(r) = ToSet(s) \ {x}
  <2>1. \A y : y \in ToSet(s) <=> \E i \in DOMAIN s : s[i] = y
    BY DEF ToSet
  <2>2. \A y : y \in ToSet(r) <=> \E j \in DOMAIN r : r[j] = y
    BY DEF ToSet
  <2>3. ASSUME NEW y \in ToSet(r) PROVE y \in ToSet(s) \ {x}
    <3>1. PICK j \in DOMAIN r : r[j] = y
      BY <2>2
    <3> HIDE DEF at
    <3> QED BY <1>7, <1>8, <2>1, <3>1
  <2>4. ASSUME NEW y \in ToSet(s), y # x PROVE y \in ToSet(r)
    BY <1>6, <2>1, <2>2, <2>4
  <2> QED BY <2>3, <2>4
<1>10. ASSUME NEW i \in DOMAIN r, NEW j \in DOMAIN r, r[i] = r[j]
       PROVE  i = j
  <2>1. at(i) = at(j)
    <3> HIDE DEF at
    <3> QED BY <1>7, <1>10 DEF IsInjective
  <2> QED BY <1>1, <1>5, <2>1
<1> QED BY <1>5, <1>9, <1>10 DEF IsInjective

\* Two sequences, one after the other.
LEMMA ConcatFacts ==
  ASSUME NEW S, NEW s \in Seq(S), NEW t \in Seq(S)
  PROVE  /\ s \o t \in Seq(S) /\ Len(s) \in Nat /\ Len(t) \in Nat
         /\ DOMAIN s = 1 .. Len(s) /\ DOMAIN t = 1 .. Len(t)
         /\ Len(s \o t) = Len(s) + Len(t)
         /\ DOMAIN (s \o t) = 1 .. Len(s) + Len(t)
         /\ \A i \in DOMAIN s : i \in DOMAIN (s \o t) /\ (s \o t)[i] = s[i]
         /\ \A i \in DOMAIN t : /\ Len(s) + i \in DOMAIN (s \o t)
                                /\ (s \o t)[Len(s) + i] = t[i]
         /\ \A i \in DOMAIN (s \o t) :
              i \in DOMAIN s \/ \E j \in DOMAIN t : i = Len(s) + j
<1> DEFINE u == s \o t
<1>1. /\ u \in Seq(S) /\ Len(s) \in Nat /\ Len(t) \in Nat
      /\ DOMAIN s = 1 .. Len(s) /\ DOMAIN t = 1 .. Len(t)
      /\ Len(u) = Len(s) + Len(t) /\ DOMAIN u = 1 .. Len(s) + Len(t)
      /\ \A i \in 1 .. Len(s) + Len(t) :
           u[i] = IF i <= Len(s) THEN s[i] ELSE t[i - Len(s)]
  BY ConcatProperties, LenProperties
<1> HIDE DEF u
<1>2. ASSUME NEW i \in DOMAIN s
      PROVE  i \in DOMAIN u /\ u[i] = s[i]
  <2>1. i \in 1 .. Len(s) + Len(t) /\ i <= Len(s)
    BY <1>1
  <2> QED BY <1>1, <2>1
<1>3. ASSUME NEW i \in DOMAIN t
      PROVE  Len(s) + i \in DOMAIN u /\ u[Len(s) + i] = t[i]
  <2>1. /\ Len(s) + i \in 1 .. Len(s) + Len(t) /\ ~(Len(s) + i <= Len(s))
        /\ (Len(s) + i) - Len(s) = i
    BY <1>1
  <2> QED BY <1>1, <2>1
<1>4. ASSUME NEW i \in DOMAIN u, i \notin DOMAIN s
      PROVE  \E j \in DOMAIN t : i = Len(s) + j
  <2>1. i - Len(s) \in DOMAIN t /\ i = Len(s) + (i - Len(s))
    BY <1>1, <1>4
  <2> QED BY <2>1
<1> QED BY <1>1, <1>2, <1>3, <1>4 DEF u

-----------------------------------------------------------------------------
(* Events                                                                  *)

\* The message about the event n of burst.
EventOf(burst, n) ==
  [kind |-> "event", event |-> burst[n], n |-> Len(log) + n]

\* h holds the messages about those of the first k events of burst that are of
\* some type in types.
HeardUpTo(h, burst, types, k) ==
  /\ h \in Seq(Message)
  /\ \A i \in DOMAIN h :
       \E n \in 1 .. k : burst[n] \in types /\ h[i] = EventOf(burst, n)
  /\ \A i, j \in DOMAIN h : i < j => h[i].n < h[j].n
  /\ \A n \in 1 .. k :
       burst[n] \in types => \E i \in DOMAIN h : h[i] = EventOf(burst, n)

\* What a burst is.
LEMMA BurstFacts ==
  ASSUME NEW burst \in Bursts, log \in Seq(Event)
  PROVE  /\ burst \in Seq(Event) /\ Len(burst) \in {0, 1, 2}
         /\ DOMAIN burst = 1 .. Len(burst) /\ Len(log) \in Nat
         /\ Len(log) + Len(burst) <= MaxLog
         /\ \A n \in DOMAIN burst : EventOf(burst, n) \in Message
<1>1. PICK m \in 0 .. 2 : burst \in [1 .. m -> Event]
  BY DEF Bursts, SeqOf
<1>2. burst \in Seq(Event) /\ Len(burst) = m
  BY <1>1
<1>3. Len(log) + Len(burst) <= MaxLog /\ Len(log) \in Nat
  BY DEF Bursts
<1>4. ASSUME NEW n \in DOMAIN burst
      PROVE  EventOf(burst, n) \in Message
  <2>1. n \in 1 .. m /\ burst[n] \in Event
    BY <1>1, <1>4
  <2>2. Len(log) + n \in 1 .. MaxLog
    BY <1>2, <1>3, <2>1, IpcAssumption
  <2> QED BY <2>1, <2>2 DEF EventOf, Message
<1> QED BY <1>1, <1>2, <1>3, <1>4

\* ipc_event_prepare_send_message(): the next event, for those who want it.
LEMMA HeardStep ==
  ASSUME NEW burst \in Bursts, log \in Seq(Event), NEW types,
         NEW k \in 1 .. Len(burst),
         NEW h, HeardUpTo(h, burst, types, k - 1)
  PROVE  HeardUpTo(h \o IF burst[k] \notin types THEN << >>
                        ELSE <<EventOf(burst, k)>>, burst, types, k)
<1>1. /\ Len(burst) \in Nat /\ k \in DOMAIN burst /\ k \in 1 .. k
      /\ 1 .. k = (1 .. k - 1) \cup {k} /\ EventOf(burst, k) \in Message
  BY BurstFacts
<1>2. CASE burst[k] \notin types
  <2>1. h \o << >> = h
    BY ConcatEmptySeq DEF HeardUpTo
  <2> QED BY <1>1, <1>2, <2>1 DEF HeardUpTo
<1>3. CASE burst[k] \in types
  <2> DEFINE t == <<EventOf(burst, k)>>
             u == h \o t
  <2>1. t \in Seq(Message) /\ DOMAIN t = {1} /\ t[1] = EventOf(burst, k)
    BY <1>1
  <2>2. h \in Seq(Message)
    BY DEF HeardUpTo
  <2>3. /\ u \in Seq(Message) /\ Len(h) \in Nat
        /\ \A i \in DOMAIN h : i \in DOMAIN u /\ u[i] = h[i]
        /\ Len(h) + 1 \in DOMAIN u /\ u[Len(h) + 1] = EventOf(burst, k)
        /\ \A i \in DOMAIN u : i \in DOMAIN h \/ i = Len(h) + 1
        /\ DOMAIN h = 1 .. Len(h)
    <3> HIDE DEF t
    <3> QED BY <2>1, <2>2, ConcatFacts
  <2> HIDE DEF t, u
  <2>4. ASSUME NEW i \in DOMAIN u
        PROVE  \E n \in 1 .. k : burst[n] \in types /\ u[i] = EventOf(burst, n)
    <3>1. CASE i \in DOMAIN h
      BY <1>1, <2>3, <3>1 DEF HeardUpTo
    <3>2. CASE i = Len(h) + 1
      BY <1>1, <1>3, <2>3, <3>2
    <3> QED BY <2>3, <3>1, <3>2
  <2>5. ASSUME NEW i \in DOMAIN u, NEW j \in DOMAIN u, i < j
        PROVE  u[i].n < u[j].n
    <3>1. i \in DOMAIN h
      BY <2>3, <2>5
    <3>2. CASE j \in DOMAIN h
      BY <2>3, <2>5, <3>1, <3>2 DEF HeardUpTo
    <3>3. CASE j = Len(h) + 1
      <4>1. PICK n \in 1 .. k - 1 : h[i] = EventOf(burst, n)
        BY <3>1 DEF HeardUpTo
      <4>2. u[i].n = Len(log) + n /\ u[j].n = Len(log) + k
        BY <2>3, <3>1, <3>3, <4>1 DEF EventOf
      <4> QED BY <4>2
    <3> QED BY <2>3, <3>2, <3>3
  <2>6. ASSUME NEW n \in 1 .. k, burst[n] \in types
        PROVE  \E i \in DOMAIN u : u[i] = EventOf(burst, n)
    <3>1. CASE n \in 1 .. k - 1
      BY <2>3, <2>6, <3>1 DEF HeardUpTo
    <3>2. CASE n = k
      BY <2>3, <3>2
    <3> QED BY <1>1, <3>1, <3>2
  <2>7. HeardUpTo(u, burst, types, k)
    BY <2>3, <2>4, <2>5, <2>6 DEF HeardUpTo
  <2> QED BY <1>3, <2>7 DEF u, t
<1> QED BY <1>2, <1>3

\* The recursion of Heard, for the two events that a burst has at most.
LEMMA HeardUnfolds ==
  ASSUME NEW burst \in Bursts, log \in Seq(Event), NEW types
  PROVE  \E f : /\ Heard(burst, types) = f[Len(burst)]
                /\ f = [n \in 0 .. Len(burst) |->
                          IF n = 0 THEN << >>
                          ELSE f[n - 1] \o
                               IF burst[n] \notin types THEN << >>
                               ELSE <<[kind |-> "event", event |-> burst[n],
                                       n |-> Len(log) + n]>>]
<1> DEFINE add(n) == IF burst[n] \notin types THEN << >>
                     ELSE <<[kind |-> "event", event |-> burst[n],
                             n |-> Len(log) + n]>>
           one == << >> \o add(1)
           f == [n \in 0 .. Len(burst) |->
                   IF n = 0 THEN << >> ELSE IF n = 1 THEN one
                   ELSE one \o add(2)]
<1>1. Len(burst) \in {0, 1, 2}
  BY BurstFacts
<1> HIDE DEF add
<1>2. f = [n \in 0 .. Len(burst) |->
             IF n = 0 THEN << >> ELSE f[n - 1] \o add(n)]
  <2>1. ASSUME NEW n \in 0 .. Len(burst)
        PROVE  f[n] = IF n = 0 THEN << >> ELSE f[n - 1] \o add(n)
    <3>1. n \in {0, 1, 2} /\ (n # 0 => n - 1 \in 0 .. Len(burst))
      <4>1. \A l \in {0, 1, 2} : \A i \in 0 .. l :
              i \in {0, 1, 2} /\ (i # 0 => i - 1 \in 0 .. l)
        OBVIOUS
      <4> QED BY <1>1, <4>1
    <3>2. CASE n = 0
      BY <3>2
    <3>3. CASE n = 1
      <4>1. 0 \in 0 .. Len(burst) /\ n - 1 = 0 /\ n # 0
        BY <3>1, <3>3
      <4>2. f[0] = << >> /\ f[n] = one
        BY <3>3, <4>1
      <4> HIDE DEF f
      <4> QED BY <3>3, <4>1, <4>2
    <3>4. CASE n = 2
      BY <3>1, <3>4
    <3> QED BY <3>1, <3>2, <3>3, <3>4
  <2> QED BY <2>1
<1> HIDE DEF f
<1> QED BY <1>2, Zenon DEF Heard, add

\* ipc_send_events(): a client hears of all the events of its types, in order,
\* and of no others.
LEMMA HeardFacts ==
  ASSUME NEW burst \in Bursts, log \in Seq(Event), NEW types
  PROVE  /\ HeardUpTo(Heard(burst, types), burst, types, Len(burst))
         /\ types = {} => Heard(burst, types) = << >>
<1>1. PICK f : /\ Heard(burst, types) = f[Len(burst)]
               /\ f = [n \in 0 .. Len(burst) |->
                         IF n = 0 THEN << >>
                         ELSE f[n - 1] \o
                              IF burst[n] \notin types THEN << >>
                              ELSE <<EventOf(burst, n)>>]
  BY HeardUnfolds, Zenon DEF EventOf
<1>2. Len(burst) \in {0, 1, 2}
  BY BurstFacts
<1>3. HeardUpTo(f[0], burst, types, 0)
  <2>1. f[0] = << >>
    BY <1>1, <1>2
  <2> QED BY <2>1 DEF HeardUpTo
<1>4. ASSUME NEW k \in 1 .. Len(burst), HeardUpTo(f[k - 1], burst, types, k - 1)
      PROVE  HeardUpTo(f[k], burst, types, k)
  <2>1. f[k] = f[k - 1] \o IF burst[k] \notin types THEN << >>
                           ELSE <<EventOf(burst, k)>>
    <3>1. k \in 0 .. Len(burst) /\ k # 0
      BY <1>2
    <3> QED BY <1>1, <3>1, Zenon
  <2> QED BY <1>4, <2>1, HeardStep
<1>5. Len(burst) >= 1 => HeardUpTo(f[1], burst, types, 1)
  <2>1. Len(burst) >= 1 => 1 \in 1 .. Len(burst) /\ 1 - 1 = 0
    BY <1>2
  <2> QED BY <1>3, <1>4, <2>1
<1>6. Len(burst) = 2 => HeardUpTo(f[2], burst, types, 2)
  <2>1. Len(burst) = 2 => 2 \in 1 .. Len(burst) /\ 2 - 1 = 1 /\ Len(burst) >= 1
    OBVIOUS
  <2> QED BY <1>4, <1>5, <2>1
<1>7. HeardUpTo(Heard(burst, types), burst, types, Len(burst))
  BY <1>1, <1>2, <1>3, <1>5, <1>6
<1>8. ASSUME types = {}
      PROVE  Heard(burst, types) = << >>
  <2>1. DOMAIN Heard(burst, types) = {} /\ Heard(burst, types) \in Seq(Message)
    BY <1>7, <1>8 DEF HeardUpTo
  <2> QED BY <2>1, EmptySeq
<1> QED BY <1>7, <1>8

-----------------------------------------------------------------------------
(* The life of a connection                                                *)

\* One event at most for each descriptor, and each of them still true: nobody
\* but run() takes the connection or the request that it reports away.
BatchOK ==
  /\ \A e, f \in batch : e.fd = f.fd => e = f
  /\ \A e \in batch :
       /\ e.fd = "listener" => backlog # << >>
       /\ e.fd \in Peer => Registered(e.fd)
       /\ e.fd \in Peer /\ ~e.hup /\ ~e.out => toServer[e.fd] # << >>

Queued(p) == p \in ToSet(backlog)

\* A connection waits to be accepted, then is a client's, each once.
QueuesOK ==
  /\ IsInjective(backlog)
  /\ ToSet(clients) \cap ToSet(backlog) = {}

\* The process p, its end of the connection, and the server's.
PeerOK(p) ==
  /\ pc[p] = "ready" => sent[p] < Len(script[p])
  /\ open[p] <=> pc[p] \notin {"off", "exited"}
  /\ ~open[p] => toPeer[p] = << >> /\ got[p] = << >>
  /\ pc[p] = "off" => /\ sent[p] = 0 /\ toServer[p] = << >>
                      /\ ~closed[p] /\ ~Registered(p) /\ ~Queued(p)
  /\ Registered(p) \/ Queued(p) => ~closed[p]
  /\ open[p] /\ ~closed[p] => Registered(p) \/ Queued(p)

\* What the server keeps for a client, only while it is one.
TablesOK(p) ==
  /\ ~Registered(p) => buffer[p] = << >> /\ subscriptions[p] = {}
  /\ Queued(p) => /\ toPeer[p] = << >> /\ got[p] = << >>
                  /\ Len(toServer[p]) = sent[p]

\* What a socket holds are the last requests that p has sent.
RequestsOK(p) ==
  Registered(p) \/ Queued(p) =>
    /\ Len(toServer[p]) <= sent[p]
    /\ \A i \in DOMAIN toServer[p] :
         toServer[p][i] = script[p][sent[p] - Len(toServer[p]) + i]

Connections ==
  /\ TypeOK /\ sent \in [Peer -> Nat]
  /\ BatchOK /\ QueuesOK
  /\ \A p \in Peer : PeerOK(p) /\ TablesOK(p) /\ RequestsOK(p)

\* The types of what belongs to one peer.
LEMMA TypesOf ==
  ASSUME Connections, NEW p \in Peer
  PROVE  /\ buffer[p] \in Seq(Message) /\ toPeer[p] \in Seq(Message)
         /\ got[p] \in Seq(Message) /\ toServer[p] \in Seq(Request)
         /\ subscriptions[p] \subseteq Event
         /\ sent[p] \in Nat /\ sent[p] <= Len(script[p])
         /\ script[p] \in Seq(Request) /\ script[p] # << >>
         /\ open[p] \in BOOLEAN /\ closed[p] \in BOOLEAN
         /\ Len(script[p]) \in Nat \ {0} /\ Len(toServer[p]) \in Nat
         /\ PeerOK(p) /\ TablesOK(p) /\ RequestsOK(p)
<1>1. script \in [Peer -> Seq(Request) \ {<< >>}]
  BY DwmMsgAssumption DEF Connections, TypeOK
<1>2. script[p] \in Seq(Request) /\ script[p] # << >>
  BY <1>1
<1>3. Len(script[p]) \in Nat \ {0}
  BY <1>2
<1>4. sent[p] \in 0 .. Len(script[p])
  BY DEF Connections, TypeOK
<1>5. /\ buffer[p] \in Seq(Message) /\ toPeer[p] \in Seq(Message)
      /\ got[p] \in Seq(Message) /\ toServer[p] \in Seq(Request)
      /\ subscriptions[p] \subseteq Event
      /\ open[p] \in BOOLEAN /\ closed[p] \in BOOLEAN
  BY DEF Connections, TypeOK, ServerTypeOK
<1>6. Len(toServer[p]) \in Nat
  BY <1>5
<1> QED BY <1>2, <1>3, <1>4, <1>5, <1>6 DEF Connections

\* A peer that nothing happens to.
LEMMA PeerFrame ==
  ASSUME NEW p \in Peer, PeerOK(p), TablesOK(p), RequestsOK(p),
         pc'[p] = pc[p], sent'[p] = sent[p], script'[p] = script[p],
         got'[p] = got[p], open'[p] = open[p], closed'[p] = closed[p],
         toPeer'[p] = toPeer[p], toServer'[p] = toServer[p],
         buffer'[p] = buffer[p], subscriptions'[p] = subscriptions[p],
         Registered(p)' <=> Registered(p), Queued(p)' <=> Queued(p)
  PROVE  PeerOK(p)' /\ TablesOK(p)' /\ RequestsOK(p)'
<1>1. PeerOK(p)'
  BY DEF PeerOK
<1>2. TablesOK(p)'
  BY DEF TablesOK
<1>3. RequestsOK(p)'
  BY DEF RequestsOK
<1> QED BY <1>1, <1>2, <1>3

\* setup() has run and nobody has connected.
LEMMA InitConnections == Init => Connections
<1> SUFFICES ASSUME Init PROVE Connections
  OBVIOUS
<1>1. TypeOK
  <2>1. ServerTypeOK
    BY IpcAssumption DEF Init, ServerInit, ServerTypeOK, IsInjective
  <2>2. \A p \in Peer : sent[p] \in 0 .. Len(script[p])
    <3>1. script \in [Peer -> Seq(Request) \ {<< >>}]
      BY DwmMsgAssumption DEF Init
    <3>2. \A p \in Peer : Len(script[p]) \in Nat
      BY <3>1
    <3> QED BY <3>2 DEF Init
  <2> QED BY <2>1, <2>2 DEF TypeOK, Init
<1>2. \A p \in Peer : ~Registered(p) /\ ~Queued(p)
  BY DEF Init, ServerInit, Registered, Queued, ToSet
<1>3. BatchOK /\ QueuesOK
  BY DEF Init, ServerInit, BatchOK, QueuesOK, IsInjective, ToSet
<1>4. \A p \in Peer : PeerOK(p) /\ TablesOK(p) /\ RequestsOK(p)
  BY <1>2 DEF Init, ServerInit, PeerOK, TablesOK, RequestsOK
<1> QED BY <1>1, <1>3, <1>4 DEF Connections, Init

\* What epoll_wait() reports of the clients.
LEMMA ReadyPeersFacts ==
  ASSUME Connections, NEW e \in ReadyPeers
  PROVE  /\ e \in [fd : Peer, hup : BOOLEAN, out : BOOLEAN]
         /\ Registered(e.fd)
         /\ ~e.hup /\ ~e.out => toServer[e.fd] # << >>
         /\ e = [fd |-> e.fd, hup |-> ~open[e.fd],
                 out |-> epollout[e.fd] /\ (\/ Len(toPeer[e.fd]) < Capacity
                                            \/ ~open[e.fd])]
<1> DEFINE room(p) == epollout[p] /\ (Len(toPeer[p]) < Capacity \/ ~open[p])
<1>1. PICK p \in ToSet(clients) :
        /\ \/ ~open[p] \/ toServer[p] # << >>
           \/ epollout[p] /\ Len(toPeer[p]) < Capacity
        /\ e = [fd |-> p, hup |-> ~open[p], out |-> room(p)]
  BY Zenon DEF ReadyPeers
<1>2. p \in Peer
  BY DEF Connections, TypeOK, ServerTypeOK, ToSet
<1>3. open[p] \in BOOLEAN /\ epollout[p] \in BOOLEAN
  BY <1>2 DEF Connections, TypeOK, ServerTypeOK
<1>4. (~open[p]) \in BOOLEAN /\ room(p) \in BOOLEAN
  OBVIOUS
<1>5. ~(~open[p]) /\ ~room(p) => toServer[p] # << >>
  BY <1>1, <1>3
<1> HIDE DEF room
<1>6. e.fd = p /\ e.hup = (~open[p]) /\ e.out = room(p)
  BY <1>1, Zenon
<1>7. e \in [fd : Peer, hup : BOOLEAN, out : BOOLEAN]
  BY <1>1, <1>2, <1>4, Zenon
<1>8. ~e.hup /\ ~e.out => toServer[e.fd] # << >>
  BY <1>5, <1>6, Zenon
<1> QED BY <1>1, <1>6, <1>7, <1>8, Zenon DEF room, Registered

\* What it reports of the other descriptors.
LEMMA ReadyOthersFacts ==
  ASSUME NEW e \in ReadyOthers
  PROVE  /\ e.fd \in {"display", "listener"}
         /\ e \in [fd : {"display", "listener"}, hup : BOOLEAN, out : BOOLEAN]
         /\ e.fd = "listener" => backlog # << >>
         /\ e = [fd |-> e.fd, hup |-> FALSE, out |-> FALSE]
<1>1. PICK f \in (IF xevents = "connection" THEN {"display"} ELSE {})
                 \cup (IF backlog # << >> THEN {"listener"} ELSE {}) :
        e = [fd |-> f, hup |-> FALSE, out |-> FALSE]
  BY Zenon DEF ReadyOthers
<1>2. f \in {"display", "listener"} /\ (f = "listener" => backlog # << >>)
  OBVIOUS
<1>3. e.fd = f
  BY <1>1, Zenon
<1>4. FALSE \in BOOLEAN
  OBVIOUS
<1>5. e \in [fd : {"display", "listener"}, hup : BOOLEAN, out : BOOLEAN]
  BY <1>1, <1>2, <1>4, Zenon
<1> QED BY <1>1, <1>2, <1>3, <1>5, Zenon

\* The steps of run() that only look, and those of the X server.
LEMMA LoopConnections ==
  ASSUME Connections, EpollWait \/ StartWrite \/ FinishWrite \/ XEvent,
         UNCHANGED peers
  PROVE  Connections'
<1>1. UNCHANGED <<running, clients, buffer, subscriptions, log, sockets, peers>>
  BY DEF EpollWait, StartWrite, FinishWrite, XEvent, loop, tables
<1>2. TypeOK'
  <2>1. batch' \subseteq [fd : Peer \cup {"display", "listener"},
                          hup : BOOLEAN, out : BOOLEAN]
    <3>1. CASE EpollWait
      <4>1. ReadyPeers \cup ReadyOthers
              \subseteq [fd : Peer, hup : BOOLEAN, out : BOOLEAN]
                \cup [fd : {"display", "listener"}, hup : BOOLEAN, out : BOOLEAN]
        BY ReadyPeersFacts, ReadyOthersFacts
      <4> QED BY <3>1, <4>1 DEF EpollWait
    <3>2. CASE StartWrite \/ FinishWrite \/ XEvent
      BY <3>2 DEF StartWrite, FinishWrite, XEvent, Handling, loop, Connections,
                  TypeOK, ServerTypeOK
    <3> QED BY <3>1, <3>2
  <2>2. writing' \in Peer \cup {NULL}
    BY DEF EpollWait, StartWrite, FinishWrite, XEvent, loop, Connections,
           TypeOK, ServerTypeOK
  <2>3. epollout' \in [Peer -> BOOLEAN]
    BY DEF EpollWait, StartWrite, FinishWrite, XEvent, tables, Connections,
           TypeOK, ServerTypeOK
  <2>4. xevents' \in {"none", "queue", "connection"}
    BY DEF EpollWait, StartWrite, FinishWrite, XEvent, Connections, TypeOK,
           ServerTypeOK
  <2> QED BY <1>1, <2>1, <2>2, <2>3, <2>4
          DEF Connections, TypeOK, ServerTypeOK, sockets, peers
<1>3. BatchOK'
  <2>1. CASE EpollWait
    <3>1. \A e \in ReadyPeers :
            /\ e.fd \in Peer /\ Registered(e.fd)
            /\ ~e.hup /\ ~e.out => toServer[e.fd] # << >>
            /\ e = [fd |-> e.fd, hup |-> ~open[e.fd],
                    out |-> epollout[e.fd] /\ (\/ Len(toPeer[e.fd]) < Capacity
                                               \/ ~open[e.fd])]
      <4>1. \A e \in [fd : Peer, hup : BOOLEAN, out : BOOLEAN] : e.fd \in Peer
        OBVIOUS
      <4> QED BY <4>1, ReadyPeersFacts, Zenon
    <3>2. \A e \in ReadyOthers :
            /\ e.fd \in {"display", "listener"}
            /\ e.fd = "listener" => backlog # << >>
            /\ e = [fd |-> e.fd, hup |-> FALSE, out |-> FALSE]
      BY ReadyOthersFacts, Zenon
    <3>3. batch' = ReadyPeers \cup ReadyOthers /\ UNCHANGED epollout
      BY <2>1 DEF EpollWait, tables
    <3>4. \A e, f \in batch' : e.fd = f.fd => e = f
      BY <3>1, <3>2, <3>3, IpcAssumption
    <3>5. \A e \in batch' :
            /\ e.fd = "listener" => backlog # << >>
            /\ e.fd \in Peer => Registered(e.fd)
            /\ e.fd \in Peer /\ ~e.hup /\ ~e.out => toServer[e.fd] # << >>
      BY <3>1, <3>2, <3>3, IpcAssumption
    <3> QED BY <1>1, <3>4, <3>5 DEF BatchOK, Registered, sockets
  <2>2. CASE StartWrite \/ FinishWrite \/ XEvent
    <3>1. batch' \subseteq batch
      BY <2>2 DEF StartWrite, FinishWrite, XEvent, Handling, loop
    <3> QED BY <1>1, <3>1 DEF BatchOK, Registered, sockets, Connections
  <2> QED BY <2>1, <2>2
<1>4. QueuesOK'
  BY <1>1 DEF QueuesOK, sockets, Connections
<1>5. \A p \in Peer : PeerOK(p)' /\ TablesOK(p)' /\ RequestsOK(p)'
  BY <1>1, PeerFrame DEF Connections, Registered, Queued, sockets, peers
<1> QED BY <1>1, <1>2, <1>3, <1>4, <1>5 DEF Connections, peers

\* ipc_accept_client(): the first connection of the queue becomes a client.
LEMMA AcceptConnections ==
  ASSUME Connections, AcceptClient, UNCHANGED peers
  PROVE  Connections'
<1>1. PICK e \in batch : e.fd = "listener" /\ Handling(e)
  BY DEF AcceptClient
<1> DEFINE q == Head(backlog)
<1>2. /\ clients' = Append(clients, q) /\ backlog' = Tail(backlog)
      /\ buffer' = [buffer EXCEPT ![q] = << >>]
      /\ subscriptions' = [subscriptions EXCEPT ![q] = {}]
      /\ epollout' = [epollout EXCEPT ![q] = FALSE]
      /\ batch' = batch \ {e}
      /\ UNCHANGED <<running, writing, log, toServer, toPeer, open, closed,
                     xevents, pc, script, sent, got>>
  BY <1>1 DEF AcceptClient, Handling, peers
<1>3. /\ backlog # << >> /\ backlog \in Seq(Peer) /\ clients \in Seq(Peer)
      /\ IsInjective(backlog) /\ IsInjective(clients)
      /\ ToSet(clients) \cap ToSet(backlog) = {}
  BY <1>1 DEF Connections, BatchOK, QueuesOK, TypeOK, ServerTypeOK
<1>4. /\ q \in Peer /\ backlog' \in Seq(Peer) /\ IsInjective(backlog')
      /\ ToSet(backlog) = {q} \cup ToSet(backlog') /\ q \notin ToSet(backlog')
  BY <1>2, <1>3, TailFacts
<1>5. /\ clients' \in Seq(Peer) /\ IsInjective(clients')
      /\ ToSet(clients') = ToSet(clients) \cup {q}
  BY <1>2, <1>3, <1>4, AppendFacts
<1> HIDE DEF q
<1>6. \A p \in Peer : /\ Registered(p)' <=> Registered(p) \/ p = q
                      /\ Queued(p)' <=> Queued(p) /\ p # q
  BY <1>4, <1>5 DEF Registered, Queued
<1>7. Queued(q) /\ ~Registered(q)
  BY <1>3, <1>4 DEF Registered, Queued
<1>8. TypeOK'
  <2>1. << >> \in Seq(Message) /\ {} \in SUBSET Event
    OBVIOUS
  <2>2. /\ buffer' \in [Peer -> Seq(Message)]
        /\ subscriptions' \in [Peer -> SUBSET Event]
        /\ epollout' \in [Peer -> BOOLEAN] /\ batch' \subseteq batch
    BY <1>2, <2>1 DEF Connections, TypeOK, ServerTypeOK
  <2> QED BY <1>2, <1>4, <1>5, <2>2 DEF Connections, TypeOK, ServerTypeOK
<1>9. BatchOK'
  BY <1>1, <1>2, <1>6, <1>7 DEF Connections, BatchOK
<1>10. QueuesOK'
  BY <1>3, <1>4, <1>5 DEF QueuesOK
<1>11. ASSUME NEW p \in Peer
       PROVE  PeerOK(p)' /\ TablesOK(p)' /\ RequestsOK(p)'
  <2>1. PeerOK(p) /\ TablesOK(p) /\ RequestsOK(p)
    BY DEF Connections
  <2>2. CASE p # q
    <3>1. buffer'[p] = buffer[p] /\ subscriptions'[p] = subscriptions[p]
      BY <1>2, <2>2 DEF Connections, TypeOK, ServerTypeOK
    <3> QED BY <1>2, <1>6, <2>1, <2>2, <3>1, PeerFrame
  <2>3. CASE p = q
    BY <1>2, <1>6, <1>7, <2>1, <2>3 DEF PeerOK, TablesOK, RequestsOK
  <2> QED BY <2>2, <2>3
<1> QED BY <1>2, <1>8, <1>9, <1>10, <1>11 DEF Connections

\* ipc_drop_client(): a client is one no more.
LEMMA HangUpConnections ==
  ASSUME Connections, HangUp, UNCHANGED peers
  PROVE  Connections'
<1>1. PICK e \in batch : /\ e.fd \in Peer /\ Handling(e) /\ DropClient(e.fd)
                         /\ UNCHANGED <<running, writing, log, backlog, toPeer,
                                        open, xevents>>
  BY DEF HangUp
<1> DEFINE q == e.fd
<1>2. /\ clients' = RemoveAt(clients, CHOOSE i \in DOMAIN clients : clients[i] = q)
      /\ closed' = [closed EXCEPT ![q] = TRUE]
      /\ buffer' = [buffer EXCEPT ![q] = << >>]
      /\ subscriptions' = [subscriptions EXCEPT ![q] = {}]
      /\ epollout' = [epollout EXCEPT ![q] = FALSE]
      /\ toServer' = [toServer EXCEPT ![q] = << >>]
      /\ batch' = batch \ {e}
      /\ UNCHANGED <<running, writing, log, backlog, toPeer, open,
                     xevents, pc, script, sent, got>>
  BY <1>1 DEF DropClient, Handling, peers
<1>3. /\ clients \in Seq(Peer) /\ IsInjective(clients) /\ q \in ToSet(clients)
      /\ \A f \in batch' : f.fd # q
  BY <1>1, <1>2 DEF Connections, BatchOK, Registered, TypeOK, ServerTypeOK
<1>4. /\ clients' \in Seq(Peer) /\ IsInjective(clients')
      /\ ToSet(clients') = ToSet(clients) \ {q}
  BY <1>2, <1>3, RemoveFacts
<1>5. q \in Peer
  BY <1>1
<1> HIDE DEF q
<1>6. \A p \in Peer : /\ Registered(p)' <=> Registered(p) /\ p # q
                      /\ Queued(p)' <=> Queued(p)
  BY <1>2, <1>4 DEF Registered, Queued
<1>7. Registered(q) /\ ~Queued(q)
  BY <1>3 DEF Registered, Queued, Connections, QueuesOK
<1>8. TypeOK'
  <2>1. << >> \in Seq(Message) /\ {} \in SUBSET Event /\ << >> \in Seq(Request)
    OBVIOUS
  <2>2. /\ buffer' \in [Peer -> Seq(Message)]
        /\ subscriptions' \in [Peer -> SUBSET Event]
        /\ toServer' \in [Peer -> Seq(Request)]
        /\ closed' \in [Peer -> BOOLEAN]
        /\ epollout' \in [Peer -> BOOLEAN] /\ batch' \subseteq batch
    BY <1>2, <2>1 DEF Connections, TypeOK, ServerTypeOK
  <2> QED BY <1>2, <1>4, <1>5, <2>2 DEF Connections, TypeOK, ServerTypeOK
<1>9. BatchOK'
  <2>1. \A p \in Peer : p # q => toServer'[p] = toServer[p]
    BY <1>2 DEF Connections, TypeOK, ServerTypeOK
  <2> QED BY <1>2, <1>3, <1>6, <2>1 DEF Connections, BatchOK
<1>10. QueuesOK'
  BY <1>2, <1>4 DEF Connections, QueuesOK
<1>11. ASSUME NEW p \in Peer
       PROVE  PeerOK(p)' /\ TablesOK(p)' /\ RequestsOK(p)'
  <2>1. PeerOK(p) /\ TablesOK(p) /\ RequestsOK(p)
    BY DEF Connections
  <2>2. CASE p # q
    <3>1. /\ buffer'[p] = buffer[p] /\ subscriptions'[p] = subscriptions[p]
          /\ closed'[p] = closed[p] /\ toServer'[p] = toServer[p]
      BY <1>2, <2>2 DEF Connections, TypeOK, ServerTypeOK
    <3> QED BY <1>2, <1>6, <2>1, <2>2, <3>1, PeerFrame
  <2>3. CASE p = q
    <3>1. /\ buffer'[p] = << >> /\ subscriptions'[p] = {} /\ closed'[p]
          /\ toServer'[p] = << >>
      BY <1>2, <2>3 DEF Connections, TypeOK, ServerTypeOK
    <3> QED BY <1>2, <1>6, <1>7, <2>1, <2>3, <3>1 DEF PeerOK, TablesOK, RequestsOK
  <2> QED BY <2>2, <2>3
<1> QED BY <1>2, <1>8, <1>9, <1>10, <1>11 DEF Connections

\* ipc_write_message(): a message goes from the buffer to the socket.
LEMMA WriteConnections ==
  ASSUME Connections, WriteMessage, UNCHANGED peers
  PROVE  Connections'
<1> DEFINE q == writing
<1>1. /\ q \in Peer /\ buffer[q] # << >> /\ open[q]
      /\ toPeer' = [toPeer EXCEPT ![q] = Append(@, Head(buffer[q]))]
      /\ buffer' = [buffer EXCEPT ![q] = Tail(@)]
      /\ UNCHANGED <<running, batch, writing, clients, subscriptions, epollout,
                     log, backlog, toServer, open, closed, xevents, pc, script,
                     sent, got>>
  BY DEF WriteMessage, loop, peers, Connections, TypeOK, ServerTypeOK
<1> HIDE DEF q
<1>2. buffer[q] \in Seq(Message) /\ toPeer[q] \in Seq(Message)
  BY <1>1, TypesOf
<1>3. /\ Tail(buffer[q]) \in Seq(Message)
      /\ Append(toPeer[q], Head(buffer[q])) \in Seq(Message)
  BY <1>1, <1>2, TailFacts, AppendFacts
<1>4. TypeOK'
  BY <1>1, <1>3 DEF Connections, TypeOK, ServerTypeOK
<1>5. \A p \in Peer : /\ Registered(p)' <=> Registered(p)
                      /\ Queued(p)' <=> Queued(p)
  BY <1>1 DEF Registered, Queued
<1>6. BatchOK' /\ QueuesOK'
  BY <1>1, <1>5 DEF Connections, BatchOK, QueuesOK
<1>7. ASSUME NEW p \in Peer
      PROVE  PeerOK(p)' /\ TablesOK(p)' /\ RequestsOK(p)'
  <2>1. PeerOK(p) /\ TablesOK(p) /\ RequestsOK(p)
    BY DEF Connections
  <2>2. CASE p # q
    <3>1. buffer'[p] = buffer[p] /\ toPeer'[p] = toPeer[p]
      BY <1>1, <2>2 DEF Connections, TypeOK, ServerTypeOK
    <3> QED BY <1>1, <1>5, <2>1, <2>2, <3>1, PeerFrame
  <2>3. CASE p = q
    <3>1. Registered(q) /\ ~Queued(q)
      <4>1. Registered(q)
        BY <1>1, <2>1, <2>3 DEF TablesOK
      <4> QED BY <4>1 DEF Connections, QueuesOK, Registered, Queued
    <3> QED BY <1>1, <1>5, <2>1, <2>3, <3>1 DEF PeerOK, TablesOK, RequestsOK
  <2> QED BY <2>2, <2>3
<1> QED BY <1>1, <1>4, <1>6, <1>7 DEF Connections

\* The end of dwm leaves no client and no connection that waits.
LEMMA ExitConnections ==
  ASSUME Connections, WriteToClosed \/ Cleanup, UNCHANGED peers
  PROVE  Connections'
<1>1. /\ Exit /\ running' \in {"killed", "stopped"}
      /\ UNCHANGED <<pc, script, sent, got>>
  BY DEF WriteToClosed, Cleanup, peers
<1>2. TypeOK'
  <2>1. IsInjective(<< >>) /\ << >> \in Seq(Peer) /\ << >> \in Seq(Message)
        /\ << >> \in Seq(Request)
    BY DEF IsInjective
  <2>2. closed' \in [Peer -> BOOLEAN]
    BY <1>1 DEF Exit
  <2> QED BY <1>1, <2>1, <2>2 DEF Exit, Connections, TypeOK, ServerTypeOK
<1>3. \A p \in Peer : ~Registered(p)' /\ ~Queued(p)'
  BY <1>1 DEF Exit, Registered, Queued, ToSet
<1>4. BatchOK' /\ QueuesOK'
  BY <1>1 DEF Exit, BatchOK, QueuesOK, IsInjective, ToSet
<1>5. ASSUME NEW p \in Peer
      PROVE  PeerOK(p)' /\ TablesOK(p)' /\ RequestsOK(p)'
  <2>1. PeerOK(p) /\ TablesOK(p)
    BY DEF Connections
  <2>2. /\ buffer'[p] = << >> /\ subscriptions'[p] = {} /\ toServer'[p] = << >>
        /\ closed'[p] = (closed[p] \/ open[p])
        /\ UNCHANGED <<toPeer, open>>
    BY <1>1 DEF Exit
  <2>3. PeerOK(p)'
    BY <1>1, <1>3, <2>1, <2>2 DEF PeerOK
  <2> QED BY <1>1, <1>3, <2>2, <2>3 DEF TablesOK, RequestsOK
<1> QED BY <1>1, <1>2, <1>4, <1>5 DEF Connections

-----------------------------------------------------------------------------
(* Requests and events                                                     *)

\* What a burst without events is: nothing to tell anyone.
LEMMA NoBurst ==
  ASSUME Connections
  PROVE  /\ << >> \in Bursts /\ log \o << >> = log
         /\ \A q \in Peer : News(q, << >>) = << >>
<1>1. log \in Seq(Event) /\ Len(log) <= MaxLog /\ Len(log) \in Nat
  BY DEF Connections, TypeOK, ServerTypeOK
<1>2. << >> \in Bursts
  <2>1. << >> \in [1 .. 0 -> Event] /\ 0 \in 0 .. 2 /\ Len(<< >>) = 0
    OBVIOUS
  <2>2. << >> \in SeqOf(Event, 2)
    BY <2>1 DEF SeqOf
  <2> QED BY <1>1, <2>1, <2>2 DEF Bursts
<1>3. log \o << >> = log
  BY <1>1, ConcatEmptySeq
<1>4. \A types : Heard(<< >>, types) = << >>
  <2>1. ASSUME NEW types PROVE Heard(<< >>, types) = << >>
    <3>1. HeardUpTo(Heard(<< >>, types), << >>, types, Len(<< >>))
      BY <1>1, <1>2, HeardFacts
    <3>2. DOMAIN Heard(<< >>, types) = {} /\ Heard(<< >>, types) \in Seq(Message)
      BY <3>1 DEF HeardUpTo
    <3> QED BY <3>2, EmptySeq
  <2> QED BY <2>1
<1> QED BY <1>2, <1>3, <1>4 DEF News

\* What a client is told of a burst, and nothing is told to others.
LEMMA NewsFacts ==
  ASSUME Connections, NEW burst \in Bursts, NEW p \in Peer
  PROVE  /\ HeardUpTo(News(p, burst), burst, subscriptions[p], Len(burst))
         /\ News(p, burst) = Heard(burst, subscriptions[p])
         /\ News(p, burst) \in Seq(Message)
<1>1. log \in Seq(Event)
  BY DEF Connections, TypeOK, ServerTypeOK
<1>2. News(p, burst) = Heard(burst, subscriptions[p])
  <2>1. ~Registered(p) => subscriptions[p] = {}
    BY DEF Connections, TablesOK
  <2> QED BY <1>1, <2>1, HeardFacts DEF News
<1>3. HeardUpTo(News(p, burst), burst, subscriptions[p], Len(burst))
  BY <1>1, <1>2, HeardFacts
<1> QED BY <1>2, <1>3 DEF HeardUpTo

\* The subscriptions of a client that had those of old, after the answer ok to
\* its request r.
Wanted(old, r, ok) ==
  IF ~(r.type \in {"subscribe", "unsubscribe"} /\ ok) THEN old
  ELSE IF r.type = "unsubscribe" /\ r.arg \in old THEN old \ {r.arg}
  ELSE old \cup {r.arg}

\* run() handles the first request of p with the answer ok, which makes the
\* events of burst.
Handled(p, ok, burst) ==
  LET r == Head(toServer[p])
  IN /\ Registered(p) /\ toServer[p] # << >>
     /\ \E e \in batch : e.fd = p /\ batch' = batch \ {e}
     /\ toServer' = [toServer EXCEPT ![p] = Tail(@)]
     /\ buffer' = [q \in Peer |->
                     buffer[q] \o ((IF q = p THEN <<Reply(r, ok)>> ELSE << >>)
                                   \o News(q, burst))]
     /\ epollout' \in [Peer -> BOOLEAN]
     /\ log' = log \o burst
     /\ burst # << >> => r.type = "run_command" /\ ok
     /\ r.type \in {"subscribe", "unsubscribe"} => (ok <=> r.arg \in Event)
     /\ subscriptions' = [subscriptions EXCEPT ![p] = Wanted(@, r, ok)]
     /\ running' \in {"yes", "no"}
     /\ xevents' \in {"none", "queue", "connection"}
     /\ UNCHANGED <<writing, clients, backlog, toPeer, open, closed>>

\* ipc_prepare_send_message() of one reply and nothing else.
LEMMA ReplyAlone ==
  ASSUME Connections, NEW p \in Peer, NEW r, NEW ok \in BOOLEAN,
         PrepareSend(Only(p, Reply(r, ok)))
  PROVE  /\ buffer' = [q \in Peer |->
                        buffer[q] \o ((IF q = p THEN <<Reply(r, ok)>> ELSE << >>)
                                      \o News(q, << >>))]
         /\ epollout' \in [Peer -> BOOLEAN]
<1> DEFINE m == Reply(r, ok)
           add == Only(p, m)
<1> HIDE DEF m
<1>1. \A q \in Peer : add[q] = IF q = p THEN <<m>> ELSE << >>
  BY DEF Only
<1>2. \A q \in Peer : add[q] \o News(q, << >>) = add[q]
  <2>1. <<m>> \in Seq({m}) /\ << >> \in Seq({m})
    OBVIOUS
  <2> QED BY <1>1, <2>1, NoBurst, ConcatEmptySeq
<1>3. buffer' = [q \in Peer |-> buffer[q] \o add[q]]
  BY DEF PrepareSend, m
<1>4. epollout' \in [Peer -> BOOLEAN]
  BY DEF PrepareSend
<1> HIDE DEF add
<1>5. buffer' = [q \in Peer |->
                   buffer[q] \o ((IF q = p THEN <<m>> ELSE << >>)
                                 \o News(q, << >>))]
  BY <1>1, <1>2, <1>3
<1> QED BY <1>4, <1>5 DEF m

\* ipc_prepare_send_message() of one reply and of the events after it.
LEMMA ReplyThenEvents ==
  ASSUME Connections, NEW p \in Peer, NEW r, NEW ok \in BOOLEAN,
         NEW burst \in Bursts, SendEvents(Only(p, Reply(r, ok)), burst)
  PROVE  /\ buffer' = [q \in Peer |->
                        buffer[q] \o ((IF q = p THEN <<Reply(r, ok)>> ELSE << >>)
                                      \o News(q, burst))]
         /\ epollout' \in [Peer -> BOOLEAN]
         /\ log' = log \o burst
<1> DEFINE m == Reply(r, ok)
<1> HIDE DEF m
<1> USE DEF SendEvents, PrepareSend, Only
<1>1. buffer' = [q \in Peer |->
                   buffer[q] \o ((IF q = p THEN <<m>> ELSE << >>)
                                 \o News(q, burst))]
  BY DEF m
<1>2. epollout' \in [Peer -> BOOLEAN] /\ log' = log \o burst
  OBVIOUS
<1> QED BY <1>1, <1>2 DEF m

\* Each way in which run() handles a request is such a step.
LEMMA RequestHandled ==
  ASSUME Connections, HandleRequest
  PROVE  \E p \in Peer, ok \in BOOLEAN, burst \in Bursts : Handled(p, ok, burst)
<1>1. PICK p \in ToSet(clients) :
        /\ ReadClient(p)
        /\ LET r == Head(toServer[p])
           IN Answer(p, r) \/ RunCommand(p, r) \/ RejectCommand(p, r)
              \/ Subscribe(p, r)
        /\ UNCHANGED <<writing, backlog, toPeer, open, closed>>
  BY DEF HandleRequest
<1> DEFINE r == Head(toServer[p])
<1>2. p \in Peer /\ Registered(p)
  BY DEF Connections, TypeOK, ServerTypeOK, ToSet, Registered
<1>3. PICK e \in batch : e.fd = p /\ ~e.hup /\ ~e.out /\ Handling(e)
  BY <1>1 DEF ReadClient
<1>4. /\ toServer[p] # << >> /\ batch' = batch \ {e} /\ running \in {"yes", "no"}
      /\ toServer' = [toServer EXCEPT ![p] = Tail(@)]
  BY <1>1, <1>2, <1>3 DEF Connections, BatchOK, Handling, Alive, ReadClient
<1> HIDE DEF r
<1>5. Answer(p, r) \/ RunCommand(p, r) \/ RejectCommand(p, r) \/ Subscribe(p, r)
  BY <1>1 DEF r
<1>6. xevents \in {"none", "queue", "connection"}
  BY DEF Connections, TypeOK, ServerTypeOK
<1>7. subscriptions = [subscriptions EXCEPT ![p] = @]
  BY <1>2 DEF Connections, TypeOK, ServerTypeOK
<1>8. ASSUME NEW ok \in BOOLEAN, NEW burst \in Bursts,
             buffer' = [q \in Peer |->
                          buffer[q] \o ((IF q = p THEN <<Reply(r, ok)>> ELSE << >>)
                                        \o News(q, burst))],
             epollout' \in [Peer -> BOOLEAN], log' = log \o burst,
             burst # << >> => r.type = "run_command" /\ ok,
             r.type \in {"subscribe", "unsubscribe"} => (ok <=> r.arg \in Event),
             subscriptions' = [subscriptions EXCEPT ![p] = Wanted(@, r, ok)],
             running' \in {"yes", "no"},
             xevents' \in {"none", "queue", "connection"}, UNCHANGED clients
      PROVE  \E q \in Peer, yes \in BOOLEAN, b \in Bursts : Handled(q, yes, b)
  <2>1. Handled(p, ok, burst)
    BY <1>1, <1>2, <1>3, <1>4, <1>8, Zenon DEF Handled, r
  <2> QED BY <1>2, <2>1
<1>9. ASSUME r.type \notin {"subscribe", "unsubscribe"}, UNCHANGED subscriptions,
             NEW ok \in BOOLEAN
      PROVE  subscriptions' = [subscriptions EXCEPT ![p] = Wanted(@, r, ok)]
  <2>1. Wanted(subscriptions[p], r, ok) = subscriptions[p]
    BY <1>9 DEF Wanted
  <2> QED BY <1>7, <1>9, <2>1
<1>10. CASE Answer(p, r)
  <2>1. PICK ok \in BOOLEAN : PrepareSend(Only(p, Reply(r, ok)))
    BY <1>10 DEF Answer
  <2>2. r.type \notin {"subscribe", "unsubscribe"}
        /\ UNCHANGED <<running, clients, subscriptions, log, xevents>>
    BY <1>10 DEF Answer
  <2>3. << >> \in Bursts /\ log' = log \o << >>
    BY <2>2, NoBurst
  <2>4. subscriptions' = [subscriptions EXCEPT ![p] = Wanted(@, r, ok)]
    BY <1>9, <2>2
  <2> QED BY <1>2, <1>4, <1>6, <1>8, <2>1, <2>2, <2>3, <2>4, ReplyAlone
<1>11. CASE RunCommand(p, r)
  <2>1. PICK burst \in Bursts : SendEvents(Only(p, Reply(r, TRUE)), burst)
    BY <1>11 DEF RunCommand
  <2>2. /\ r.type = "run_command" /\ running' \in {"yes", "no"}
        /\ xevents' \in {"none", "queue", "connection"}
        /\ UNCHANGED <<clients, subscriptions>>
    BY <1>4, <1>6, <1>11 DEF RunCommand
  <2>3. subscriptions' = [subscriptions EXCEPT ![p] = Wanted(@, r, TRUE)]
    BY <1>9, <2>2
  <2>4. /\ buffer' = [q \in Peer |->
                       buffer[q] \o ((IF q = p THEN <<Reply(r, TRUE)>> ELSE << >>)
                                     \o News(q, burst))]
        /\ epollout' \in [Peer -> BOOLEAN] /\ log' = log \o burst
    BY <1>2, <2>1, ReplyThenEvents
  <2>5. TRUE \in BOOLEAN /\ (burst # << >> => r.type = "run_command" /\ TRUE)
        /\ (r.type \in {"subscribe", "unsubscribe"} => (TRUE <=> r.arg \in Event))
    BY <2>2
  <2> QED BY <1>8, <2>2, <2>3, <2>4, <2>5, Zenon
<1>12. CASE RejectCommand(p, r)
  <2>1. /\ PrepareSend(Only(p, Reply(r, FALSE)))
        /\ r.type \notin {"subscribe", "unsubscribe"}
        /\ UNCHANGED <<running, clients, subscriptions, log, xevents>>
    BY <1>12 DEF RejectCommand
  <2>2. << >> \in Bursts /\ log' = log \o << >>
    BY <2>1, NoBurst
  <2>3. subscriptions' = [subscriptions EXCEPT ![p] = Wanted(@, r, FALSE)]
    BY <1>9, <2>1
  <2> QED BY <1>2, <1>4, <1>6, <1>8, <2>1, <2>2, <2>3, ReplyAlone
<1>13. CASE Subscribe(p, r)
  <2>1. PICK ok \in BOOLEAN : ok = (r.arg \in Event)
    <3>1. (r.arg \in Event) \in BOOLEAN
      OBVIOUS
    <3> QED BY <3>1, Zenon
  <2>2. /\ PrepareSend(Only(p, Reply(r, ok)))
        /\ UNCHANGED <<running, clients, log, xevents>>
    BY <1>13, <2>1 DEF Subscribe
  <2>3. subscriptions' = [subscriptions EXCEPT ![p] = Wanted(@, r, ok)]
    <3>1. r.type \in {"subscribe", "unsubscribe"}
      BY <1>13 DEF Subscribe
    <3>2. ok <=> r.arg \in Event
      BY <2>1, Zenon
    <3>3. Wanted(subscriptions[p], r, ok) =
            IF r.arg \notin Event THEN subscriptions[p]
            ELSE IF r.type = "unsubscribe" /\ r.arg \in subscriptions[p]
                 THEN subscriptions[p] \ {r.arg}
            ELSE subscriptions[p] \cup {r.arg}
      BY <3>1, <3>2 DEF Wanted
    <3> QED BY <1>13, <3>3 DEF Subscribe
  <2>4. << >> \in Bursts /\ log' = log \o << >>
    BY <2>2, NoBurst
  <2> QED BY <1>2, <1>4, <1>6, <1>8, <2>1, <2>2, <2>3, <2>4, ReplyAlone
<1> QED BY <1>5, <1>10, <1>11, <1>12, <1>13

\* run() handles the connection to the X server, which makes the events of
\* burst.
Displayed(burst) ==
  /\ buffer' = [q \in Peer |-> buffer[q] \o News(q, burst)]
  /\ epollout' \in [Peer -> BOOLEAN]
  /\ log' = log \o burst
  /\ batch' \subseteq batch
  /\ running' \in {"yes", "no"} /\ xevents' = "none"
  /\ UNCHANGED <<writing, clients, subscriptions, sockets>>

\* Every call of handlexevent() is such a step.
LEMMA DisplayHandled ==
  ASSUME Connections, HandleDisplay
  PROVE  \E burst \in Bursts : Displayed(burst)
<1>1. /\ batch' \subseteq batch /\ xevents' = "none"
      /\ UNCHANGED <<writing, clients, subscriptions, sockets>>
  BY DEF HandleDisplay, Handling
<1>2. CASE /\ \E burst \in Bursts : SendEvents([p \in Peer |-> << >>], burst)
           /\ running' \in {"yes", "no"}
  <2>1. PICK burst \in Bursts : SendEvents([p \in Peer |-> << >>], burst)
    BY <1>2
  <2>2. \A q \in Peer : << >> \o News(q, burst) = News(q, burst)
    BY NewsFacts, ConcatEmptySeq
  <2>3. buffer' = [q \in Peer |-> buffer[q] \o (<< >> \o News(q, burst))]
    BY <2>1 DEF SendEvents, PrepareSend
  <2>4. buffer' = [q \in Peer |-> buffer[q] \o News(q, burst)]
    BY <2>2, <2>3
  <2>5. epollout' \in [Peer -> BOOLEAN] /\ log' = log \o burst
    BY <2>1 DEF SendEvents, PrepareSend
  <2> QED BY <1>1, <1>2, <2>4, <2>5 DEF Displayed
<1>3. CASE running = "no" /\ UNCHANGED <<running, buffer, epollout, log>>
  <2>1. \A q \in Peer : buffer[q] \o News(q, << >>) = buffer[q]
    BY NoBurst, ConcatEmptySeq, TypesOf
  <2>2. buffer = [q \in Peer |-> buffer[q]] /\ epollout \in [Peer -> BOOLEAN]
    BY DEF Connections, TypeOK, ServerTypeOK
  <2>3. buffer' = [q \in Peer |-> buffer[q] \o News(q, << >>)]
    BY <1>3, <2>1, <2>2
  <2>4. Displayed(<< >>)
    BY <1>1, <1>3, <2>2, <2>3, NoBurst DEF Displayed
  <2> QED BY <2>4, NoBurst
<1> QED BY <1>2, <1>3 DEF HandleDisplay

\* The log grows within its bound.
LEMMA LogGrows ==
  ASSUME Connections, NEW burst \in Bursts, log' = log \o burst
  PROVE  /\ log' \in Seq(Event) /\ Len(log') <= MaxLog
         /\ Len(log) \in Nat /\ Len(burst) \in Nat
         /\ Len(log') = Len(log) + Len(burst)
<1>1. log \in Seq(Event)
  BY DEF Connections, TypeOK, ServerTypeOK
<1>2. burst \in Seq(Event) /\ Len(log) + Len(burst) <= MaxLog
  BY <1>1, BurstFacts
<1> QED BY <1>1, <1>2, ConcatProperties

\* The answer to a request is a message.
LEMMA ReplyType ==
  ASSUME Connections, NEW r \in Request, NEW ok \in BOOLEAN
  PROVE  Reply(r, ok) \in Message
<1>1. Len(log) \in 0 .. MaxLog
  BY IpcAssumption DEF Connections, TypeOK, ServerTypeOK
<1> QED BY <1>1 DEF Reply, Message

\* A handled request leaves the connections in order.
LEMMA RequestConnections ==
  ASSUME Connections, HandleRequest, UNCHANGED peers
  PROVE  Connections'
<1>1. PICK p \in Peer, ok \in BOOLEAN, burst \in Bursts : Handled(p, ok, burst)
  BY RequestHandled
<1> DEFINE r == Head(toServer[p])
           out(q) == (IF q = p THEN <<Reply(r, ok)>> ELSE << >>) \o News(q, burst)
<1>2. /\ Registered(p) /\ toServer[p] # << >>
      /\ toServer' = [toServer EXCEPT ![p] = Tail(@)]
      /\ subscriptions' = [subscriptions EXCEPT ![p] = Wanted(@, r, ok)]
      /\ r.type \in {"subscribe", "unsubscribe"} => (ok <=> r.arg \in Event)
      /\ epollout' \in [Peer -> BOOLEAN]
      /\ running' \in {"yes", "no"}
      /\ xevents' \in {"none", "queue", "connection"}
      /\ UNCHANGED <<writing, clients, backlog, toPeer, open, closed, pc,
                     script, sent, got>>
  BY <1>1 DEF Handled, peers
<1>3. buffer' = [q \in Peer |-> buffer[q] \o out(q)] /\ log' = log \o burst
  BY <1>1, Zenon DEF Handled
<1>4. PICK e \in batch : e.fd = p /\ batch' = batch \ {e}
  BY <1>1 DEF Handled
<1>5. toServer[p] \in Seq(Request) /\ r \in Request /\ Tail(toServer[p]) \in Seq(Request)
      /\ Len(Tail(toServer[p])) = Len(toServer[p]) - 1
      /\ Len(toServer[p]) \in Nat \ {0}
  BY <1>2, TypesOf, TailFacts
<1> HIDE DEF r
<1>6. \A q \in Peer : out(q) \in Seq(Message)
  <2>1. Reply(r, ok) \in Message
    BY <1>5, ReplyType
  <2> DEFINE m == Reply(r, ok)
  <2> HIDE DEF m
  <2>2. <<m>> \in Seq(Message) /\ << >> \in Seq(Message)
    BY <2>1 DEF m
  <2>3. \A q \in Peer : (IF q = p THEN <<m>> ELSE << >>) \in Seq(Message)
    BY <2>2
  <2>4. \A q \in Peer : (IF q = p THEN <<m>> ELSE << >>) \o News(q, burst)
                          \in Seq(Message)
    BY <2>3, NewsFacts, ConcatFacts
  <2> QED BY <2>4 DEF m
<1> HIDE DEF out
<1>7. buffer' \in [Peer -> Seq(Message)]
  <2>1. \A q \in Peer : buffer[q] \o out(q) \in Seq(Message)
    BY <1>6, TypesOf, ConcatFacts
  <2> QED BY <1>3, <2>1
<1>8. subscriptions' \in [Peer -> SUBSET Event]
  <2>1. Wanted(subscriptions[p], r, ok) \in SUBSET Event
    BY <1>2, TypesOf DEF Wanted
  <2> QED BY <1>2, <2>1 DEF Connections, TypeOK, ServerTypeOK
<1>9. TypeOK'
  <2>1. log' \in Seq(Event) /\ Len(log') <= MaxLog
    BY <1>3, LogGrows
  <2>2. toServer' \in [Peer -> Seq(Request)]
    BY <1>2, <1>5 DEF Connections, TypeOK, ServerTypeOK
  <2> QED BY <1>2, <1>4, <1>7, <1>8, <2>1, <2>2
          DEF Connections, TypeOK, ServerTypeOK
<1>10. \A q \in Peer : /\ Registered(q)' <=> Registered(q)
                       /\ Queued(q)' <=> Queued(q)
  BY <1>2 DEF Registered, Queued
<1>11. \A q \in Peer : q # p => /\ toServer'[q] = toServer[q]
                                /\ subscriptions'[q] = subscriptions[q]
  BY <1>2 DEF Connections, TypeOK, ServerTypeOK
<1>12. BatchOK'
  <2>1. \A f \in batch' : f \in batch /\ f.fd # p
    BY <1>4 DEF Connections, BatchOK
  <2> QED BY <1>2, <1>10, <1>11, <2>1 DEF Connections, BatchOK
<1>13. QueuesOK'
  BY <1>2 DEF Connections, QueuesOK
<1>14. ASSUME NEW q \in Peer
       PROVE  PeerOK(q)' /\ TablesOK(q)' /\ RequestsOK(q)'
  <2>1. /\ PeerOK(q) /\ TablesOK(q) /\ RequestsOK(q)
        /\ buffer[q] \in Seq(Message) /\ Len(toServer[q]) \in Nat /\ sent[q] \in Nat
    BY TypesOf
  <2>2. CASE q # p /\ Registered(q)
    <3>1. ~Queued(q)
      BY <2>2 DEF Connections, QueuesOK, Registered, Queued
    <3> QED BY <1>2, <1>10, <1>11, <2>1, <2>2, <3>1
            DEF PeerOK, TablesOK, RequestsOK
  <2>3. CASE q # p /\ ~Registered(q)
    <3>1. News(q, burst) = << >>
      BY <2>3 DEF News
    <3>2. out(q) = << >>
      BY <2>3, <3>1, ConcatEmptySeq, NewsFacts DEF out
    <3>3. buffer'[q] = buffer[q]
      BY <1>3, <2>1, <3>2, ConcatEmptySeq
    <3> QED BY <1>2, <1>10, <1>11, <2>1, <2>3, <3>3, PeerFrame
  <2>4. CASE q = p
    <3>1. ~Queued(p)
      BY <1>2 DEF Connections, QueuesOK, Registered, Queued
    <3>2. PeerOK(p)' /\ TablesOK(p)'
      BY <1>2, <1>10, <2>1, <2>4, <3>1 DEF PeerOK, TablesOK
    <3>3. toServer'[p] = Tail(toServer[p])
      BY <1>2 DEF Connections, TypeOK, ServerTypeOK
    <3>4. ASSUME NEW i \in DOMAIN Tail(toServer[p])
          PROVE  Tail(toServer[p])[i] =
                   script[p][sent[p] - (Len(toServer[p]) - 1) + i]
      <4>1. /\ i \in 1 .. Len(toServer[p]) - 1 /\ i + 1 \in DOMAIN toServer[p]
            /\ Tail(toServer[p])[i] = toServer[p][i + 1]
        BY <1>5
      <4>2. toServer[p][i + 1] = script[p][sent[p] - Len(toServer[p]) + (i + 1)]
        BY <1>2, <2>1, <2>4, <4>1 DEF RequestsOK
      <4>3. sent[p] - Len(toServer[p]) + (i + 1)
              = sent[p] - (Len(toServer[p]) - 1) + i
        <5>1. \A a, b, c \in Int : a - b + (c + 1) = a - (b - 1) + c
          OBVIOUS
        <5>2. sent[p] \in Int /\ Len(toServer[p]) \in Int /\ i \in Int
          BY <1>5, <2>1, <2>4, <4>1
        <5> QED BY <5>1, <5>2
      <4> QED BY <4>1, <4>2, <4>3
    <3>5. Len(toServer[p]) - 1 <= sent[p]
      BY <1>2, <1>5, <2>1, <2>4 DEF RequestsOK
    <3>6. RequestsOK(p)'
      BY <1>2, <1>5, <3>3, <3>4, <3>5 DEF RequestsOK
    <3> QED BY <2>4, <3>2, <3>6
  <2> QED BY <2>2, <2>3, <2>4
<1> QED BY <1>2, <1>9, <1>12, <1>13, <1>14 DEF Connections

\* So do the events of the X server.
LEMMA DisplayConnections ==
  ASSUME Connections, HandleDisplay, UNCHANGED peers
  PROVE  Connections'
<1>1. PICK burst \in Bursts : Displayed(burst)
  BY DisplayHandled
<1>2. /\ buffer' = [q \in Peer |-> buffer[q] \o News(q, burst)]
      /\ epollout' \in [Peer -> BOOLEAN] /\ log' = log \o burst
      /\ batch' \subseteq batch
      /\ running' \in {"yes", "no"} /\ xevents' = "none"
      /\ UNCHANGED <<writing, clients, subscriptions, backlog, toServer, toPeer,
                     open, closed, pc, script, sent, got>>
  BY <1>1 DEF Displayed, sockets, peers
<1>3. buffer' \in [Peer -> Seq(Message)]
  <2>1. \A q \in Peer : buffer[q] \o News(q, burst) \in Seq(Message)
    BY NewsFacts, TypesOf, ConcatFacts
  <2> QED BY <1>2, <2>1
<1>4. TypeOK'
  <2>1. log' \in Seq(Event) /\ Len(log') <= MaxLog
    BY <1>2, LogGrows
  <2> QED BY <1>2, <1>3, <2>1 DEF Connections, TypeOK, ServerTypeOK
<1>5. \A q \in Peer : /\ Registered(q)' <=> Registered(q)
                      /\ Queued(q)' <=> Queued(q)
  BY <1>2 DEF Registered, Queued
<1>6. BatchOK' /\ QueuesOK'
  BY <1>2, <1>5 DEF Connections, BatchOK, QueuesOK
<1>7. ASSUME NEW q \in Peer
      PROVE  PeerOK(q)' /\ TablesOK(q)' /\ RequestsOK(q)'
  <2>1. /\ PeerOK(q) /\ TablesOK(q) /\ RequestsOK(q)
        /\ buffer[q] \in Seq(Message)
    BY TypesOf
  <2>2. ~Registered(q) => buffer'[q] = buffer[q]
    <3>1. ~Registered(q) => News(q, burst) = << >>
      BY DEF News
    <3> QED BY <1>2, <2>1, <3>1, ConcatEmptySeq
  <2>3. Registered(q) => ~Queued(q)
    BY DEF Connections, QueuesOK, Registered, Queued
  <2> QED BY <1>2, <1>5, <2>1, <2>2, <2>3 DEF PeerOK, TablesOK, RequestsOK
<1> QED BY <1>2, <1>4, <1>6, <1>7 DEF Connections

\* connect_to_socket(): a connection more waits to be accepted.
LEMMA ConnectConnections ==
  ASSUME Connections, NEW q \in Peer, Connect(q)
  PROVE  Connections'
<1>1. /\ pc[q] = "off" /\ pc' = [pc EXCEPT ![q] = "ready"]
      /\ backlog' = Append(backlog, q) /\ open' = [open EXCEPT ![q] = TRUE]
      /\ UNCHANGED <<running, batch, writing, clients, buffer, subscriptions,
                     epollout, log, toServer, toPeer, closed, xevents, script,
                     sent, got>>
  BY DEF Connect, loop, tables
<1>2. PeerOK(q) /\ TablesOK(q) /\ RequestsOK(q)
  BY DEF Connections
<1>3. ~Registered(q) /\ ~Queued(q) /\ ~open[q]
  BY <1>1, <1>2 DEF PeerOK
<1>4. backlog \in Seq(Peer) /\ IsInjective(backlog)
  BY DEF Connections, TypeOK, ServerTypeOK, QueuesOK
<1>5. /\ backlog' \in Seq(Peer) /\ backlog' # << >> /\ IsInjective(backlog')
      /\ ToSet(backlog') = ToSet(backlog) \cup {q}
  BY <1>1, <1>3, <1>4, AppendFacts DEF Queued
<1>6. \A p \in Peer : /\ Registered(p)' <=> Registered(p)
                      /\ Queued(p)' <=> Queued(p) \/ p = q
  BY <1>1, <1>5 DEF Registered, Queued
<1>7. TypeOK'
  BY <1>1, <1>5 DEF Connections, TypeOK, ServerTypeOK
<1>8. BatchOK'
  BY <1>1, <1>5, <1>6 DEF Connections, BatchOK
<1>9. QueuesOK'
  BY <1>1, <1>3, <1>5 DEF Connections, QueuesOK, Registered
<1>10. ASSUME NEW p \in Peer
       PROVE  PeerOK(p)' /\ TablesOK(p)' /\ RequestsOK(p)'
  <2>1. PeerOK(p) /\ TablesOK(p) /\ RequestsOK(p)
    BY DEF Connections
  <2>2. CASE p # q
    <3>1. pc'[p] = pc[p] /\ open'[p] = open[p]
      BY <1>1, <2>2 DEF Connections, TypeOK, ServerTypeOK
    <3> QED BY <1>1, <1>6, <2>1, <2>2, <3>1, PeerFrame
  <2>3. CASE p = q
    <3>1. pc'[q] = "ready" /\ open'[q]
      BY <1>1 DEF Connections, TypeOK, ServerTypeOK
    <3>2. sent[q] = 0 /\ toServer[q] = << >> /\ Len(script[q]) \in Nat \ {0}
          /\ ~closed[q] /\ toPeer[q] = << >> /\ got[q] = << >>
      BY <1>1, <1>2, <1>3, TypesOf DEF PeerOK
    <3>3. PeerOK(q)'
      BY <1>1, <1>6, <3>1, <3>2 DEF PeerOK
    <3>4. TablesOK(q)' /\ RequestsOK(q)'
      BY <1>1, <1>2, <1>6, <3>2 DEF TablesOK, RequestsOK
    <3> QED BY <2>3, <3>3, <3>4
  <2> QED BY <2>2, <2>3
<1> QED BY <1>1, <1>7, <1>8, <1>9, <1>10 DEF Connections

\* send_message(): one request more of the script is in the socket.
LEMMA SendConnections ==
  ASSUME Connections, NEW q \in Peer, SendMessage(q)
  PROVE  Connections'
<1> DEFINE r == script[q][sent[q] + 1]
<1>1. /\ pc[q] = "ready" /\ ~closed[q] /\ pc' = [pc EXCEPT ![q] = "waiting"]
      /\ toServer' = [toServer EXCEPT ![q] = Append(@, r)]
      /\ sent' = [sent EXCEPT ![q] = @ + 1]
      /\ UNCHANGED <<running, batch, writing, clients, buffer, subscriptions,
                     epollout, log, backlog, toPeer, open, closed, xevents,
                     script, got>>
  BY DEF SendMessage, loop, tables
<1>2. /\ PeerOK(q) /\ TablesOK(q) /\ RequestsOK(q) /\ sent[q] \in Nat
      /\ toServer[q] \in Seq(Request) /\ script[q] \in Seq(Request)
      /\ Len(script[q]) \in Nat /\ Len(toServer[q]) \in Nat
  BY TypesOf
<1>3. sent[q] + 1 \in 1 .. Len(script[q]) /\ sent[q] + 1 \in 0 .. Len(script[q])
  BY <1>1, <1>2 DEF PeerOK
<1>4. r \in Request
  BY <1>2, <1>3
<1> HIDE DEF r
<1>5. /\ Append(toServer[q], r) \in Seq(Request) /\ Append(toServer[q], r) # << >>
      /\ Len(Append(toServer[q], r)) = Len(toServer[q]) + 1
      /\ DOMAIN toServer[q] = 1 .. Len(toServer[q])
      /\ DOMAIN Append(toServer[q], r) = 1 .. Len(toServer[q]) + 1
      /\ \A i \in 1 .. Len(toServer[q]) :
           Append(toServer[q], r)[i] = toServer[q][i]
      /\ Append(toServer[q], r)[Len(toServer[q]) + 1] = r
  BY <1>2, <1>4
<1>6. /\ sent'[q] = sent[q] + 1 /\ toServer'[q] = Append(toServer[q], r)
      /\ pc'[q] = "waiting"
      /\ \A p \in Peer : p # q => /\ sent'[p] = sent[p] /\ pc'[p] = pc[p]
                                  /\ toServer'[p] = toServer[p]
  BY <1>1 DEF Connections, TypeOK, ServerTypeOK
<1>7. TypeOK' /\ sent' \in [Peer -> Nat]
  <2>1. toServer' \in [Peer -> Seq(Request)]
    BY <1>1, <1>5 DEF Connections, TypeOK, ServerTypeOK
  <2>2. sent' \in [Peer -> Nat]
    BY <1>1, <1>2 DEF Connections
  <2>3. \A p \in Peer : sent'[p] \in 0 .. Len(script[p])
    BY <1>3, <1>6 DEF Connections, TypeOK
  <2>4. ServerTypeOK'
    BY <1>1, <2>1 DEF Connections, TypeOK, ServerTypeOK
  <2> QED BY <1>1, <2>2, <2>3, <2>4 DEF Connections, TypeOK
<1>8. \A p \in Peer : /\ Registered(p)' <=> Registered(p)
                      /\ Queued(p)' <=> Queued(p)
  BY <1>1 DEF Registered, Queued
<1>9. BatchOK' /\ QueuesOK'
  BY <1>1, <1>5, <1>6, <1>8 DEF Connections, BatchOK, QueuesOK
<1>10. ASSUME NEW p \in Peer
       PROVE  PeerOK(p)' /\ TablesOK(p)' /\ RequestsOK(p)'
  <2>1. PeerOK(p) /\ TablesOK(p) /\ RequestsOK(p)
    BY DEF Connections
  <2>2. CASE p # q
    BY <1>1, <1>6, <1>8, <2>1, <2>2, PeerFrame
  <2>3. CASE p = q
    <3>1. PeerOK(q)'
      BY <1>1, <1>2, <1>6, <1>8 DEF PeerOK
    <3>2. TablesOK(q)'
      BY <1>1, <1>2, <1>5, <1>6, <1>8 DEF TablesOK
    <3>3. RequestsOK(q)'
      <4>1. ASSUME Registered(q) \/ Queued(q)
            PROVE  /\ Len(toServer[q]) + 1 <= sent[q] + 1
                   /\ (sent[q] + 1) - (Len(toServer[q]) + 1)
                        = sent[q] - Len(toServer[q])
        BY <1>2, <4>1 DEF RequestsOK
      <4>2. ASSUME Registered(q) \/ Queued(q),
                   NEW i \in 1 .. Len(toServer[q]) + 1
            PROVE  Append(toServer[q], r)[i]
                     = script[q][sent[q] - Len(toServer[q]) + i]
        <5>1. CASE i \in 1 .. Len(toServer[q])
          BY <1>2, <1>5, <4>2, <5>1 DEF RequestsOK
        <5>2. CASE i = Len(toServer[q]) + 1
          <6>1. sent[q] - Len(toServer[q]) + (Len(toServer[q]) + 1) = sent[q] + 1
            BY <1>2
          <6> QED BY <1>5, <5>2, <6>1 DEF r
        <5>3. i \in 1 .. Len(toServer[q]) \/ i = Len(toServer[q]) + 1
          BY <1>2, <4>2
        <5> QED BY <5>1, <5>2, <5>3
      <4> QED BY <1>1, <1>5, <1>6, <1>8, <4>1, <4>2 DEF RequestsOK
    <3> QED BY <2>3, <3>1, <3>2, <3>3
  <2> QED BY <2>2, <2>3
<1> QED BY <1>7, <1>9, <1>10 DEF Connections

\* A peer that exits, is killed or loses the connection, whenever that is.
LEMMA PeerExitConnections ==
  ASSUME Connections, NEW q \in Peer, PeerExit(q), pc[q] # "off",
         UNCHANGED <<loop, tables, backlog, toServer, closed, xevents, script,
                     sent>>
  PROVE  Connections'
<1>1. /\ pc' = [pc EXCEPT ![q] = "exited"] /\ open' = [open EXCEPT ![q] = FALSE]
      /\ toPeer' = [toPeer EXCEPT ![q] = << >>]
      /\ got' = [got EXCEPT ![q] = << >>]
      /\ UNCHANGED <<running, batch, writing, clients, buffer, subscriptions,
                     epollout, log, backlog, toServer, closed, xevents, script,
                     sent>>
  BY DEF PeerExit, loop, tables
<1>2. << >> \in Seq(Message)
  OBVIOUS
<1>3. TypeOK'
  BY <1>1, <1>2 DEF Connections, TypeOK, ServerTypeOK
<1>4. \A p \in Peer : /\ Registered(p)' <=> Registered(p)
                      /\ Queued(p)' <=> Queued(p)
  BY <1>1 DEF Registered, Queued
<1>5. BatchOK' /\ QueuesOK'
  BY <1>1, <1>4 DEF Connections, BatchOK, QueuesOK
<1>6. ASSUME NEW p \in Peer
      PROVE  PeerOK(p)' /\ TablesOK(p)' /\ RequestsOK(p)'
  <2>1. PeerOK(p) /\ TablesOK(p) /\ RequestsOK(p)
    BY DEF Connections
  <2>2. CASE p # q
    <3>1. pc'[p] = pc[p] /\ open'[p] = open[p] /\ toPeer'[p] = toPeer[p]
          /\ got'[p] = got[p]
      BY <1>1, <2>2 DEF Connections, TypeOK, ServerTypeOK
    <3> QED BY <1>1, <1>4, <2>1, <2>2, <3>1, PeerFrame
  <2>3. CASE p = q
    <3>1. pc'[q] = "exited" /\ ~open'[q] /\ toPeer'[q] = << >> /\ got'[q] = << >>
      BY <1>1 DEF Connections, TypeOK, ServerTypeOK
    <3> QED BY <1>1, <1>4, <2>1, <2>3, <3>1 DEF PeerOK, TablesOK, RequestsOK
  <2> QED BY <2>2, <2>3
<1> QED BY <1>1, <1>3, <1>5, <1>6 DEF Connections

\* print_socket_reply(): the peer reads a message and goes on.
LEMMA ReadConnections ==
  ASSUME Connections, NEW q \in Peer, ReadSocket(q)
  PROVE  Connections'
<1>1. CASE Answered(q)
  BY <1>1, PeerExitConnections DEF ReadSocket
<1>2. CASE ~Answered(q)
  <2>1. /\ pc[q] \in {"waiting", "listening"} /\ toPeer[q] # << >>
        /\ pc' = [pc EXCEPT ![q] = IF sent[q] < Len(script[q])
                                   THEN "ready" ELSE "listening"]
        /\ got' = [got EXCEPT ![q] = Append(@, Head(toPeer[q]))]
        /\ toPeer' = [toPeer EXCEPT ![q] = Tail(@)]
        /\ UNCHANGED <<running, batch, writing, clients, buffer, subscriptions,
                       epollout, log, backlog, toServer, open, closed, xevents,
                       script, sent>>
    BY <1>2 DEF ReadSocket, loop, tables
  <2>2. got[q] \in Seq(Message) /\ toPeer[q] \in Seq(Message)
    BY TypesOf
  <2>3. Append(got[q], Head(toPeer[q])) \in Seq(Message)
        /\ Tail(toPeer[q]) \in Seq(Message)
    BY <2>1, <2>2, TailFacts, AppendFacts
  <2>4. TypeOK'
    BY <2>1, <2>3 DEF Connections, TypeOK, ServerTypeOK
  <2>5. \A p \in Peer : /\ Registered(p)' <=> Registered(p)
                        /\ Queued(p)' <=> Queued(p)
    BY <2>1 DEF Registered, Queued
  <2>6. BatchOK' /\ QueuesOK'
    BY <2>1, <2>5 DEF Connections, BatchOK, QueuesOK
  <2>7. ASSUME NEW p \in Peer
        PROVE  PeerOK(p)' /\ TablesOK(p)' /\ RequestsOK(p)'
    <3>1. PeerOK(p) /\ TablesOK(p) /\ RequestsOK(p)
      BY DEF Connections
    <3>2. CASE p # q
      <4>1. pc'[p] = pc[p] /\ toPeer'[p] = toPeer[p] /\ got'[p] = got[p]
        BY <2>1, <3>2 DEF Connections, TypeOK, ServerTypeOK
      <4> QED BY <2>1, <2>5, <3>1, <3>2, <4>1, PeerFrame
    <3>3. CASE p = q
      <4>1. /\ pc'[q] \in {"ready", "listening"}
            /\ pc'[q] = "ready" => sent[q] < Len(script[q])
            /\ open[q] /\ ~Queued(q)
        BY <2>1, <3>1, <3>3 DEF Connections, TypeOK, ServerTypeOK, PeerOK, TablesOK
      <4> QED BY <2>1, <2>5, <3>1, <3>3, <4>1 DEF PeerOK, TablesOK, RequestsOK
    <3> QED BY <3>2, <3>3
  <2> QED BY <2>1, <2>4, <2>6, <2>7 DEF Connections
<1> QED BY <1>1, <1>2

\* No step of dwm, of a peer or of the X server breaks the connections.
LEMMA NextConnections == Connections /\ [Next]_vars => Connections'
<1> SUFFICES ASSUME Connections, [Next]_vars PROVE Connections'
  OBVIOUS
<1>1. CASE UNCHANGED vars
  BY <1>1 DEF vars, loop, tables, sockets, peers, Connections, TypeOK,
     ServerTypeOK, BatchOK, QueuesOK, PeerOK, TablesOK, RequestsOK, Registered,
     Queued
<1>2. CASE ServerNext /\ UNCHANGED peers
  BY <1>2, LoopConnections, AcceptConnections, HangUpConnections,
     WriteConnections, ExitConnections, RequestConnections, DisplayConnections
     DEF ServerNext
<1>3. CASE XEvent /\ UNCHANGED peers
  BY <1>3, LoopConnections
<1>4. ASSUME NEW p \in Peer, Connect(p) \/ PeerNext(p) \/ Kill(p)
      PROVE  Connections'
  <2>1. CASE ConnectionLost(p) \/ Kill(p)
    BY <2>1, PeerExitConnections DEF ConnectionLost, Kill
  <2> QED BY <1>4, <2>1, ConnectConnections, SendConnections, ReadConnections
          DEF PeerNext
<1> QED BY <1>1, <1>2, <1>3, <1>4 DEF Next

\* At any time, whatever the requests and the deaths of the peers: every
\* variable has its type, which takes that run() never handles an event that is
\* no longer true, and so never unlinks a client that is not linked, accepts a
\* connection that is not there or waits for a request that nobody sent.
THEOREM ServerTypeCorrect == Spec => []TypeOK
<1>1. Connections => TypeOK
  BY DEF Connections
<1> QED BY <1>1, InitConnections, NextConnections, PTL DEF Spec

-----------------------------------------------------------------------------
(* What a peer has been sent                                               *)

\* The first message of t moves to the end of s: together they are the same.
LEMMA MoveFirst ==
  ASSUME NEW S, NEW s \in Seq(S), NEW t \in Seq(S), t # << >>
  PROVE  Append(s, Head(t)) \o Tail(t) = s \o t
<1> DEFINE a == Append(s, Head(t))
           b == Tail(t)
<1>1. /\ a \in Seq(S) /\ b \in Seq(S) /\ Len(s) \in Nat /\ Len(t) \in Nat \ {0}
      /\ Len(a) = Len(s) + 1 /\ Len(b) = Len(t) - 1
      /\ \A i \in 1 .. Len(s) : a[i] = s[i]
      /\ a[Len(s) + 1] = t[1]
      /\ \A i \in 1 .. Len(t) - 1 : b[i] = t[i + 1]
  BY HeadTailProperties
<1> HIDE DEF a, b
<1>2. /\ a \o b \in Seq(S) /\ Len(a \o b) = Len(a) + Len(b)
      /\ \A i \in 1 .. Len(a) + Len(b) :
           (a \o b)[i] = IF i <= Len(a) THEN a[i] ELSE b[i - Len(a)]
  BY <1>1, ConcatProperties
<1>3. /\ s \o t \in Seq(S) /\ Len(s \o t) = Len(s) + Len(t)
      /\ \A i \in 1 .. Len(s) + Len(t) :
           (s \o t)[i] = IF i <= Len(s) THEN s[i] ELSE t[i - Len(s)]
  BY <1>1, ConcatProperties
<1>4. Len(a) + Len(b) = Len(s) + Len(t)
  BY <1>1
<1>5. ASSUME NEW i \in 1 .. Len(s) + Len(t)
      PROVE  (a \o b)[i] = (s \o t)[i]
  <2>1. CASE i <= Len(s)
    <3>1. i \in 1 .. Len(s) /\ i <= Len(a)
      BY <1>1, <2>1
    <3> QED BY <1>1, <1>2, <1>3, <1>4, <2>1, <3>1
  <2>2. CASE i = Len(s) + 1
    <3>1. i <= Len(a) /\ ~(i <= Len(s)) /\ i - Len(s) = 1
      BY <1>1, <2>2
    <3> QED BY <1>1, <1>2, <1>3, <1>4, <2>2, <3>1
  <2>3. CASE i > Len(s) + 1
    <3>1. /\ ~(i <= Len(a)) /\ ~(i <= Len(s)) /\ i - Len(a) \in 1 .. Len(t) - 1
          /\ (i - Len(a)) + 1 = i - Len(s)
      BY <1>1, <2>3
    <3>2. (a \o b)[i] = b[i - Len(a)]
      BY <1>2, <1>4, <3>1
    <3>3. (s \o t)[i] = t[i - Len(s)]
      BY <1>3, <3>1
    <3> QED BY <1>1, <3>1, <3>2, <3>3
  <2>4. i <= Len(s) \/ i = Len(s) + 1 \/ i > Len(s) + 1
    BY <1>1
  <2> QED BY <2>1, <2>2, <2>3, <2>4
<1>6. a \o b = s \o t
  BY <1>2, <1>3, <1>4, <1>5, SeqEqual
<1> QED BY <1>6 DEF a, b

\* Three sequences of messages, one after the other.
LEMMA Regroup ==
  \A s, t, u \in Seq(Message) : (s \o t) \o u = s \o (t \o u)
BY ConcatAssociative

\* What is appended to the buffer comes after all that p has been sent.
LEMMA StreamGrows ==
  ASSUME Connections, NEW p \in Peer, NEW x \in Seq(Message),
         buffer'[p] = buffer[p] \o x, toPeer'[p] = toPeer[p], got'[p] = got[p]
  PROVE  Stream(p)' = Stream(p) \o x /\ Stream(p) \in Seq(Message)
<1> DEFINE b == buffer[p]
           s == got[p] \o toPeer[p]
<1>1. b \in Seq(Message) /\ s \in Seq(Message)
  BY TypesOf, ConcatProperties
<1>2. Stream(p) = s \o b /\ Stream(p)' = s \o (b \o x)
  BY DEF Stream
<1> HIDE DEF s, b
<1>3. (s \o b) \o x = s \o (b \o x)
  BY <1>1, Regroup
<1>4. s \o b \in Seq(Message)
  BY <1>1, ConcatProperties
<1> QED BY <1>2, <1>3, <1>4

\* Writing to the socket and reading from it move a message on.
LEMMA StreamMoves ==
  ASSUME Connections, NEW p \in Peer,
         \/ /\ buffer[p] # << >> /\ buffer'[p] = Tail(buffer[p])
            /\ toPeer'[p] = Append(toPeer[p], Head(buffer[p]))
            /\ got'[p] = got[p]
         \/ /\ toPeer[p] # << >> /\ toPeer'[p] = Tail(toPeer[p])
            /\ got'[p] = Append(got[p], Head(toPeer[p]))
            /\ buffer'[p] = buffer[p]
  PROVE  Stream(p)' = Stream(p)
<1> DEFINE b == buffer[p]
           t == toPeer[p]
           g == got[p]
<1>1. b \in Seq(Message) /\ t \in Seq(Message) /\ g \in Seq(Message)
  BY TypesOf
<1>2. Stream(p) = (g \o t) \o b
  BY DEF Stream
<1>3. CASE /\ b # << >> /\ buffer'[p] = Tail(b)
           /\ toPeer'[p] = Append(t, Head(b)) /\ got'[p] = g
  <2> DEFINE a == Append(t, Head(b))
             c == Tail(b)
  <2>1. Stream(p)' = (g \o a) \o c
    BY <1>3 DEF Stream
  <2> HIDE DEF b, t, g
  <2>2. a \in Seq(Message) /\ c \in Seq(Message)
    BY <1>1, <1>3, TailFacts, AppendFacts
  <2>3. a \o c = t \o b
    BY <1>1, <1>3, MoveFirst
  <2> HIDE DEF a, c
  <2>4. (g \o a) \o c = g \o (a \o c)
    BY <1>1, <2>2, Regroup
  <2>5. (g \o t) \o b = g \o (t \o b)
    BY <1>1, Regroup
  <2> QED BY <1>2, <2>1, <2>3, <2>4, <2>5
<1>4. CASE /\ t # << >> /\ toPeer'[p] = Tail(t) /\ buffer'[p] = b
           /\ got'[p] = Append(g, Head(t))
  <2>1. Stream(p)' = (Append(g, Head(t)) \o Tail(t)) \o b
    BY <1>4 DEF Stream
  <2> HIDE DEF b, t, g
  <2>2. Append(g, Head(t)) \o Tail(t) = g \o t
    BY <1>1, <1>4, MoveFirst
  <2> QED BY <1>2, <2>1, <2>2
<1> QED BY <1>3, <1>4

\* How many requests of p the server has read.
Read(p) == sent[p] - Len(toServer[p])

\* What a step may do to a peer that is connected after it: nothing that it
\* sees, accept it, tell it of events, or answer its next request and then
\* tell it of events.
Quiet(p) ==
  /\ Connected(p) /\ Stream(p)' = Stream(p) /\ Read(p)' = Read(p)
  /\ log' = log /\ subscriptions'[p] = subscriptions[p]

Accepted(p) ==
  Stream(p)' = << >> /\ Read(p)' = 0 /\ subscriptions'[p] = {} /\ log' = log

Informs(p, burst) ==
  /\ Connected(p) /\ Stream(p)' = Stream(p) \o News(p, burst)
  /\ Read(p)' = Read(p)
  /\ log' = log \o burst /\ subscriptions'[p] = subscriptions[p]

Answers(p, ok, burst) ==
  LET r == Head(toServer[p])
  IN /\ Connected(p) /\ toServer[p] # << >>
     /\ Stream(p)' = Stream(p) \o (<<Reply(r, ok)>> \o News(p, burst))
     /\ Read(p)' = Read(p) + 1
     /\ burst # << >> => r.type = "run_command"
     /\ r.type \in {"subscribe", "unsubscribe"} => (ok <=> r.arg \in Event)
     /\ log' = log \o burst
     /\ subscriptions'[p] = Wanted(subscriptions[p], r, ok)

\* A handled request answers one peer and informs the others.
LEMMA RequestStreams ==
  ASSUME Connections, NEW q \in Peer, NEW ok \in BOOLEAN, NEW burst \in Bursts,
         Handled(q, ok, burst), UNCHANGED peers
  PROVE  /\ \A p \in Peer : p # q =>
              /\ Stream(p)' = Stream(p) \o News(p, burst)
              /\ Read(p)' = Read(p) /\ subscriptions'[p] = subscriptions[p]
         /\ Stream(q)' = Stream(q) \o (<<Reply(Head(toServer[q]), ok)>>
                                       \o News(q, burst))
         /\ Read(q)' = Read(q) + 1
         /\ subscriptions'[q] = Wanted(subscriptions[q], Head(toServer[q]), ok)
<1> DEFINE r == Head(toServer[q])
           m == Reply(r, ok)
           out(p) == (IF p = q THEN <<m>> ELSE << >>) \o News(p, burst)
<1>1. buffer' = [p \in Peer |-> buffer[p] \o out(p)]
  BY Zenon DEF Handled
<1>2. /\ toServer[q] # << >> /\ toServer' = [toServer EXCEPT ![q] = Tail(@)]
      /\ subscriptions' = [subscriptions EXCEPT ![q] = Wanted(@, r, ok)]
      /\ UNCHANGED <<toPeer, sent, got>>
  BY DEF Handled, peers
<1>3. r \in Request /\ Len(Tail(toServer[q])) = Len(toServer[q]) - 1
      /\ Len(toServer[q]) \in Nat
  BY <1>2, TypesOf, TailFacts
<1>4. m \in Message
  BY <1>3, ReplyType
<1> HIDE DEF m, r
<1>5. <<m>> \in Seq(Message)
  BY <1>4
<1>6. \A p \in Peer : News(p, burst) \in Seq(Message)
  BY NewsFacts
<1>7. ASSUME NEW p \in Peer, p # q
      PROVE  /\ Stream(p)' = Stream(p) \o News(p, burst)
             /\ Read(p)' = Read(p) /\ subscriptions'[p] = subscriptions[p]
  <2>1. out(p) = News(p, burst)
    BY <1>6, <1>7, ConcatEmptySeq
  <2> HIDE DEF out
  <2>2. buffer'[p] = buffer[p] \o News(p, burst)
    BY <1>1, <2>1
  <2>3. Stream(p)' = Stream(p) \o News(p, burst)
    BY <1>2, <1>6, <2>2, StreamGrows
  <2>4. toServer'[p] = toServer[p] /\ subscriptions'[p] = subscriptions[p]
    BY <1>2, <1>7 DEF Connections, TypeOK, ServerTypeOK
  <2> QED BY <1>2, <2>3, <2>4 DEF Read
<1>8. Stream(q)' = Stream(q) \o (<<m>> \o News(q, burst))
  <2>1. out(q) = <<m>> \o News(q, burst) /\ out(q) \in Seq(Message)
    BY <1>5, <1>6, ConcatProperties
  <2> HIDE DEF out
  <2>2. buffer'[q] = buffer[q] \o out(q)
    BY <1>1
  <2> QED BY <1>2, <2>1, <2>2, StreamGrows
<1>9. Read(q)' = Read(q) + 1
  <2>1. toServer'[q] = Tail(toServer[q]) /\ sent'[q] = sent[q] /\ sent[q] \in Nat
    BY <1>2, TypesOf DEF Connections, TypeOK, ServerTypeOK
  <2> QED BY <1>3, <2>1 DEF Read
<1>10. subscriptions'[q] = Wanted(subscriptions[q], r, ok)
  BY <1>2 DEF Connections, TypeOK, ServerTypeOK
<1> QED BY <1>7, <1>8, <1>9, <1>10 DEF m, r

\* The events of the X server inform every client.
LEMMA DisplayStreams ==
  ASSUME Connections, NEW burst \in Bursts, Displayed(burst), UNCHANGED peers,
         NEW p \in Peer
  PROVE  /\ Stream(p)' = Stream(p) \o News(p, burst)
         /\ Read(p)' = Read(p) /\ subscriptions'[p] = subscriptions[p]
<1>1. /\ buffer'[p] = buffer[p] \o News(p, burst)
      /\ UNCHANGED <<toPeer, toServer, sent, got, subscriptions>>
  BY DEF Displayed, sockets, peers
<1>2. Stream(p)' = Stream(p) \o News(p, burst)
  BY <1>1, NewsFacts, StreamGrows
<1> QED BY <1>1, <1>2 DEF Read

\* A peer that a step does not touch sees nothing of it.
LEMMA QuietFrame ==
  ASSUME NEW p \in Peer, Connected(p)', Registered(p)' => Registered(p),
         open'[p] = open[p], buffer'[p] = buffer[p], toPeer'[p] = toPeer[p],
         got'[p] = got[p], toServer'[p] = toServer[p], sent'[p] = sent[p],
         subscriptions'[p] = subscriptions[p], log' = log
  PROVE  Quiet(p)
BY DEF Quiet, Connected, Stream, Read

\* run(), and with it the loops and the handlers of ipc.c.
LEMMA ServerStream ==
  ASSUME Connections, ServerNext \/ XEvent, UNCHANGED peers,
         NEW p \in Peer, Connected(p)'
  PROVE  \/ Quiet(p) \/ Accepted(p)
         \/ \E burst \in Bursts : Informs(p, burst)
         \/ \E ok \in BOOLEAN, burst \in Bursts : Answers(p, ok, burst)
<1> USE DEF peers
<1>1. CASE EpollWait \/ StartWrite \/ FinishWrite \/ XEvent
  <2>1. UNCHANGED <<clients, buffer, subscriptions, log, sockets>>
    BY <1>1 DEF EpollWait, StartWrite, FinishWrite, XEvent, loop, tables
  <2> QED BY <2>1, QuietFrame DEF Registered, sockets
<1>2. CASE AcceptClient
  <2>1. PICK e \in batch :
          /\ e.fd = "listener" /\ clients' = Append(clients, Head(backlog))
          /\ buffer' = [buffer EXCEPT ![Head(backlog)] = << >>]
          /\ subscriptions' = [subscriptions EXCEPT ![Head(backlog)] = {}]
    BY <1>2 DEF AcceptClient
  <2>2. UNCHANGED <<log, toServer, toPeer, open, closed, sent, got>>
    BY <1>2 DEF AcceptClient
  <2> DEFINE q == Head(backlog)
  <2>3. /\ backlog \in Seq(Peer) /\ backlog # << >> /\ clients \in Seq(Peer)
        /\ DOMAIN buffer = Peer /\ DOMAIN subscriptions = Peer
    BY <2>1 DEF Connections, BatchOK, TypeOK, ServerTypeOK
  <2>4. q \in Peer /\ Queued(q) /\ ToSet(clients') = ToSet(clients) \cup {q}
    BY <2>1, <2>3, TailFacts, AppendFacts DEF Queued
  <2>5. CASE p = q
    <3>1. buffer'[p] = << >> /\ subscriptions'[p] = {}
      BY <2>1, <2>3, <2>5
    <3>2. toPeer[p] = << >> /\ got[p] = << >> /\ Len(toServer[p]) = sent[p]
      BY <2>4, <2>5, TypesOf DEF TablesOK
    <3>3. Stream(p)' = << >> /\ Read(p)' = 0
      <4>1. << >> \o << >> \o << >> = << >>
        BY ConcatEmptySeq
      <4> QED BY <2>2, <3>1, <3>2, <4>1, TypesOf DEF Stream, Read
    <3> QED BY <2>2, <3>1, <3>3 DEF Accepted
  <2>6. CASE p # q
    <3>1. buffer'[p] = buffer[p] /\ subscriptions'[p] = subscriptions[p]
      BY <2>1, <2>3, <2>6
    <3>2. Registered(p)' => Registered(p)
      BY <2>4, <2>6 DEF Registered
    <3> QED BY <2>2, <3>1, <3>2, QuietFrame
  <2> QED BY <2>5, <2>6
<1>3. CASE HangUp
  <2>1. PICK e \in batch :
          /\ e.fd \in Peer /\ DropClient(e.fd)
          /\ UNCHANGED <<log, toPeer, open, sent, got>>
    BY <1>3 DEF HangUp
  <2> DEFINE q == e.fd
  <2>2. /\ clients \in Seq(Peer) /\ IsInjective(clients)
        /\ DOMAIN buffer = Peer /\ DOMAIN subscriptions = Peer
        /\ DOMAIN toServer = Peer /\ q \in ToSet(clients)
    BY <2>1 DEF Connections, BatchOK, TypeOK, ServerTypeOK, Registered
  <2>3. /\ clients' =
             RemoveAt(clients, CHOOSE i \in DOMAIN clients : clients[i] = q)
        /\ buffer' = [buffer EXCEPT ![q] = << >>]
        /\ subscriptions' = [subscriptions EXCEPT ![q] = {}]
        /\ toServer' = [toServer EXCEPT ![q] = << >>]
    BY <2>1 DEF DropClient
  <2> HIDE DEF q
  <2>4. ToSet(clients') = ToSet(clients) \ {q}
    BY <2>2, <2>3, RemoveFacts
  <2>5. p # q /\ Registered(p)
    BY <2>4 DEF Connected, Registered
  <2>6. /\ buffer'[p] = buffer[p] /\ subscriptions'[p] = subscriptions[p]
        /\ toServer'[p] = toServer[p]
    BY <2>2, <2>3, <2>5
  <2> QED BY <2>1, <2>5, <2>6, QuietFrame
<1>4. CASE WriteMessage
  <2>1. /\ writing \in Peer /\ buffer[writing] # << >>
        /\ toPeer' = [toPeer EXCEPT ![writing] =
                        Append(@, Head(buffer[writing]))]
        /\ buffer' = [buffer EXCEPT ![writing] = Tail(@)]
        /\ DOMAIN toPeer = Peer /\ DOMAIN buffer = Peer
        /\ UNCHANGED <<clients, subscriptions, log, toServer, open, sent, got>>
    BY <1>4 DEF WriteMessage, Connections, TypeOK, ServerTypeOK
  <2>2. CASE p = writing
    <3>1. /\ buffer[p] # << >> /\ buffer'[p] = Tail(buffer[p])
          /\ toPeer'[p] = Append(toPeer[p], Head(buffer[p]))
      BY <2>1, <2>2
    <3>2. Stream(p)' = Stream(p)
      BY <2>1, <3>1, StreamMoves
    <3> QED BY <2>1, <3>2 DEF Quiet, Connected, Registered, Read
  <2>3. CASE p # writing
    <3>1. buffer'[p] = buffer[p] /\ toPeer'[p] = toPeer[p]
      BY <2>1, <2>3
    <3> QED BY <2>1, <3>1, QuietFrame DEF Registered
  <2> QED BY <2>2, <2>3
<1>5. CASE WriteToClosed \/ Cleanup
  <2>1. clients' = << >>
    BY <1>5 DEF WriteToClosed, Cleanup, Exit
  <2> QED BY <2>1 DEF Connected, Registered, ToSet
<1>6. CASE HandleRequest
  <2>1. PICK q \in Peer, ok \in BOOLEAN, burst \in Bursts :
          Handled(q, ok, burst)
    BY <1>6, RequestHandled
  <2>2. /\ Connected(p) /\ log' = log \o burst /\ toServer[q] # << >>
        /\ LET r == Head(toServer[q])
           IN /\ burst # << >> => r.type = "run_command"
              /\ r.type \in {"subscribe", "unsubscribe"} =>
                   (ok <=> r.arg \in Event)
    BY <2>1 DEF Handled, Connected, Registered
  <2>3. CASE p = q
    <3>1. Answers(p, ok, burst)
      BY <2>1, <2>2, <2>3, RequestStreams DEF Answers
    <3> QED BY <3>1
  <2>4. CASE p # q
    <3>1. Informs(p, burst)
      BY <2>1, <2>2, <2>4, RequestStreams DEF Informs
    <3> QED BY <3>1
  <2> QED BY <2>3, <2>4
<1>7. CASE HandleDisplay
  <2>1. PICK burst \in Bursts : Displayed(burst)
    BY <1>7, DisplayHandled
  <2>2. Connected(p) /\ log' = log \o burst
    BY <2>1 DEF Displayed, Connected, Registered, sockets
  <2>3. Informs(p, burst)
    BY <2>1, <2>2, DisplayStreams DEF Informs
  <2> QED BY <2>3
<1> QED BY <1>1, <1>2, <1>3, <1>4, <1>5, <1>6, <1>7 DEF ServerNext

\* Every step.
LEMMA StreamStep ==
  ASSUME Connections, [Next]_vars, NEW p \in Peer, Connected(p)'
  PROVE  \/ Quiet(p) \/ Accepted(p)
         \/ \E burst \in Bursts : Informs(p, burst)
         \/ \E ok \in BOOLEAN, burst \in Bursts : Answers(p, ok, burst)
<1>1. CASE (ServerNext \/ XEvent) /\ UNCHANGED peers
  BY <1>1, ServerStream
<1>2. ASSUME NEW q \in Peer, Connect(q)
      PROVE  Quiet(p)
  <2>1. UNCHANGED <<clients, buffer, subscriptions, log, toPeer, toServer, sent,
                    got>>
    BY <1>2 DEF Connect, tables
  <2>2. p # q
    BY <1>2, <2>1, TypesOf DEF Connect, PeerOK, Connected, Registered
  <2>3. open'[p] = open[p]
    BY <1>2, <2>2 DEF Connect, Connections, TypeOK, ServerTypeOK
  <2> QED BY <2>1, <2>3, QuietFrame DEF Registered
<1>3. ASSUME NEW q \in Peer, SendMessage(q)
      PROVE  Quiet(p)
  <2>1. /\ UNCHANGED <<clients, buffer, subscriptions, log, toPeer, open, got>>
        /\ toServer' = [toServer EXCEPT ![q] =
                          Append(@, script[q][sent[q] + 1])]
        /\ sent' = [sent EXCEPT ![q] = @ + 1]
        /\ DOMAIN toServer = Peer /\ DOMAIN sent = Peer
    BY <1>3 DEF SendMessage, tables, Connections, TypeOK, ServerTypeOK
  <2>2. Read(p)' = Read(p)
    <3>1. CASE p = q
      <4> DEFINE x == script[p][sent[p] + 1]
      <4>1. /\ toServer'[p] = Append(toServer[p], x) /\ sent'[p] = sent[p] + 1
            /\ toServer[p] \in Seq(Request) /\ sent[p] \in Nat
        BY <2>1, <3>1, TypesOf
      <4> HIDE DEF x
      <4>2. Len(Append(toServer[p], x)) = Len(toServer[p]) + 1
            /\ Len(toServer[p]) \in Nat
        BY <4>1
      <4>3. Len(toServer'[p]) = Len(toServer[p]) + 1
        BY <4>1, <4>2
      <4> DEFINE m == sent[p]
                 n == Len(toServer[p])
      <4>4. /\ m \in Int /\ n \in Int
            /\ sent'[p] = m + 1 /\ Len(toServer'[p]) = n + 1
        BY <4>1, <4>2, <4>3
      <4>5. Read(p) = m - n /\ Read(p)' = sent'[p] - Len(toServer'[p])
        BY DEF Read
      <4> HIDE DEF m, n
      <4>6. (m + 1) - (n + 1) = m - n
        BY <4>4
      <4> QED BY <4>4, <4>5, <4>6
    <3>2. CASE p # q
      BY <2>1, <3>2 DEF Read
    <3> QED BY <3>1, <3>2
  <2>3. Stream(p)' = Stream(p) /\ Connected(p)
    BY <2>1 DEF Stream, Connected, Registered
  <2> QED BY <2>1, <2>2, <2>3 DEF Quiet
<1>4. ASSUME NEW q \in Peer, PeerExit(q),
             UNCHANGED <<tables, toServer, sent>>
      PROVE  Quiet(p)
  <2>1. /\ open' = [open EXCEPT ![q] = FALSE]
        /\ toPeer' = [toPeer EXCEPT ![q] = << >>]
        /\ got' = [got EXCEPT ![q] = << >>]
        /\ DOMAIN open = Peer /\ DOMAIN toPeer = Peer /\ DOMAIN got = Peer
    BY <1>4 DEF PeerExit, Connections, TypeOK, ServerTypeOK
  <2>2. p # q
    BY <2>1 DEF Connected
  <2>3. open'[p] = open[p] /\ toPeer'[p] = toPeer[p] /\ got'[p] = got[p]
    BY <2>1, <2>2
  <2> QED BY <1>4, <2>3, QuietFrame DEF tables, Registered
<1>5. ASSUME NEW q \in Peer, ReadSocket(q)
      PROVE  Quiet(p)
  <2>1. UNCHANGED <<tables, toServer, sent>>
    BY <1>5 DEF ReadSocket
  <2>2. CASE Answered(q)
    BY <1>4, <1>5, <2>1, <2>2 DEF ReadSocket
  <2>3. CASE ~Answered(q)
    <3>1. /\ toPeer[q] # << >> /\ got' = [got EXCEPT ![q] =
                                            Append(@, Head(toPeer[q]))]
          /\ toPeer' = [toPeer EXCEPT ![q] = Tail(@)]
          /\ UNCHANGED open
          /\ DOMAIN toPeer = Peer /\ DOMAIN got = Peer
      BY <1>5, <2>3 DEF ReadSocket, Connections, TypeOK, ServerTypeOK
    <3>2. CASE p = q
      <4>1. /\ toPeer[p] # << >> /\ toPeer'[p] = Tail(toPeer[p])
            /\ got'[p] = Append(got[p], Head(toPeer[p]))
            /\ buffer'[p] = buffer[p]
        BY <2>1, <3>1, <3>2 DEF tables
      <4>2. Stream(p)' = Stream(p)
        BY <4>1, StreamMoves
      <4> QED BY <2>1, <3>1, <4>2 DEF Quiet, Connected, Registered, Read, tables
    <3>3. CASE p # q
      <4>1. toPeer'[p] = toPeer[p] /\ got'[p] = got[p]
        BY <3>1, <3>3
      <4> QED BY <2>1, <3>1, <4>1, QuietFrame DEF tables, Registered
    <3> QED BY <3>2, <3>3
  <2> QED BY <2>2, <2>3
<1>6. ASSUME NEW q \in Peer, ConnectionLost(q) \/ Kill(q)
      PROVE  Quiet(p)
  BY <1>4, <1>6 DEF ConnectionLost, Kill
<1>7. CASE UNCHANGED vars
  BY <1>7, QuietFrame DEF vars, tables, sockets, peers, Registered
<1> QED
  BY <1>1, <1>2, <1>3, <1>5, <1>6, <1>7 DEF Next, PeerNext

-----------------------------------------------------------------------------
(* Replies                                                                 *)

\* The replies in s are to the first k requests of sc, in their order.
RepliesMatch(s, sc, k) ==
  /\ Cardinality(Replies(s)) = k
  /\ \A i \in Replies(s) :
       s[i].to = sc[Cardinality({j \in Replies(s) : j <= i})]

\* A peer that has been sent nothing has no replies.
LEMMA NoReplies == \A sc : RepliesMatch(<< >>, sc, 0)
<1>1. Replies(<< >>) = {}
  BY DEF Replies
<1> QED BY <1>1, FS_EmptySet DEF RepliesMatch

\* One reply more, to the next request.
LEMMA NextReply ==
  ASSUME NEW s \in Seq(Message), NEW sc, NEW k \in Nat, RepliesMatch(s, sc, k),
         NEW m \in Message, m.kind = "reply", m.to = sc[k + 1]
  PROVE  RepliesMatch(s \o <<m>>, sc, k + 1)
<1> DEFINE t == s \o <<m>>
           L == Len(s) + 1
<1>1. /\ Len(s) \in Nat /\ DOMAIN s = 1 .. Len(s) /\ DOMAIN t = 1 .. L
      /\ \A i \in DOMAIN s : t[i] = s[i]
      /\ t[L] = m
  <2>1. <<m>> \in Seq(Message) /\ Len(<<m>>) = 1 /\ <<m>>[1] = m
        /\ DOMAIN <<m>> = {1}
    OBVIOUS
  <2> QED BY <2>1, ConcatFacts
<1> HIDE DEF t
<1>2. Replies(t) = Replies(s) \cup {L} /\ L \notin Replies(s)
  BY <1>1 DEF Replies
<1>3. IsFiniteSet(Replies(s))
  <2>1. Replies(s) \subseteq 1 .. Len(s) /\ IsFiniteSet(1 .. Len(s))
    BY <1>1, FS_Interval DEF Replies
  <2> QED BY <2>1, FS_Subset
<1>4. Cardinality(Replies(t)) = k + 1
  BY <1>2, <1>3, FS_AddElement DEF RepliesMatch
<1>5. ASSUME NEW i \in Replies(t)
      PROVE  t[i].to = sc[Cardinality({j \in Replies(t) : j <= i})]
  <2>1. CASE i = L
    <3>1. \A j \in Replies(t) : j <= L
      BY <1>1 DEF Replies
    <3>2. {j \in Replies(t) : j <= i} = Replies(t)
      BY <2>1, <3>1
    <3> QED BY <1>1, <1>4, <2>1, <3>2
  <2>2. CASE i # L
    <3>1. i \in Replies(s) /\ i \in DOMAIN s
      BY <1>2, <2>2 DEF Replies
    <3>2. ~(L <= i)
      BY <1>1, <3>1
    <3>3. {j \in Replies(t) : j <= i} = {j \in Replies(s) : j <= i}
      BY <1>2, <3>2
    <3> QED BY <1>1, <3>1, <3>3 DEF RepliesMatch
  <2> QED BY <2>1, <2>2
<1> QED BY <1>4, <1>5 DEF RepliesMatch, t

\* Events are no replies.
LEMMA EventsAfter ==
  ASSUME NEW s \in Seq(Message), NEW h \in Seq(Message),
         \A i \in DOMAIN h : h[i].kind = "event"
  PROVE  /\ Replies(s \o h) = Replies(s)
         /\ \A sc, k : RepliesMatch(s, sc, k) => RepliesMatch(s \o h, sc, k)
<1> DEFINE t == s \o h
<1>1. /\ DOMAIN t = 1 .. Len(s) + Len(h) /\ DOMAIN s = 1 .. Len(s)
      /\ Len(s) \in Nat /\ Len(h) \in Nat
      /\ \A i \in DOMAIN s : i \in DOMAIN t /\ t[i] = s[i]
      /\ \A i \in DOMAIN h : t[Len(s) + i] = h[i]
      /\ \A i \in DOMAIN t : i \in DOMAIN s \/ \E j \in DOMAIN h : i = Len(s) + j
  BY ConcatFacts
<1> HIDE DEF t
<1>2. Replies(t) = Replies(s)
  BY <1>1 DEF Replies
<1>3. \A i \in Replies(s) : t[i] = s[i]
  BY <1>1 DEF Replies
<1> QED BY <1>2, <1>3 DEF RepliesMatch, t

\* What the server has told p of a burst are events.
LEMMA NewsAreEvents ==
  ASSUME Connections, NEW p \in Peer, NEW burst \in Bursts
  PROVE  \A i \in DOMAIN News(p, burst) : News(p, burst)[i].kind = "event"
BY NewsFacts DEF HeardUpTo, EventOf

\* The scripts of the peers are what they were when the peers started.
LEMMA ScriptKept == [Next]_vars => script' = script
BY DEF Next, vars, peers, Connect, PeerNext, SendMessage, ReadSocket,
       ConnectionLost, Kill

\* The first request that p has sent and the server has not read.
LEMMA NextRequest ==
  ASSUME Connections, NEW p \in Peer, Connected(p)
  PROVE  /\ Read(p) \in Nat
         /\ toServer[p] # << >> =>
              /\ Read(p) + 1 \in DOMAIN script[p]
              /\ Head(toServer[p]) = script[p][Read(p) + 1]
              /\ Head(toServer[p]) \in Request
<1> DEFINE n == Len(toServer[p])
<1>1. /\ n \in Nat /\ sent[p] \in Nat /\ n <= sent[p]
      /\ toServer[p] \in Seq(Request) /\ Read(p) = sent[p] - n
      /\ sent[p] <= Len(script[p]) /\ script[p] \in Seq(Request)
      /\ \A i \in DOMAIN toServer[p] :
           toServer[p][i] = script[p][sent[p] - n + i]
  BY TypesOf DEF RequestsOK, Connected, Read
<1>2. Read(p) \in Nat
  BY <1>1
<1>3. ASSUME toServer[p] # << >>
      PROVE  /\ 1 \in DOMAIN toServer[p] /\ Head(toServer[p]) = toServer[p][1]
             /\ Head(toServer[p]) \in Request /\ n >= 1
  BY <1>1, <1>3
<1>4. ASSUME toServer[p] # << >>
      PROVE  Read(p) + 1 \in DOMAIN script[p]
  <2>1. DOMAIN script[p] = 1 .. Len(script[p]) /\ Len(script[p]) \in Nat
    BY <1>1
  <2>2. Read(p) + 1 \in 1 .. Len(script[p])
    BY <1>1, <1>3, <1>4, <2>1
  <2> QED BY <2>1, <2>2
<1> HIDE DEF n
<1> QED BY <1>1, <1>2, <1>3, <1>4

\* A handled request is answered after the replies to those before it.
LEMMA AnswersMatch ==
  ASSUME Connections, NEW p \in Peer, NEW ok \in BOOLEAN, NEW burst \in Bursts,
         Answers(p, ok, burst), RepliesMatch(Stream(p), script[p], Read(p))
  PROVE  RepliesMatch(Stream(p)', script[p], Read(p)')
<1> DEFINE m == Reply(Head(toServer[p]), ok)
           h == News(p, burst)
           s == Stream(p)
           sc == script[p]
           k == Read(p)
<1>1. /\ Connected(p) /\ toServer[p] # << >> /\ Read(p)' = k + 1
      /\ Stream(p)' = s \o (<<m>> \o h)
  BY DEF Answers
<1>2. k \in Nat /\ Head(toServer[p]) \in Request
      /\ Head(toServer[p]) = sc[k + 1]
  BY <1>1, NextRequest
<1>3. m \in Message /\ m.kind = "reply" /\ m.to = sc[k + 1]
  BY <1>2, ReplyType DEF Reply
<1>4. h \in Seq(Message) /\ \A i \in DOMAIN h : h[i].kind = "event"
  BY NewsFacts, NewsAreEvents
<1>5. s \in Seq(Message) /\ RepliesMatch(s, sc, k)
  BY TypesOf, ConcatProperties DEF Stream
<1> HIDE DEF m, h, s, sc, k
<1>6. <<m>> \in Seq(Message) /\ s \o <<m>> \in Seq(Message)
  BY <1>3, <1>5, ConcatProperties
<1>7. s \o (<<m>> \o h) = (s \o <<m>>) \o h
  BY <1>4, <1>5, <1>6, Regroup
<1>8. RepliesMatch(s \o <<m>>, sc, k + 1)
  BY <1>2, <1>3, <1>5, NextReply
<1>9. RepliesMatch((s \o <<m>>) \o h, sc, k + 1)
  BY <1>4, <1>6, <1>8, EventsAfter
<1> QED BY <1>1, <1>7, <1>9 DEF sc

\* No step drops, repeats or moves a reply.
LEMMA RepliesNext ==
  Connections /\ RepliesMatchRequests /\ [Next]_vars => RepliesMatchRequests'
<1> SUFFICES ASSUME Connections, RepliesMatchRequests, [Next]_vars,
                    NEW p \in Peer, Connected(p)'
             PROVE  RepliesMatch(Stream(p), script[p], Read(p))'
  BY DEF RepliesMatchRequests, RepliesMatch, Read
<1>1. script' = script
  BY ScriptKept
<1>2. Connected(p) => RepliesMatch(Stream(p), script[p], Read(p))
  BY DEF RepliesMatchRequests, RepliesMatch, Read
<1>3. Stream(p) \in Seq(Message)
  BY TypesOf, ConcatProperties DEF Stream
<1>4. CASE Quiet(p)
  <2>1. RepliesMatch(Stream(p)', script[p], Read(p)')
    BY <1>2, <1>4 DEF Quiet
  <2> QED BY <1>1, <2>1 DEF RepliesMatch
<1>5. CASE Accepted(p)
  <2>1. RepliesMatch(Stream(p)', script[p], Read(p)')
    BY <1>5, NoReplies DEF Accepted
  <2> QED BY <1>1, <2>1 DEF RepliesMatch
<1>6. ASSUME NEW burst \in Bursts, Informs(p, burst)
      PROVE  RepliesMatch(Stream(p), script[p], Read(p))'
  <2>1. RepliesMatch(Stream(p) \o News(p, burst), script[p], Read(p))
    BY <1>2, <1>3, <1>6, NewsFacts, NewsAreEvents, EventsAfter DEF Informs
  <2>2. RepliesMatch(Stream(p)', script[p], Read(p)')
    BY <1>6, <2>1 DEF Informs
  <2> QED BY <1>1, <2>2 DEF RepliesMatch
<1>7. ASSUME NEW ok \in BOOLEAN, NEW burst \in Bursts, Answers(p, ok, burst)
      PROVE  RepliesMatch(Stream(p), script[p], Read(p))'
  <2>1. RepliesMatch(Stream(p)', script[p], Read(p)')
    BY <1>2, <1>7, AnswersMatch DEF Answers
  <2> QED BY <1>1, <2>1 DEF RepliesMatch
<1> QED BY <1>4, <1>5, <1>6, <1>7, StreamStep

\* Whatever the peers ask for, however the sockets fill up and in whichever
\* order epoll_wait() reports them: what a peer has been sent holds one reply
\* for each request that ipc.c has read from it, in the order of the requests.
THEOREM RepliesInOrder == Spec => []RepliesMatchRequests
<1>1. Init => RepliesMatchRequests
  BY DEF Init, ServerInit, RepliesMatchRequests, Connected, Registered, ToSet
<1> QED BY <1>1, InitConnections, NextConnections, RepliesNext, PTL DEF Spec

-----------------------------------------------------------------------------
(* Subscriptions                                                           *)

\* What s, sent while the events of lg were published, says of them: each that
\* was due is in it once, in order, and none of s is from the future. The
\* subscriptions in subs are those an event published next would be due for.
InformedOf(s, lg, subs) ==
  /\ \A i, j \in Events(s) : i < j => s[i].n < s[j].n
  /\ \A i \in Events(s) : s[i].event = lg[s[i].n] /\ s[i].n <= Len(lg)
  /\ {s[i].n : i \in Events(s)} =
       {n \in DOMAIN lg : Subscribed(s, lg[n], n)}
  /\ \A i \in Replies(s) : s[i].at <= Len(lg)
  /\ \A e \in Event : e \in subs <=> Subscribed(s, e, Len(lg) + 1)

\* Who has been sent nothing was due nothing.
LEMMA NothingDue ==
  ASSUME NEW lg
  PROVE  InformedOf(<< >>, lg, {})
<1>1. Events(<< >>) = {} /\ Replies(<< >>) = {}
  BY DEF Events, Replies
<1>2. \A e, n : ~Subscribed(<< >>, e, n)
  BY <1>1 DEF Subscribed, About
<1> QED BY <1>1, <1>2 DEF InformedOf

\* A reply more changes what is due to those after it only.
LEMMA ReplyInforms ==
  ASSUME NEW s \in Seq(Message), log \in Seq(Event), Len(log) <= MaxLog,
         NEW subs, InformedOf(s, log, subs),
         NEW r \in Request, NEW ok \in BOOLEAN, Reply(r, ok) \in Message,
         r.type \in {"subscribe", "unsubscribe"} => (ok <=> r.arg \in Event),
         r.type = "unsubscribe" /\ ok => r.arg \in subs
  PROVE  InformedOf(s \o <<Reply(r, ok)>>, log, Wanted(subs, r, ok))
<1> DEFINE m == Reply(r, ok)
           t == s \o <<m>>
           L == Len(s) + 1
           N == Len(log)
<1>1. /\ Len(s) \in Nat /\ DOMAIN s = 1 .. Len(s) /\ DOMAIN t = 1 .. L
      /\ \A i \in DOMAIN s : t[i] = s[i]
      /\ t[L] = m
  <2>1. <<m>> \in Seq(Message) /\ Len(<<m>>) = 1 /\ <<m>>[1] = m
        /\ DOMAIN <<m>> = {1}
    OBVIOUS
  <2> QED BY <2>1, ConcatFacts
<1>2. m.kind = "reply" /\ m.to = r /\ m.ok = ok /\ m.at = N /\ N \in Nat
  BY DEF Reply
<1> HIDE DEF t, m, N
<1>3. Replies(t) = Replies(s) \cup {L} /\ Events(t) = Events(s)
  BY <1>1, <1>2 DEF Replies, Events
<1>4. /\ \A i \in Replies(s) : t[i] = s[i] /\ i < L /\ i \in Nat
      /\ \A i \in Events(s) : t[i] = s[i]
      /\ L \notin Replies(s)
  BY <1>1 DEF Replies, Events
<1>5. ASSUME NEW e, NEW n \in 1 .. N
      PROVE  Subscribed(t, e, n) <=> Subscribed(s, e, n)
  <2>1. ~(m.at < n)
    BY <1>2
  <2>2. About(t, e, n) = About(s, e, n)
    BY <1>1, <1>3, <1>4, <2>1 DEF About
  <2>3. \A i \in About(s, e, n) : t[i] = s[i]
    BY <1>4 DEF About
  <2> QED BY <2>2, <2>3 DEF Subscribed
<1>6. ASSUME NEW e \in Event
      PROVE  e \in Wanted(subs, r, ok) <=> Subscribed(t, e, N + 1)
  <2> DEFINE A == About(s, e, N + 1)
             B == About(t, e, N + 1)
             Mine == r.type \in {"subscribe", "unsubscribe"} /\ r.arg = e /\ ok
  <2>1. \A i \in A : t[i] = s[i] /\ i < L /\ i \in Nat
    BY <1>4 DEF About
  <2>2. e \in subs <=> Subscribed(s, e, N + 1)
    BY DEF InformedOf, N
  <2>3. N < N + 1
    BY <1>2
  <2>4. CASE Mine
    <3>1. B = A \cup {L}
      BY <1>1, <1>2, <1>3, <1>4, <2>3, <2>4 DEF About
    <3>2. L \in B /\ \A j \in B : j <= L
      BY <1>1, <2>1, <3>1
    <3>3. \A i \in B : (\A j \in B : j <= i) => i = L
      <4>1. \A i \in A : ~(L <= i)
        BY <1>1, <2>1
      <4> QED BY <3>1, <3>2, <4>1
    <3>4. Subscribed(t, e, N + 1) <=> r.type = "subscribe"
      BY <1>1, <1>2, <3>2, <3>3 DEF Subscribed
    <3>5. e \in Wanted(subs, r, ok) <=> r.type = "subscribe"
      BY <2>4 DEF Wanted
    <3> QED BY <3>4, <3>5
  <2>5. CASE ~Mine
    <3>1. B = A
      BY <1>1, <1>2, <1>3, <1>4, <2>5 DEF About
    <3>2. Subscribed(t, e, N + 1) <=> Subscribed(s, e, N + 1)
      BY <2>1, <3>1 DEF Subscribed
    <3>3. e \in Wanted(subs, r, ok) <=> e \in subs
      BY <2>5 DEF Wanted
    <3> QED BY <2>2, <3>2, <3>3
  <2> QED BY <2>4, <2>5
<1>7. \A i, j \in Events(t) : i < j => t[i].n < t[j].n
  BY <1>3, <1>4 DEF InformedOf
<1>8. \A i \in Events(t) : t[i].event = log[t[i].n] /\ t[i].n <= N
  BY <1>3, <1>4 DEF InformedOf, N
<1>9. {t[i].n : i \in Events(t)} = {n \in DOMAIN log : Subscribed(t, log[n], n)}
  <2>1. {t[i].n : i \in Events(t)} = {s[i].n : i \in Events(s)}
    BY <1>3, <1>4
  <2>2. DOMAIN log = 1 .. N
    BY DEF N
  <2>3. \A n \in DOMAIN log : Subscribed(t, log[n], n) <=> Subscribed(s, log[n], n)
    BY <1>5, <2>2
  <2> QED BY <2>1, <2>3 DEF InformedOf
<1>10. \A i \in Replies(t) : t[i].at <= N
  BY <1>1, <1>2, <1>3, <1>4 DEF InformedOf, N
<1> QED BY <1>6, <1>7, <1>8, <1>9, <1>10 DEF InformedOf, t, m, N

\* The events of a burst reach those who subscribe when it is published.
LEMMA NewsInform ==
  ASSUME NEW s \in Seq(Message), log \in Seq(Event), Len(log) <= MaxLog,
         NEW subs \in SUBSET Event, InformedOf(s, log, subs),
         NEW burst \in Bursts, NEW h, HeardUpTo(h, burst, subs, Len(burst))
  PROVE  InformedOf(s \o h, log \o burst, subs)
<1> DEFINE t == s \o h
           lg == log \o burst
           N == Len(log)
           K == Len(burst)
           L == Len(s)
<1>1. /\ DOMAIN t = 1 .. L + Len(h) /\ DOMAIN s = 1 .. L
      /\ L \in Nat /\ Len(h) \in Nat /\ DOMAIN h = 1 .. Len(h)
      /\ \A i \in DOMAIN s : i \in DOMAIN t /\ t[i] = s[i]
      /\ \A i \in DOMAIN h : L + i \in DOMAIN t /\ t[L + i] = h[i]
      /\ \A i \in DOMAIN t : i \in DOMAIN s \/ \E j \in DOMAIN h : i = L + j
  <2>1. h \in Seq(Message)
    BY DEF HeardUpTo
  <2> QED BY <2>1, ConcatFacts
<1>2. burst \in Seq(Event) /\ K \in Nat /\ N \in Nat
  BY BurstFacts
<1>3. /\ DOMAIN lg = 1 .. N + K /\ DOMAIN log = 1 .. N /\ DOMAIN burst = 1 .. K
      /\ Len(lg) = N + K
      /\ \A n \in 1 .. N : n \in 1 .. N + K /\ lg[n] = log[n]
      /\ \A k \in 1 .. K : N + k \in 1 .. N + K /\ lg[N + k] = burst[k]
      /\ \A n \in 1 .. N + K : n \in 1 .. N \/ \E k \in 1 .. K : n = N + k
  <2>1. /\ DOMAIN lg = 1 .. N + K /\ DOMAIN log = 1 .. N
        /\ DOMAIN burst = 1 .. K /\ Len(lg) = N + K
        /\ \A n \in DOMAIN log : n \in DOMAIN lg /\ lg[n] = log[n]
        /\ \A k \in DOMAIN burst : N + k \in DOMAIN lg /\ lg[N + k] = burst[k]
        /\ \A n \in DOMAIN lg :
             n \in DOMAIN log \/ \E k \in DOMAIN burst : n = N + k
    BY <1>2, ConcatFacts
  <2> HIDE DEF lg, N, K
  <2> QED BY <2>1
<1>4. /\ \A i \in DOMAIN h :
           \E k \in 1 .. K : burst[k] \in subs /\ h[i] = EventOf(burst, k)
      /\ \A i, j \in DOMAIN h : i < j => h[i].n < h[j].n
      /\ \A k \in 1 .. K :
           burst[k] \in subs => \E i \in DOMAIN h : h[i] = EventOf(burst, k)
  BY DEF HeardUpTo
<1>5. \A k : /\ EventOf(burst, k).kind = "event"
             /\ EventOf(burst, k).event = burst[k]
             /\ EventOf(burst, k).n = N + k
  BY DEF EventOf
<1>6. /\ \A i, j \in Events(s) : i < j => s[i].n < s[j].n
      /\ \A i \in Events(s) : s[i].event = log[s[i].n] /\ s[i].n <= N
      /\ {s[i].n : i \in Events(s)} =
           {n \in DOMAIN log : Subscribed(s, log[n], n)}
      /\ \A i \in Replies(s) : s[i].at <= N
      /\ \A e \in Event : e \in subs <=> Subscribed(s, e, N + 1)
  BY DEF InformedOf
<1> HIDE DEF t, lg, N, K, L
<1>6a. ASSUME NEW i \in DOMAIN h
       PROVE  /\ t[L + i].kind = "event" /\ L + i \in DOMAIN t
              /\ \E k \in 1 .. K : /\ t[L + i].n = N + k
                                   /\ t[L + i].event = burst[k]
                                   /\ burst[k] \in subs
  <2>1. PICK k \in 1 .. K : burst[k] \in subs /\ h[i] = EventOf(burst, k)
    BY <1>4
  <2>2. t[L + i] = EventOf(burst, k) /\ L + i \in DOMAIN t
    BY <1>1, <2>1
  <2>3. t[L + i].n = N + k /\ t[L + i].event = burst[k]
        /\ t[L + i].kind = "event"
    BY <1>5, <2>2
  <2> QED BY <2>1, <2>2, <2>3
<1>7. Replies(t) = Replies(s)
  BY <1>1, <1>6a DEF Replies
<1>8. Events(t) = Events(s) \cup {L + i : i \in DOMAIN h}
  BY <1>1, <1>6a DEF Events
<1>9. /\ \A i \in Replies(s) : t[i] = s[i]
      /\ \A i \in Events(s) : t[i] = s[i] /\ i \in 1 .. L
      /\ \A i \in Replies(s) \cup Events(s) : s[i] \in Message
  BY <1>1 DEF Replies, Events
<1>10. \A i \in Replies(s) : s[i].at \in Nat
  BY <1>9, IpcAssumption DEF Message, Replies
<1>11. \A i \in Events(s) : s[i].n \in 1 .. N
  BY <1>6, <1>9, IpcAssumption DEF Message, Events
<1>12. ASSUME NEW e, NEW n
       PROVE  Subscribed(t, e, n) <=> Subscribed(s, e, n)
  <2>1. About(t, e, n) = About(s, e, n)
    BY <1>7, <1>9 DEF About
  <2>2. \A i \in About(s, e, n) : t[i] = s[i]
    BY <1>9 DEF About
  <2> QED BY <2>1, <2>2 DEF Subscribed
<1>13. ASSUME NEW e, NEW k \in Nat \ {0}
       PROVE  Subscribed(s, e, N + k) <=> Subscribed(s, e, N + 1)
  <2>1. \A i \in Replies(s) : s[i].at < N + k /\ s[i].at < N + 1
    BY <1>2, <1>6, <1>10
  <2>2. About(s, e, N + k) = About(s, e, N + 1)
    BY <2>1 DEF About
  <2> QED BY <2>2 DEF Subscribed
<1>14. ASSUME NEW i \in Events(t), NEW j \in Events(t), i < j
       PROVE  t[i].n < t[j].n
  <2>1. CASE i \in Events(s) /\ j \in Events(s)
    BY <1>6, <1>9, <1>14, <2>1
  <2>2. CASE i \in Events(s) /\ j \notin Events(s)
    <3>1. PICK b \in DOMAIN h : j = L + b
      BY <1>8, <2>2
    <3>2. PICK k \in 1 .. K : t[j].n = N + k
      BY <1>6a, <3>1
    <3>3. t[i].n \in 1 .. N
      BY <1>9, <1>11, <2>2
    <3> QED BY <1>2, <3>2, <3>3
  <2>3. CASE i \notin Events(s)
    <3>1. PICK a \in DOMAIN h : i = L + a
      BY <1>8, <2>3
    <3>2. PICK b \in DOMAIN h : j = L + b
      <4>1. ~(j \in 1 .. L)
        BY <1>1, <1>14, <3>1
      <4> QED BY <1>8, <1>9, <4>1
    <3>3. a < b
      BY <1>1, <1>14, <3>1, <3>2
    <3> QED BY <1>1, <1>4, <3>1, <3>2, <3>3
  <2> QED BY <2>1, <2>2, <2>3
<1>15. ASSUME NEW i \in Events(t)
       PROVE  t[i].event = lg[t[i].n] /\ t[i].n <= N + K
  <2>1. CASE i \in Events(s)
    <3>1. t[i].n \in 1 .. N /\ t[i].event = log[t[i].n]
      BY <1>6, <1>9, <1>11, <2>1
    <3> QED BY <1>2, <1>3, <3>1
  <2>2. CASE i \notin Events(s)
    <3>1. PICK b \in DOMAIN h : i = L + b
      BY <1>8, <2>2
    <3>2. PICK k \in 1 .. K : t[i].n = N + k /\ t[i].event = burst[k]
      BY <1>6a, <3>1
    <3> QED BY <1>2, <1>3, <3>2
  <2> QED BY <2>1, <2>2
<1>16. {t[i].n : i \in Events(t)} = {n \in DOMAIN lg : Subscribed(t, lg[n], n)}
  <2>1. ASSUME NEW n \in 1 .. N
        PROVE  n \in {t[i].n : i \in Events(t)} <=> Subscribed(t, lg[n], n)
    <3>1. n \in {s[i].n : i \in Events(s)} <=> Subscribed(t, lg[n], n)
      BY <1>3, <1>6, <1>12
    <3>2. \A i \in DOMAIN h : t[L + i].n # n
      BY <1>2, <1>6a
    <3> QED BY <1>8, <1>9, <3>1, <3>2
  <2>2. ASSUME NEW k \in 1 .. K
        PROVE  N + k \in {t[i].n : i \in Events(t)} <=>
                 Subscribed(t, lg[N + k], N + k)
    <3>1. burst[k] \in Event /\ k \in Nat \ {0}
      BY <1>2, <1>3
    <3>2. Subscribed(t, lg[N + k], N + k) <=> burst[k] \in subs
      BY <1>3, <1>6, <1>12, <1>13, <3>1
    <3>3. \A i \in Events(s) : t[i].n # N + k
      BY <1>2, <1>9, <1>11
    <3>4. N + k \in {t[i].n : i \in Events(t)} <=>
            \E i \in DOMAIN h : t[L + i].n = N + k
      BY <1>8, <3>3
    <3>5. \A i \in DOMAIN h : t[L + i].n = N + k => burst[k] \in subs
      <4> SUFFICES ASSUME NEW i \in DOMAIN h, t[L + i].n = N + k
                   PROVE  burst[k] \in subs
        OBVIOUS
      <4>1. PICK l \in 1 .. K : t[L + i].n = N + l /\ burst[l] \in subs
        BY <1>6a
      <4>2. l = k
        BY <1>2, <4>1
      <4> QED BY <4>1, <4>2
    <3>6. ASSUME burst[k] \in subs
          PROVE  \E i \in DOMAIN h : t[L + i].n = N + k
      <4>1. PICK i \in DOMAIN h : h[i] = EventOf(burst, k)
        BY <1>4, <3>6
      <4>2. t[L + i].n = N + k
        BY <1>1, <1>5, <4>1
      <4> QED BY <4>2
    <3> QED BY <3>2, <3>4, <3>5, <3>6
  <2>3. \A i \in Events(t) : t[i].n \in 1 .. N + K
    <3> SUFFICES ASSUME NEW i \in Events(t)
                 PROVE  t[i].n \in 1 .. N + K
      OBVIOUS
    <3>1. CASE i \in Events(s)
      BY <1>3, <1>9, <1>11, <3>1
    <3>2. CASE i \notin Events(s)
      BY <1>3, <1>8, <1>6a, <3>2
    <3> QED BY <3>1, <3>2
  <2>4. \A n \in 1 .. N + K : n \in {t[i].n : i \in Events(t)} <=>
                                Subscribed(t, lg[n], n)
    BY <1>3, <2>1, <2>2
  <2> QED BY <1>3, <2>3, <2>4
<1>17. \A i \in Replies(t) : t[i].at <= N + K
  BY <1>2, <1>6, <1>7, <1>9, <1>10
<1>18. \A e \in Event : e \in subs <=> Subscribed(t, e, N + K + 1)
  <2>1. K + 1 \in Nat \ {0} /\ N + K + 1 = N + (K + 1)
    BY <1>2
  <2> QED BY <1>6, <1>12, <1>13, <2>1
<1> QED BY <1>3, <1>14, <1>15, <1>16, <1>17, <1>18 DEF InformedOf, t, lg

\* Among the first k requests of sc is one to subscribe to e, and none after it
\* to unsubscribe.
Due(sc, e, k) ==
  \E j \in 1 .. k :
    /\ sc[j].type = "subscribe" /\ sc[j].arg = e
    /\ \A l \in j + 1 .. k : ~(sc[l].type = "unsubscribe" /\ sc[l].arg = e)

\* sc gives up only what it has subscribed to. ipc_subscribe() toggles the bit
\* for a request that does not, and so subscribes to what it asks to give up.
Paired(sc) ==
  \A k \in DOMAIN sc : sc[k].type = "unsubscribe" /\ sc[k].arg \in Event =>
                         Due(sc, sc[k].arg, k - 1)

\* What p has subscribed to by the requests read so far is in its table.
DueKept(p) ==
  Connected(p) =>
    \A e \in Event : Due(script[p], e, Read(p)) => e \in subscriptions[p]

Informed(p) == Connected(p) => InformedOf(Stream(p), log, subscriptions[p])

\* A request more: what is due after it is what is wanted after it.
LEMMA DueStep ==
  ASSUME NEW sc, NEW k \in Nat, NEW subs, NEW e \in Event,
         Due(sc, e, k) => e \in subs,
         NEW ok \in BOOLEAN,
         sc[k + 1].type \in {"subscribe", "unsubscribe"} =>
           (ok <=> sc[k + 1].arg \in Event),
         Due(sc, e, k + 1)
  PROVE  e \in Wanted(subs, sc[k + 1], ok)
<1> DEFINE r == sc[k + 1]
<1>1. PICK j \in 1 .. k + 1 :
        /\ sc[j].type = "subscribe" /\ sc[j].arg = e
        /\ \A l \in j + 1 .. k + 1 :
             ~(sc[l].type = "unsubscribe" /\ sc[l].arg = e)
  BY DEF Due
<1>2. CASE j = k + 1
  <2>1. r.type = "subscribe" /\ r.arg = e /\ ok
    BY <1>1, <1>2
  <2> HIDE DEF r
  <2> QED BY <2>1 DEF Wanted, r
<1>3. CASE j # k + 1
  <2>1. /\ j \in 1 .. k /\ k + 1 \in j + 1 .. k + 1
        /\ \A l \in j + 1 .. k : l \in j + 1 .. k + 1
    BY <1>3
  <2>2. Due(sc, e, k)
    BY <1>1, <2>1 DEF Due
  <2>3. ~(r.type = "unsubscribe" /\ r.arg = e)
    BY <1>1, <2>1
  <2> HIDE DEF r
  <2> QED BY <2>2, <2>3 DEF Wanted, r
<1> QED BY <1>2, <1>3

\* ipc_subscribe() finds the bit set when it is asked to clear it.
LEMMA GivesUpOwn ==
  ASSUME Connections, NEW p \in Peer, Connected(p), DueKept(p),
         Paired(script[p]), toServer[p] # << >>, NEW ok \in BOOLEAN,
         Head(toServer[p]).type = "unsubscribe", Head(toServer[p]).arg \in Event
  PROVE  Head(toServer[p]).arg \in subscriptions[p]
<1> DEFINE k == Read(p)
<1>1. k \in Nat /\ k + 1 \in DOMAIN script[p]
      /\ Head(toServer[p]) = script[p][k + 1]
  BY NextRequest
<1> HIDE DEF k
<1>2. Due(script[p], Head(toServer[p]).arg, (k + 1) - 1)
  BY <1>1 DEF Paired
<1>3. (k + 1) - 1 = k
  BY <1>1
<1> QED BY <1>2, <1>3 DEF DueKept, k

\* An answered request, and the events of a command after its reply.
LEMMA AnswersInform ==
  ASSUME Connections, NEW p \in Peer, NEW ok \in BOOLEAN, NEW burst \in Bursts,
         Answers(p, ok, burst), Informed(p), DueKept(p), Paired(script[p]),
         script' = script
  PROVE  Informed(p)' /\ DueKept(p)'
<1> DEFINE r == Head(toServer[p])
           m == Reply(r, ok)
           h == News(p, burst)
           s == Stream(p)
           subs == subscriptions[p]
           k == Read(p)
<1>1. /\ Connected(p) /\ toServer[p] # << >> /\ Read(p)' = k + 1
      /\ Stream(p)' = s \o (<<m>> \o h)
      /\ burst # << >> => r.type = "run_command"
      /\ r.type \in {"subscribe", "unsubscribe"} => (ok <=> r.arg \in Event)
      /\ log' = log \o burst
      /\ subscriptions'[p] = Wanted(subs, r, ok)
  BY DEF Answers
<1>2. /\ k \in Nat /\ r \in Request /\ r = script[p][k + 1]
  BY <1>1, NextRequest
<1>3. m \in Message
  BY <1>2, ReplyType
<1>4. h \in Seq(Message) /\ HeardUpTo(h, burst, subs, Len(burst))
  BY NewsFacts
<1>5. s \in Seq(Message) /\ InformedOf(s, log, subs) /\ subs \in SUBSET Event
  BY <1>1, TypesOf, ConcatProperties DEF Stream, Informed
<1>6. r.type = "unsubscribe" /\ ok => r.arg \in subs
  BY <1>1, GivesUpOwn
<1>7. log \in Seq(Event) /\ Len(log) <= MaxLog
  BY DEF Connections, TypeOK, ServerTypeOK
<1>8. ASSUME NEW e \in Event, Due(script[p], e, k + 1)
      PROVE  e \in Wanted(subs, r, ok)
  <2>1. Due(script[p], e, k) => e \in subs
    BY <1>1 DEF DueKept
  <2> HIDE DEF k, r, subs
  <2> QED BY <1>1, <1>2, <1>8, <2>1, DueStep
<1>9. DueKept(p)'
  BY <1>1, <1>8 DEF DueKept
<1>10. InformedOf(s \o <<m>>, log, Wanted(subs, r, ok))
  <2> HIDE DEF s, subs, r
  <2> QED BY <1>1, <1>2, <1>3, <1>5, <1>6, <1>7, ReplyInforms
<1>11. Informed(p)'
  <2>1. CASE burst = << >>
    <3>1. h = << >> /\ log' = log
      BY <1>1, <2>1, NoBurst
    <3>2. Stream(p)' = s \o <<m>>
      <4>1. <<m>> \o << >> = <<m>>
        BY <1>3, ConcatEmptySeq
      <4> QED BY <1>1, <3>1, <4>1
    <3> QED BY <1>1, <1>10, <3>1, <3>2 DEF Informed
  <2>2. CASE burst # << >>
    <3>1. Wanted(subs, r, ok) = subs
      BY <1>1, <2>2 DEF Wanted
    <3> HIDE DEF s, subs, m, h
    <3>2. <<m>> \in Seq(Message) /\ s \o <<m>> \in Seq(Message)
      BY <1>3, <1>5, ConcatProperties
    <3>3. s \o (<<m>> \o h) = (s \o <<m>>) \o h
      BY <1>4, <1>5, <3>2, Regroup
    <3>4. InformedOf((s \o <<m>>) \o h, log \o burst, subs)
      BY <1>4, <1>5, <1>7, <1>10, <3>1, <3>2, NewsInform
    <3> QED BY <1>1, <3>1, <3>3, <3>4 DEF Informed
  <2> QED BY <2>1, <2>2
<1> QED BY <1>9, <1>11

\* No step leaves a subscriber uninformed.
LEMMA InformedNext ==
  ASSUME Connections, [Next]_vars, NEW p \in Peer, Informed(p), DueKept(p),
         Paired(script[p])
  PROVE  Informed(p)' /\ DueKept(p)'
<1> SUFFICES ASSUME Connected(p)'
             PROVE  Informed(p)' /\ DueKept(p)'
  BY DEF Informed, DueKept
<1>1. script' = script
  BY ScriptKept
<1>2. CASE Quiet(p)
  BY <1>1, <1>2 DEF Quiet, Informed, DueKept
<1>3. CASE Accepted(p)
  <2>1. InformedOf(Stream(p)', log, {}) /\ \A e : ~Due(script[p], e, 0)
    BY <1>3, NothingDue DEF Accepted, Due
  <2> QED BY <1>1, <1>3, <2>1 DEF Accepted, Informed, DueKept
<1>4. ASSUME NEW burst \in Bursts, Informs(p, burst)
      PROVE  Informed(p)' /\ DueKept(p)'
  <2>1. InformedOf(Stream(p), log, subscriptions[p])
    BY <1>4 DEF Informed, Informs
  <2>2. /\ Stream(p) \in Seq(Message) /\ subscriptions[p] \in SUBSET Event
        /\ log \in Seq(Event) /\ Len(log) <= MaxLog
    BY TypesOf, ConcatProperties
    DEF Stream, Connections, TypeOK, ServerTypeOK
  <2>3. HeardUpTo(News(p, burst), burst, subscriptions[p], Len(burst))
    BY NewsFacts
  <2>4. InformedOf(Stream(p) \o News(p, burst), log \o burst, subscriptions[p])
    BY <2>1, <2>2, <2>3, NewsInform
  <2> QED BY <1>1, <1>4, <2>4 DEF Informs, Informed, DueKept
<1>5. ASSUME NEW ok \in BOOLEAN, NEW burst \in Bursts, Answers(p, ok, burst)
      PROVE  Informed(p)' /\ DueKept(p)'
  BY <1>1, <1>5, AnswersInform
<1> QED BY <1>2, <1>3, <1>4, <1>5, StreamStep

\* Whatever else the server does between, when every peer gives up only what
\* it has subscribed to: a client is sent each event that was published between
\* the reply to its subscription and the one that ends it, once and in order,
\* and no other event.
THEOREM SubscribersHear ==
  ASSUME \A s \in Scripts : \A p \in Peer : Paired(s[p])
  PROVE  Spec => []SubscribersInformed
<1> DEFINE Inv == /\ Connections
                  /\ \A p \in Peer : Informed(p) /\ DueKept(p)
<1>1. Init => Inv
  BY InitConnections
  DEF Init, ServerInit, Informed, DueKept, Connected, Registered, ToSet
<1>2. Inv /\ [Next]_vars => Inv'
  <2> SUFFICES ASSUME Inv, [Next]_vars
               PROVE  Inv'
    OBVIOUS
  <2>1. Connections'
    BY NextConnections
  <2>2. \A p \in Peer : Paired(script[p])
    BY DEF Connections, TypeOK
  <2>3. \A p \in Peer : Informed(p)' /\ DueKept(p)'
    BY <2>2, InformedNext
  <2> QED BY <2>1, <2>3
<1>3. Inv => SubscribersInformed
  BY DEF Informed, InformedOf, SubscribersInformed
<1> HIDE DEF Inv
<1> QED BY <1>1, <1>2, <1>3, PTL DEF Spec

-----------------------------------------------------------------------------
(* What a program that is connected sees of dwm is a server that answers    *)
(* each request and publishes each event in one step                       *)

\* What stands for the variables of IpcService, of one peer.
ConnOf(p) ==
  IF pc[p] = "off" THEN "new" ELSE IF Served(p) THEN "served" ELSE "over"
PendingOf(p) == IF Served(p) THEN toServer[p] ELSE << >>
InterestsOf(p) == IF Served(p) THEN subscriptions[p] ELSE {}
ToldOf(p) == IF Served(p) THEN Stream(p) ELSE << >>

\* A step that does not show to p.
Unseen(p) ==
  /\ ConnOf(p)' = ConnOf(p) /\ PendingOf(p)' = PendingOf(p)
  /\ InterestsOf(p)' = InterestsOf(p) /\ ToldOf(p)' = ToldOf(p)

\* What is the same to all peers, and publishes nothing, is no step.
LEMMA Stutter ==
  ASSUME \A p \in Peer : Unseen(p), log' = log
  PROVE  UNCHANGED Service!vars
BY DEF Unseen, ConnOf, PendingOf, InterestsOf, ToldOf, Service!vars

\* What p is told of a burst in IpcService is what ipc_send_events() puts in
\* its buffer.
LEMMA AnnouncedIsHeard ==
  ASSUME NEW p \in Peer, NEW burst
  PROVE  Service!Announced(p, burst) = Heard(burst, InterestsOf(p))
<1>1. [q \in Peer |-> IF Served(q) THEN subscriptions[q] ELSE {}][p]
        = InterestsOf(p)
  BY DEF InterestsOf
<1> QED BY <1>1, Zenon DEF Service!Announced, Heard

\* The messages of first are for peers that are served, and the events of burst
\* for those who want them.
LEMMA TellAll ==
  ASSUME Connections, NEW burst \in Bursts, NEW first,
         first \in [Peer -> Seq(Message)], log' = log \o burst,
         \A p \in Peer : Served(p)' <=> Served(p),
         \A p \in Peer :
           Served(p) => Stream(p)' = Stream(p) \o (first[p] \o News(p, burst)),
         \A p \in Peer : ~Served(p) => first[p] = << >>
  PROVE  Service!Tell(first, burst)
<1>1. ASSUME NEW p \in Peer
      PROVE  ToldOf(p)' = ToldOf(p) \o first[p] \o Service!Announced(p, burst)
  <2>1. log \in Seq(Event)
    BY DEF Connections, TypeOK, ServerTypeOK
  <2>2. CASE Served(p)
    <3> DEFINE s == Stream(p)
               f == first[p]
               h == News(p, burst)
    <3>1. InterestsOf(p) = subscriptions[p]
      BY <2>2 DEF InterestsOf
    <3>2. Service!Announced(p, burst) = h
      BY <3>1, AnnouncedIsHeard, NewsFacts
    <3>3. ToldOf(p) = s /\ ToldOf(p)' = s \o (f \o h)
      BY <2>2 DEF ToldOf
    <3>4. s \in Seq(Message) /\ f \in Seq(Message) /\ h \in Seq(Message)
      BY TypesOf, ConcatProperties, NewsFacts DEF Stream
    <3> HIDE DEF s, f, h
    <3>5. s \o (f \o h) = (s \o f) \o h
      BY <3>4, Regroup
    <3> QED BY <3>2, <3>3, <3>5 DEF f
  <2>3. CASE ~Served(p)
    <3>1. InterestsOf(p) = {} /\ ToldOf(p) = << >> /\ ToldOf(p)' = << >>
      BY <2>3 DEF InterestsOf, ToldOf
    <3>2. Service!Announced(p, burst) = << >>
      BY <2>1, <3>1, AnnouncedIsHeard, HeardFacts
    <3>3. << >> \o << >> \o << >> = << >>
      BY ConcatEmptySeq
    <3> QED BY <2>3, <3>1, <3>2, <3>3
  <2> QED BY <2>2, <2>3
<1> HIDE DEF Service!Announced
<1> QED BY <1>1 DEF ToldOf, Service!Tell

\* The events of a burst, published at once.
LEMMA Publishes ==
  ASSUME Connections, NEW burst \in Bursts, log' = log \o burst,
         \A p \in Peer :
           /\ ConnOf(p)' = ConnOf(p) /\ (Served(p)' <=> Served(p))
           /\ Served(p) => /\ toServer'[p] = toServer[p]
                           /\ subscriptions'[p] = subscriptions[p]
                           /\ Stream(p)' = Stream(p) \o News(p, burst)
  PROVE  Service!Next
<1> DEFINE first == [p \in Peer |-> << >>]
<1>1. \A p \in Peer : << >> \o News(p, burst) = News(p, burst)
  BY NewsFacts, ConcatEmptySeq
<1>2. first \in [Peer -> Seq(Message)] /\ \A p \in Peer : first[p] = << >>
  OBVIOUS
<1>3. Service!Tell(first, burst)
  <2> HIDE DEF first
  <2> QED BY <1>1, <1>2, TellAll
<1>4. \A p \in Peer : PendingOf(p)' = PendingOf(p)
                      /\ InterestsOf(p)' = InterestsOf(p)
  BY DEF PendingOf, InterestsOf
<1>5. Service!Publish(burst)
  <2> HIDE DEF Service!Tell
  <2> QED BY <1>3, <1>4 DEF Service!Publish, ConnOf, PendingOf, InterestsOf
<1>6. burst \in Service!Bursts
  BY DEF Bursts, Service!Bursts, SeqOf, Service!SeqOf
<1> HIDE DEF Service!Publish, Service!Bursts
<1> QED BY <1>5, <1>6 DEF Service!Next

-----------------------------------------------------------------------------
(* The steps                                                               *)

\* Of a peer that a step leaves alone, nothing shows.
LEMMA UnseenFrame ==
  ASSUME NEW p \in Peer, ConnOf(p)' = ConnOf(p), Served(p)' <=> Served(p),
         Served(p) => /\ toServer'[p] = toServer[p]
                      /\ subscriptions'[p] = subscriptions[p]
                      /\ Stream(p)' = Stream(p)
  PROVE  Unseen(p)
BY DEF Unseen, PendingOf, InterestsOf, ToldOf

\* The connection of q ends, if it had not, and nothing shows to the others.
LEMMA Ends ==
  ASSUME NEW q \in Peer, log' = log, \A p \in Peer : p # q => Unseen(p),
         pc[q] # "off", pc'[q] # "off", ~Served(q)'
  PROVE  Service!Next
<1>1. /\ ConnOf(q)' = IF ConnOf(q) = "served" THEN "over" ELSE ConnOf(q)
      /\ PendingOf(q)' = << >> /\ InterestsOf(q)' = {} /\ ToldOf(q)' = << >>
  BY DEF ConnOf, PendingOf, InterestsOf, ToldOf
<1>2. Service!End({q})
  BY <1>1 DEF Service!End, Unseen, ConnOf, PendingOf, InterestsOf, ToldOf
<1> HIDE DEF Service!End
<1> QED BY <1>2 DEF Service!Next

\* epoll_wait(), the calls of write() and what the X server sends do not show,
\* and accept() does not: the connection is served since connect().
LEMMA LoopUnseen ==
  ASSUME Connections, UNCHANGED peers,
         EpollWait \/ StartWrite \/ FinishWrite \/ XEvent \/ AcceptClient
         \/ WriteMessage
  PROVE  UNCHANGED Service!vars
<1>1. log' = log /\ open' = open /\ closed' = closed /\ toServer' = toServer
      /\ pc' = pc
  BY DEF peers, EpollWait, StartWrite, FinishWrite, XEvent, AcceptClient,
         WriteMessage, loop, tables, sockets
<1>2. \A p \in Peer : ConnOf(p)' = ConnOf(p) /\ (Served(p)' <=> Served(p))
  BY <1>1 DEF ConnOf, Served
<1>3. ASSUME NEW p \in Peer
      PROVE  Stream(p)' = Stream(p) /\ subscriptions'[p] = subscriptions[p]
  <2>1. CASE EpollWait \/ StartWrite \/ FinishWrite \/ XEvent
    BY <2>1 DEF peers, Stream, EpollWait, StartWrite, FinishWrite, XEvent,
                loop, tables, sockets
  <2>2. CASE AcceptClient
    <3> DEFINE q == Head(backlog)
    <3>1. PICK e \in batch :
            /\ e.fd = "listener"
            /\ buffer' = [buffer EXCEPT ![q] = << >>]
            /\ subscriptions' = [subscriptions EXCEPT ![q] = {}]
      BY <2>2 DEF AcceptClient
    <3>2. /\ backlog \in Seq(Peer) /\ backlog # << >>
          /\ DOMAIN buffer = Peer /\ DOMAIN subscriptions = Peer
      BY <3>1 DEF Connections, BatchOK, TypeOK, ServerTypeOK
    <3>3. q \in Peer /\ Queued(q)
      BY <3>2, TailFacts DEF Queued
    <3>4. ~Registered(q)
      BY <3>3 DEF Connections, QueuesOK, Queued, Registered
    <3>5. buffer[q] = << >> /\ subscriptions[q] = {}
      BY <3>3, <3>4, TypesOf DEF TablesOK
    <3>6. buffer'[p] = buffer[p] /\ subscriptions'[p] = subscriptions[p]
      BY <3>1, <3>2, <3>5
    <3>7. UNCHANGED <<toPeer, got>>
      BY <2>2 DEF AcceptClient, peers
    <3> QED BY <3>6, <3>7 DEF Stream
  <2>3. CASE WriteMessage
    <3>1. /\ writing \in Peer /\ buffer[writing] # << >>
          /\ toPeer' = [toPeer EXCEPT ![writing] =
                          Append(@, Head(buffer[writing]))]
          /\ buffer' = [buffer EXCEPT ![writing] = Tail(@)]
          /\ DOMAIN toPeer = Peer /\ DOMAIN buffer = Peer
          /\ UNCHANGED <<subscriptions, got>>
      BY <2>3 DEF WriteMessage, Connections, TypeOK, ServerTypeOK, peers
    <3>2. CASE p = writing
      <4>1. /\ buffer[p] # << >> /\ buffer'[p] = Tail(buffer[p])
            /\ toPeer'[p] = Append(toPeer[p], Head(buffer[p]))
        BY <3>1, <3>2
      <4> QED BY <3>1, <4>1, StreamMoves
    <3>3. CASE p # writing
      BY <3>1, <3>3 DEF Stream
    <3> QED BY <3>2, <3>3
  <2> QED BY <2>1, <2>2, <2>3
<1>4. \A p \in Peer : Unseen(p)
  BY <1>1, <1>2, <1>3, UnseenFrame
<1> QED BY <1>1, <1>4, Stutter

\* ipc_drop_client(): the connection is over.
LEMMA HangUpEnds ==
  ASSUME Connections, UNCHANGED peers, HangUp
  PROVE  Service!Next
<1>1. PICK e \in batch :
        /\ e.fd \in Peer /\ DropClient(e.fd)
        /\ UNCHANGED <<log, toPeer, open>>
  BY DEF HangUp
<1> DEFINE q == e.fd
<1>2. q \in Peer /\ Registered(q) /\ pc[q] # "off" /\ UNCHANGED <<pc, got>>
  BY <1>1, TypesOf DEF Connections, BatchOK, PeerOK, peers
<1>3. /\ buffer' = [buffer EXCEPT ![q] = << >>]
      /\ subscriptions' = [subscriptions EXCEPT ![q] = {}]
      /\ toServer' = [toServer EXCEPT ![q] = << >>]
      /\ closed' = [closed EXCEPT ![q] = TRUE]
      /\ DOMAIN buffer = Peer /\ DOMAIN subscriptions = Peer
      /\ DOMAIN toServer = Peer /\ DOMAIN closed = Peer
  BY <1>1 DEF DropClient, Connections, TypeOK, ServerTypeOK
<1> HIDE DEF q
<1>4. ASSUME NEW p \in Peer, p # q
      PROVE  Unseen(p)
  <2>1. /\ buffer'[p] = buffer[p] /\ subscriptions'[p] = subscriptions[p]
        /\ toServer'[p] = toServer[p] /\ closed'[p] = closed[p]
    BY <1>3, <1>4
  <2>2. ConnOf(p)' = ConnOf(p) /\ (Served(p)' <=> Served(p))
        /\ Stream(p)' = Stream(p)
    BY <1>1, <1>2, <2>1 DEF ConnOf, Served, Stream
  <2> QED BY <2>1, <2>2, UnseenFrame
<1>5. ~Served(q)'
  BY <1>2, <1>3 DEF Served
<1> QED BY <1>1, <1>2, <1>4, <1>5, Ends

\* The end of dwm is the end of every connection.
LEMMA ExitEnds ==
  ASSUME Connections, UNCHANGED peers, WriteToClosed \/ Cleanup
  PROVE  Service!Next
<1>1. /\ closed' = [p \in Peer |-> closed[p] \/ open[p]]
      /\ UNCHANGED <<log, open, pc>>
  BY DEF WriteToClosed, Cleanup, Exit, peers
<1>2. ASSUME NEW p \in Peer
      PROVE  /\ ConnOf(p)' = IF ConnOf(p) = "served" THEN "over" ELSE ConnOf(p)
             /\ PendingOf(p)' = << >> /\ InterestsOf(p)' = {}
             /\ ToldOf(p)' = << >>
  <2>1. closed'[p] = (closed[p] \/ open[p]) /\ open'[p] = open[p]
        /\ pc'[p] = pc[p]
    BY <1>1
  <2>2. ~Served(p)'
    BY <2>1, Zenon DEF Served
  <2> QED BY <2>1, <2>2 DEF ConnOf, PendingOf, InterestsOf, ToldOf
<1>3. Service!End(Peer)
  BY <1>1, <1>2 DEF Service!End, ConnOf, PendingOf, InterestsOf, ToldOf
<1> HIDE DEF Service!End
<1> QED BY <1>3 DEF Service!Next

\* The reply to a request, and the events that it makes, in one step.
LEMMA RequestServed ==
  ASSUME Connections, UNCHANGED peers, HandleRequest
  PROVE  Service!Next
<1>1. PICK q \in Peer, ok \in BOOLEAN, burst \in Bursts : Handled(q, ok, burst)
  BY RequestHandled
<1> DEFINE r == Head(toServer[q])
           m == Reply(r, ok)
<1>2. /\ Registered(q) /\ toServer[q] # << >> /\ log' = log \o burst
      /\ toServer' = [toServer EXCEPT ![q] = Tail(@)]
      /\ subscriptions' = [subscriptions EXCEPT ![q] = Wanted(@, r, ok)]
      /\ burst # << >> => r.type = "run_command" /\ ok
      /\ UNCHANGED <<open, closed, pc>>
      /\ DOMAIN toServer = Peer /\ DOMAIN subscriptions = Peer
  BY <1>1 DEF Handled, peers, Connections, TypeOK, ServerTypeOK
<1>3. r \in Request /\ m \in Message
  <2>1. r \in Request
    BY <1>2, TypesOf, TailFacts
  <2> QED BY <2>1, ReplyType
<1>4. /\ \A p \in Peer : p # q =>
           /\ Stream(p)' = Stream(p) \o News(p, burst)
           /\ subscriptions'[p] = subscriptions[p]
           /\ toServer'[p] = toServer[p]
      /\ Stream(q)' = Stream(q) \o (<<m>> \o News(q, burst))
      /\ toServer'[q] = Tail(toServer[q])
      /\ subscriptions'[q] = Wanted(subscriptions[q], r, ok)
  BY <1>1, <1>2, RequestStreams
<1> HIDE DEF m, r
<1>5. \A p \in Peer : ConnOf(p)' = ConnOf(p) /\ (Served(p)' <=> Served(p))
  BY <1>2 DEF ConnOf, Served
<1>6. CASE ~Served(q)
  BY <1>2, <1>4, <1>5, <1>6, Publishes
<1>7. CASE Served(q)
  <2> DEFINE first == [p \in Peer |-> IF p = q THEN <<m>> ELSE << >>]
  <2>1. \A p \in Peer : << >> \o News(p, burst) = News(p, burst)
    BY NewsFacts, ConcatEmptySeq
  <2>2. <<m>> \in Seq(Message) /\ << >> \in Seq(Message)
    BY <1>3
  <2>3. first \in [Peer -> Seq(Message)] /\ first[q] = <<m>>
        /\ \A p \in Peer : p # q => first[p] = << >>
    BY <2>2
  <2>4. Service!Tell(first, burst)
    <3> HIDE DEF first
    <3>1. \A p \in Peer : Served(p) =>
            Stream(p)' = Stream(p) \o (first[p] \o News(p, burst))
      BY <1>4, <2>1, <2>3
    <3>2. \A p \in Peer : ~Served(p) => first[p] = << >>
      BY <1>7, <2>3
    <3> QED BY <1>2, <1>5, <2>3, <3>1, <3>2, TellAll
  <2>5. ConnOf(q) = "served" /\ PendingOf(q) = toServer[q]
        /\ InterestsOf(q) = subscriptions[q]
    BY <1>2, <1>7, TypesOf DEF ConnOf, PendingOf, InterestsOf, PeerOK, Served
  <2>6. \A p \in Peer :
          /\ PendingOf(p)' = IF p = q THEN Tail(PendingOf(p)) ELSE PendingOf(p)
          /\ InterestsOf(p)' = IF p = q THEN Wanted(InterestsOf(p), r, ok)
                               ELSE InterestsOf(p)
    BY <1>4, <1>5, <1>7 DEF PendingOf, InterestsOf
  <2>7. m = [kind |-> "reply", to |-> r, ok |-> ok, at |-> Len(log)]
    BY DEF m, Reply
  <2>8. Service!Serve(q, ok, burst)
    <3> HIDE DEF Service!Tell
    <3> QED BY <1>2, <1>5, <2>4, <2>5, <2>6, <2>7
        DEF Service!Serve, ConnOf, PendingOf, InterestsOf, Wanted, r
  <2>9. burst \in Service!Bursts
    BY DEF Bursts, Service!Bursts, SeqOf, Service!SeqOf
  <2> HIDE DEF Service!Serve, Service!Bursts
  <2> QED BY <2>8, <2>9 DEF Service!Next
<1> QED BY <1>6, <1>7

\* The events that the X server causes are published to all.
LEMMA DisplayPublishes ==
  ASSUME Connections, UNCHANGED peers, HandleDisplay
  PROVE  Service!Next
<1>1. PICK burst \in Bursts : Displayed(burst)
  BY DisplayHandled
<1>2. log' = log \o burst /\ UNCHANGED <<open, closed, toServer, pc>>
  BY <1>1 DEF Displayed, sockets, peers
<1>3. \A p \in Peer : ConnOf(p)' = ConnOf(p) /\ (Served(p)' <=> Served(p))
  BY <1>2 DEF ConnOf, Served
<1>4. \A p \in Peer : /\ Stream(p)' = Stream(p) \o News(p, burst)
                      /\ subscriptions'[p] = subscriptions[p]
  BY <1>1, DisplayStreams
<1> QED BY <1>2, <1>3, <1>4, Publishes

\* connect(): the connection is served from now on.
LEMMA ConnectOpens ==
  ASSUME Connections, NEW q \in Peer, Connect(q)
  PROVE  Service!Next
<1>1. /\ pc[q] = "off" /\ pc' = [pc EXCEPT ![q] = "ready"]
      /\ open' = [open EXCEPT ![q] = TRUE]
      /\ UNCHANGED <<buffer, subscriptions, toServer, toPeer, closed, got, log>>
      /\ DOMAIN pc = Peer /\ DOMAIN open = Peer
  BY DEF Connect, tables, Connections, TypeOK, ServerTypeOK
<1>2. /\ toServer[q] = << >> /\ subscriptions[q] = {} /\ buffer[q] = << >>
      /\ toPeer[q] = << >> /\ got[q] = << >> /\ ~closed[q]
  BY <1>1, TypesOf DEF PeerOK, TablesOK
<1>3. ASSUME NEW p \in Peer, p # q
      PROVE  Unseen(p)
  <2>1. pc'[p] = pc[p] /\ open'[p] = open[p]
    BY <1>1, <1>3
  <2>2. ConnOf(p)' = ConnOf(p) /\ (Served(p)' <=> Served(p))
        /\ Stream(p)' = Stream(p)
    BY <1>1, <2>1 DEF ConnOf, Served, Stream
  <2> QED BY <1>1, <2>2, UnseenFrame
<1>4. /\ ConnOf(q) = "new" /\ PendingOf(q) = << >> /\ InterestsOf(q) = {}
      /\ ToldOf(q) = << >>
  BY <1>1 DEF ConnOf, PendingOf, InterestsOf, ToldOf, Served
<1>5. Served(q)' /\ Stream(q)' = << >>
  <2>1. << >> \o << >> \o << >> = << >>
    BY ConcatEmptySeq
  <2> QED BY <1>1, <1>2, <2>1 DEF Served, Stream
<1>6. /\ ConnOf(q)' = "served" /\ PendingOf(q)' = << >>
      /\ InterestsOf(q)' = {} /\ ToldOf(q)' = << >>
  BY <1>1, <1>2, <1>5 DEF ConnOf, PendingOf, InterestsOf, ToldOf
<1>7. Service!Open(q)
  BY <1>1, <1>3, <1>4, <1>6
  DEF Service!Open, Unseen, ConnOf, PendingOf, InterestsOf, ToldOf
<1> HIDE DEF Service!Open
<1> QED BY <1>7 DEF Service!Next

\* send_message(): a request more is pending.
LEMMA SendAsks ==
  ASSUME Connections, NEW q \in Peer, SendMessage(q)
  PROVE  Service!Next
<1>1. /\ pc[q] = "ready" /\ ~closed[q] /\ pc' = [pc EXCEPT ![q] = "waiting"]
      /\ toServer' = [toServer EXCEPT ![q] =
                        Append(@, script[q][sent[q] + 1])]
      /\ UNCHANGED <<buffer, subscriptions, toPeer, open, closed, got, log>>
      /\ DOMAIN pc = Peer /\ DOMAIN toServer = Peer
  BY DEF SendMessage, tables, Connections, TypeOK, ServerTypeOK
<1>2. PICK r \in Asked : r = script[q][sent[q] + 1]
  <2>1. /\ sent[q] \in Nat /\ sent[q] < Len(script[q])
        /\ script[q] \in Seq(Request) /\ script \in Scripts
    BY <1>1, TypesOf DEF PeerOK, Connections, TypeOK
  <2>2. sent[q] + 1 \in DOMAIN script[q]
    BY <2>1
  <2>3. script[q][sent[q] + 1] \in ToSet(script[q])
    BY <2>2 DEF ToSet
  <2> QED BY <2>1, <2>3 DEF Asked
<1>3. open[q]
  BY <1>1, TypesOf DEF PeerOK
<1>4. ASSUME NEW p \in Peer
      PROVE  /\ ConnOf(p)' = ConnOf(p) /\ (Served(p)' <=> Served(p))
             /\ Stream(p)' = Stream(p)
  <2>1. (pc'[p] = "off") <=> (pc[p] = "off")
    BY <1>1
  <2> QED BY <1>1, <2>1 DEF ConnOf, Served, Stream
<1>5. \A p \in Peer :
        /\ InterestsOf(p)' = InterestsOf(p) /\ ToldOf(p)' = ToldOf(p)
        /\ p # q => PendingOf(p)' = PendingOf(p)
  BY <1>1, <1>4 DEF PendingOf, InterestsOf, ToldOf
<1>6. /\ ConnOf(q) = "served" /\ PendingOf(q)' = Append(PendingOf(q), r)
  BY <1>1, <1>2, <1>3, <1>4 DEF ConnOf, Served, PendingOf
<1>7. Service!Ask(q, r)
  BY <1>1, <1>4, <1>5, <1>6
  DEF Service!Ask, ConnOf, PendingOf, InterestsOf, ToldOf
<1> HIDE DEF Service!Ask
<1> QED BY <1>2, <1>7 DEF Service!Next

\* The process of q is gone, and its connection with it.
LEMMA PeerExitEnds ==
  ASSUME Connections, NEW q \in Peer, PeerExit(q), pc[q] # "off",
         UNCHANGED <<tables, toServer, closed>>
  PROVE  Service!Next
<1>1. /\ pc' = [pc EXCEPT ![q] = "exited"]
      /\ open' = [open EXCEPT ![q] = FALSE]
      /\ toPeer' = [toPeer EXCEPT ![q] = << >>]
      /\ got' = [got EXCEPT ![q] = << >>]
      /\ UNCHANGED <<buffer, subscriptions, toServer, closed, log>>
      /\ DOMAIN pc = Peer /\ DOMAIN open = Peer
      /\ DOMAIN toPeer = Peer /\ DOMAIN got = Peer
  BY DEF PeerExit, tables, Connections, TypeOK, ServerTypeOK
<1>2. ASSUME NEW p \in Peer, p # q
      PROVE  Unseen(p)
  <2>1. /\ pc'[p] = pc[p] /\ open'[p] = open[p] /\ toPeer'[p] = toPeer[p]
        /\ got'[p] = got[p]
    BY <1>1, <1>2
  <2>2. ConnOf(p)' = ConnOf(p) /\ (Served(p)' <=> Served(p))
        /\ Stream(p)' = Stream(p)
    BY <1>1, <2>1 DEF ConnOf, Served, Stream
  <2> QED BY <1>1, <2>2, UnseenFrame
<1>3. ~Served(q)' /\ pc'[q] # "off"
  BY <1>1 DEF Served
<1> QED BY <1>1, <1>2, <1>3, Ends

\* print_socket_reply(): what a peer has been sent does not depend on what it
\* has read.
LEMMA ReadUnseen ==
  ASSUME Connections, NEW q \in Peer, ReadSocket(q)
  PROVE  Service!Next \/ UNCHANGED Service!vars
<1>1. /\ UNCHANGED <<tables, toServer, closed>>
      /\ pc[q] \in {"waiting", "listening"} /\ toPeer[q] # << >>
  BY DEF ReadSocket
<1>2. CASE Answered(q)
  BY <1>1, <1>2, PeerExitEnds DEF ReadSocket
<1>3. CASE ~Answered(q)
  <2>1. /\ got' = [got EXCEPT ![q] = Append(@, Head(toPeer[q]))]
        /\ toPeer' = [toPeer EXCEPT ![q] = Tail(@)]
        /\ pc' = [pc EXCEPT ![q] = IF sent[q] < Len(script[q])
                                   THEN "ready" ELSE "listening"]
        /\ UNCHANGED <<open, buffer, subscriptions, log>>
        /\ DOMAIN toPeer = Peer /\ DOMAIN got = Peer /\ DOMAIN pc = Peer
    BY <1>1, <1>3
    DEF ReadSocket, tables, Connections, TypeOK, ServerTypeOK
  <2>2. ASSUME NEW p \in Peer
        PROVE  Unseen(p)
    <3>1. (pc'[p] = "off") <=> (pc[p] = "off")
      BY <1>1, <2>1
    <3>2. ConnOf(p)' = ConnOf(p) /\ (Served(p)' <=> Served(p))
      BY <1>1, <2>1, <3>1 DEF ConnOf, Served
    <3>3. Stream(p)' = Stream(p)
      <4>1. CASE p = q
        <5>1. /\ toPeer'[p] = Tail(toPeer[p]) /\ buffer'[p] = buffer[p]
              /\ got'[p] = Append(got[p], Head(toPeer[p]))
          BY <2>1, <4>1
        <5> QED BY <1>1, <4>1, <5>1, StreamMoves
      <4>2. CASE p # q
        BY <2>1, <4>2 DEF Stream
      <4> QED BY <4>1, <4>2
    <3> QED BY <1>1, <2>1, <3>2, <3>3, UnseenFrame
  <2> QED BY <2>1, <2>2, Stutter
<1> QED BY <1>2, <1>3

-----------------------------------------------------------------------------
(* The refinement                                                          *)

\* Nobody has connected when dwm has started.
LEMMA InitService == Init => Service!Init
<1> SUFFICES ASSUME Init
             PROVE  Service!Init
  OBVIOUS
<1>1. /\ log = << >> /\ \A p \in Peer : pc[p] = "off"
  BY DEF Init, ServerInit
<1>2. \A p \in Peer : /\ ConnOf(p) = "new" /\ PendingOf(p) = << >>
                      /\ InterestsOf(p) = {} /\ ToldOf(p) = << >>
  BY <1>1 DEF ConnOf, PendingOf, InterestsOf, ToldOf, Served
<1> QED BY <1>1, <1>2
    DEF Service!Init, ConnOf, PendingOf, InterestsOf, ToldOf

\* Each step of dwm, of a peer or of the X server.
LEMMA NextService ==
  Connections /\ [Next]_vars => [Service!Next]_(Service!vars)
<1> SUFFICES ASSUME Connections, [Next]_vars
             PROVE  Service!Next \/ UNCHANGED Service!vars
  OBVIOUS
<1> HIDE DEF Service!Next, Service!vars
<1>1. CASE (ServerNext \/ XEvent) /\ UNCHANGED peers
  BY <1>1, LoopUnseen, HangUpEnds, ExitEnds, RequestServed, DisplayPublishes
  DEF ServerNext
<1>2. ASSUME NEW q \in Peer,
             Connect(q) \/ SendMessage(q) \/ ReadSocket(q)
      PROVE  Service!Next \/ UNCHANGED Service!vars
  BY <1>2, ConnectOpens, SendAsks, ReadUnseen
<1>3. ASSUME NEW q \in Peer, ConnectionLost(q) \/ Kill(q)
      PROVE  Service!Next
  <2>1. /\ PeerExit(q) /\ pc[q] \in {"ready", "waiting", "listening"}
        /\ UNCHANGED <<tables, toServer, closed>>
    BY <1>3 DEF ConnectionLost, Kill
  <2> QED BY <2>1, PeerExitEnds
<1>4. CASE UNCHANGED vars
  BY <1>4 DEF vars, loop, tables, sockets, peers, Service!vars, Served, Stream
<1> QED BY <1>1, <1>2, <1>3, <1>4 DEF Next, PeerNext

\* However the messages wait in buffers and sockets, in whichever order
\* epoll_wait() reports descriptors, and whoever ends: to those who are
\* connected dwm answers each request and publishes each event in one step.
THEOREM ServerImplementsService == Spec => ImplementsService
<1> USE DEF ImplementsService, Service!Spec
<1> HIDE DEF Service!Init, Service!Next, Service!vars
<1>1. Spec => []Connections
  BY InitConnections, NextConnections, PTL DEF Spec
<1> QED BY <1>1, InitService, NextService, PTL DEF Spec
=============================================================================
