------------------------------- MODULE DwmMsg -------------------------------
(***************************************************************************)
(* dwm-msg (dwm-msg.c) and the IPC server it talks to: the processes that  *)
(* connect, send one request after the other and read one message after   *)
(* each, and that stay to listen when they have subscribed.                *)
(***************************************************************************)
EXTENDS IpcServer

CONSTANTS
  Scripts,   \* the requests that the peers send: a set of assignments
  Ops        \* what else may happen: "kill", "x events"

ASSUME DwmMsgAssumption ==
  /\ Scripts \subseteq [Peer -> Seq(Request) \ {<< >>}]
  /\ Ops \subseteq {"kill", "x events"}

VARIABLES
  pc,        \* "off", "ready" to send, "waiting", "listening", "exited"
  script,    \* the requests that the arguments of dwm-msg ask for; another
             \* program that connects may also unsubscribe
  sent,      \* how many of them it has sent
  got        \* the messages it has read

peers == <<pc, script, sent, got>>
vars == <<loop, tables, sockets, xevents, peers>>

TypeOK ==
  /\ ServerTypeOK
  /\ pc \in [Peer -> {"off", "ready", "waiting", "listening", "exited"}]
  /\ script \in Scripts
  /\ \A p \in Peer : sent[p] \in 0 .. Len(script[p])
  /\ got \in [Peer -> Seq(Message)]

Init ==
  /\ ServerInit
  /\ pc = [p \in Peer |-> "off"]
  /\ script \in Scripts
  /\ sent = [p \in Peer |-> 0]
  /\ got = [p \in Peer |-> << >>]

On(op) == op \in Ops

-----------------------------------------------------------------------------

\* connect_to_socket(): the connection waits to be accepted.
Connect(p) ==
  /\ pc[p] = "off" /\ Alive
  /\ pc' = [pc EXCEPT ![p] = "ready"]
  /\ backlog' = Append(backlog, p)
  /\ open' = [open EXCEPT ![p] = TRUE]
  /\ UNCHANGED <<loop, tables, toServer, toPeer, closed, xevents, script, sent,
                 got>>

\* send_message().
SendMessage(p) ==
  /\ pc[p] = "ready" /\ ~closed[p]
  /\ pc' = [pc EXCEPT ![p] = "waiting"]
  /\ toServer' = [toServer EXCEPT ![p] = Append(@, script[p][sent[p] + 1])]
  /\ sent' = [sent EXCEPT ![p] = @ + 1]
  /\ UNCHANGED <<loop, tables, backlog, toPeer, open, closed, xevents, script,
                 got>>

\* The end of the process p: its socket is closed and what is in it is lost.
PeerExit(p) ==
  /\ pc' = [pc EXCEPT ![p] = "exited"]
  /\ open' = [open EXCEPT ![p] = FALSE]
  /\ toPeer' = [toPeer EXCEPT ![p] = << >>]
  /\ got' = [got EXCEPT ![p] = << >>]

\* Whether main() has sent its last request and has no events to listen to.
Answered(p) ==
  /\ sent[p] = Len(script[p])
  /\ script[p][1].type \notin {"subscribe", "unsubscribe"}

\* print_socket_reply() and flush_socket_reply(): read the next message,
\* whatever it is. After the last reply a subscriber listens, others exit.
ReadSocket(p) ==
  /\ pc[p] \in {"waiting", "listening"} /\ toPeer[p] # << >>
  /\ IF Answered(p) THEN PeerExit(p)
     ELSE /\ pc' = [pc EXCEPT ![p] = IF sent[p] < Len(script[p])
                                     THEN "ready" ELSE "listening"]
          /\ got' = [got EXCEPT ![p] = Append(@, Head(toPeer[p]))]
          /\ toPeer' = [toPeer EXCEPT ![p] = Tail(@)]
          /\ UNCHANGED open
  /\ UNCHANGED <<loop, tables, backlog, toServer, closed, xevents, script,
                 sent>>

\* The server has closed the connection: read_socket() exits, a write raises
\* SIGPIPE.
ConnectionLost(p) ==
  /\ closed[p]
  /\ \/ pc[p] = "ready"
     \/ pc[p] \in {"waiting", "listening"} /\ toPeer[p] = << >>
  /\ PeerExit(p)
  /\ UNCHANGED <<loop, tables, backlog, toServer, closed, xevents, script,
                 sent>>

\* The process p is killed while it waits for the server.
Kill(p) ==
  /\ On("kill") /\ pc[p] \in {"waiting", "listening"}
  /\ PeerExit(p)
  /\ UNCHANGED <<loop, tables, backlog, toServer, closed, xevents, script,
                 sent>>

\* What the process p does once it has connected.
PeerNext(p) == SendMessage(p) \/ ReadSocket(p) \/ ConnectionLost(p)

Next ==
  \/ /\ ServerNext
     /\ UNCHANGED peers
  \/ /\ On("x events") /\ XEvent
     /\ UNCHANGED peers
  \/ \E p \in Peer : Connect(p) \/ PeerNext(p) \/ Kill(p)

\* dwm and each peer are processes: none stops for ever where it could go on.
Fairness ==
  /\ WF_vars(ServerNext /\ UNCHANGED peers)
  /\ \A p \in Peer : WF_vars(PeerNext(p))

Spec == Init /\ [][Next]_vars /\ Fairness

-----------------------------------------------------------------------------
(* Properties                                                              *)

\* All that the server has prepared for p and p has not lost.
Stream(p) == got[p] \o toPeer[p] \o buffer[p]
Connected(p) == Registered(p) /\ open[p]
Replies(s) == {i \in DOMAIN s : s[i].kind = "reply"}
Events(s) == {i \in DOMAIN s : s[i].kind = "event"}

\* Every request the server has read has its reply, in the order of the
\* requests: a reply is never dropped, repeated or given to another peer.
RepliesMatchRequests ==
  \A p \in Peer : Connected(p) =>
    LET s == Stream(p)
    IN /\ Cardinality(Replies(s)) = sent[p] - Len(toServer[p])
       /\ \A i \in Replies(s) :
            s[i].to = script[p][Cardinality({j \in Replies(s) : j <= i})]

\* The replies in s about the subscription to e that were prepared before the
\* event n.
About(s, e, n) ==
  {i \in Replies(s) : /\ s[i].to.type \in {"subscribe", "unsubscribe"}
                      /\ s[i].to.arg = e /\ s[i].ok /\ s[i].at < n}

\* The last of them is to a subscription.
Subscribed(s, e, n) ==
  \E i \in About(s, e, n) : /\ s[i].to.type = "subscribe"
                            /\ \A j \in About(s, e, n) : j <= i

\* A subscriber is sent every event of its types published between the reply
\* to its subscription and the reply that ends it, once, in the order of
\* publication, and no other event.
SubscribersInformed ==
  \A p \in Peer : Connected(p) =>
    LET s == Stream(p)
    IN /\ \A i, j \in Events(s) : i < j => s[i].n < s[j].n
       /\ \A i \in Events(s) : s[i].event = log[s[i].n]
       /\ {s[i].n : i \in Events(s)} =
            {n \in DOMAIN log : Subscribed(s, log[n], n)}

\* The peers see a server that answers requests and publishes events at once
\* (IpcService): the buffers of the server, what the sockets hold, the order in
\* which epoll_wait() reports descriptors and the end of either side do not
\* show, and none of it loses, repeats or reorders a message.
Served(p) == pc[p] # "off" /\ open[p] /\ ~closed[p]

\* What the scripts ask for.
Asked == UNION {ToSet(s[p]) : s \in Scripts, p \in Peer}

Service ==
  INSTANCE IpcService WITH
    Request <- Asked,
    conn <- [p \in Peer |-> IF pc[p] = "off" THEN "new"
                            ELSE IF Served(p) THEN "served" ELSE "over"],
    pending <- [p \in Peer |-> IF Served(p) THEN toServer[p] ELSE << >>],
    interests <- [p \in Peer |-> IF Served(p) THEN subscriptions[p] ELSE {}],
    told <- [p \in Peer |-> IF Served(p) THEN Stream(p) ELSE << >>],
    published <- log

ImplementsService == Service!Spec

\* A message waits in a client's buffer only while run() is told when the
\* client can take it.
BufferWatched ==
  \A p \in Peer : Registered(p) /\ buffer[p] # << >> => epollout[p]

\* A peer that waits gets an answer, or learns that the connection is lost.
EveryRequestAnswered ==
  \A p \in Peer : pc[p] = "waiting" ~> pc[p] # "waiting"

\* A peer whose process is gone does not stay in the list of clients.
GonePeersDropped ==
  \A p \in Peer : pc[p] = "exited" ~> ~Registered(p)

\* run(): the handlers are called for every event that Xlib has fetched.
XEventsHandled == (Alive /\ xevents = "queue") ~> ~(Alive /\ xevents = "queue")

\* ipc_write_message(): an error of write() is returned, it does not end dwm.
WriteErrorsReturned == running # "killed"
=============================================================================
