----------------------------- MODULE IpcServer -----------------------------
(***************************************************************************)
(* The IPC server of dwm (ipc.c, IPCClient.c) in the event loop run() that *)
(* drives it, and what it sees of the kernel: the sockets, epoll_wait()    *)
(* and the connection to the X server.                                     *)
(*                                                                         *)
(* A Peer is a process that connects at most once, so it also names its    *)
(* connection, the IPCClient and the file descriptor.  A message is        *)
(* written by a peer in one write and is read whole.  accept() leaves the  *)
(* descriptor blocking, so the read and the write of a handler wait, and   *)
(* with them the window manager; the partial write of ipc_write_message()  *)
(* is never seen.  JSON, sizes and file descriptor numbers are left out.   *)
(***************************************************************************)
EXTENDS Integers, FiniteSets, SequencesExt

CONSTANTS
  Peer,      \* the processes that may connect
  NULL,
  Event,     \* the types of event one can subscribe to
  Capacity,  \* bound on the messages a socket holds
  MaxLog     \* bound on the events published

ASSUME IpcAssumption ==
  /\ NULL \notin Peer /\ {"display", "listener"} \cap Peer = {}
  /\ Capacity \in Nat \ {0} /\ MaxLog \in Nat

VARIABLES
  running,   \* of run(): "yes", "no", or the process "stopped" or "killed"
  batch,     \* what epoll_wait() returned and run() has still to handle
  writing,   \* the peer whose ipc_write_message() is under way, or NULL
  clients,   \* ipc_clients
  buffer,    \* IPCClient.buffer, in messages
  subscriptions,
  epollout,  \* whether event.events has EPOLLOUT
  log,       \* the events published so far, by type
  backlog,   \* the connections not accepted yet
  toServer,  \* requests in the socket
  toPeer,    \* messages in the socket
  open,      \* whether the peer has its end of the socket open
  closed,    \* whether the server's end has been closed
  xevents    \* where X events wait: "none" do, only in the "queue" of Xlib,
             \* or some in the "connection" to the X server

loop == <<running, batch, writing>>
tables == <<clients, buffer, subscriptions, epollout, log>>
sockets == <<backlog, toServer, toPeer, open, closed>>

\* ipccommands of config.h: one command for each list of argument types.
ipccommands ==
  [ view |-> <<"uint">>, focusstack |-> <<"sint">>, zoom |-> <<"none">>,
    setmfact |-> <<"float">>, setlayoutsafe |-> <<"ptr">>, quit |-> <<"none">> ]

\* The arguments of run_command: a name and JSON values.
Call == [name : DOMAIN ipccommands \cup {"unknown"},
         args : SeqOf({"negative", "natural", "float", "string"}, 2)]

\* The types of message, and what a message asks for.
Request ==
  [type : {"run_command"}, arg : Call] \cup
  [type : {"subscribe", "unsubscribe"}, arg : Event \cup {"unknown"}] \cup
  [type : {"get", "get_dwm_client", "invalid"}, arg : {"none"}]

\* A reply carries how many events had been published before it, an event its
\* place in the log: neither is in the program.
Message ==
  [kind : {"reply"}, to : Request, ok : BOOLEAN, at : 0 .. MaxLog] \cup
  [kind : {"event"}, event : Event, n : 1 .. MaxLog]

ServerTypeOK ==
  /\ running \in {"yes", "no", "stopped", "killed"}
  /\ batch \subseteq [fd : Peer \cup {"display", "listener"},
                      hup : BOOLEAN, out : BOOLEAN]
  /\ writing \in Peer \cup {NULL}
  /\ clients \in Seq(Peer) /\ IsInjective(clients)
  /\ buffer \in [Peer -> Seq(Message)]
  /\ subscriptions \in [Peer -> SUBSET Event]
  /\ epollout \in [Peer -> BOOLEAN]
  /\ log \in Seq(Event) /\ Len(log) <= MaxLog
  /\ backlog \in Seq(Peer)
  /\ toServer \in [Peer -> Seq(Request)]
  /\ toPeer \in [Peer -> Seq(Message)]
  /\ open \in [Peer -> BOOLEAN] /\ closed \in [Peer -> BOOLEAN]
  /\ xevents \in {"none", "queue", "connection"}

\* setup() has run, and there are no windows yet for scan() to manage.
ServerInit ==
  /\ running = "yes" /\ batch = {} /\ writing = NULL
  /\ clients = << >>
  /\ buffer = [p \in Peer |-> << >>]
  /\ subscriptions = [p \in Peer |-> {}]
  /\ epollout = [p \in Peer |-> FALSE]
  /\ log = << >>
  /\ backlog = << >>
  /\ toServer = [p \in Peer |-> << >>]
  /\ toPeer = [p \in Peer |-> << >>]
  /\ open = [p \in Peer |-> FALSE] /\ closed = [p \in Peer |-> FALSE]
  /\ xevents = "none"

Alive == running \in {"yes", "no"}

-----------------------------------------------------------------------------
(* The event loop                                                          *)

Registered(p) == p \in ToSet(clients)

\* What epoll_wait() reports of a client: EPOLLHUP when the peer is gone,
\* EPOLLOUT when asked for and possible, EPOLLIN in every case here.
ReadyPeers ==
  {[fd |-> p, hup |-> ~open[p],
    out |-> epollout[p] /\ (Len(toPeer[p]) < Capacity \/ ~open[p])] :
     p \in {q \in ToSet(clients) : \/ ~open[q] \/ toServer[q] # << >>
                                   \/ epollout[q] /\ Len(toPeer[q]) < Capacity}}

\* The listening socket and the connection to the X server are registered
\* for EPOLLIN only.
ReadyOthers ==
  {[fd |-> f, hup |-> FALSE, out |-> FALSE] :
     f \in (IF xevents = "connection" THEN {"display"} ELSE {})
           \cup (IF backlog # << >> THEN {"listener"} ELSE {})}

\* run(): epoll_wait() blocks until a descriptor is ready; fewer than
\* MAX_EVENTS of them ever are. The events are handled in the kernel's order,
\* which is any.
EpollWait ==
  /\ running = "yes" /\ batch = {} /\ writing = NULL
  /\ ReadyPeers \cup ReadyOthers # {}
  /\ batch' = ReadyPeers \cup ReadyOthers
  /\ UNCHANGED <<running, writing, tables, sockets, xevents>>

\* The next event of the batch that run() handles: quit does not cut it short.
Handling(e) == Alive /\ writing = NULL /\ e \in batch /\ batch' = batch \ {e}

-----------------------------------------------------------------------------
(* Messages to clients                                                     *)

\* Fault: the messages replace what waits in the buffer.
PrepareSendOver(add) ==
  /\ buffer' = [p \in Peer |-> IF add[p] = << >> THEN buffer[p] ELSE add[p]]
  /\ epollout' = [p \in Peer |-> epollout[p] \/ add[p] # << >>]

\* Fault: the client is not watched for EPOLLOUT.
PrepareSendUnwatched(add) ==
  /\ buffer' = [p \in Peer |-> buffer[p] \o add[p]]
  /\ UNCHANGED epollout

\* ipc_prepare_send_message() of all the messages in add: they go to the end
\* of the client's buffer, and the client is watched for EPOLLOUT.
PrepareSend(add) ==
  /\ buffer' = [p \in Peer |-> buffer[p] \o add[p]]
  /\ epollout' = [p \in Peer |-> epollout[p] \/ add[p] # << >>]

\* ipc_prepare_reply_success() and ipc_prepare_reply_failure().
Reply(r, ok) == [kind |-> "reply", to |-> r, ok |-> ok, at |-> Len(log)]

\* What a handler changes in the window manager: ipc_send_events() finds some
\* events to publish, none or several.
Bursts == {s \in SeqOf(Event, 2) : Len(log) + Len(s) <= MaxLog}

\* ipc_event_prepare_send_message() of one event after the other, to a client
\* that subscribes to types.
Heard(burst, types) ==
  LET heard[n \in 0 .. Len(burst)] ==
        IF n = 0 THEN << >>
        ELSE heard[n - 1] \o
             IF burst[n] \notin types THEN << >>
             ELSE <<[kind |-> "event", event |-> burst[n], n |-> Len(log) + n]>>
  IN heard[Len(burst)]

News(p, burst) ==
  IF Registered(p) THEN Heard(burst, subscriptions[p]) ELSE << >>

\* ipc_send_events(): after a command or an X event.
SendEvents(replies, burst) ==
  /\ PrepareSend([p \in Peer |-> replies[p] \o News(p, burst)])
  /\ log' = log \o burst

\* The reply to one client and nothing to the others.
Only(p, m) == [q \in Peer |-> IF q = p THEN <<m>> ELSE << >>]

-----------------------------------------------------------------------------
(* Clients come and go                                                     *)

\* Fault: ipc_list_add_client() links the client twice.
AcceptClientTwice ==
  \E e \in batch :
    /\ e.fd = "listener" /\ Handling(e)
    /\ clients' = clients \o <<Head(backlog), Head(backlog)>>
    /\ backlog' = Tail(backlog)
    /\ UNCHANGED <<running, writing, buffer, subscriptions, epollout, log,
                   toServer, toPeer, open, closed, xevents>>

\* ipc_handle_socket_epoll_event(), ipc_accept_client(): one connection for
\* each event.
AcceptClient ==
  \E e \in batch :
    /\ e.fd = "listener" /\ Handling(e)
    /\ LET p == Head(backlog)
       IN /\ clients' = Append(clients, p)
          /\ buffer' = [buffer EXCEPT ![p] = << >>]
          /\ subscriptions' = [subscriptions EXCEPT ![p] = {}]
          /\ epollout' = [epollout EXCEPT ![p] = FALSE]
    /\ backlog' = Tail(backlog)
    /\ UNCHANGED <<running, writing, log, toServer, toPeer, open, closed,
                   xevents>>

\* Fault: the client stays in ipc_clients.
DropClientListed(p) ==
  /\ closed' = [closed EXCEPT ![p] = TRUE]
  /\ buffer' = [buffer EXCEPT ![p] = << >>]
  /\ subscriptions' = [subscriptions EXCEPT ![p] = {}]
  /\ epollout' = [epollout EXCEPT ![p] = FALSE]
  /\ toServer' = [toServer EXCEPT ![p] = << >>]
  /\ UNCHANGED clients

\* ipc_drop_client(): what is in the buffer or not yet read is lost.
DropClient(p) ==
  /\ closed' = [closed EXCEPT ![p] = TRUE]
  /\ clients' = RemoveAt(clients, CHOOSE i \in DOMAIN clients : clients[i] = p)
  /\ buffer' = [buffer EXCEPT ![p] = << >>]
  /\ subscriptions' = [subscriptions EXCEPT ![p] = {}]
  /\ epollout' = [epollout EXCEPT ![p] = FALSE]
  /\ toServer' = [toServer EXCEPT ![p] = << >>]

\* ipc_handle_client_epoll_event(), EPOLLHUP.
HangUp ==
  \E e \in batch :
    /\ e.fd \in Peer /\ e.hup /\ Handling(e)
    /\ DropClient(e.fd)
    /\ UNCHANGED <<running, writing, log, backlog, toPeer, open, xevents>>

-----------------------------------------------------------------------------
(* Writing to a client                                                     *)

\* ipc_handle_client_epoll_event(), EPOLLOUT: ipc_write_client(), if there is
\* something to write.
StartWrite ==
  \E e \in batch :
    /\ e.fd \in Peer /\ ~e.hup /\ e.out /\ Handling(e)
    /\ writing' = IF buffer[e.fd] # << >> THEN e.fd ELSE NULL
    /\ UNCHANGED <<running, tables, sockets, xevents>>

\* Fault: EPOLLOUT is given up before everything is written.
WriteMessageOnce ==
  /\ writing # NULL /\ open[writing]
  /\ buffer[writing] # << >> /\ Len(toPeer[writing]) < Capacity
  /\ toPeer' = [toPeer EXCEPT ![writing] = Append(@, Head(buffer[writing]))]
  /\ buffer' = [buffer EXCEPT ![writing] = Tail(@)]
  /\ epollout' = [epollout EXCEPT ![writing] = FALSE]
  /\ writing' = NULL
  /\ UNCHANGED <<running, batch, clients, subscriptions, log, backlog,
                 toServer, open, closed, xevents>>

\* Fault: what has been written stays in the buffer.
WriteMessageAgain ==
  /\ writing # NULL /\ open[writing]
  /\ buffer[writing] # << >> /\ Len(toPeer[writing]) < Capacity
  /\ toPeer' = [toPeer EXCEPT ![writing] = Append(@, Head(buffer[writing]))]
  /\ UNCHANGED <<loop, tables, backlog, toServer, open, closed, xevents>>

\* The loop of ipc_write_message(): write() waits for room in the socket.
WriteMessage ==
  /\ writing # NULL /\ open[writing]
  /\ buffer[writing] # << >> /\ Len(toPeer[writing]) < Capacity
  /\ toPeer' = [toPeer EXCEPT ![writing] = Append(@, Head(buffer[writing]))]
  /\ buffer' = [buffer EXCEPT ![writing] = Tail(@)]
  /\ UNCHANGED <<loop, clients, subscriptions, epollout, log, backlog,
                 toServer, open, closed, xevents>>

\* ipc_write_client() when all is written: no more EPOLLOUT.
FinishWrite ==
  /\ writing # NULL /\ buffer[writing] = << >>
  /\ writing' = NULL
  /\ epollout' = [epollout EXCEPT ![writing] = FALSE]
  /\ UNCHANGED <<running, batch, clients, buffer, subscriptions, log, sockets,
                 xevents>>

\* The end of the process, whatever ends it, closes every socket.
Exit ==
  /\ batch' = {} /\ writing' = NULL
  /\ clients' = << >> /\ backlog' = << >>
  /\ buffer' = [p \in Peer |-> << >>]
  /\ subscriptions' = [p \in Peer |-> {}]
  /\ epollout' = [p \in Peer |-> FALSE]
  /\ toServer' = [p \in Peer |-> << >>]
  /\ closed' = [p \in Peer |-> closed[p] \/ open[p]]
  /\ UNCHANGED <<log, toPeer, open, xevents>>

\* write() to a socket whose other end is closed raises SIGPIPE, which dwm
\* neither handles nor ignores.
WriteToClosed ==
  /\ writing # NULL /\ buffer[writing] # << >> /\ ~open[writing]
  /\ running' = "killed" /\ Exit

\* The loop of run() is left; main() calls cleanup(), with ipc_cleanup().
Cleanup ==
  /\ running = "no" /\ batch = {} /\ writing = NULL
  /\ running' = "stopped" /\ Exit

-----------------------------------------------------------------------------
(* Requests                                                                *)

\* ipc_handle_client_epoll_event(), EPOLLIN: ipc_read_client() reads the next
\* request of client p.
ReadClient(p) ==
  /\ \E e \in batch :
       e.fd = p /\ ~e.hup /\ ~e.out /\ Handling(e)
  /\ toServer' = [toServer EXCEPT ![p] = Tail(@)]

\* ipc_get_monitors(), ipc_get_tags(), ipc_get_layouts(),
\* ipc_get_dwm_client() and the reply to an unknown message type. A window
\* that is not managed is a failure.
Answer(p, r) ==
  /\ r.type \in {"get", "get_dwm_client", "invalid"}
  /\ \E ok \in BOOLEAN :
       /\ r.type = "get" => ok
       /\ r.type = "invalid" => ~ok
       /\ PrepareSend(Only(p, Reply(r, ok)))
  /\ UNCHANGED <<running, clients, subscriptions, log, xevents>>

\* ipc_parse_run_command(): the types of the arguments, a dummy for none.
ParsedTypes(args) ==
  IF args = << >> THEN <<"none">>
  ELSE LET type == [negative |-> "sint", natural |-> "uint",
                    float |-> "float", string |-> "str"]
       IN [i \in DOMAIN args |-> type[args[i]]]

\* ipc_get_ipc_command(), ipc_validate_run_command(): a command of that name
\* takes as many arguments, of these types or of those an unsigned integer is
\* cast to.
Valid(call) ==
  /\ call.name \in DOMAIN ipccommands
  /\ LET parsed == ParsedTypes(call.args)
         actual == ipccommands[call.name]
     IN /\ Len(parsed) = Len(actual)
        /\ \A i \in DOMAIN parsed :
             \/ parsed[i] = actual[i]
             \/ parsed[i] = "uint" /\ actual[i] \in {"ptr", "sint"}

\* ipc_run_command(): the command runs, with a XSync() if it arranges a
\* monitor, and then what has changed is published. XSync() reads the events
\* in the connection into the queue of Xlib.
RunCommand(p, r) ==
  /\ r.type = "run_command" /\ Valid(r.arg)
  /\ running' = IF r.arg.name = "quit" THEN "no" ELSE running
  /\ \E burst \in Bursts :
       /\ r.arg.name = "quit" => burst = << >>
       /\ SendEvents(Only(p, Reply(r, TRUE)), burst)
  /\ \/ UNCHANGED xevents
     \/ r.arg.name # "quit" /\ xevents = "connection" /\ xevents' = "queue"
  /\ UNCHANGED <<clients, subscriptions>>

\* Fault: no reply.
RejectCommandSilently(p, r) ==
  /\ r.type = "run_command" /\ ~Valid(r.arg)
  /\ UNCHANGED <<running, tables, xevents>>

\* ipc_run_command(): no such command, or other arguments than it takes.
RejectCommand(p, r) ==
  /\ r.type = "run_command" /\ ~Valid(r.arg)
  /\ PrepareSend(Only(p, Reply(r, FALSE)))
  /\ UNCHANGED <<running, clients, subscriptions, log, xevents>>

\* ipc_subscribe(): unsubscribing toggles the bit.
Subscribe(p, r) ==
  /\ r.type \in {"subscribe", "unsubscribe"}
  /\ subscriptions' =
       [subscriptions EXCEPT ![p] =
          IF r.arg \notin Event THEN @
          ELSE IF r.type = "unsubscribe" /\ r.arg \in @ THEN @ \ {r.arg}
          ELSE @ \cup {r.arg}]
  /\ PrepareSend(Only(p, Reply(r, r.arg \in Event)))
  /\ UNCHANGED <<running, clients, log, xevents>>

HandleRequest ==
  \E p \in ToSet(clients) :
    /\ ReadClient(p)
    /\ LET r == Head(toServer[p])
       IN Answer(p, r) \/ RunCommand(p, r) \/ RejectCommand(p, r)
          \/ Subscribe(p, r)
    /\ UNCHANGED <<writing, backlog, toPeer, open, closed>>

-----------------------------------------------------------------------------
(* The X server                                                            *)

\* handlexevent(): handles events as long as dwm runs and XPending() finds
\* some, in the queue or the connection. A key may be bound to quit(): then
\* those that are left are never looked at again, and count for "none".
HandleDisplay ==
  \E e \in batch :
    /\ e.fd = "display" /\ Handling(e)
    /\ \/ /\ running = "yes"
          /\ \E burst \in Bursts : SendEvents([p \in Peer |-> << >>], burst)
          /\ running' \in {"yes", "no"}
       \/ running = "no" /\ UNCHANGED <<running, buffer, epollout, log>>
    /\ xevents' = "none"
    /\ UNCHANGED <<writing, clients, subscriptions, sockets>>

\* The X server sends an event while there is someone to read it. The bound on
\* the log bounds the events.
XEvent ==
  /\ running = "yes" /\ Len(log) < MaxLog
  /\ xevents' = "connection"
  /\ UNCHANGED <<loop, tables, sockets>>

\* What the process dwm does.
ServerNext ==
  \/ EpollWait \/ AcceptClient \/ HangUp
  \/ StartWrite \/ WriteMessage \/ FinishWrite \/ WriteToClosed
  \/ HandleRequest \/ HandleDisplay \/ Cleanup
=============================================================================
