------------------------------ MODULE TcpServer ------------------------------
(***************************************************************************)
(* The TCP adapter (net/tcp.cc) serving clients: the TcpSocketAccept task, *)
(* one TcpConnectionHandler task per accepted socket running the           *)
(* endpoint's request loop (main/endpoint.cc) over a TcpStream, the epoll  *)
(* registrations their WaitEvent calls make (EpollEventQueue), and what    *)
(* the kernel does with descriptors, buffers, FIN and RST.                 *)
(*                                                                         *)
(* Tasks run on NumWorkers worker threads; a task keeps its worker until   *)
(* it suspends in WaitEvent or ends, and a blocking system call keeps it   *)
(* too.  Which worker runs which runnable task, and how the reactor wakes  *)
(* workers, is TaskRuntime's: here a fired registration makes its task     *)
(* runnable and any idle worker may take it.                               *)
(*                                                                         *)
(* Data is counted in units: a request is one unit of the client's bytes,  *)
(* a reply is ReplyFlushes flushes of the endpoint's out_buf_ (one send    *)
(* call each), the "[]" answer to a closed stream is one flush, and a      *)
(* socket buffer holds SockBuf units.                                      *)
(***************************************************************************)
EXTENDS Naturals, Sequences, FiniteSets

CONSTANTS
    NumWorkers,     \* worker threads
    Clients,        \* the clients; each connects at most once
    Abrupt,         \* clients that may close before reading their replies
    Stallers,       \* clients that never read their replies
    Requests,       \* requests each client sends when it connects
    ReplyFlushes,   \* send calls one reply takes
    SockBuf,        \* units the client's socket buffers take before send blocks
    Fds,            \* the descriptor numbers the process may still open
    SetupOutcomes   \* how the accept task's socket/fcntl/bind/listen end

ASSUME Abrupt \subseteq Clients /\ Stallers \subseteq Clients
ASSUME SetupOutcomes \subseteq {"listening", "failed"} /\ SetupOutcomes # {}
ASSUME Fds \subseteq Nat \ {0} /\ Fds # {}

Acceptor == "accept"
Tasks == {Acceptor} \cup Clients
Workers == 1..NumWorkers
None == "none"
NoFd == 0
NoReg == [task |-> None, armed |-> FALSE]

\* A polite client reads all its replies and then closes.
Polite == Clients \ (Abrupt \cup Stallers)

VARIABLES
    on,       \* on[w]: the task worker w runs, or None
    ts,       \* ts[t]: "none", "ready", "running", "waiting" or "done"
    pc,       \* pc[t]: where task t is in its code
    fd,       \* fd[t]: the socket task t owns, NoFd before it has one
    added,    \* added[t]: the is_added_ flag of t's EventSource
    reg,      \* reg[f]: epoll's registration of descriptor f, or NoReg
    owner,    \* owner[f]: the task whose socket descriptor f is, or None
    backlog,  \* the listening socket's queue of connected clients
    cst,      \* cst[c]: "idle", "connected" or "closed" (the client side)
    srvIn,    \* srvIn[c]: request units in the server socket's receive queue
    cliIn,    \* cliIn[c]: reply units in the client's buffers, unread
    got,      \* got[c]: reply units client c has read
    rst,      \* rst[c]: "none", "sent" (RST in flight) or "arrived"
    sockErr,  \* sockErr[c]: the server socket's pending error (sk_err) is set
    rerr,     \* rerr[c]: the TcpStream's read_error_
    werr,     \* werr[c]: the TcpStream's write_error_
    left,     \* left[c]: flushes of the current reply still to send
    alive     \* the process has not been killed

vars == <<on, ts, pc, fd, added, reg, owner, backlog, cst, srvIn, cliIn, got,
          rst, sockErr, rerr, werr, left, alive>>

-----------------------------------------------------------------------------
(* The kernel.                                                             *)

\* socket() and accept() return the lowest descriptor not in use.
FreeFds == {f \in Fds : owner[f] = None}
LowestFree == CHOOSE f \in FreeFds : \A g \in FreeFds : f <= g

\* EPOLLIN, EPOLLHUP or EPOLLERR on descriptor f: a connection waiting in
\* the listening socket's backlog, or a request, a FIN or an RST on a
\* connection.
Readable(f) ==
    LET t == owner[f]
    IN  IF t = Acceptor THEN backlog # <<>>
        ELSE t # None /\ (srvIn[t] > 0 \/ cst[t] = "closed" \/ rst[t] = "arrived")

\* EpollEventQueue::AddEvent for t's EventSource: EPOLL_CTL_MOD if
\* is_added_, else EPOLL_CTL_ADD, which sets is_added_ whether or not it
\* succeeded.  MOD of a descriptor epoll does not hold fails (ENOENT), ADD
\* of one it holds fails (EEXIST); a failure is only logged.
AddEvent(t) ==
    LET f == fd[t]
        ok == IF added[t] THEN reg[f] # NoReg ELSE reg[f] = NoReg
    IN  /\ reg' = IF ok THEN [reg EXCEPT ![f] = [task |-> t, armed |-> TRUE]] ELSE reg
        /\ added' = [added EXCEPT ![t] = TRUE]

\* EpollEventQueue::RemoveEvent: EPOLL_CTL_DEL of the descriptor, whoever
\* registered it; is_added_ is cleared only if that succeeded.
RemoveEvent(t) ==
    LET f == fd[t]
    IN  /\ reg' = [reg EXCEPT ![f] = NoReg]
        /\ added' = IF reg[f] # NoReg THEN [added EXCEPT ![t] = FALSE] ELSE added

-----------------------------------------------------------------------------
(* Tasks on workers.                                                       *)

WorkerOf(t) == CHOOSE w \in Workers : on[w] = t

Running(t) == alive /\ ts[t] = "running"

\* DequeNextTask on an idle worker: a runnable task from any ring.
Pick(w, t) ==
    /\ alive /\ on[w] = None /\ ts[t] = "ready"
    /\ on' = [on EXCEPT ![w] = t]
    /\ ts' = [ts EXCEPT ![t] = "running"]
    /\ UNCHANGED <<pc, fd, added, reg, owner, backlog, cst, srvIn, cliIn, got,
                   rst, sockErr, rerr, werr, left, alive>>

\* TaskContext::WaitEvent(source, Read | ExactlyOnce): the task suspends,
\* and PostTask registers the event on the worker it ran on.
WaitEvent(t, next) ==
    /\ on' = [on EXCEPT ![WorkerOf(t)] = None]
    /\ ts' = [ts EXCEPT ![t] = "waiting"]
    /\ pc' = [pc EXCEPT ![t] = next]
    /\ AddEvent(t)

\* Mutation: PostTask deletes the task and leaves exec_.current_task_ set.
FinishKeepsWorker(t) ==
    /\ on' = on
    /\ ts' = [ts EXCEPT ![t] = "done"]
    /\ pc' = [pc EXCEPT ![t] = "done"]

\* The task's exec returns and PostTask deletes it.
Finish(t) ==
    /\ on' = [on EXCEPT ![WorkerOf(t)] = None]
    /\ ts' = [ts EXCEPT ![t] = "done"]
    /\ pc' = [pc EXCEPT ![t] = "done"]

\* epoll_wait reports an armed registration whose descriptor is ready;
\* EPOLLONESHOT disarms it, and the worker resumes the task whose pointer
\* the registration carries.
Fire(f) ==
    /\ alive /\ reg[f].armed /\ Readable(f)
    /\ ts[reg[f].task] = "waiting"
    /\ reg' = [reg EXCEPT ![f].armed = FALSE]
    /\ ts' = [ts EXCEPT ![reg[f].task] = "ready"]
    /\ UNCHANGED <<on, pc, fd, added, owner, backlog, cst, srvIn, cliIn, got,
                   rst, sockErr, rerr, werr, left, alive>>

-----------------------------------------------------------------------------
(* TcpSocketAccept.                                                        *)

\* The exec up to listen(): an address inet_pton cannot read, or a failed
\* socket, fcntl, bind or listen, logs and returns (Defer closes the
\* socket); otherwise the listening socket takes the lowest descriptor.
AcceptSetup ==
    /\ Running(Acceptor) /\ pc[Acceptor] = "setup"
    /\ \E outcome \in SetupOutcomes :
          IF outcome = "listening" /\ FreeFds # {}
          THEN /\ fd' = [fd EXCEPT ![Acceptor] = LowestFree]
               /\ owner' = [owner EXCEPT ![LowestFree] = Acceptor]
               /\ pc' = [pc EXCEPT ![Acceptor] = "wait"]
               /\ UNCHANGED <<on, ts>>
          ELSE /\ Finish(Acceptor)
               /\ UNCHANGED <<fd, owner>>
    /\ UNCHANGED <<added, reg, backlog, cst, srvIn, cliIn, got, rst, sockErr,
                   rerr, werr, left, alive>>

\* The loop head: WaitEvent(&event_source, Read | ExactlyOnce).
AcceptWait ==
    /\ Running(Acceptor) /\ pc[Acceptor] = "wait"
    /\ WaitEvent(Acceptor, "accept")
    /\ UNCHANGED <<fd, owner, backlog, cst, srvIn, cliIn, got, rst, sockErr,
                   rerr, werr, left, alive>>

\* Mutant: a failed accept ends the task instead of continuing.
AcceptFailEnds == Finish(Acceptor)

\* A failed accept logs and continues: back to the loop head.
AcceptFailed == pc' = [pc EXCEPT ![Acceptor] = "wait"] /\ UNCHANGED <<on, ts>>

\* accept(): with nothing queued it fails with EAGAIN, with no descriptor
\* left with EMFILE, and the loop continues either way (the connection
\* stays queued, so the re-armed registration fires again at once).
\* Otherwise the first queued connection gets the lowest descriptor and
\* PerformAsync<TcpConnectionHandler> queues its handler.
Accept ==
    /\ Running(Acceptor) /\ pc[Acceptor] = "accept"
    /\ IF backlog # <<>> /\ FreeFds # {}
       THEN LET c == Head(backlog) IN
            /\ backlog' = Tail(backlog)
            /\ fd' = [fd EXCEPT ![c] = LowestFree]
            /\ owner' = [owner EXCEPT ![LowestFree] = c]
            /\ ts' = [ts EXCEPT ![c] = "ready"]
            /\ pc' = [pc EXCEPT ![Acceptor] = "wait", ![c] = "start"]
            /\ UNCHANGED on
       ELSE /\ AcceptFailed
            /\ UNCHANGED <<backlog, fd, owner>>
    /\ UNCHANGED <<added, reg, cst, srvIn, cliIn, got, rst, sockErr, rerr,
                   werr, left, alive>>

-----------------------------------------------------------------------------
(* TcpConnectionHandler: Endpoint::Serve over a TcpStream.                 *)

\* The exec builds the stream's name (getpeername), constructs the
\* TcpStream (is_added_ clear) and calls the stream handler, whose
\* ServeCommandMode loop starts with a good reader and writer.
HandlerStart(c) ==
    /\ Running(c) /\ pc[c] = "start"
    /\ pc' = [pc EXCEPT ![c] = "read"]
    /\ UNCHANGED <<on, ts, fd, added, reg, owner, backlog, cst, srvIn, cliIn,
                   got, rst, sockErr, rerr, werr, left, alive>>

\* TcpStream::DoRead, when Execute's lexer needs bytes: WaitEvent(Read |
\* ExactlyOnce) first.
ReadWait(c) ==
    /\ Running(c) /\ pc[c] = "read"
    /\ WaitEvent(c, "recv")
    /\ UNCHANGED <<fd, owner, backlog, cst, srvIn, cliIn, got, rst, sockErr,
                   rerr, werr, left, alive>>

\* recv after the wakeup: queued bytes first (a request, executed, whose
\* reply takes ReplyFlushes sends); then a pending error (ECONNRESET after
\* an RST), which recv clears; then 0 after a FIN or once the error was
\* read.  An error or 0 sets read_error_, and the Run that saw it still
\* answers: the "[]" of an empty program, one flush.  EAGAIN loops back to
\* WaitEvent.
Recv(c) ==
    /\ Running(c) /\ pc[c] = "recv"
    /\ CASE srvIn[c] > 0 ->
              /\ srvIn' = [srvIn EXCEPT ![c] = @ - 1]
              /\ left' = [left EXCEPT ![c] = ReplyFlushes]
              /\ pc' = [pc EXCEPT ![c] = "send"]
              /\ UNCHANGED <<sockErr, rerr>>
         [] sockErr[c] ->
              /\ sockErr' = [sockErr EXCEPT ![c] = FALSE]
              /\ rerr' = [rerr EXCEPT ![c] = "IOError"]
              /\ left' = [left EXCEPT ![c] = 1]
              /\ pc' = [pc EXCEPT ![c] = "send"]
              /\ UNCHANGED srvIn
         [] cst[c] = "closed" \/ rst[c] = "arrived" ->
              /\ rerr' = [rerr EXCEPT ![c] = "Closed"]
              /\ left' = [left EXCEPT ![c] = 1]
              /\ pc' = [pc EXCEPT ![c] = "send"]
              /\ UNCHANGED <<srvIn, sockErr>>
         [] OTHER ->
              /\ pc' = [pc EXCEPT ![c] = "read"]
              /\ UNCHANGED <<srvIn, sockErr, rerr, left>>
    /\ UNCHANGED <<on, ts, fd, added, reg, owner, backlog, cst, cliIn, got,
                   rst, werr, alive>>

\* A blocking send copies only while the client's buffers have room.
SendFits(c) == cliIn[c] < SockBuf

\* One Flush of the reply, TcpStream::DoWrite on the accepted socket, which
\* is blocking (accept does not set O_NONBLOCK): send fails with a pending
\* error (clearing it), raises SIGPIPE once the connection was reset (no
\* MSG_NOSIGNAL, SIGPIPE not ignored: the process dies), goes out to a
\* client that has closed (whose kernel answers with an RST), or copies
\* into the client's buffers, blocking the worker while they are full.
\* JsonSerializer ignores a failed write and flushes the rest.
Flush(c) ==
    /\ Running(c) /\ pc[c] = "send" /\ left[c] > 0
    /\ CASE sockErr[c] ->
              /\ sockErr' = [sockErr EXCEPT ![c] = FALSE]
              /\ werr' = [werr EXCEPT ![c] = "IOError"]
              /\ UNCHANGED <<cliIn, rst, alive>>
         [] rst[c] = "arrived" ->
              /\ alive' = FALSE
              /\ UNCHANGED <<sockErr, werr, cliIn, rst>>
         [] cst[c] = "closed" ->
              /\ rst' = [rst EXCEPT ![c] = IF @ = "none" THEN "sent" ELSE @]
              /\ UNCHANGED <<sockErr, werr, cliIn, alive>>
         [] OTHER ->
              /\ SendFits(c)
              /\ cliIn' = [cliIn EXCEPT ![c] = @ + 1]
              /\ UNCHANGED <<sockErr, werr, rst, alive>>
    /\ left' = [left EXCEPT ![c] = @ - 1]
    /\ UNCHANGED <<on, ts, pc, fd, added, reg, owner, backlog, cst, srvIn, got,
                   rerr>>

\* Mutant: the socket is closed before the TcpStream's destructor runs.
TeardownOrderSwapped == <<"close", "remove">>

\* The handler's scope ends the TcpStream, whose destructor calls
\* RemoveEvent, before close(sock).
TeardownOrder == <<"remove", "close">>

AfterTeardown(step) == IF step = TeardownOrder[1] THEN TeardownOrder[2] ELSE "done"

\* Execute has returned: ServeCommandMode goes on while the reader and the
\* writer are good; otherwise Serve returns and the handler tears down.
EndWrite(c) ==
    /\ Running(c) /\ pc[c] = "send" /\ left[c] = 0
    /\ pc' = [pc EXCEPT ![c] = IF rerr[c] = "None" /\ werr[c] = "None"
                                  THEN "read" ELSE TeardownOrder[1]]
    /\ UNCHANGED <<on, ts, fd, added, reg, owner, backlog, cst, srvIn, cliIn,
                   got, rst, sockErr, rerr, werr, left, alive>>

\* ~TcpStream: RemoveEvent of the stream's descriptor.
DestroyStream(c) ==
    /\ Running(c) /\ pc[c] = "remove"
    /\ RemoveEvent(c)
    /\ IF AfterTeardown("remove") = "done"
       THEN Finish(c)
       ELSE pc' = [pc EXCEPT ![c] = AfterTeardown("remove")] /\ UNCHANGED <<on, ts>>
    /\ UNCHANGED <<fd, owner, backlog, cst, srvIn, cliIn, got, rst, sockErr,
                   rerr, werr, left, alive>>

\* close(sock): the descriptor is free for the next socket or accept, and
\* epoll drops a registration of it with the last reference.
CloseSocket(c) ==
    /\ Running(c) /\ pc[c] = "close"
    /\ owner' = [owner EXCEPT ![fd[c]] = None]
    /\ reg' = [reg EXCEPT ![fd[c]] = NoReg]
    /\ IF AfterTeardown("close") = "done"
       THEN Finish(c)
       ELSE pc' = [pc EXCEPT ![c] = AfterTeardown("close")] /\ UNCHANGED <<on, ts>>
    /\ UNCHANGED <<fd, added, backlog, cst, srvIn, cliIn, got, rst, sockErr,
                   rerr, werr, left, alive>>

-----------------------------------------------------------------------------
(* Clients and the network.                                                *)

Listening == fd[Acceptor] # NoFd /\ ts[Acceptor] # "done"

\* A client connects while the server listens, and sends its requests.
Connect(c) ==
    /\ alive /\ cst[c] = "idle" /\ Listening
    /\ cst' = [cst EXCEPT ![c] = "connected"]
    /\ backlog' = Append(backlog, c)
    /\ srvIn' = [srvIn EXCEPT ![c] = Requests]
    /\ UNCHANGED <<on, ts, pc, fd, added, reg, owner, cliIn, got, rst, sockErr,
                   rerr, werr, left, alive>>

\* A client that reads takes one unit of its replies.
Read(c) ==
    /\ c \notin Stallers /\ cst[c] = "connected" /\ cliIn[c] > 0
    /\ cliIn' = [cliIn EXCEPT ![c] = @ - 1]
    /\ got' = [got EXCEPT ![c] = @ + 1]
    /\ UNCHANGED <<on, ts, pc, fd, added, reg, owner, backlog, cst, srvIn, rst,
                   sockErr, rerr, werr, left, alive>>

\* A polite client closes once it has all its replies, an abrupt one at any
\* time.  Closing with unread data sends an RST instead of a FIN.
Close(c) ==
    /\ cst[c] = "connected"
    /\ c \in Abrupt \/ got[c] = Requests * ReplyFlushes
    /\ cst' = [cst EXCEPT ![c] = "closed"]
    /\ IF cliIn[c] > 0
       THEN rst' = [rst EXCEPT ![c] = "sent"] /\ cliIn' = [cliIn EXCEPT ![c] = 0]
       ELSE UNCHANGED <<rst, cliIn>>
    /\ UNCHANGED <<on, ts, pc, fd, added, reg, owner, backlog, srvIn, got,
                   sockErr, rerr, werr, left, alive>>

\* The RST reaches the server's socket: sk_err is ECONNRESET and both
\* directions are shut down.
RstArrive(c) ==
    /\ rst[c] = "sent"
    /\ rst' = [rst EXCEPT ![c] = "arrived"]
    /\ sockErr' = [sockErr EXCEPT ![c] = TRUE]
    /\ UNCHANGED <<on, ts, pc, fd, added, reg, owner, backlog, cst, srvIn,
                   cliIn, got, rerr, werr, left, alive>>

-----------------------------------------------------------------------------

Init ==
    /\ on = [w \in Workers |-> None]
    /\ ts = [t \in Tasks |-> IF t = Acceptor THEN "ready" ELSE "none"]
    /\ pc = [t \in Tasks |-> IF t = Acceptor THEN "setup" ELSE "idle"]
    /\ fd = [t \in Tasks |-> NoFd]
    /\ added = [t \in Tasks |-> FALSE]
    /\ reg = [f \in Fds |-> NoReg]
    /\ owner = [f \in Fds |-> None]
    /\ backlog = <<>>
    /\ cst = [c \in Clients |-> "idle"]
    /\ srvIn = [c \in Clients |-> 0]
    /\ cliIn = [c \in Clients |-> 0]
    /\ got = [c \in Clients |-> 0]
    /\ rst = [c \in Clients |-> "none"]
    /\ sockErr = [c \in Clients |-> FALSE]
    /\ rerr = [c \in Clients |-> "None"]
    /\ werr = [c \in Clients |-> "None"]
    /\ left = [c \in Clients |-> 0]
    /\ alive = TRUE

AcceptStep == AcceptSetup \/ AcceptWait \/ Accept

HandlerStep(c) ==
    \/ HandlerStart(c) \/ ReadWait(c) \/ Recv(c) \/ Flush(c) \/ EndWrite(c)
    \/ DestroyStream(c) \/ CloseSocket(c)

Next ==
    \/ \E w \in Workers, t \in Tasks : Pick(w, t)
    \/ \E f \in Fds : Fire(f)
    \/ AcceptStep
    \/ \E c \in Clients :
          HandlerStep(c) \/ Connect(c) \/ Read(c) \/ Close(c) \/ RstArrive(c)

\* A runnable task is eventually run, as the rings are FIFO and every
\* worker scans its peers (TaskRuntime's SpawnedTaskStarts and
\* ReadyTaskResumes), and a running fiber goes on; epoll reports a ready armed
\* descriptor and the network delivers an RST.  Clients other than
\* stallers read what arrives; polite ones close once served.  Nothing
\* makes a client connect.
Fairness ==
    /\ \A t \in Tasks : WF_vars(\E w \in Workers : Pick(w, t))
    /\ \A f \in Fds : WF_vars(Fire(f))
    /\ WF_vars(AcceptStep)
    /\ \A c \in Clients : WF_vars(HandlerStep(c)) /\ WF_vars(RstArrive(c))
    /\ \A c \in Clients \ Stallers : WF_vars(Read(c))
    /\ \A c \in Polite : WF_vars(Close(c))

Spec == Init /\ [][Next]_vars /\ Fairness

-----------------------------------------------------------------------------
(* Properties.                                                             *)

\* The variables' types, and the worker/task link PreTask and PostTask keep:
\* a task is running exactly while a worker holds it as current_task_
\* (PreTask asserts the slot is empty, PostTask clears it).
TypeOK ==
    /\ on \in [Workers -> Tasks \cup {None}]
    /\ ts \in [Tasks -> {"none", "ready", "running", "waiting", "done"}]
    /\ owner \in [Fds -> Tasks \cup {None}]
    /\ reg \in [Fds -> {NoReg} \cup [task : Tasks, armed : BOOLEAN]]
    /\ cst \in [Clients -> {"idle", "connected", "closed"}]
    /\ cliIn \in [Clients -> 0..SockBuf]
    /\ got \in [Clients -> 0..Requests * ReplyFlushes]
    /\ \A t \in Tasks : ts[t] = "running" <=> \E w \in Workers : on[w] = t

\* A task suspended in WaitEvent can only be resumed through its own
\* registration: every waiting task's descriptor carries an armed epoll
\* registration whose pointer is that task.  Descriptor numbers are reused
\* by the next accept, so this is about the order of ~TcpStream's
\* RemoveEvent and close(sock) against other workers accepting and
\* registering meanwhile, and about AddEvent's ADD/MOD choice.
WaitersRegistered ==
    \A t \in Tasks :
        ts[t] = "waiting" => reg[fd[t]] = [task |-> t, armed |-> TRUE]

Served(c) == got[c] = Requests * ReplyFlushes /\ pc[c] = "done"

\* Every polite client that connects gets all its replies and its socket
\* closed by the server, however other clients behave: spec 4 says a fiber
\* must not block its worker on a socket, and a client's connection must
\* not take the server down.  Covers the accept loop continuing after
\* EMFILE, the blocking send, and SIGPIPE.
ConnectionsServed ==
    \A c \in Polite : cst[c] = "connected" ~> Served(c)
====
