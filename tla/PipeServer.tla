----------------------------- MODULE PipeServer ------------------------------
(***************************************************************************)
(* The PipeServer of the Qt backend on Linux: a thread that serves one     *)
(* connection of an AF_UNIX socket at a time, and stop(), which another    *)
(* thread calls while the first one may be inside any system call.  The    *)
(* environment is the kernel (descriptor numbers, the accept queue), the   *)
(* Python clients of channel.py, signals, and the application, which opens *)
(* and closes files of its own in the same descriptor table.               *)
(*                                                                         *)
(* Requests and replies are sequences of Chunks pieces, the units in which *)
(* recv() and send() move them; their text is left out.                    *)
(***************************************************************************)
EXTENDS Integers, Sequences, FiniteSets

CONSTANTS
    Client,         \* Python processes
    MaxFd,          \* highest descriptor number the process may hold
    MaxConn,        \* bound: connections made, the one of stop() included
    Backlog,        \* length given to listen() (8 in the source)
    Chunks,         \* pieces of a request and of a reply
    MaxAppFiles,    \* bound: files the application opens
    MaxSignals,     \* bound: system calls interrupted by a signal
    MaxStops,       \* bound: calls of stop()
    MayExit         \* whether the process may end at any moment

ASSUME PipeAssumption ==
    /\ MaxFd \in Nat /\ MaxConn \in Nat /\ Backlog \in Nat /\ Chunks \in Nat \ {0}
    /\ MaxAppFiles \in Nat /\ MaxSignals \in Nat /\ MaxStops \in Nat /\ MayExit \in BOOLEAN

Fd   == 0..MaxFd
Conn == 1..MaxConn
NoFd == -1

\* What a descriptor number refers to: a connection k > 0, or one of these.
Closed   == 0
Listener == -1
AppFile  == -2

VARIABLES
    m_stop, m_running, m_serverFd, m_clientFd,
    hasPath,        \* m_socketPath is not empty
    thread,         \* where run() is; "none" when m_thread is not joinable
    stopper,        \* where stop() is; "idle" when nobody is inside; "unheard join"
                    \* when it could not connect for lack of a descriptor
    tmp,            \* the descriptor closeCurrentPipe has read, per caller
    cur, got, left, \* connection served; chunks read; chunks to be sent
    fds,            \* the descriptor table of the process
    accepts,        \* the accept queue of the listening socket
    listens,        \* the socket file leads to a socket that listens
    sent, shut,     \* per connection: chunks sent by the client; no more will come
    back, taken,    \* per connection: reply chunks the client has to read; has read
    gone,           \* per connection: the client has closed its end
    nextConn,
    client, mine,   \* per client: its step, its connection
    handled,        \* history, per connection: calls of m_handler for it
    outcome,        \* history, per connection: what became of the request
    appFiles, signals, stops,
    foreign         \* history: a descriptor of the application was closed

serverVars == <<m_stop, m_running, m_serverFd, m_clientFd, hasPath, tmp>>
threadVars == <<thread, cur, got, left>>
sockVars   == <<fds, accepts, listens>>
connVars   == <<sent, shut, back, gone, nextConn>>
clientVars == <<client, mine, taken, outcome>>
boundVars  == <<appFiles, signals, stops>>
vars == <<serverVars, threadVars, stopper, sockVars, connVars, clientVars,
          handled, boundVars, foreign>>

Init ==
    /\ m_stop = FALSE /\ m_running = FALSE
    /\ m_serverFd = NoFd /\ m_clientFd = NoFd /\ hasPath = FALSE
    /\ thread = "none" /\ stopper = "idle"
    /\ tmp = [w \in {"run", "stop"} |-> NoFd]
    /\ cur = 0 /\ got = 0 /\ left = 0
    /\ fds = [f \in Fd |-> Closed] /\ accepts = <<>> /\ listens = FALSE
    /\ sent = [k \in Conn |-> 0] /\ shut = [k \in Conn |-> FALSE]
    /\ back = [k \in Conn |-> 0] /\ gone = [k \in Conn |-> FALSE]
    /\ nextConn = 1
    /\ client = [c \in Client |-> "idle"] /\ mine = [c \in Client |-> 0]
    /\ taken = [k \in Conn |-> 0]
    /\ handled = [k \in Conn |-> 0] /\ outcome = [k \in Conn |-> "none"]
    /\ appFiles = 0 /\ signals = 0 /\ stops = 0
    /\ foreign = FALSE

-----------------------------------------------------------------------------
(* The kernel.                                                             *)

FreeFds == {f \in Fd : fds[f] = Closed}

\* A new descriptor gets the lowest free number.
allocate(f, file) ==
    /\ f \in FreeFds /\ \A g \in FreeFds : f <= g
    /\ fds' = [fds EXCEPT ![f] = file]

\* A blocked system call keeps the file it was called on open.
Accepting == thread = "accepting"
InCall == thread \in {"receiving", "sending"}

Listening == listens /\ (Accepting \/ \E f \in Fd : fds[f] = Listener)

\* The server's end of connection k is open.
ServerHas(k) ==
    \/ \E i \in DOMAIN accepts : accepts[i] = k
    \/ \E f \in Fd : fds[f] = k
    \/ InCall /\ cur = k

\* The last reference to the listening socket takes the accept queue with it.
QueueAfter(newFds, stillAccepting, queue) ==
    IF stillAccepting \/ \E f \in Fd : newFds[f] = Listener THEN queue ELSE <<>>

close(fd) ==
    IF fd \in Fd
    THEN /\ fds' = [fds EXCEPT ![fd] = Closed]
         /\ accepts' = QueueAfter(fds', Accepting, accepts)
         /\ foreign' = (foreign \/ fds[fd] = AppFile)
    ELSE UNCHANGED <<fds, accepts, foreign>>

-----------------------------------------------------------------------------
(* closeCurrentPipe, run by either thread: neither m_clientFd nor          *)
(* m_serverFd is atomic or guarded by a lock, so the check, the close and  *)
(* the reset are separate steps.                                           *)

At(w, label) == IF w = "run" THEN thread = label ELSE stopper = label
Goto(w, label) ==
    IF w = "run" THEN thread' = label /\ UNCHANGED stopper
                 ELSE stopper' = label /\ UNCHANGED thread

CheckFd(w, here, fd, yes, no) ==
    /\ At(w, here)
    /\ tmp' = [tmp EXCEPT ![w] = fd]
    /\ Goto(w, IF fd >= 0 THEN yes ELSE no)
    /\ UNCHANGED <<m_stop, m_running, m_serverFd, m_clientFd, hasPath, cur, got, left,
                   sockVars, foreign>>

CloseFd(w, here, next) ==
    /\ At(w, here)
    /\ close(tmp[w])
    /\ Goto(w, next)
    /\ UNCHANGED <<serverVars, cur, got, left, listens>>

ClearClient(w, here, next) ==
    /\ At(w, here)
    /\ m_clientFd' = NoFd
    /\ Goto(w, next)
    /\ UNCHANGED <<m_stop, m_running, m_serverFd, hasPath, tmp, cur, got, left,
                   sockVars, foreign>>

ClearServer(w, here, next) ==
    /\ At(w, here)
    /\ m_serverFd' = NoFd
    /\ Goto(w, next)
    /\ UNCHANGED <<m_stop, m_running, m_clientFd, hasPath, tmp, cur, got, left,
                   sockVars, foreign>>

closeCurrentPipe(w, after) ==
    /\ \/ CheckFd(w, "client?", m_clientFd, "client close", "server?")
       \/ CloseFd(w, "client close", "client clear")
       \/ ClearClient(w, "client clear", "server?")
       \/ CheckFd(w, "server?", m_serverFd, "server close", after)
       \/ CloseFd(w, "server close", "server clear")
       \/ ClearServer(w, "server clear", after)
    /\ UNCHANGED <<connVars, clientVars, handled, boundVars>>

-----------------------------------------------------------------------------
(* PipeServer::start and the thread it creates.                            *)

start ==
    /\ ~m_running /\ thread = "none"
    /\ m_stop' = FALSE
    /\ thread' = "begin"
    /\ UNCHANGED <<m_running, m_serverFd, m_clientFd, hasPath, tmp, stopper, cur, got, left,
                   sockVars, connVars, clientVars, handled, boundVars, foreign>>

\* The frame of a step of run() that only reads the socket state.
ThreadOnly == UNCHANGED <<stopper, m_stop, hasPath, tmp, connVars, clientVars, boundVars>>

runBegin ==
    /\ thread = "begin"
    /\ m_running' = TRUE /\ hasPath' = TRUE
    /\ listens' = FALSE                               \* unlink()
    /\ thread' = "socket"
    /\ UNCHANGED <<stopper, m_stop, m_serverFd, m_clientFd, tmp, cur, got, left, fds, accepts,
                   connVars, clientVars, handled, boundVars, foreign>>

openSocket ==
    /\ thread = "socket"
    /\ \/ /\ FreeFds = {}
          /\ m_running' = FALSE /\ thread' = "done"
          /\ UNCHANGED <<m_serverFd, fds>>
       \/ /\ \E f \in Fd : allocate(f, Listener) /\ m_serverFd' = f
          /\ thread' = "bind" /\ UNCHANGED m_running
    /\ UNCHANGED <<m_clientFd, cur, got, left, accepts, listens, handled, foreign>>
    /\ ThreadOnly

\* bind() and listen() fail on a descriptor stop() has closed, and when the
\* path cannot be bound.
bindListen ==
    /\ thread = "bind"
    /\ \/ /\ m_serverFd \in Fd /\ fds[m_serverFd] = Listener
          /\ listens' = TRUE /\ thread' = "loop"
       \/ thread' = "client?" /\ UNCHANGED listens
    /\ UNCHANGED <<m_running, m_serverFd, m_clientFd, cur, got, left, fds, accepts, handled, foreign>>
    /\ ThreadOnly

loopTop ==
    /\ thread = "loop"
    /\ thread' = IF m_stop THEN "client?" ELSE "accept"
    /\ UNCHANGED <<m_running, m_serverFd, m_clientFd, cur, got, left, sockVars, handled, foreign>>
    /\ ThreadOnly

\* accept() blocks on the listening socket, or fails at once.
acceptCall ==
    /\ thread = "accept"
    /\ thread' = IF m_serverFd \in Fd /\ fds[m_serverFd] = Listener THEN "accepting" ELSE "client?"
    /\ UNCHANGED <<m_running, m_serverFd, m_clientFd, cur, got, left, sockVars, handled, foreign>>
    /\ ThreadOnly

\* accept() returns a connection, or EMFILE when the table is full.
acceptReturn ==
    /\ thread = "accepting" /\ accepts # <<>>
    /\ \/ /\ FreeFds = {}
          /\ thread' = "client?"
          /\ accepts' = QueueAfter(fds, FALSE, accepts)
          /\ UNCHANGED <<m_clientFd, cur, got, fds>>
       \/ /\ \E f \in Fd : allocate(f, Head(accepts)) /\ m_clientFd' = f
          /\ accepts' = QueueAfter(fds, FALSE, Tail(accepts))
          /\ cur' = Head(accepts) /\ got' = 0
          /\ thread' = "read"
    /\ UNCHANGED <<m_running, m_serverFd, left, listens, handled, foreign>>
    /\ ThreadOnly

\* The loop of readMessage.
readTop ==
    /\ thread = "read"
    /\ thread' = IF ~m_stop /\ m_clientFd \in Fd /\ fds[m_clientFd] = cur
                 THEN "receiving" ELSE "close"
    /\ UNCHANGED <<m_running, m_serverFd, m_clientFd, cur, got, left, sockVars, handled, foreign>>
    /\ ThreadOnly

\* Mutant: a message that ends before its last piece is given to the handler.
afterMessagePartial(n) == IF n = 0 THEN "close" ELSE "handler"

\* Where run() goes with n chunks: nothing for a probe, the parse error reply
\* for a message cut short.
afterMessage(n) ==
    IF n = 0 THEN "close" ELSE IF n < Chunks THEN "write" ELSE "handler"

recvReturn ==
    /\ thread = "receiving"
    /\ \/ /\ got < sent[cur]
          /\ got' = got + 1 /\ thread' = "read"
          /\ UNCHANGED left
       \/ /\ got = sent[cur] /\ shut[cur]
          /\ thread' = afterMessage(got) /\ left' = Chunks
          /\ UNCHANGED got
    /\ UNCHANGED <<m_running, m_serverFd, m_clientFd, cur, sockVars, handled, foreign>>
    /\ ThreadOnly

\* m_handler returns; what it does meanwhile is the business of QtServer.
handlerReturn ==
    /\ thread = "handler"
    /\ handled' = [handled EXCEPT ![cur] = @ + 1]
    /\ thread' = "write"
    /\ UNCHANGED <<m_running, m_serverFd, m_clientFd, cur, got, left, sockVars, foreign>>
    /\ ThreadOnly

\* Mutant: the remaining length is tested off by one.
writeTopShort ==
    /\ thread = "write"
    /\ thread' = IF left > 1 /\ m_clientFd \in Fd /\ fds[m_clientFd] = cur
                 THEN "sending" ELSE "close"
    /\ UNCHANGED <<m_running, m_serverFd, m_clientFd, cur, got, left, sockVars, handled, foreign>>
    /\ ThreadOnly

\* The loop of writeMessage; send() blocks while the client has a chunk to read.
writeTop ==
    /\ thread = "write"
    /\ thread' = IF left > 0 /\ m_clientFd \in Fd /\ fds[m_clientFd] = cur
                 THEN "sending" ELSE "close"
    /\ UNCHANGED <<m_running, m_serverFd, m_clientFd, cur, got, left, sockVars, handled, foreign>>
    /\ ThreadOnly

sendReturn ==
    /\ thread = "sending"
    /\ \/ /\ ~gone[cur] /\ back[cur] = 0
          /\ back' = [back EXCEPT ![cur] = 1]
          /\ left' = left - 1 /\ thread' = "write"
       \/ /\ gone[cur]
          /\ thread' = "close" /\ UNCHANGED <<back, left>>
    /\ UNCHANGED <<serverVars, stopper, cur, got, sockVars, sent, shut, gone, nextConn,
                   clientVars, handled, boundVars, foreign>>

\* Mutant: the client's descriptor is forgotten and never closed.
closeClientLeak ==
    /\ thread = "close" /\ thread' = "clear"
    /\ UNCHANGED <<m_running, m_serverFd, m_clientFd, cur, got, left, sockVars, handled, foreign>>
    /\ ThreadOnly

closeClient ==
    /\ thread = "close"
    /\ close(m_clientFd)
    /\ thread' = "clear"
    /\ UNCHANGED <<m_running, m_serverFd, m_clientFd, cur, got, left, listens, handled>>
    /\ ThreadOnly

clearClient ==
    /\ ClearClient("run", "clear", "loop")
    /\ UNCHANGED <<connVars, clientVars, handled, boundVars>>

runEnd ==
    /\ thread = "unlink"
    /\ listens' = FALSE /\ m_running' = FALSE
    /\ thread' = "done"
    /\ UNCHANGED <<m_serverFd, m_clientFd, cur, got, left, fds, accepts, handled, foreign>>
    /\ ThreadOnly

\* Mutant: a reply that is interrupted is computed anew.
interruptedAnew ==
    /\ signals < MaxSignals /\ signals' = signals + 1
    /\ \/ thread = "accepting" /\ thread' = "loop" /\ accepts' = QueueAfter(fds, FALSE, accepts)
       \/ thread = "receiving" /\ thread' = "read" /\ UNCHANGED accepts
       \/ thread = "sending" /\ thread' = "handler" /\ UNCHANGED accepts
    /\ UNCHANGED <<serverVars, stopper, cur, got, left, fds, listens, connVars, clientVars,
                   handled, appFiles, stops, foreign>>

\* A signal: EINTR, and the loop the call is in goes round again.
interrupted ==
    /\ signals < MaxSignals /\ signals' = signals + 1
    /\ \/ thread = "accepting" /\ thread' = "loop" /\ accepts' = QueueAfter(fds, FALSE, accepts)
       \/ thread = "receiving" /\ thread' = "read" /\ UNCHANGED accepts
       \/ thread = "sending" /\ thread' = "write" /\ UNCHANGED accepts
    /\ UNCHANGED <<serverVars, stopper, cur, got, left, fds, listens, connVars, clientVars,
                   handled, appFiles, stops, foreign>>

run ==
    \/ runBegin \/ openSocket \/ bindListen \/ loopTop \/ acceptCall \/ acceptReturn
    \/ readTop \/ recvReturn \/ writeTop \/ sendReturn \/ closeClient \/ clearClient
    \/ closeCurrentPipe("run", "unlink") \/ runEnd

-----------------------------------------------------------------------------
(* PipeServer::stop, on the thread of its caller.                          *)

\* The stop() of ~PipeServer finds no thread any more, and nothing to do.
stopBegin ==
    /\ stopper = "idle" /\ thread \notin {"none", "dead"} /\ stops < MaxStops
    /\ m_stop' = TRUE
    /\ stopper' = "client?" /\ stops' = stops + 1
    /\ UNCHANGED <<m_running, m_serverFd, m_clientFd, hasPath, tmp, threadVars, sockVars,
                   connVars, clientVars, handled, appFiles, signals, foreign>>

\* Mutant: the accept() the thread is in is left alone.
stopConnectNot ==
    /\ stopper = "connect" /\ stopper' = "join"
    /\ UNCHANGED <<serverVars, threadVars, sockVars, connVars, clientVars,
                   handled, boundVars, foreign>>

\* Connecting to its own socket wakes the accept() the thread may be in.  The
\* socket takes a descriptor: when the table is full, nobody is woken.
stopConnect ==
    /\ stopper = "connect"
    /\ IF hasPath /\ FreeFds # {} /\ Listening
       THEN /\ Len(accepts) <= Backlog /\ nextConn \in Conn
            /\ accepts' = Append(accepts, nextConn)
            /\ shut' = [shut EXCEPT ![nextConn] = TRUE]
            /\ gone' = [gone EXCEPT ![nextConn] = TRUE]
            /\ nextConn' = nextConn + 1
       ELSE UNCHANGED <<accepts, shut, gone, nextConn>>
    /\ stopper' = IF hasPath /\ FreeFds = {} THEN "unheard join" ELSE "join"
    /\ UNCHANGED <<serverVars, threadVars, fds, listens, sent, back, clientVars,
                   handled, boundVars, foreign>>

stopJoin ==
    /\ stopper \in {"join", "unheard join"} /\ thread = "done"
    /\ thread' = "none" /\ stopper' = "idle"
    /\ UNCHANGED <<serverVars, cur, got, left, sockVars, connVars, clientVars,
                   handled, boundVars, foreign>>

stopSteps == closeCurrentPipe("stop", "connect") \/ stopConnect \/ stopJoin

-----------------------------------------------------------------------------
(* The clients: Pipe.connect probes with a connection that carries nothing,*)
(* Pipe.transact sends a request, half-closes, and reads to the end.       *)

ClientFrame == UNCHANGED <<serverVars, threadVars, stopper, fds, listens, handled, boundVars, foreign>>

\* A connect() that is refused raises and leaves nothing behind.
connectAs(c, step) ==
    /\ client[c] = "idle" /\ nextConn <= MaxConn - MaxStops
    /\ Listening /\ Len(accepts) <= Backlog
    /\ accepts' = Append(accepts, nextConn)
    /\ mine' = [mine EXCEPT ![c] = nextConn]
    /\ client' = [client EXCEPT ![c] = step]
    /\ nextConn' = nextConn + 1
    /\ UNCHANGED <<sent, shut, back, gone, taken, outcome>>
    /\ ClientFrame

probeConnect(c) == connectAs(c, "probing")
transactConnect(c) == connectAs(c, "sending")

\* The client closes its end; what it has not read is lost.
clientClose(c, step, result) ==
    /\ client' = [client EXCEPT ![c] = step]
    /\ shut' = [shut EXCEPT ![mine[c]] = TRUE]
    /\ gone' = [gone EXCEPT ![mine[c]] = TRUE]
    /\ outcome' = [outcome EXCEPT ![mine[c]] = result]
    /\ UNCHANGED <<sent, back, nextConn, mine, taken, accepts>>
    /\ ClientFrame

probeClose(c) == client[c] = "probing" /\ clientClose(c, "idle", "none")

sendChunk(c) ==
    /\ client[c] = "sending" /\ sent[mine[c]] < Chunks
    /\ \/ /\ ServerHas(mine[c])
          /\ sent' = [sent EXCEPT ![mine[c]] = @ + 1]
          /\ UNCHANGED <<clientVars, shut, gone, back, nextConn, accepts>>
          /\ ClientFrame
       \/ ~ServerHas(mine[c]) /\ clientClose(c, "idle", "failed")

shutdownWrite(c) ==
    /\ client[c] = "sending" /\ sent[mine[c]] = Chunks
    /\ client' = [client EXCEPT ![c] = "waiting"]
    /\ shut' = [shut EXCEPT ![mine[c]] = TRUE]
    /\ UNCHANGED <<sent, back, gone, nextConn, mine, taken, outcome, accepts>>
    /\ ClientFrame

recvChunk(c) ==
    /\ client[c] = "waiting" /\ back[mine[c]] > 0
    /\ back' = [back EXCEPT ![mine[c]] = 0]
    /\ taken' = [taken EXCEPT ![mine[c]] = @ + 1]
    /\ UNCHANGED <<client, mine, outcome, sent, shut, gone, nextConn, accepts>>
    /\ ClientFrame

\* The end of the stream: the text is a reply if it is whole, else json.loads
\* (or recv itself, on a connection that was reset) raises.
recvEnd(c) ==
    /\ client[c] = "waiting" /\ back[mine[c]] = 0 /\ ~ServerHas(mine[c])
    /\ clientClose(c, "idle", IF taken[mine[c]] = Chunks THEN "answered" ELSE "failed")

\* The Python process is killed.
die(c) == client[c] \in {"probing", "sending", "waiting"} /\ clientClose(c, "dead", "lost")

clientSteps(c) ==
    probeClose(c) \/ sendChunk(c) \/ shutdownWrite(c) \/ recvChunk(c) \/ recvEnd(c)

-----------------------------------------------------------------------------
(* The application: its files, and its end.                                *)

AppFrame == UNCHANGED <<serverVars, threadVars, stopper, accepts, listens, connVars, clientVars,
                        handled, signals, stops, foreign>>

openFile ==
    /\ appFiles < MaxAppFiles /\ thread # "dead"
    /\ appFiles' = appFiles + 1
    /\ \E f \in Fd : allocate(f, AppFile)
    /\ AppFrame

closeFile(f) ==
    /\ fds[f] = AppFile
    /\ fds' = [fds EXCEPT ![f] = Closed]
    /\ UNCHANGED appFiles
    /\ AppFrame

\* The process ends: the kernel closes everything, the socket file stays.
processExit ==
    /\ MayExit /\ thread # "dead"
    /\ thread' = "dead" /\ stopper' = "idle"
    /\ fds' = [f \in Fd |-> Closed] /\ accepts' = <<>> /\ listens' = FALSE
    /\ UNCHANGED <<serverVars, cur, got, left, connVars, clientVars, handled, boundVars, foreign>>

environment ==
    \/ interrupted
    \/ \E c \in Client : probeConnect(c) \/ transactConnect(c) \/ clientSteps(c) \/ die(c)
    \/ openFile \/ (\E f \in Fd : closeFile(f)) \/ processExit

Next == start \/ run \/ handlerReturn \/ stopBegin \/ stopSteps \/ environment

Spec == Init /\ [][Next]_vars

-----------------------------------------------------------------------------
(* Properties.                                                             *)

\* closeCurrentPipe() and unlink() at the end of run(), and what follows.
Ending == {"client?", "client close", "client clear", "server?", "server close",
           "server clear", "unlink", "done", "dead"}

ThreadSteps == Ending \cup {"none", "begin", "socket", "bind", "loop", "accept", "accepting",
    "read", "receiving", "handler", "write", "sending", "close", "clear"}

StopperSteps == {"idle", "client?", "client close", "client clear", "server?", "server close",
    "server clear", "connect", "join", "unheard join"}

\* The variables have the types of the members and of the kernel's tables.
TypeOK ==
    /\ m_stop \in BOOLEAN /\ m_running \in BOOLEAN /\ hasPath \in BOOLEAN
    /\ m_serverFd \in Fd \cup {NoFd} /\ m_clientFd \in Fd \cup {NoFd}
    /\ tmp \in [{"run", "stop"} -> Fd \cup {NoFd}]
    /\ thread \in ThreadSteps /\ stopper \in StopperSteps
    /\ cur \in Conn \cup {0} /\ got \in 0..Chunks /\ left \in 0..Chunks
    /\ fds \in [Fd -> Conn \cup {Closed, Listener, AppFile}]
    /\ accepts \in Seq(Conn) /\ listens \in BOOLEAN
    /\ sent \in [Conn -> 0..Chunks] /\ shut \in [Conn -> BOOLEAN]
    /\ back \in [Conn -> {0, 1}] /\ gone \in [Conn -> BOOLEAN] /\ nextConn \in 1..(MaxConn + 1)
    /\ client \in [Client -> {"idle", "probing", "sending", "waiting", "dead"}]
    /\ mine \in [Client -> Conn \cup {0}] /\ taken \in [Conn -> 0..Chunks]
    /\ handled \in [Conn -> Nat]
    /\ outcome \in [Conn -> {"none", "answered", "failed", "lost"}]
    /\ appFiles \in Nat /\ signals \in Nat /\ stops \in Nat /\ foreign \in BOOLEAN

\* A client that got a whole reply had its request handled exactly once, and no
\* request is handled twice, however often calls are interrupted or stop() runs.
AnsweredOnce ==
    \A k \in Conn : handled[k] <= 1 /\ (outcome[k] = "answered" => handled[k] = 1)

\* Only a whole request reaches the handler: a probe or a client that died half
\* way through never does.
OnlyWholeRequests ==
    \A k \in Conn : handled[k] > 0 => sent[k] = Chunks

\* When run() is over it has left nothing behind, wherever stop() interrupted
\* it: no descriptor, no socket file, and isRunning() says so.
NothingLeft ==
    thread = "done" =>
        /\ \A f \in Fd : fds[f] \in {Closed, AppFile}
        /\ ~listens /\ ~m_running

\* No close() of the server hits a descriptor of the application.
NoForeignClose == ~foreign

\* A live client that connected gets its whole reply, unless the server ends:
\* by stop(), for lack of descriptors, or with its process.
FailedOnlyAtEnd ==
    \A k \in Conn : outcome[k] = "failed" => stops > 0 \/ thread \in Ending

-----------------------------------------------------------------------------
(* What a client may rely on is Rpc: one call per connection.              *)

Asked == [k \in Conn |-> sent[k] = Chunks]
Executed == [k \in Conn |-> handled[k] > 0]

R == INSTANCE Rpc WITH Call <- Conn, asked <- Asked, executed <- Executed

\* Seen from the clients the server is a remote procedure call that executes
\* each request at most once and answers only what it has executed.
ImplementsRpc == R!Spec
=============================================================================
