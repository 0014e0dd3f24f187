------------------------------ MODULE NamedPipe -------------------------------
(***************************************************************************)
(* The channel on Windows: a named pipe with one instance, in message      *)
(* mode, between the Pipe class of channel.py and the loop that serves it  *)
(* in the application.  The loop is Server.Start of the .NET worker or,    *)
(* when Qt holds, the Windows half of PipeServer::run.  Both sides flush   *)
(* after every write, which blocks until the other side has read.          *)
(*                                                                         *)
(* A reply has a size in units of the 64 KB a single ReadFile of the       *)
(* client asks for.                                                        *)
(***************************************************************************)
EXTENDS Integers, Sequences, FiniteSets

CONSTANTS
    Client,     \* Python processes
    Nobody,
    MaxCalls,   \* bound: requests made
    Sizes,      \* sizes of replies, in units of one ReadFile
    Servers     \* the programs: TRUE for PipeServer::run, FALSE for Server.Start

ASSUME NamedPipeAssumption ==
    /\ Nobody \notin Client
    /\ MaxCalls \in Nat /\ Sizes \subseteq Nat \ {0} /\ Servers \subseteq BOOLEAN

Call == 1..MaxCalls

\* The texts the server does not take for requests.
Disconnect == MaxCalls + 1
Shutdown   == MaxCalls + 2
Control    == {Disconnect, Shutdown}

VARIABLES
    Qt,         \* the application runs PipeServer::run
    pipe,       \* the instance: "absent", "disconnected", "listening", "connected", "closing"
    holder,     \* the client whose handle is the other end
    inbound,    \* messages the server has not read
    outbound,   \* what the client has not read of the reply: <<>> or <<call, units>>
    server,     \* where the loop is
    stop, serving,
    client,     \* "idle", "ready" with a handle, "flushing", "reading" or "dead"
    call,       \* the call a client is in, 0 when it wrote no request
    nextCall,
    asked, executed, outcome,   \* history, per call
    delivered,  \* history: <<call, call whose reply was returned for it>>
    cut         \* history: a ReadFile returned part of a reply

pipeVars == <<pipe, holder, inbound, outbound>>
serverVars == <<Qt, server, stop, serving>>
clientVars == <<client, call, nextCall, asked, outcome, delivered, cut>>
vars == <<pipeVars, serverVars, clientVars, executed>>

\* Both servers create the instance before they wait for a client.
Init ==
    /\ Qt \in Servers
    /\ pipe = "listening" /\ holder = Nobody /\ inbound = <<>> /\ outbound = <<>>
    /\ server = "connect" /\ stop = FALSE /\ serving = 0
    /\ client = [c \in Client |-> "idle"] /\ call = [c \in Client |-> 0] /\ nextCall = 1
    /\ asked = [k \in Call |-> FALSE] /\ executed = [k \in Call |-> FALSE]
    /\ outcome = [k \in Call |-> "none"]
    /\ delivered = {} /\ cut = FALSE

-----------------------------------------------------------------------------
(* The server.                                                             *)

\* ConnectNamedPipe.  A client that came and went before the first call makes
\* it fail with ERROR_NO_DATA: PipeServer creates a new instance, while
\* Server.Start disconnects a stream that was never connected, which throws.
connectNamedPipe ==
    /\ server = "connect"
    /\ \/ /\ pipe = "connected" /\ server' = "read"
          /\ UNCHANGED <<pipe, inbound>>
       \/ /\ pipe = "closing" /\ server' = IF Qt THEN "create" ELSE "ended"
          /\ pipe' = "absent" /\ inbound' = <<>>
       \/ /\ pipe \in {"disconnected", "listening"} /\ server' = "waiting"
          /\ pipe' = "listening" /\ UNCHANGED inbound
    /\ UNCHANGED <<holder, outbound, Qt, stop, serving, clientVars, executed>>

connected ==
    /\ server = "waiting" /\ pipe \in {"connected", "closing"}
    /\ server' = "read"
    /\ UNCHANGED <<pipeVars, Qt, stop, serving, clientVars, executed>>

\* readMessage, and the texts that are no requests.  The client's end closed
\* means an empty request to Server.Start, whose reply it then fails to write.
readMessage ==
    /\ server = "read"
    /\ \/ /\ inbound # <<>> /\ inbound' = Tail(inbound)
          /\ serving' = Head(inbound)
          /\ server' = IF Head(inbound) \in Call THEN "handle" ELSE "leave"
          /\ stop' = (Head(inbound) = Shutdown)
       \/ /\ inbound = <<>> /\ pipe = "closing"
          /\ server' = "leave" /\ UNCHANGED <<inbound, serving, stop>>
    /\ UNCHANGED <<Qt, pipe, holder, outbound, clientVars, executed>>

\* Mutant: an exception of the handler is not turned into a reply.
handlerLost ==
    /\ server = "handle"
    /\ executed' = [executed EXCEPT ![serving] = TRUE]
    /\ server' = "read"
    /\ UNCHANGED <<pipeVars, Qt, stop, serving, clientVars>>

handler ==
    /\ server = "handle"
    /\ executed' = [executed EXCEPT ![serving] = TRUE]
    /\ server' = "write"
    /\ UNCHANGED <<pipeVars, Qt, stop, serving, clientVars>>

\* A reply of the .NET worker that cannot be serialised throws out of
\* Server.Start, which disposes of the pipe.
handlerThrows ==
    /\ server = "handle" /\ ~Qt
    /\ executed' = [executed EXCEPT ![serving] = TRUE]
    /\ server' = "ended"
    /\ pipe' = "absent" /\ inbound' = <<>> /\ outbound' = <<>>
    /\ UNCHANGED <<holder, Qt, stop, serving, clientVars>>

writeMessage ==
    /\ server = "write"
    /\ \/ /\ pipe = "connected"
          /\ \E n \in Sizes : outbound' = <<serving, n>>
          /\ server' = "flush"
       \/ /\ pipe = "closing"
          /\ server' = "leave" /\ UNCHANGED outbound
    /\ UNCHANGED <<pipe, holder, inbound, Qt, stop, serving, clientVars, executed>>

\* Mutant: the next request is read before the reply is.
flushNot ==
    /\ server = "flush" /\ server' = "read"
    /\ UNCHANGED <<pipeVars, Qt, stop, serving, clientVars, executed>>

\* FlushFileBuffers, WaitForPipeDrain: until the client has read the reply.
flush ==
    /\ server = "flush" /\ (outbound = <<>> \/ pipe = "closing")
    /\ server' = "read"
    /\ UNCHANGED <<pipeVars, Qt, stop, serving, clientVars, executed>>

afterLeave == IF Qt \/ stop THEN "close" ELSE "connect"

\* DisconnectNamedPipe discards what was not read and breaks the client's handle.
disconnect ==
    /\ server = "leave"
    /\ pipe' = "disconnected" /\ inbound' = <<>> /\ outbound' = <<>>
    /\ server' = afterLeave
    /\ UNCHANGED <<holder, Qt, stop, serving, clientVars, executed>>

afterClose == IF stop THEN "ended" ELSE "create"

closeHandle ==
    /\ server = "close"
    /\ pipe' = "absent"
    /\ server' = afterClose
    /\ UNCHANGED <<holder, inbound, outbound, Qt, stop, serving, clientVars, executed>>

createNamedPipe ==
    /\ server = "create"
    /\ pipe' = "listening" /\ server' = "connect"
    /\ UNCHANGED <<holder, inbound, outbound, Qt, stop, serving, clientVars, executed>>

serverSteps ==
    \/ connectNamedPipe \/ connected \/ readMessage \/ handler \/ handlerThrows \/ writeMessage
    \/ flush \/ disconnect \/ closeHandle \/ createNamedPipe

-----------------------------------------------------------------------------
(* The clients.  ConnectionManager keeps the Pipe of a process for ever, so*)
(* a handle is closed by the end of its process only.                      *)

ClientFrame == UNCHANGED <<serverVars, executed>>

Whole(c) == holder = c /\ pipe = "connected"

\* CreateFile: ERROR_FILE_NOT_FOUND and ERROR_PIPE_BUSY leave nothing behind.
connect(c) ==
    /\ client[c] = "idle" /\ pipe = "listening"
    /\ pipe' = "connected" /\ holder' = c
    /\ client' = [client EXCEPT ![c] = "ready"]
    /\ UNCHANGED <<inbound, outbound, call, nextCall, asked, outcome, delivered, cut>>
    /\ ClientFrame

\* The call of c ends with what it got.
ends(c, step, result) ==
    /\ client' = [client EXCEPT ![c] = step]
    /\ outcome' = IF call[c] = 0 THEN outcome ELSE [outcome EXCEPT ![call[c]] = result]
    /\ call' = [call EXCEPT ![c] = 0]

\* WriteFile.  A handle that is broken raises, and stays in ConnectionManager.
write(c) ==
    /\ client[c] = "ready" /\ nextCall \in Call
    /\ nextCall' = nextCall + 1
    /\ IF Whole(c)
       THEN /\ inbound' = Append(inbound, nextCall)
            /\ asked' = [asked EXCEPT ![nextCall] = TRUE]
            /\ call' = [call EXCEPT ![c] = nextCall]
            /\ client' = [client EXCEPT ![c] = "flushing"]
            /\ UNCHANGED outcome
       ELSE /\ outcome' = [outcome EXCEPT ![nextCall] = "failed"]
            /\ UNCHANGED <<inbound, asked, call, client>>
    /\ UNCHANGED <<pipe, holder, outbound, delivered, cut>>
    /\ ClientFrame

writeControl(c, text) ==
    /\ client[c] = "ready" /\ Whole(c)
    /\ inbound' = Append(inbound, text)
    /\ client' = [client EXCEPT ![c] = "flushing"]
    /\ UNCHANGED <<pipe, holder, outbound, call, nextCall, asked, outcome, delivered, cut>>
    /\ ClientFrame

\* FlushFileBuffers of the client: until the server has read the request.
clientFlush(c) ==
    /\ client[c] = "flushing"
    /\ \/ /\ Whole(c) /\ inbound = <<>>
          /\ client' = [client EXCEPT ![c] = "reading"]
          /\ UNCHANGED <<call, outcome>>
       \/ ~Whole(c) /\ ends(c, "ready", "failed")
    /\ UNCHANGED <<pipeVars, nextCall, asked, delivered, cut>>
    /\ ClientFrame

fits(units) == units <= 1

\* One ReadFile of one unit: a longer reply is cut, its text is no JSON, and
\* the rest stays in the pipe.
read(c) ==
    /\ client[c] = "reading"
    /\ \/ /\ Whole(c) /\ outbound # <<>>
          /\ delivered' = delivered \cup {<<call[c], outbound[1]>>}
          /\ IF fits(outbound[2])
             THEN outbound' = <<>> /\ ends(c, "ready", "answered") /\ UNCHANGED cut
             ELSE /\ outbound' = <<outbound[1], outbound[2] - 1>>
                  /\ cut' = TRUE /\ ends(c, "ready", "failed")
       \/ /\ ~Whole(c) /\ ends(c, "ready", "failed")
          /\ UNCHANGED <<outbound, delivered, cut>>
    /\ UNCHANGED <<pipe, holder, inbound, nextCall, asked>>
    /\ ClientFrame

die(c) ==
    /\ client[c] # "dead" /\ ends(c, "dead", "lost")
    /\ IF Whole(c) THEN pipe' = "closing" /\ outbound' = <<>> ELSE UNCHANGED <<pipe, outbound>>
    /\ UNCHANGED <<holder, inbound, nextCall, asked, delivered, cut>>
    /\ ClientFrame

clientSteps(c) == clientFlush(c) \/ read(c)

Next ==
    \/ serverSteps
    \/ \E c \in Client :
          \/ connect(c) \/ write(c) \/ clientSteps(c) \/ die(c)
          \/ \E text \in Control : writeControl(c, text)

Spec == Init /\ [][Next]_vars

\* The threads of both sides run; nobody has to connect, to call or to die.
FairSpec == Spec /\ WF_vars(serverSteps) /\ \A c \in Client : WF_vars(clientSteps(c))

-----------------------------------------------------------------------------
(* Properties.                                                             *)

ServerSteps == {"create", "connect", "waiting", "read", "handle", "write", "flush", "leave",
    "close", "ended"}
ClientSteps == {"idle", "ready", "flushing", "reading", "dead"}

TypeServer ==
    /\ Qt \in Servers /\ server \in ServerSteps /\ stop \in BOOLEAN
    /\ serving \in Call \cup Control \cup {0}

TypePipe ==
    /\ pipe \in {"absent", "disconnected", "listening", "connected", "closing"}
    /\ holder \in Client \cup {Nobody}
    /\ inbound = <<>> \/ \E m \in Call \cup Control : inbound = <<m>>
    /\ outbound = <<>> \/ outbound \in Call \X (Nat \ {0})

TypeClients ==
    /\ client \in [Client -> ClientSteps]
    /\ call \in [Client -> Call \cup {0}] /\ nextCall \in 1..(MaxCalls + 1)

TypeHistory ==
    /\ asked \in [Call -> BOOLEAN] /\ executed \in [Call -> BOOLEAN]
    /\ outcome \in [Call -> {"none", "answered", "failed", "lost"}]
    /\ delivered \subseteq (Call \cup {0}) \X Call /\ cut \in BOOLEAN

\* The variables have the types of the handles, buffers and texts; a message is
\* written when the one before has been read.
TypeOK == TypeServer /\ TypePipe /\ TypeClients /\ TypeHistory

\* What transact() returns was written in reply to the request it sent, even
\* after a reply that was cut or a text that has none: both flushes keep request
\* and reply in step.
OwnReplies == \A d \in delivered : d[1] = d[2]

\* Every transact() ends, with a reply or an exception, until a reply is longer
\* than the ReadFile of the client: then the server waits for the rest to be read
\* and the client for its next request to be, for ever.
TransactEndsUnlessCut ==
    \A c \in Client : client[c] = "flushing" ~> client[c] \in {"ready", "dead"} \/ cut

-----------------------------------------------------------------------------
(* What a client may rely on is Rpc, as with the socket.                   *)

R == INSTANCE Rpc

\* To its clients the pipe is the remote procedure call the socket is.
ImplementsRpc == R!Spec
=============================================================================
