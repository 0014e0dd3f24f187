------------------------------- MODULE QtServer ------------------------------
(***************************************************************************)
(* QtHelloServer around its PipeServer: the bootstrap thread of the        *)
(* injected library, the event loop of the application's GUI thread, which *)
(* runs the slots start(), stop() and processRequest(), and the pipe       *)
(* thread, which blocks in a BlockingQueuedConnection for every request.   *)
(* The steps of the pipe thread, of the kernel and of the clients are      *)
(* those of PipeServer.                                                    *)
(***************************************************************************)
EXTENDS PipeServer

CONSTANTS
    MaxShutdowns,   \* bound: calls of shutdown()
    Modal           \* whether a request may open a modal dialog

ASSUME QtAssumption == MaxShutdowns \in Nat /\ Modal \in BOOLEAN

VARIABLES
    boot,           \* bootstrap(): "waiting", "gave up" or "done"
    app,            \* QCoreApplication: "absent", "looping" or "exited"
    events,         \* events posted to the GUI thread
    request,        \* processRequest: "none", "posted" or "modal"
    m_pipeServer,   \* the unique_ptr is not null
    shutdowns

qtVars == <<boot, app, events, request, m_pipeServer, shutdowns>>
allVars == <<vars, qtVars>>

QtInit ==
    /\ Init
    /\ boot = "waiting" /\ app = "absent" /\ events = <<>>
    /\ request = "none" /\ m_pipeServer = FALSE /\ shutdowns = 0

isRunning == m_pipeServer /\ m_running

-----------------------------------------------------------------------------
(* The bootstrap thread.                                                   *)

appLoops ==
    /\ app = "absent" /\ app' = "looping"
    /\ UNCHANGED <<vars, boot, events, request, m_pipeServer, shutdowns>>

\* Mutant: the thread does not end when start() is queued.
bootstrapAgain ==
    /\ boot = "waiting" /\ app = "looping"
    /\ events' = Append(events, "start")
    /\ UNCHANGED <<vars, boot, app, request, m_pipeServer, shutdowns>>

\* waitForGuiLoop returns TRUE, and start() is queued on the GUI thread.
bootstrap ==
    /\ boot = "waiting" /\ app = "looping"
    /\ boot' = "done" /\ events' = Append(events, "start")
    /\ UNCHANGED <<vars, app, request, m_pipeServer, shutdowns>>

\* QT_INJECTED_WAIT_MS have passed.
bootstrapTimeout ==
    /\ boot = "waiting" /\ boot' = "gave up"
    /\ UNCHANGED <<vars, app, events, request, m_pipeServer, shutdowns>>

\* The library is about to be unloaded.
shutdown ==
    /\ shutdowns < MaxShutdowns /\ shutdowns' = shutdowns + 1
    /\ events' = IF isRunning THEN Append(events, "stop") ELSE events
    /\ UNCHANGED <<vars, boot, app, request, m_pipeServer>>

-----------------------------------------------------------------------------
(* The GUI thread takes an event when it is in no slot, or in the nested   *)
(* loop of a modal dialog a request has opened.                            *)

takes(event) ==
    /\ app = "looping" /\ stopper = "idle" /\ thread # "dead"
    /\ events # <<>> /\ Head(events) = event
    /\ events' = Tail(events)

startSlot ==
    /\ takes("start")
    /\ \/ isRunning /\ UNCHANGED <<vars, m_pipeServer>>
       \/ ~isRunning /\ start /\ m_pipeServer' = TRUE
    /\ UNCHANGED <<boot, app, request, shutdowns>>

\* Mutant: the thread is joined without being told to stop.
stopSlotJoins ==
    /\ takes("stop") /\ m_pipeServer
    /\ stopper' = "join" /\ stops' = stops + 1
    /\ UNCHANGED <<serverVars, threadVars, sockVars, connVars, clientVars, handled,
                   appFiles, signals, foreign>>
    /\ UNCHANGED <<boot, app, request, m_pipeServer, shutdowns>>

stopSlot ==
    /\ takes("stop")
    /\ IF m_pipeServer THEN stopBegin ELSE UNCHANGED vars
    /\ UNCHANGED <<boot, app, request, m_pipeServer, shutdowns>>

\* Mutant: the object is reset before its thread is joined.
stopSlotResets ==
    /\ app = "looping" /\ stopSteps
    /\ m_pipeServer' = FALSE
    /\ UNCHANGED <<boot, app, events, request, shutdowns>>

\* The rest of PipeServer::stop, then m_pipeServer.reset().
stopSlotGoesOn ==
    /\ app = "looping" /\ stopSteps
    /\ m_pipeServer' = (m_pipeServer /\ stopper' # "idle")
    /\ UNCHANGED <<boot, app, events, request, shutdowns>>

\* Mutant: a QueuedConnection, which does not wait for processRequest.
postRequestQueued ==
    /\ handlerReturn /\ request = "none"
    /\ request' = "posted" /\ events' = Append(events, "request")
    /\ UNCHANGED <<boot, app, m_pipeServer, shutdowns>>

\* The pipe thread queues processRequest and blocks.
postRequest ==
    /\ thread = "handler" /\ request = "none"
    /\ request' = "posted" /\ events' = Append(events, "request")
    /\ UNCHANGED <<vars, boot, app, m_pipeServer, shutdowns>>

\* Mutant: processRequest ends without a reply.
processRequestLost ==
    /\ takes("request")
    /\ request' = "none"
    /\ UNCHANGED <<vars, boot, app, m_pipeServer, shutdowns>>

\* processRequest returns and its semaphore lets the pipe thread go on.
processRequest ==
    /\ takes("request") /\ handlerReturn
    /\ request' = "none"
    /\ UNCHANGED <<boot, app, m_pipeServer, shutdowns>>

\* InvokeMethod of a slot that runs a dialog: processRequest does not return
\* until the dialog is closed, and events are taken meanwhile.
openDialog ==
    /\ Modal /\ takes("request")
    /\ request' = "modal"
    /\ UNCHANGED <<vars, boot, app, m_pipeServer, shutdowns>>

closeDialog ==
    /\ request = "modal" /\ app = "looping" /\ stopper = "idle" /\ handlerReturn
    /\ request' = "none"
    /\ UNCHANGED <<boot, app, events, m_pipeServer, shutdowns>>

\* The event loop returns; the process lives on until its destructors ran.
appExits ==
    /\ app = "looping" /\ stopper = "idle" /\ request # "modal"
    /\ app' = "exited"
    /\ UNCHANGED <<vars, boot, events, request, m_pipeServer, shutdowns>>

gui == startSlot \/ stopSlot \/ stopSlotGoesOn \/ processRequest

-----------------------------------------------------------------------------
QtNext ==
    \/ appLoops \/ bootstrap \/ bootstrapTimeout \/ shutdown
    \/ gui \/ postRequest \/ openDialog \/ closeDialog \/ appExits
    \/ (run \/ environment) /\ UNCHANGED qtVars

QtSpec == QtInit /\ [][QtNext]_allVars

\* The threads run.  Nobody has to close a dialog, and a request may choose not
\* to open one; the wait of bootstrap() and shutdown() carry no promise.
QtFairSpec ==
    /\ QtSpec
    /\ WF_allVars(run /\ UNCHANGED qtVars) /\ WF_allVars(postRequest)
    /\ WF_allVars(gui) /\ WF_allVars(bootstrap)
    /\ \A c \in Client : WF_allVars(clientSteps(c) /\ UNCHANGED qtVars)

-----------------------------------------------------------------------------
(* Properties.                                                             *)

\* The composition is a PipeServer: the slots call it as it is meant to be used
\* (one start at a time, stop only on a started server).
ImplementsPipeServer == Spec

RequestEvents == {i \in DOMAIN events : events[i] = "request"}

\* A request waits in the queue of the GUI thread exactly while its pipe thread
\* is blocked for it, so two requests are never processed at once, nested event
\* loops included.
OneRequestAtATime ==
    /\ Cardinality(RequestEvents) = (IF request = "posted" THEN 1 ELSE 0)
    /\ request # "none" => thread \in {"handler", "dead"}

\* The pipe thread exists exactly as long as the object that owns it and joins
\* it: a joinable std::thread is never destroyed nor assigned over.
ThreadOwned ==
    /\ m_pipeServer => thread # "none"
    /\ thread \notin {"none", "dead"} => m_pipeServer

\* Every transact() ends, dialogs that are closed again included, unless the
\* event loop ends or somebody calls shutdown().  A dialog that a request has
\* opened and nobody closes holds up its reply and those of the clients behind.
QtTransactEnds ==
    \/ <>[](request = "modal")
    \/ \A c \in Client : client[c] = "sending" ~>
           client[c] \in {"idle", "dead"} \/ app = "exited" \/ shutdowns > 0

\* "Clean stop on the GUI thread": stop() returns to the event loop.
CleanStop == stopper # "idle" ~> stopper = "idle"

\* stop() found no descriptor for the connection that wakes accept(), and nobody
\* else has connected.
NotWoken == stopper = "unheard join" /\ Accepting /\ accepts = <<>>

\* What does hold of stop(): it returns unless a request is dispatched to the
\* GUI thread, which is the one that waits, or the descriptor table was full
\* when it wanted to wake the accept().
StopReturnsOrRequest ==
    stopper # "idle" ~> stopper = "idle" \/ thread = "handler" \/ NotWoken

\* "Safe to call multiple times": however often shutdown() is called, and even
\* when a dialog lets two stop events run in a row, the server is stopped once.
StoppedOnce == stops <= 1
=============================================================================
