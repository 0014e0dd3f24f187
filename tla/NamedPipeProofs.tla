--------------------------- MODULE NamedPipeProofs ----------------------------
(***************************************************************************)
(* Machine-checked facts about the named pipe, for any number of clients   *)
(* and calls and either server.                                            *)
(***************************************************************************)
EXTENDS NamedPipe, TLAPS

USE DEF pipeVars, serverVars, clientVars, ClientFrame

\* There is one message in the pipe at most.
LEMMA OneMessage == ASSUME NEW m
                    PROVE  /\ Append(<<>>, m) = <<m>> /\ <<m>> # <<>>
                           /\ Head(<<m>>) = m /\ Tail(<<m>>) = <<>>
OBVIOUS

LEMMA Calls == /\ Call \subseteq Nat \ {0} /\ Call \cap Control = {} /\ 0 \notin Call
               /\ MaxCalls \in Nat /\ Nobody \notin Client
BY NamedPipeAssumption DEF Call, Control, Disconnect, Shutdown

-----------------------------------------------------------------------------
(* Types.                                                                  *)

LEMMA NextTypeServer == TypePipe /\ TypeServer /\ [Next]_vars => TypeServer'
<1> SUFFICES ASSUME TypePipe, TypeServer, [Next]_vars PROVE TypeServer'
  OBVIOUS
<1> USE DEF TypeServer, ServerSteps
<1>1. CASE connectNamedPipe
  BY <1>1 DEF connectNamedPipe
<1>2. CASE connected \/ handler \/ handlerThrows
  BY <1>2 DEF connected, handler, handlerThrows
<1>3. CASE readMessage
  <2>1. CASE inbound # <<>> /\ serving' = Head(inbound)
    <3>1. PICK m \in Call \cup Control : inbound = <<m>>
      BY <2>1 DEF TypePipe
    <3>2. serving' \in Call \cup Control
      BY <2>1, <3>1, OneMessage
    <3>3. server' \in ServerSteps /\ Qt' = Qt /\ stop' \in BOOLEAN
      BY <1>3 DEF readMessage
    <3> QED
      BY <3>2, <3>3
  <2>2. CASE inbound = <<>> /\ serving' = serving
    BY <1>3, <2>2 DEF readMessage
  <2> QED
    BY <1>3, <2>1, <2>2 DEF readMessage
<1>4. CASE writeMessage \/ flush \/ disconnect
  BY <1>4 DEF writeMessage, flush, disconnect, afterLeave
<1>5. CASE closeHandle \/ createNamedPipe
  BY <1>5 DEF closeHandle, createNamedPipe, afterClose
<1>6. ASSUME NEW c \in Client, connect(c) \/ write(c) \/ clientSteps(c) \/ die(c)
      PROVE  TypeServer'
  BY <1>6 DEF connect, write, clientSteps, clientFlush, read, die
<1>7. ASSUME NEW c \in Client, NEW text \in Control, writeControl(c, text)
      PROVE  TypeServer'
  BY <1>7 DEF writeControl
<1>8. CASE UNCHANGED vars
  BY <1>8 DEF vars
<1> QED
  BY <1>1, <1>2, <1>3, <1>4, <1>5, <1>6, <1>7, <1>8 DEF Next, serverSteps

LEMMA NextTypeClients == TypeClients /\ [Next]_vars => TypeClients'
<1> SUFFICES ASSUME TypeClients, [Next]_vars PROVE TypeClients'
  OBVIOUS
<1> USE DEF TypeClients, ClientSteps
<1>1. CASE serverSteps \/ UNCHANGED vars
  BY <1>1 DEF serverSteps, connectNamedPipe, connected, readMessage, handler, handlerThrows,
         writeMessage, flush, disconnect, closeHandle, createNamedPipe, vars
<1>2. ASSUME NEW c \in Client, connect(c)
      PROVE  TypeClients'
  BY <1>2 DEF connect
<1>3. ASSUME NEW c \in Client, write(c)
      PROVE  TypeClients'
  BY <1>3, Calls DEF write, Call
<1>4. ASSUME NEW c \in Client, clientSteps(c) \/ die(c)
      PROVE  TypeClients'
  BY <1>4 DEF clientSteps, clientFlush, read, die, ends
<1>5. ASSUME NEW c \in Client, NEW text \in Control, writeControl(c, text)
      PROVE  TypeClients'
  BY <1>5 DEF writeControl
<1> QED
  BY <1>1, <1>2, <1>3, <1>4, <1>5 DEF Next

-----------------------------------------------------------------------------
(***************************************************************************)
(* Which states of the server go with which states of the instance.        *)
(***************************************************************************)
Sides ==
    /\ server \in {"connect", "waiting"} => pipe # "absent"
    /\ server \in {"read", "handle", "write", "flush", "leave"} => pipe \in {"connected", "closing"}
    /\ server = "close" => pipe = "disconnected"
    /\ server \in {"create", "ended"} => pipe = "absent"

\* What is in the pipe, and when there is nothing.
Buffers ==
    /\ inbound # <<>> => pipe \in {"connected", "closing"} /\ server \notin {"handle", "write"}
    /\ outbound # <<>> => pipe = "connected" /\ server = "flush"
    /\ server \in {"handle", "write"} => serving \in Call

(***************************************************************************)
(* Request and reply in step: what the server works on, or has written and *)
(* nobody has begun to read, is the call its client is in.                 *)
(***************************************************************************)
InStep ==
    pipe = "connected" =>
        /\ holder \in Client /\ client[holder] \in {"ready", "flushing", "reading"}
        /\ inbound # <<>> => client[holder] = "flushing"
        /\ \A m \in Call : inbound = <<m>> => call[holder] = m
        /\ server \in {"handle", "write"} =>
              call[holder] = serving /\ client[holder] \in {"flushing", "reading"}
        /\ inbound = <<>> /\ outbound # <<>> /\ client[holder] \in {"flushing", "reading"} =>
              call[holder] = outbound[1]

\* Calls that were not made yet are blank, and a call belongs to one client.
Fresh == \A k \in Call : k >= nextCall => ~asked[k] /\ ~executed[k] /\ outcome[k] = "none"

Owned ==
    /\ \A c \in Client : call[c] # 0 =>
          /\ call[c] < nextCall /\ asked[call[c]] /\ outcome[call[c]] = "none"
          /\ client[c] \in {"flushing", "reading"}
    /\ \A c, d \in Client : call[c] = call[d] /\ call[c] # 0 => c = d

\* What is still to be executed was asked, and what is answered was executed.
Order ==
    /\ \A m \in Call : inbound = <<m>> => asked[m] /\ ~executed[m]
    /\ server = "handle" => asked[serving] /\ ~executed[serving]
    /\ server = "write" => executed[serving]
    /\ outbound # <<>> => executed[outbound[1]]

LEMMA Reads == ASSUME TypePipe, readMessage
               PROVE  \/ \E m \in Call \cup Control :
                            /\ inbound = <<m>> /\ inbound' = <<>> /\ serving' = m
                            /\ server' = IF m \in Call THEN "handle" ELSE "leave"
                      \/ /\ inbound = <<>> /\ pipe = "closing" /\ server' = "leave"
                         /\ UNCHANGED <<inbound, serving>>
<1>1. CASE inbound = <<>>
  BY <1>1 DEF readMessage
<1>2. CASE inbound # <<>>
  <2>1. PICK m \in Call \cup Control : inbound = <<m>>
    BY <1>2 DEF TypePipe
  <2>2. inbound' = Tail(inbound) /\ serving' = Head(inbound)
        /\ server' = IF Head(inbound) \in Call THEN "handle" ELSE "leave"
    BY <1>2 DEF readMessage
  <2>3. inbound' = <<>> /\ serving' = m /\ server' = IF m \in Call THEN "handle" ELSE "leave"
    BY <2>1, <2>2, OneMessage
  <2> QED
    BY <2>1, <2>3
<1> QED
  BY <1>1, <1>2

\* A client that writes finds the pipe empty.
LEMMA Writes == ASSUME TypePipe, InStep, NEW c \in Client, NEW m,
                       client[c] = "ready", Whole(c), inbound' = Append(inbound, m)
                PROVE  inbound = <<>> /\ inbound' = <<m>>
<1>1. inbound = <<>>
  BY DEF TypePipe, InStep, Whole
<1> QED
  BY <1>1, OneMessage

LEMMA NextTypePipe == TypeServer /\ TypePipe /\ TypeClients /\ Buffers /\ InStep /\ [Next]_vars
                          => TypePipe'
<1> SUFFICES ASSUME TypeServer, TypePipe, TypeClients, Buffers, InStep, [Next]_vars
             PROVE  TypePipe'
  OBVIOUS
<1> USE DEF TypePipe
<1>1. CASE connectNamedPipe \/ connected \/ handler \/ handlerThrows
  BY <1>1 DEF connectNamedPipe, connected, handler, handlerThrows
<1>2. CASE readMessage
  <2>1. UNCHANGED <<pipe, holder, outbound>>
    BY <1>2 DEF readMessage
  <2>2. inbound' = <<>>
    BY <1>2, Reads
  <2> QED
    BY <2>1, <2>2
<1>3. CASE writeMessage
  <2>1. UNCHANGED <<pipe, holder, inbound>>
    BY <1>3 DEF writeMessage
  <2>2. CASE UNCHANGED outbound
    BY <2>1, <2>2
  <2>3. ASSUME NEW n \in Sizes, outbound' = <<serving, n>>
        PROVE  TypePipe'
    <3>1. serving \in Call /\ n \in Nat \ {0}
      BY <1>3, NamedPipeAssumption DEF writeMessage, Buffers
    <3> QED
      BY <2>1, <2>3, <3>1
  <2> QED
    BY <1>3, <2>2, <2>3 DEF writeMessage
<1>4. CASE flush \/ disconnect \/ closeHandle \/ createNamedPipe \/ UNCHANGED vars
  BY <1>4 DEF flush, disconnect, closeHandle, createNamedPipe, vars
<1>5. ASSUME NEW c \in Client, connect(c) \/ clientFlush(c) \/ die(c)
      PROVE  TypePipe'
  BY <1>5 DEF connect, clientFlush, die
<1>6. ASSUME NEW c \in Client, write(c)
      PROVE  TypePipe'
  <2>1. UNCHANGED <<pipe, holder, outbound>> /\ nextCall \in Call /\ client[c] = "ready"
    BY <1>6 DEF write
  <2>2. CASE Whole(c)
    BY <1>6, <2>1, <2>2, Writes DEF write
  <2>3. CASE ~Whole(c)
    BY <1>6, <2>1, <2>3 DEF write
  <2> QED
    BY <2>2, <2>3
<1>7. ASSUME NEW c \in Client, NEW text \in Control, writeControl(c, text)
      PROVE  TypePipe'
  <2>1. UNCHANGED <<pipe, holder, outbound>> /\ client[c] = "ready" /\ Whole(c)
    BY <1>7 DEF writeControl
  <2> QED
    BY <1>7, <2>1, Writes DEF writeControl
<1>8. ASSUME NEW c \in Client, read(c)
      PROVE  TypePipe'
  <2>1. UNCHANGED <<pipe, holder, inbound>>
    BY <1>8 DEF read
  <2>2. CASE outbound' = outbound \/ outbound' = <<>>
    BY <2>1, <2>2
  <2>3. CASE outbound # <<>> /\ ~fits(outbound[2]) /\ outbound' = <<outbound[1], outbound[2] - 1>>
    BY <2>1, <2>3 DEF fits
  <2> QED
    BY <1>8, <2>2, <2>3 DEF read
<1> QED
  BY <1>1, <1>2, <1>3, <1>4, <1>5, <1>6, <1>7, <1>8 DEF Next, serverSteps, clientSteps

LEMMA NextSides == TypePipe /\ Sides /\ [Next]_vars => Sides'
<1> SUFFICES ASSUME TypePipe, Sides, [Next]_vars PROVE Sides'
  OBVIOUS
<1> USE DEF Sides
<1>1. CASE connectNamedPipe \/ connected
  BY <1>1 DEF connectNamedPipe, connected
<1>2. CASE readMessage
  <2>1. pipe' = pipe /\ server = "read" /\ server' \in {"handle", "leave"}
    BY <1>2 DEF readMessage
  <2> QED
    BY <2>1
<1>3. CASE handler \/ handlerThrows \/ writeMessage \/ flush
  BY <1>3 DEF handler, handlerThrows, writeMessage, flush
<1>4. CASE disconnect \/ closeHandle \/ createNamedPipe
  BY <1>4 DEF disconnect, afterLeave, closeHandle, afterClose, createNamedPipe
<1>5. ASSUME NEW c \in Client, connect(c) \/ write(c) \/ clientSteps(c)
      PROVE  Sides'
  BY <1>5 DEF connect, write, clientSteps, clientFlush, read
<1>6. ASSUME NEW c \in Client, die(c)
      PROVE  Sides'
  BY <1>6 DEF die, Whole
<1>7. ASSUME NEW c \in Client, NEW text \in Control, writeControl(c, text)
      PROVE  Sides'
  BY <1>7 DEF writeControl
<1>8. CASE UNCHANGED vars
  BY <1>8 DEF vars
<1> QED
  BY <1>1, <1>2, <1>3, <1>4, <1>5, <1>6, <1>7, <1>8 DEF Next, serverSteps

LEMMA NextBuffers == TypePipe /\ Sides /\ Buffers /\ InStep /\ [Next]_vars => Buffers'
<1> SUFFICES ASSUME TypePipe, Sides, Buffers, InStep, [Next]_vars PROVE Buffers'
  OBVIOUS
<1> USE DEF Buffers
<1>1. CASE connectNamedPipe
  BY <1>1 DEF connectNamedPipe
<1>2. CASE connected \/ handler \/ handlerThrows \/ flush
  BY <1>2 DEF connected, handler, handlerThrows, flush
<1>3. CASE readMessage
  <2>1. UNCHANGED <<pipe, outbound>> /\ server = "read" /\ server' \in {"handle", "leave"}
    BY <1>3 DEF readMessage
  <2>2. inbound' = <<>> /\ (server' = "handle" => serving' \in Call)
    BY <1>3, Reads
  <2> QED
    BY <2>1, <2>2
<1>4. CASE writeMessage
  BY <1>4 DEF writeMessage, Sides
<1>5. CASE disconnect
  BY <1>5 DEF disconnect, afterLeave
<1>6. CASE closeHandle
  BY <1>6 DEF closeHandle, afterClose, Sides
<1>7. CASE createNamedPipe
  BY <1>7 DEF createNamedPipe, Sides
<1>8. ASSUME NEW c \in Client, connect(c)
      PROVE  Buffers'
  BY <1>8 DEF connect
<1>9. ASSUME NEW c \in Client, write(c)
      PROVE  Buffers'
  <2>1. UNCHANGED <<pipe, outbound, server, serving>> /\ client[c] = "ready" /\ nextCall \in Call
    BY <1>9 DEF write
  <2>2. CASE Whole(c)
    BY <2>1, <2>2 DEF Whole, InStep
  <2>3. CASE ~Whole(c)
    BY <1>9, <2>1, <2>3 DEF write
  <2> QED
    BY <2>2, <2>3
<1>10. ASSUME NEW c \in Client, NEW text \in Control, writeControl(c, text)
      PROVE  Buffers'
  BY <1>10 DEF writeControl, Whole, InStep
<1>11. ASSUME NEW c \in Client, clientFlush(c) \/ die(c)
      PROVE  Buffers'
  BY <1>11 DEF clientFlush, die, Whole
<1>12. ASSUME NEW c \in Client, read(c)
      PROVE  Buffers'
  BY <1>12 DEF read
<1>13. CASE UNCHANGED vars
  BY <1>13 DEF vars
<1> QED
  BY <1>1, <1>2, <1>3, <1>4, <1>5, <1>6, <1>7, <1>8, <1>9, <1>10, <1>11, <1>12, <1>13
  DEF Next, serverSteps, clientSteps

-----------------------------------------------------------------------------
(* Request and reply.                                                      *)

LEMMA NextInStep == /\ TypePipe /\ TypeServer /\ TypeClients /\ Sides /\ Buffers /\ Owned /\ InStep
                    /\ [Next]_vars
                    => InStep'
<1> SUFFICES ASSUME TypePipe, TypeServer, TypeClients, Sides, Buffers, Owned, InStep, [Next]_vars
             PROVE  InStep'
  OBVIOUS
<1>a. client \in [Client -> ClientSteps] /\ DOMAIN call = Client
  BY DEF TypeClients
<1> USE DEF InStep
<1>1. CASE connectNamedPipe \/ connected
  BY <1>1 DEF connectNamedPipe, connected
<1>2. CASE readMessage
  <2>1. UNCHANGED <<pipe, holder, outbound, client, call>> /\ server = "read" /\ outbound = <<>>
    BY <1>2 DEF readMessage, Buffers
  <2>2. CASE inbound = <<>> /\ pipe = "closing"
    BY <2>1, <2>2
  <2>3. ASSUME NEW m \in Call \cup Control, inbound = <<m>>, inbound' = <<>>, serving' = m,
               server' = IF m \in Call THEN "handle" ELSE "leave"
        PROVE  InStep'
    <3>1. inbound # <<>>
      BY <2>3, OneMessage
    <3> QED
      BY <2>1, <2>3, <3>1
  <2> QED
    BY <1>2, <2>2, <2>3, Reads
<1>3. CASE handler \/ handlerThrows
  BY <1>3 DEF handler, handlerThrows
<1>4. CASE writeMessage
  <2>1. UNCHANGED <<pipe, holder, inbound, client, call>> /\ server = "write"
        /\ server' \in {"flush", "leave"}
    BY <1>4 DEF writeMessage
  <2>2. CASE pipe = "closing"
    BY <2>1, <2>2
  <2>3. ASSUME NEW n \in Sizes, outbound' = <<serving, n>>, pipe = "connected"
        PROVE  InStep'
    <3>1. outbound'[1] = serving
      BY <2>3
    <3> QED
      BY <2>1, <2>3, <3>1
  <2> QED
    BY <1>4, <2>2, <2>3 DEF writeMessage
<1>5. CASE flush
  BY <1>5 DEF flush
<1>6. CASE disconnect \/ closeHandle \/ createNamedPipe
  BY <1>6 DEF disconnect, closeHandle, createNamedPipe
<1>7. ASSUME NEW c \in Client, connect(c)
      PROVE  InStep'
  <2>1. /\ holder' = c /\ client'[c] = "ready" /\ UNCHANGED <<inbound, outbound, call, server>>
        /\ pipe = "listening"
    BY <1>7, <1>a DEF connect
  <2>2. inbound = <<>> /\ outbound = <<>> /\ server \in {"connect", "waiting"}
    BY <2>1 DEF Buffers, Sides, TypeServer, ServerSteps
  <2> QED
    BY <2>1, <2>2, OneMessage
<1>8. ASSUME NEW c \in Client, write(c)
      PROVE  InStep'
  <2>1. UNCHANGED <<pipe, holder, outbound, server, serving>> /\ client[c] = "ready"
        /\ nextCall \in Call
    BY <1>8 DEF write
  <2>2. CASE Whole(c)
    <3>1. /\ call' = [call EXCEPT ![c] = nextCall]
          /\ client' = [client EXCEPT ![c] = "flushing"]
          /\ inbound' = Append(inbound, nextCall)
      BY <1>8, <2>2 DEF write
    <3>2. inbound' = <<nextCall>>
      BY <2>1, <2>2, <3>1, Writes
    <3>3. \A m : inbound' = <<m>> => m = nextCall
      BY <3>2
    <3>4. holder = c /\ client'[c] = "flushing" /\ call'[c] = nextCall
          /\ server \notin {"handle", "write"} /\ inbound' # <<>>
      BY <1>a, <2>1, <2>2, <3>1, <3>2 DEF Whole
    <3> QED
      BY <2>1, <3>3, <3>4
  <2>3. CASE ~Whole(c)
    BY <1>8, <2>1, <2>3 DEF write
  <2> QED
    BY <2>2, <2>3
<1>9. ASSUME NEW c \in Client, NEW text \in Control, writeControl(c, text)
      PROVE  InStep'
  <2>1. UNCHANGED <<pipe, holder, outbound, server, serving, call>> /\ client[c] = "ready"
        /\ Whole(c) /\ client' = [client EXCEPT ![c] = "flushing"]
        /\ inbound' = Append(inbound, text)
    BY <1>9 DEF writeControl
  <2>2. inbound' = <<text>>
    BY <2>1, Writes
  <2>3. \A m \in Call : inbound' # <<m>>
    BY <2>2, Calls
  <2>4. /\ holder = c /\ client'[c] = "flushing" /\ inbound' # <<>>
        /\ server \notin {"handle", "write"}
    BY <1>a, <2>1, <2>2 DEF Whole
  <2> QED
    BY <2>1, <2>3, <2>4
<1>10. ASSUME NEW c \in Client, clientFlush(c)
      PROVE  InStep'
  <2>1. UNCHANGED <<pipe, holder, inbound, outbound, server, serving>> /\ client[c] = "flushing"
    BY <1>10 DEF clientFlush
  <2>2. CASE Whole(c)
    <3>1. inbound = <<>> /\ client' = [client EXCEPT ![c] = "reading"] /\ call' = call
      BY <1>10, <2>2 DEF clientFlush
    <3> QED
      BY <1>a, <2>1, <2>2, <3>1 DEF Whole
  <2>3. CASE ~Whole(c)
    <3>1. client' = [client EXCEPT ![c] = "ready"] /\ call' = [call EXCEPT ![c] = 0]
      BY <1>10, <2>3 DEF clientFlush, ends
    <3> QED
      BY <1>a, <2>1, <2>3, <3>1 DEF Whole
  <2> QED
    BY <2>2, <2>3
<1>11. ASSUME NEW c \in Client, read(c)
      PROVE  InStep'
  <2>1. UNCHANGED <<pipe, holder, inbound, server, serving>> /\ client[c] = "reading"
        /\ client' = [client EXCEPT ![c] = "ready"] /\ call' = [call EXCEPT ![c] = 0]
    BY <1>11 DEF read, ends
  <2>2. CASE Whole(c)
    <3>1. outbound # <<>> /\ server = "flush"
      BY <1>11, <2>2 DEF read, Buffers
    <3>2. inbound = <<>> /\ client'[c] = "ready" /\ holder = c
      BY <1>a, <2>1, <2>2 DEF Whole
    <3> QED
      BY <2>1, <3>1, <3>2, OneMessage
  <2>3. CASE ~Whole(c)
    <3>1. outbound' = outbound
      BY <1>11, <2>3 DEF read
    <3> QED
      BY <1>a, <2>1, <2>3, <3>1 DEF Whole
  <2> QED
    BY <2>2, <2>3
<1>12. ASSUME NEW c \in Client, die(c)
      PROVE  InStep'
  <2>1. UNCHANGED <<holder, inbound, server, serving>> /\ client' = [client EXCEPT ![c] = "dead"]
        /\ call' = [call EXCEPT ![c] = 0]
    BY <1>12 DEF die, ends
  <2>2. CASE Whole(c)
    BY <1>12, <2>2 DEF die
  <2>3. CASE ~Whole(c)
    BY <1>12, <1>a, <2>1, <2>3 DEF die, Whole
  <2> QED
    BY <2>2, <2>3
<1>13. CASE UNCHANGED vars
  BY <1>13 DEF vars
<1> QED
  BY <1>1, <1>2, <1>3, <1>4, <1>5, <1>6, <1>7, <1>8, <1>9, <1>10, <1>11, <1>12, <1>13
  DEF Next, serverSteps, clientSteps

-----------------------------------------------------------------------------
(* Calls.                                                                  *)

\* What a step of the server does to the calls.
LEMMA ServerCalls == ASSUME serverSteps
                     PROVE  /\ UNCHANGED <<client, call, nextCall, asked, outcome, delivered, cut>>
                            /\ \/ executed' = executed
                               \/ /\ server = "handle" /\ server' \in {"write", "ended"}
                                  /\ executed' = [executed EXCEPT ![serving] = TRUE]
<1>1. CASE handler \/ handlerThrows
  BY <1>1 DEF handler, handlerThrows
<1>2. CASE connectNamedPipe \/ connected \/ readMessage \/ writeMessage
  BY <1>2 DEF connectNamedPipe, connected, readMessage, writeMessage
<1>3. CASE flush \/ disconnect \/ closeHandle \/ createNamedPipe
  BY <1>3 DEF flush, disconnect, closeHandle, createNamedPipe
<1> QED
  BY <1>1, <1>2, <1>3 DEF serverSteps

\* What ends a call does to the calls.
LEMMA CallEnds == ASSUME NEW c \in Client, clientFlush(c) \/ read(c) \/ die(c)
                  PROVE  /\ UNCHANGED <<nextCall, asked, executed>>
                         /\ \/ /\ clientFlush(c) /\ UNCHANGED <<call, outcome>>
                               /\ client' = [client EXCEPT ![c] = "reading"]
                            \/ /\ call' = [call EXCEPT ![c] = 0]
                               /\ \E step \in {"ready", "dead"} :
                                     client' = [client EXCEPT ![c] = step]
                               /\ \E result : outcome' = IF call[c] = 0 THEN outcome
                                                 ELSE [outcome EXCEPT ![call[c]] = result]
<1>1. CASE clientFlush(c)
  BY <1>1 DEF clientFlush, ends
<1>2. CASE read(c)
  BY <1>2 DEF read, ends
<1>3. CASE die(c)
  BY <1>3 DEF die, ends
<1> QED
  BY <1>1, <1>2, <1>3

LEMMA NextHistory == TypeServer /\ TypePipe /\ TypeClients /\ Buffers /\ TypeHistory /\ [Next]_vars
                         => TypeHistory'
<1> SUFFICES ASSUME TypeServer, TypePipe, TypeClients, Buffers, TypeHistory, [Next]_vars
             PROVE  TypeHistory'
  OBVIOUS
<1> USE DEF TypeHistory
<1>1. CASE serverSteps
  BY <1>1, ServerCalls
<1>2. ASSUME NEW c \in Client, connect(c)
      PROVE  TypeHistory'
  BY <1>2 DEF connect
<1>3. ASSUME NEW c \in Client, write(c)
      PROVE  TypeHistory'
  BY <1>3 DEF write
<1>4. ASSUME NEW c \in Client, clientFlush(c) \/ die(c)
      PROVE  TypeHistory'
  BY <1>4 DEF clientFlush, die, ends
<1>5. ASSUME NEW c \in Client, read(c)
      PROVE  TypeHistory'
  <2>1. asked' = asked /\ executed' = executed /\ cut' \in BOOLEAN
        /\ outcome' \in [Call -> {"none", "answered", "failed", "lost"}]
    BY <1>5 DEF read, ends
  <2>2. CASE delivered' = delivered
    BY <2>1, <2>2
  <2>3. CASE outbound # <<>> /\ delivered' = delivered \cup {<<call[c], outbound[1]>>}
    <3>1. call[c] \in Call \cup {0} /\ outbound[1] \in Call
      BY <2>3 DEF TypeClients, TypePipe
    <3> QED
      BY <2>1, <2>3, <3>1
  <2> QED
    BY <1>5, <2>2, <2>3 DEF read
<1>6. ASSUME NEW c \in Client, NEW text \in Control, writeControl(c, text)
      PROVE  TypeHistory'
  BY <1>6 DEF writeControl
<1>7. CASE UNCHANGED vars
  BY <1>7 DEF vars
<1> QED
  BY <1>1, <1>2, <1>3, <1>4, <1>5, <1>6, <1>7 DEF Next, clientSteps

LEMMA NextFresh == TypeClients /\ TypeHistory /\ Buffers /\ Owned /\ Order /\ Fresh /\ [Next]_vars
                       => Fresh'
<1> SUFFICES ASSUME TypeClients, TypeHistory, Buffers, Owned, Order, Fresh, [Next]_vars
             PROVE  Fresh'
  OBVIOUS
<1>a. /\ nextCall \in Nat /\ Call \subseteq Nat /\ 0 \notin Call
      /\ asked \in [Call -> BOOLEAN] /\ executed \in [Call -> BOOLEAN] /\ DOMAIN outcome = Call
      /\ call \in [Client -> Call \cup {0}]
  BY Calls DEF TypeClients, TypeHistory
<1> USE DEF Fresh
<1>1. CASE serverSteps
  <2>1. CASE executed' = executed
    BY <1>1, <2>1, ServerCalls
  <2>2. CASE server = "handle" /\ executed' = [executed EXCEPT ![serving] = TRUE]
    <3>1. serving \in Call /\ asked[serving]
      BY <2>2 DEF Buffers, Order
    <3> QED
      BY <1>a, <1>1, <2>2, <3>1, ServerCalls
  <2> QED
    BY <1>1, <2>1, <2>2, ServerCalls
<1>2. ASSUME NEW c \in Client, write(c)
      PROVE  Fresh'
  <2>1. nextCall' = nextCall + 1 /\ executed' = executed /\ nextCall \in Call
    BY <1>2 DEF write
  <2>2. /\ asked' = asked \/ asked' = [asked EXCEPT ![nextCall] = TRUE]
        /\ outcome' = outcome \/ outcome' = [outcome EXCEPT ![nextCall] = "failed"]
    BY <1>2 DEF write
  <2>3. ASSUME NEW k \in Call, k >= nextCall'
        PROVE  ~asked'[k] /\ ~executed'[k] /\ outcome'[k] = "none"
    <3>1. k >= nextCall /\ k # nextCall
      BY <1>a, <2>1, <2>3
    <3>2. asked'[k] = asked[k] /\ outcome'[k] = outcome[k]
      BY <1>a, <2>2, <3>1
    <3> QED
      BY <2>1, <3>1, <3>2
  <2> QED
    BY <2>3
<1>3. ASSUME NEW c \in Client, clientFlush(c) \/ read(c) \/ die(c)
      PROVE  Fresh'
  <2>1. UNCHANGED <<nextCall, asked, executed>>
    BY <1>3, CallEnds
  <2>2. ASSUME NEW k \in Call, k >= nextCall
        PROVE  outcome'[k] = outcome[k]
    <3>1. call[c] # k
      BY <1>a, <2>2 DEF Owned
    <3> QED
      BY <1>a, <1>3, <3>1, CallEnds
  <2> QED
    BY <2>1, <2>2
<1>4. ASSUME NEW c \in Client, connect(c) \/ \E text \in Control : writeControl(c, text)
      PROVE  Fresh'
  BY <1>4 DEF connect, writeControl
<1>5. CASE UNCHANGED vars
  BY <1>5 DEF vars
<1> QED
  BY <1>1, <1>2, <1>3, <1>4, <1>5 DEF Next, clientSteps

LEMMA Later == \A j, n \in Nat : j < n => j # n /\ j < n + 1
OBVIOUS

LEMMA NextOwned == TypeClients /\ TypeHistory /\ Fresh /\ Owned /\ [Next]_vars => Owned'
<1> SUFFICES ASSUME TypeClients, TypeHistory, Fresh, Owned, [Next]_vars PROVE Owned'
  OBVIOUS
<1>a. /\ nextCall \in Nat /\ Call \subseteq Nat /\ 0 \notin Call
      /\ DOMAIN asked = Call /\ DOMAIN outcome = Call
      /\ call \in [Client -> Call \cup {0}] /\ client \in [Client -> ClientSteps]
  BY Calls DEF TypeClients, TypeHistory
<1> USE DEF Owned
<1>1. CASE serverSteps
  BY <1>1, ServerCalls
<1>2. ASSUME NEW c \in Client, connect(c) \/ \E text \in Control : writeControl(c, text)
      PROVE  Owned'
  <2>1. UNCHANGED <<call, nextCall, asked, outcome>> /\ client[c] \in {"idle", "ready"}
        /\ \A d \in Client \ {c} : client'[d] = client[d]
    BY <1>2, <1>a DEF connect, writeControl
  <2>2. call[c] = 0
    BY <2>1
  <2> QED
    BY <2>1, <2>2
<1>3. ASSUME NEW c \in Client, write(c)
      PROVE  Owned'
  <2>1. nextCall' = nextCall + 1 /\ nextCall \in Call /\ client[c] = "ready"
    BY <1>3 DEF write
  <2>2. CASE Whole(c)
    <3>1. /\ call' = [call EXCEPT ![c] = nextCall] /\ asked' = [asked EXCEPT ![nextCall] = TRUE]
          /\ client' = [client EXCEPT ![c] = "flushing"] /\ outcome' = outcome
      BY <1>3, <2>2 DEF write
    <3>2. call'[c] = nextCall /\ asked'[nextCall] /\ outcome[nextCall] = "none"
          /\ client'[c] = "flushing" /\ nextCall < nextCall'
      BY <1>a, <2>1, <3>1 DEF Fresh
    <3>3. ASSUME NEW d \in Client \ {c}, call[d] # 0
          PROVE  /\ call'[d] = call[d] /\ client'[d] = client[d]
                 /\ call[d] < nextCall' /\ call[d] # nextCall /\ asked'[call[d]]
      <4>a. call[d] \in Call
        BY <1>a, <3>3
      <4>1. call[d] \in Call /\ call[d] \in Nat /\ call[d] < nextCall
        BY <4>a, <1>a, <3>3
      <4>2. call[d] # nextCall /\ call[d] < nextCall'
        BY <1>a, <2>1, <4>1, Later
      <4>3. asked'[call[d]] = asked[call[d]]
        BY <1>a, <3>1, <4>1, <4>2
      <4> QED
        BY <1>a, <3>1, <3>3, <4>2, <4>3
    <3>4. \A d \in Client \ {c} : call'[d] = call[d]
      BY <1>a, <3>1
    <3> QED
      BY <3>1, <3>2, <3>3, <3>4
  <2>3. CASE ~Whole(c)
    <3>1. /\ UNCHANGED <<asked, call, client>>
          /\ outcome' = [outcome EXCEPT ![nextCall] = "failed"]
      BY <1>3, <2>3 DEF write
    <3>2. ASSUME NEW d \in Client, call[d] # 0
          PROVE  call[d] < nextCall' /\ outcome'[call[d]] = outcome[call[d]]
      <4>a. call[d] \in Call
        BY <1>a, <3>2
      <4>1. call[d] \in Call /\ call[d] \in Nat /\ call[d] < nextCall
        BY <4>a, <1>a, <3>2
      <4>2. call[d] # nextCall /\ call[d] < nextCall'
        BY <1>a, <2>1, <4>1, Later
      <4> QED
        BY <1>a, <3>1, <4>1, <4>2
    <3> QED
      BY <3>1, <3>2
  <2> QED
    BY <2>2, <2>3
<1>4. ASSUME NEW c \in Client, clientFlush(c) \/ read(c) \/ die(c)
      PROVE  Owned'
  <2>1. UNCHANGED <<nextCall, asked, executed>>
    BY <1>4, CallEnds
  <2>2. CASE clientFlush(c) /\ client' = [client EXCEPT ![c] = "reading"]
             /\ UNCHANGED <<call, outcome>>
    BY <1>a, <2>1, <2>2
  <2>3. ASSUME call' = [call EXCEPT ![c] = 0],
               NEW step, client' = [client EXCEPT ![c] = step],
               NEW result, outcome' = IF call[c] = 0 THEN outcome
                                      ELSE [outcome EXCEPT ![call[c]] = result]
        PROVE  Owned'
    <3>1. call'[c] = 0 /\ \A d \in Client \ {c} : call'[d] = call[d] /\ client'[d] = client[d]
      BY <1>a, <2>3
    <3>2. ASSUME NEW d \in Client \ {c}, call[d] # 0
          PROVE  outcome'[call[d]] = outcome[call[d]]
      <4>1. call[d] # call[c]
        BY <3>2
      <4> QED
        BY <1>a, <2>3, <3>2, <4>1
    <3> QED
      BY <2>1, <3>1, <3>2
  <2> QED
    BY <1>4, <2>2, <2>3, CallEnds
<1>5. CASE UNCHANGED vars
  BY <1>5 DEF vars
<1> QED
  BY <1>1, <1>2, <1>3, <1>4, <1>5 DEF Next, clientSteps

LEMMA NextOrder == /\ TypePipe /\ TypeServer /\ TypeClients /\ TypeHistory /\ Buffers
                   /\ InStep /\ Fresh /\ Order /\ [Next]_vars
                   => Order'
<1> SUFFICES ASSUME TypePipe, TypeServer, TypeClients, TypeHistory, Buffers, InStep, Fresh,
                    Order, [Next]_vars
             PROVE  Order'
  OBVIOUS
<1>a. /\ nextCall \in Nat /\ Call \subseteq Nat
      /\ asked \in [Call -> BOOLEAN] /\ executed \in [Call -> BOOLEAN]
  BY Calls DEF TypeClients, TypeHistory
<1> USE DEF Order
<1>1. CASE connectNamedPipe \/ connected
  BY <1>1, OneMessage DEF connectNamedPipe, connected
<1>2. CASE readMessage
  <2>1. UNCHANGED <<outbound, asked, executed>> /\ server = "read"
    BY <1>2 DEF readMessage
  <2>2. CASE inbound = <<>> /\ server' = "leave" /\ inbound' = inbound
    BY <2>1, <2>2
  <2>3. ASSUME NEW m \in Call \cup Control, inbound = <<m>>, inbound' = <<>>, serving' = m,
               server' = IF m \in Call THEN "handle" ELSE "leave"
        PROVE  Order'
    <3>1. server' = "handle" => m \in Call
      BY <2>3
    <3>2. \A k \in Call : inbound' # <<k>>
      BY <2>3, OneMessage
    <3>3. server' \in {"handle", "leave"}
      BY <2>3
    <3> QED
      BY <2>1, <2>3, <3>1, <3>2, <3>3
  <2> QED
    BY <1>2, <2>2, <2>3, Reads
<1>3. CASE handler \/ handlerThrows
  <2>1. /\ server = "handle" /\ executed' = [executed EXCEPT ![serving] = TRUE]
        /\ asked' = asked /\ serving' = serving /\ server' \in {"write", "ended"}
        /\ inbound' \in {inbound, <<>>} /\ outbound' \in {outbound, <<>>}
    BY <1>3 DEF handler, handlerThrows
  <2>2. serving \in Call /\ inbound = <<>> /\ outbound = <<>>
    BY <2>1 DEF Buffers
  <2>3. executed'[serving]
    BY <1>a, <2>1, <2>2
  <2>4. inbound' = <<>> /\ outbound' = <<>>
    BY <2>1, <2>2
  <2> QED
    BY <2>1, <2>3, <2>4, OneMessage
<1>4. CASE writeMessage
  <2>1. UNCHANGED <<inbound, serving, asked, executed>> /\ server = "write"
        /\ server' \in {"flush", "leave"}
    BY <1>4 DEF writeMessage
  <2>2. CASE outbound' = outbound
    BY <2>1, <2>2
  <2>3. ASSUME NEW n \in Sizes, outbound' = <<serving, n>>
        PROVE  Order'
    <3>1. outbound'[1] = serving
      BY <2>3
    <3> QED
      BY <2>1, <3>1
  <2> QED
    BY <1>4, <2>2, <2>3 DEF writeMessage
<1>5. CASE flush
  BY <1>5 DEF flush
<1>6. CASE disconnect \/ closeHandle \/ createNamedPipe
  BY <1>6, OneMessage DEF disconnect, afterLeave, closeHandle, afterClose, createNamedPipe
<1>7. ASSUME NEW c \in Client, connect(c)
      PROVE  Order'
  BY <1>7 DEF connect
<1>8. ASSUME NEW c \in Client, write(c)
      PROVE  Order'
  <2>1. UNCHANGED <<outbound, server, serving, executed>> /\ client[c] = "ready"
        /\ nextCall \in Call
    BY <1>8 DEF write
  <2>2. CASE Whole(c)
    <3>1. inbound' = Append(inbound, nextCall) /\ asked' = [asked EXCEPT ![nextCall] = TRUE]
      BY <1>8, <2>2 DEF write
    <3>2. inbound' = <<nextCall>>
      BY <2>1, <2>2, <3>1, Writes
    <3>3. \A m : inbound' = <<m>> => m = nextCall
      BY <3>2
    <3>4. asked'[nextCall] /\ ~executed[nextCall]
      BY <1>a, <2>1, <3>1 DEF Fresh
    <3>5. server = "handle" => serving \in Call /\ asked'[serving]
      BY <1>a, <2>1, <3>1 DEF Buffers
    <3> QED
      BY <2>1, <3>3, <3>4, <3>5
  <2>3. CASE ~Whole(c)
    BY <1>8, <2>1, <2>3 DEF write
  <2> QED
    BY <2>2, <2>3
<1>9. ASSUME NEW c \in Client, NEW text \in Control, writeControl(c, text)
      PROVE  Order'
  <2>1. UNCHANGED <<outbound, server, serving, asked, executed>> /\ client[c] = "ready"
        /\ Whole(c) /\ inbound' = Append(inbound, text)
    BY <1>9 DEF writeControl
  <2>2. inbound' = <<text>>
    BY <2>1, Writes
  <2>3. \A m \in Call : inbound' # <<m>>
    BY <2>2, Calls
  <2> QED
    BY <2>1, <2>3
<1>10. ASSUME NEW c \in Client, clientFlush(c) \/ die(c)
      PROVE  Order'
  BY <1>10 DEF clientFlush, die
<1>11. ASSUME NEW c \in Client, read(c)
      PROVE  Order'
  <2>1. UNCHANGED <<inbound, server, serving, asked, executed>>
    BY <1>11 DEF read
  <2>2. outbound' # <<>> => outbound # <<>> /\ outbound'[1] = outbound[1]
    BY <1>11 DEF read
  <2> QED
    BY <2>1, <2>2
<1>12. CASE UNCHANGED vars
  BY <1>12 DEF vars
<1> QED
  BY <1>1, <1>2, <1>3, <1>4, <1>5, <1>6, <1>7, <1>8, <1>9, <1>10, <1>11, <1>12
  DEF Next, serverSteps, clientSteps

-----------------------------------------------------------------------------
(* The invariant.                                                          *)

PipeInv == TypeOK /\ Sides /\ Buffers /\ InStep /\ Fresh /\ Owned /\ Order

LEMMA Invariant == Spec => []PipeInv
<1>1. Init => TypeOK
  <2>1. Init => TypeServer /\ TypePipe
    BY DEF Init, TypeServer, ServerSteps, TypePipe
  <2>2. Init => TypeClients
    BY Calls DEF Init, TypeClients, ClientSteps
  <2>3. Init => TypeHistory
    BY DEF Init, TypeHistory
  <2> QED
    BY <2>1, <2>2, <2>3 DEF TypeOK
<1>2. Init => Sides /\ Buffers /\ InStep /\ Order
  BY OneMessage DEF Init, Sides, Buffers, InStep, Order
<1>3. Init => Fresh /\ Owned
  BY DEF Init, Fresh, Owned
<1>4. PipeInv /\ [Next]_vars => PipeInv'
  BY NextTypeServer, NextTypePipe, NextTypeClients, NextHistory, NextSides, NextBuffers, NextInStep,
     NextFresh, NextOwned, NextOrder DEF PipeInv, TypeOK
<1> QED
  BY <1>1, <1>2, <1>3, <1>4, PTL DEF Spec, PipeInv

\* Handles, buffers, texts and calls keep their types, and neither buffer ever
\* holds a second message.
THEOREM TypeCorrect == Spec => []TypeOK
BY Invariant, PTL DEF PipeInv

\* What transact() returns is the reply to the request it sent, for any number
\* of clients and calls, either server, and replies of any length.
THEOREM RepliesAreOwn == Spec => []OwnReplies
<1>1. Init => OwnReplies
  BY DEF Init, OwnReplies
<1>2. ASSUME PipeInv, OwnReplies, [Next]_vars PROVE OwnReplies'
  <2>1. CASE delivered' = delivered
    BY <1>2, <2>1 DEF OwnReplies
  <2>2. ASSUME NEW c \in Client, read(c)
        PROVE  OwnReplies'
    <3>1. CASE Whole(c) /\ outbound # <<>>
               /\ delivered' = delivered \cup {<<call[c], outbound[1]>>}
      <4>1. holder = c /\ pipe = "connected" /\ client[c] = "reading"
        BY <2>2, <3>1 DEF read, Whole
      <4>2. call[c] = outbound[1]
        BY <1>2, <3>1, <4>1 DEF PipeInv, InStep
      <4> QED
        BY <1>2, <3>1, <4>2 DEF OwnReplies
    <3> QED
      BY <2>1, <2>2, <3>1 DEF read
  <2>3. CASE serverSteps
    BY <2>1, <2>3, ServerCalls
  <2>4. ASSUME NEW c \in Client, connect(c) \/ write(c) \/ clientFlush(c) \/ die(c)
        PROVE  OwnReplies'
    BY <2>1, <2>4 DEF connect, write, clientFlush, die
  <2>5. ASSUME NEW c \in Client, NEW text \in Control, writeControl(c, text)
        PROVE  OwnReplies'
    BY <2>1, <2>5 DEF writeControl
  <2>6. CASE UNCHANGED vars
    BY <2>1, <2>6 DEF vars
  <2> QED
    BY <1>2, <2>2, <2>3, <2>4, <2>5, <2>6 DEF Next, clientSteps
<1> QED
  BY <1>1, <1>2, Invariant, PTL DEF Spec

-----------------------------------------------------------------------------
(***************************************************************************)
(* The pipe as a remote procedure call: WriteFile of a whole request asks, *)
(* the handler executes, a ReadFile that returns the whole reply answers,  *)
(* and whatever else ends a call fails it.                                 *)
(***************************************************************************)
LEMMA RpcStep == PipeInv /\ [Next]_vars => [R!Next]_R!vars
<1> SUFFICES ASSUME PipeInv, [Next]_vars PROVE [R!Next]_R!vars
  OBVIOUS
<1>a. /\ call \in [Client -> Call \cup {0}] /\ Fresh /\ Owned /\ Order /\ Buffers /\ InStep
      /\ nextCall \in Nat
  BY Calls DEF PipeInv, TypeOK, TypeClients
<1>b. UNCHANGED <<asked, executed, outcome>> => [R!Next]_R!vars
  BY DEF R!vars
<1>1. CASE serverSteps
  <2>1. CASE executed' = executed
    BY <1>1, <1>b, <2>1, ServerCalls
  <2>2. CASE server = "handle" /\ executed' = [executed EXCEPT ![serving] = TRUE]
    <3>1. serving \in Call /\ asked[serving] /\ ~executed[serving]
      BY <1>a, <2>2 DEF Buffers, Order
    <3>2. R!Execute(serving)
      BY <1>1, <2>2, <3>1, ServerCalls DEF R!Execute
    <3> QED
      BY <3>1, <3>2 DEF R!Next
  <2> QED
    BY <1>1, <2>1, <2>2, ServerCalls
<1>2. ASSUME NEW c \in Client, connect(c) \/ \E text \in Control : writeControl(c, text)
      PROVE  [R!Next]_R!vars
  BY <1>2, <1>b DEF connect, writeControl
<1>3. ASSUME NEW c \in Client, write(c)
      PROVE  [R!Next]_R!vars
  <2>1. nextCall \in Call /\ executed' = executed
    BY <1>3 DEF write
  <2>2. ~asked[nextCall] /\ outcome[nextCall] = "none"
    BY <1>a, <2>1 DEF Fresh
  <2>3. CASE Whole(c)
    <3>1. R!Ask(nextCall)
      BY <1>3, <2>1, <2>2, <2>3 DEF write, R!Ask
    <3> QED
      BY <2>1, <3>1 DEF R!Next
  <2>4. CASE ~Whole(c)
    <3>1. R!Fail(nextCall)
      BY <1>3, <2>1, <2>2, <2>4 DEF write, R!Fail
    <3> QED
      BY <2>1, <3>1 DEF R!Next
  <2> QED
    BY <2>3, <2>4
<1>4. ASSUME NEW c \in Client, UNCHANGED <<asked, executed>>,
             NEW result \in {"failed", "lost"}, NEW step, ends(c, step, result)
      PROVE  [R!Next]_R!vars
  <2>1. CASE call[c] = 0
    BY <1>4, <1>b, <2>1 DEF ends
  <2>2. CASE call[c] # 0
    <3>1. call[c] \in Call /\ outcome[call[c]] = "none"
      BY <1>a, <2>2 DEF Owned
    <3>2. R!Fail(call[c])
      BY <1>4, <2>2, <3>1 DEF ends, R!Fail
    <3> QED
      BY <3>1, <3>2 DEF R!Next
  <2> QED
    BY <2>1, <2>2
<1>5. ASSUME NEW c \in Client, clientFlush(c) \/ die(c)
      PROVE  [R!Next]_R!vars
  <2>1. UNCHANGED <<asked, executed>>
    BY <1>5 DEF clientFlush, die
  <2>2. \/ outcome' = outcome
        \/ \E result \in {"failed", "lost"}, step \in {"ready", "dead"} : ends(c, step, result)
    BY <1>5 DEF clientFlush, die
  <2> QED
    BY <1>4, <1>b, <2>1, <2>2
<1>6. ASSUME NEW c \in Client, read(c)
      PROVE  [R!Next]_R!vars
  <2>1. UNCHANGED <<asked, executed>>
    BY <1>6 DEF read
  <2>2. CASE ends(c, "ready", "failed")
    BY <1>4, <2>1, <2>2
  <2>3. CASE Whole(c) /\ outbound # <<>> /\ ends(c, "ready", "answered")
    <3>1. holder = c /\ pipe = "connected" /\ client[c] = "reading"
      BY <1>6, <2>3 DEF read, Whole
    <3>2. call[c] = outbound[1] /\ outbound[1] \in Call
      BY <1>a, <2>3, <3>1 DEF InStep, PipeInv, TypeOK, TypePipe
    <3>3. call[c] # 0 /\ executed[call[c]]
      BY <1>a, <2>3, <3>2, Calls DEF Order
    <3>4. asked[call[c]] /\ outcome[call[c]] = "none"
      BY <1>a, <3>3 DEF Owned
    <3>5. R!Answer(call[c])
      BY <2>1, <2>3, <3>3, <3>4 DEF ends, R!Answer
    <3> QED
      BY <3>2, <3>5 DEF R!Next
  <2> QED
    BY <1>6, <2>2, <2>3 DEF read
<1>7. CASE UNCHANGED vars
  BY <1>7, <1>b DEF vars
<1> QED
  BY <1>1, <1>2, <1>3, <1>5, <1>6, <1>7 DEF Next, clientSteps

\* Seen from the clients, the named pipe executes each request at most once and
\* answers only what it has executed, whichever server is behind it.
THEOREM Implementation == Spec => ImplementsRpc
<1>1. Init => R!Init
  BY DEF Init, R!Init
<1> QED
  BY <1>1, Invariant, RpcStep, PTL DEF Spec, R!Spec, ImplementsRpc

-----------------------------------------------------------------------------
(***************************************************************************)
(* Who waits for whom: the safety half of "every transact() ends".  The    *)
(* server can go no further without a client, without a request, with a    *)
(* reply that is not read, or when it is over; a client with a sound       *)
(* handle, until its request is read or there is something to read.        *)
(***************************************************************************)
ServerBlocked ==
    \/ server = "waiting" /\ pipe \notin {"connected", "closing"}
    \/ server = "read" /\ inbound = <<>> /\ pipe # "closing"
    \/ server = "flush" /\ outbound # <<>> /\ pipe # "closing"
    \/ server = "ended"

ClientBlocked(c) ==
    /\ Whole(c)
    /\ \/ client[c] = "flushing" /\ inbound # <<>>
       \/ client[c] = "reading" /\ outbound = <<>>

OnlyCutHangs ==
    \A c \in Client : ServerBlocked /\ ClientBlocked(c) =>
        cut /\ server = "flush" /\ client[c] = "flushing"

(* A client whose request was read is owed a reply or a broken handle, and *)
(* a reply outlives its call only when it was cut.                         *)
Attended ==
    client[holder] = "reading" \/ (client[holder] = "flushing" /\ inbound = <<>>)
        => outbound # <<>> \/ server \in {"handle", "write", "leave"}
LeftOver == outbound # <<>> /\ (client[holder] = "ready" \/ inbound # <<>>) => cut

HangInv == pipe = "connected" => Attended /\ LeftOver

(* The server keeps that invariant. *)
LEMMA HangServer == ASSUME PipeInv, HangInv, serverSteps PROVE HangInv'
<1>0. UNCHANGED <<client, cut>>
  BY DEF serverSteps, connectNamedPipe, connected, readMessage, handler, handlerThrows,
         writeMessage, flush, disconnect, closeHandle, createNamedPipe
<1> USE DEF HangInv, Attended, LeftOver
<1>1. CASE connectNamedPipe
  BY <1>0, <1>1 DEF connectNamedPipe
<1>2. CASE connected
  BY <1>0, <1>2 DEF connected
<1>3. CASE readMessage
  <2>1. UNCHANGED <<pipe, holder, outbound>> /\ server = "read"
    BY <1>3 DEF readMessage
  <2>2. inbound' = <<>> /\ server' \in {"handle", "leave"}
    BY <1>3, Reads DEF PipeInv, TypeOK
  <2> QED
    BY <1>0, <2>1, <2>2
<1>4. CASE handler \/ handlerThrows
  BY <1>0, <1>4 DEF handler, handlerThrows
<1>5. CASE writeMessage
  <2>1. CASE pipe = "closing"
    BY <1>5, <2>1 DEF writeMessage
  <2>2. CASE pipe = "connected"
    <3>1. UNCHANGED <<pipe, holder, inbound>> /\ server = "write"
      BY <1>5 DEF writeMessage
    <3>2. PICK n \in Sizes : outbound' = <<serving, n>>
      BY <1>5, <2>2 DEF writeMessage
    <3>3. outbound' # <<>>
      BY <3>2
    <3>4. client[holder] # "ready" /\ inbound = <<>>
      BY <2>2, <3>1 DEF PipeInv, InStep, Buffers
    <3> QED
      BY <1>0, <3>1, <3>3, <3>4
  <2> QED
    BY <1>5, <2>1, <2>2 DEF writeMessage
<1>6. CASE flush
  BY <1>0, <1>6 DEF flush
<1>7. CASE disconnect \/ closeHandle \/ createNamedPipe
  BY <1>7 DEF disconnect, closeHandle, createNamedPipe
<1> QED
  BY <1>1, <1>2, <1>3, <1>4, <1>5, <1>6, <1>7 DEF serverSteps

(* So do the clients. *)
LEMMA HangClient ==
  ASSUME PipeInv, HangInv, NEW c \in Client,
         connect(c) \/ write(c) \/ clientSteps(c) \/ die(c) \/ \E t \in Control : writeControl(c, t)
  PROVE  HangInv'
<1>0. /\ client \in [Client -> ClientSteps]
      /\ pipe = "connected" => holder \in Client
      /\ UNCHANGED server
  BY DEF PipeInv, TypeOK, TypeClients, InStep, connect, write, clientSteps, clientFlush, read, die,
         writeControl
<1>1. CASE connect(c)
  <2>1. holder' = c /\ client'[c] = "ready" /\ UNCHANGED outbound /\ pipe = "listening"
        /\ UNCHANGED inbound
    BY <1>0, <1>1 DEF connect
  <2>2. outbound = <<>>
    BY <2>1 DEF PipeInv, Buffers
  <2> QED
    BY <2>1, <2>2 DEF HangInv, Attended, LeftOver
<1>2. ASSUME NEW m, Whole(c), client[c] = "ready", inbound' = Append(inbound, m),
             client' = [client EXCEPT ![c] = "flushing"], UNCHANGED <<pipe, holder, outbound, cut>>
      PROVE  HangInv'
  <2>1. inbound' = <<m>>
    BY <1>2, Writes DEF PipeInv, TypeOK
  <2>2. inbound' # <<>> /\ client'[holder] = "flushing" /\ holder = c
    BY <1>0, <1>2, <2>1 DEF Whole
  <2> QED
    BY <1>2, <2>2 DEF HangInv, Attended, LeftOver, Whole
<1>3. CASE write(c)
  <2>1. CASE Whole(c)
    BY <1>2, <1>3, <2>1 DEF write
  <2>2. CASE ~Whole(c)
    BY <1>0, <1>3, <2>2 DEF write, HangInv, Attended, LeftOver
  <2> QED
    BY <2>1, <2>2
<1>4. CASE \E t \in Control : writeControl(c, t)
  BY <1>2, <1>4 DEF writeControl
<1>5. ASSUME ~Whole(c), UNCHANGED <<pipe, holder, inbound, outbound, cut>>,
             NEW step, client' = [client EXCEPT ![c] = step]
      PROVE  HangInv'
  <2>1. pipe = "connected" => client'[holder] = client[holder]
    BY <1>0, <1>5 DEF Whole
  <2> QED
    BY <1>0, <1>5, <2>1 DEF HangInv, Attended, LeftOver
<1>6. CASE clientFlush(c)
  <2>1. UNCHANGED <<pipe, holder, inbound, outbound, cut>> /\ client[c] = "flushing"
    BY <1>6 DEF clientFlush
  <2>2. CASE Whole(c)
    <3>1. inbound = <<>> /\ client' = [client EXCEPT ![c] = "reading"]
      BY <1>6, <2>2 DEF clientFlush
    <3>2. holder = c /\ client'[holder] = "reading" /\ pipe = "connected"
      BY <1>0, <2>2, <3>1 DEF Whole
    <3> QED
      BY <1>0, <2>1, <3>1, <3>2 DEF HangInv, Attended, LeftOver
  <2>3. CASE ~Whole(c)
    BY <1>5, <1>6, <2>1, <2>3 DEF clientFlush, ends
  <2> QED
    BY <2>2, <2>3
<1>7. CASE read(c)
  <2>1. UNCHANGED <<pipe, holder, inbound>> /\ client[c] = "reading"
        /\ client' = [client EXCEPT ![c] = "ready"]
    BY <1>7 DEF read, ends
  <2>2. CASE Whole(c)
    <3>1. client'[holder] = "ready" /\ inbound = <<>> /\ (outbound' # <<>> => cut')
      <4>1. holder = c /\ pipe = "connected"
        BY <2>2 DEF Whole
      <4>2. inbound = <<>>
        BY <2>1, <4>1 DEF PipeInv, InStep
      <4>3. outbound' # <<>> => cut'
        BY <1>7, <2>2 DEF read
      <4> QED
        BY <1>0, <2>1, <4>1, <4>2, <4>3
    <3> QED
      BY <2>1, <3>1 DEF HangInv, Attended, LeftOver
  <2>3. CASE ~Whole(c)
    BY <1>5, <1>7, <2>1, <2>3 DEF read
  <2> QED
    BY <2>2, <2>3
<1>8. CASE die(c)
  <2>1. CASE Whole(c)
    BY <1>8, <2>1 DEF die, HangInv
  <2>2. CASE ~Whole(c)
    BY <1>5, <1>8, <2>2 DEF die, ends
  <2> QED
    BY <2>1, <2>2
<1> QED
  BY <1>1, <1>3, <1>4, <1>6, <1>7, <1>8 DEF clientSteps

\* For any number of clients and calls and either server: where the server and a
\* client that is inside transact() both wait, it is for one another, after a
\* reply that a single ReadFile could not take: the server for the rest of it to
\* be read, the client for its next request to be.  Without one, whoever waits
\* waits for somebody who can go on.
THEOREM OnlyCutRepliesHang == Spec => []OnlyCutHangs
<1>1. Init => HangInv
  BY DEF Init, HangInv
<1>2. PipeInv /\ HangInv /\ [Next]_vars => HangInv'
  <2>1. CASE UNCHANGED vars
    BY <2>1 DEF vars, HangInv, Attended, LeftOver
  <2> QED
    BY <2>1, HangServer, HangClient DEF Next
<1>3. PipeInv /\ HangInv => OnlyCutHangs
  <2> SUFFICES ASSUME PipeInv, HangInv, NEW c \in Client, ServerBlocked, ClientBlocked(c)
               PROVE  cut /\ server = "flush" /\ client[c] = "flushing"
    BY DEF OnlyCutHangs
  <2>1. holder = c /\ pipe = "connected" /\ server # "ended"
    BY DEF ClientBlocked, Whole, PipeInv, Sides
  <2> QED
    BY <2>1 DEF ServerBlocked, ClientBlocked, HangInv, Attended, LeftOver
<1> QED
  BY <1>1, <1>2, <1>3, Invariant, PTL DEF Spec
=============================================================================
