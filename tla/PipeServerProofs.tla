-------------------------- MODULE PipeServerProofs ---------------------------
(* Machine-checked facts about PipeServer and, in the last part, about the  *)
(* QtServer around it, for any number of clients, connections, descriptors, *)
(* stops and signals.                                                       *)
EXTENDS QtServer, SequenceTheorems, FiniteSetTheorems, TLAPS

(***************************************************************************)
(* The strengthening follows a connection through its life: not made yet,  *)
(* queued, served, closed, while its client sends, waits, or has gone.     *)
(***************************************************************************)
Serving == {"read", "receiving", "handler", "write", "sending"}
Replying == {"write", "sending"}
Active(c) == client[c] \in {"probing", "sending", "waiting"}
Replied(k) == taken[k] + back[k]

Unmade ==
    \A k \in Conn : k >= nextConn =>
        /\ sent[k] = 0 /\ ~shut[k] /\ Replied(k) = 0 /\ handled[k] = 0 /\ outcome[k] = "none"
        /\ thread \in Serving => cur # k

Queued ==
    /\ \A i \in DOMAIN accepts :
          /\ accepts[i] < nextConn
          /\ handled[accepts[i]] = 0 /\ Replied(accepts[i]) = 0
          /\ thread \in Serving => accepts[i] # cur
    /\ \A i, j \in DOMAIN accepts : i # j => accepts[i] # accepts[j]

Served ==
    thread \in Serving =>
        /\ cur \in Conn
        /\ thread \notin Replying => handled[cur] = 0 /\ Replied(cur) = 0
        /\ thread \in {"read", "receiving"} => got <= sent[cur]
        /\ thread = "handler" => left = Chunks /\ shut[cur] /\ sent[cur] = Chunks
        /\ thread \in Replying =>
              /\ shut[cur] /\ Replied(cur) + left = Chunks
              /\ sent[cur] = Chunks => handled[cur] = 1
        /\ thread = "sending" => left > 0

Accounts ==
    \A k \in Conn :
        /\ Replied(k) <= Chunks /\ handled[k] <= 1
        /\ handled[k] = 1 => sent[k] = Chunks /\ shut[k]
        /\ Replied(k) > 0 => shut[k] /\ (sent[k] = Chunks => handled[k] = 1)
        /\ outcome[k] = "answered" => handled[k] = 1

Clients ==
    /\ \A c \in Client : Active(c) =>
          /\ mine[c] \in Conn /\ mine[c] < nextConn /\ outcome[mine[c]] = "none"
          /\ client[c] = "sending" => ~shut[mine[c]]
          /\ client[c] = "waiting" => shut[mine[c]] /\ sent[mine[c]] = Chunks
    /\ \A c, d \in Client : Active(c) /\ Active(d) /\ c # d => mine[c] # mine[d]

Inv == TypeOK /\ Unmade /\ Queued /\ Served /\ Accounts /\ Clients

-----------------------------------------------------------------------------
(* Types.                                                                  *)

ServerTypes ==
    /\ m_stop \in BOOLEAN /\ m_running \in BOOLEAN /\ hasPath \in BOOLEAN
    /\ m_serverFd \in Fd \cup {NoFd} /\ m_clientFd \in Fd \cup {NoFd}
    /\ tmp \in [{"run", "stop"} -> Fd \cup {NoFd}]

ThreadTypes ==
    /\ thread \in ThreadSteps
    /\ cur \in Conn \cup {0} /\ got \in 0..Chunks /\ left \in 0..Chunks

SockTypes ==
    /\ fds \in [Fd -> Conn \cup {Closed, Listener, AppFile}]
    /\ accepts \in Seq(Conn) /\ listens \in BOOLEAN /\ foreign \in BOOLEAN

ConnTypes ==
    /\ sent \in [Conn -> 0..Chunks] /\ shut \in [Conn -> BOOLEAN]
    /\ back \in [Conn -> {0, 1}] /\ gone \in [Conn -> BOOLEAN] /\ nextConn \in 1..(MaxConn + 1)

ClientTypes ==
    /\ client \in [Client -> {"idle", "probing", "sending", "waiting", "dead"}]
    /\ mine \in [Client -> Conn \cup {0}] /\ taken \in [Conn -> 0..Chunks]
    /\ outcome \in [Conn -> {"none", "answered", "failed", "lost"}]

OtherTypes ==
    /\ stopper \in StopperSteps /\ handled \in [Conn -> Nat]
    /\ appFiles \in Nat /\ signals \in Nat /\ stops \in Nat

(* The type invariant falls into the groups that steps leave alone together. *)
LEMMA TypeParts ==
  ASSUME TypeOK
  PROVE  ServerTypes /\ ThreadTypes /\ SockTypes /\ ConnTypes /\ ClientTypes /\ OtherTypes
  BY DEF TypeOK, ServerTypes, ThreadTypes, SockTypes, ConnTypes, ClientTypes, OtherTypes

(* The groups, primed, give back the type invariant. *)
LEMMA PartsType ==
  ASSUME ServerTypes', ThreadTypes', SockTypes', ConnTypes', ClientTypes', OtherTypes'
  PROVE  TypeOK'
  BY DEF TypeOK, ServerTypes, ThreadTypes, SockTypes, ConnTypes, ClientTypes, OtherTypes

(* What a step leaves alone keeps its type. *)
LEMMA TypeFrame ==
  ASSUME TypeOK
  PROVE  /\ UNCHANGED serverVars => ServerTypes'
         /\ UNCHANGED threadVars => ThreadTypes'
         /\ UNCHANGED sockVars /\ UNCHANGED foreign => SockTypes'
         /\ UNCHANGED connVars => ConnTypes'
         /\ UNCHANGED clientVars => ClientTypes'
         /\ UNCHANGED <<stopper, handled, boundVars>> => OtherTypes'
<1>0. ServerTypes /\ ThreadTypes /\ SockTypes /\ ConnTypes /\ ClientTypes /\ OtherTypes
  BY TypeParts
<1>1. UNCHANGED serverVars => ServerTypes'
  BY <1>0 DEF serverVars, ServerTypes
<1>2. UNCHANGED threadVars => ThreadTypes'
  BY <1>0 DEF threadVars, ThreadTypes
<1>3. UNCHANGED sockVars /\ UNCHANGED foreign => SockTypes'
  BY <1>0 DEF sockVars, SockTypes
<1>4. UNCHANGED connVars => ConnTypes'
  BY <1>0 DEF connVars, ConnTypes
<1>5. UNCHANGED clientVars => ClientTypes'
  BY <1>0 DEF clientVars, ClientTypes
<1>6. UNCHANGED <<stopper, handled, boundVars>> => OtherTypes'
  BY <1>0 DEF boundVars, OtherTypes
<1> QED BY <1>1, <1>2, <1>3, <1>4, <1>5, <1>6

(* close() respects the types of the descriptor table and the queue. *)
LEMMA closeTypes ==
  ASSUME SockTypes, NEW fd, close(fd), UNCHANGED listens
  PROVE  SockTypes'
<1>1. accepts' \in Seq(Conn)
  BY EmptySeq DEF SockTypes, close, QueueAfter
<1>2. fds' \in [Fd -> Conn \cup {Closed, Listener, AppFile}] /\ listens' \in BOOLEAN
  BY DEF SockTypes, close
<1>3. foreign' \in BOOLEAN
  <2>1. CASE fd \in Fd
    <3>1. foreign' = (foreign \/ fds[fd] = AppFile)
      BY <2>1 DEF close
    <3> QED BY <3>1 DEF SockTypes
  <2>2. CASE fd \notin Fd
    BY <2>2 DEF SockTypes, close
  <2> QED BY <2>1, <2>2
<1> QED BY <1>1, <1>2, <1>3 DEF SockTypes

(* closeCurrentPipe respects the types, on behalf of either thread. *)
LEMMA CloseTypes ==
  ASSUME TypeOK,
         closeCurrentPipe("run", "unlink") \/ closeCurrentPipe("stop", "connect")
  PROVE  TypeOK'
<1>a. ServerTypes /\ ThreadTypes /\ SockTypes /\ OtherTypes
  BY TypeParts
<1>b. ConnTypes' /\ ClientTypes'
  BY TypeFrame DEF closeCurrentPipe
<1>1. thread' \in ThreadSteps /\ stopper' \in StopperSteps
  BY <1>a DEF closeCurrentPipe, CheckFd, CloseFd, ClearClient, ClearServer, At, Goto,
     ThreadTypes, OtherTypes, ThreadSteps, StopperSteps, Ending
<1>2. ServerTypes'
  BY <1>a DEF closeCurrentPipe, CheckFd, CloseFd, ClearClient, ClearServer, serverVars,
     ServerTypes
<1>3. SockTypes'
  <2>1. \/ UNCHANGED sockVars /\ UNCHANGED foreign
        \/ \E w \in {"run", "stop"} : close(tmp[w]) /\ UNCHANGED listens
    BY DEF closeCurrentPipe, CheckFd, CloseFd, ClearClient, ClearServer
  <2>2. CASE UNCHANGED sockVars /\ UNCHANGED foreign
    BY <2>2, TypeFrame
  <2>3. CASE \E w \in {"run", "stop"} : close(tmp[w]) /\ UNCHANGED listens
    BY <1>a, <2>3, closeTypes
  <2> QED BY <2>1, <2>2, <2>3
<1>4. UNCHANGED <<cur, got, left, handled, boundVars>>
  BY DEF closeCurrentPipe, CheckFd, CloseFd, ClearClient, ClearServer
<1>5. ThreadTypes' /\ OtherTypes'
  BY <1>a, <1>1, <1>4 DEF ThreadTypes, OtherTypes, boundVars
<1> QED BY <1>b, <1>2, <1>3, <1>5, PartsType

(* The steps of the pipe thread that leave connections and clients alone. *)
LEMMA RunTypes ==
  ASSUME TypeOK, Served,
         \/ runBegin \/ openSocket \/ bindListen \/ loopTop \/ acceptCall \/ acceptReturn
         \/ readTop \/ recvReturn \/ handlerReturn \/ writeTop \/ closeClient \/ clearClient
         \/ runEnd
  PROVE  TypeOK'
<1>a. ServerTypes /\ ThreadTypes /\ SockTypes /\ ConnTypes /\ ClientTypes /\ OtherTypes
  BY TypeParts
<1>b. /\ UNCHANGED sockVars /\ UNCHANGED foreign => SockTypes'
      /\ UNCHANGED connVars => ConnTypes'
      /\ UNCHANGED clientVars => ClientTypes'
  BY TypeFrame
<1>1. CASE runBegin
  <2>1. ServerTypes' /\ ThreadTypes' /\ SockTypes' /\ OtherTypes'
    BY <1>1, <1>a DEF runBegin, ThreadSteps, Ending, boundVars, ServerTypes, ThreadTypes,
       SockTypes, OtherTypes
  <2>2. ConnTypes' /\ ClientTypes'
    BY <1>1, <1>b DEF runBegin
  <2> QED BY <2>1, <2>2, PartsType
<1>2. CASE openSocket
  <2>1. ServerTypes' /\ ThreadTypes' /\ SockTypes' /\ OtherTypes'
    BY <1>2, <1>a DEF openSocket, ThreadSteps, Ending, ThreadOnly, boundVars, allocate,
       ServerTypes, ThreadTypes, SockTypes, OtherTypes
  <2>2. ConnTypes' /\ ClientTypes'
    BY <1>2, <1>b DEF openSocket, ThreadOnly
  <2> QED BY <2>1, <2>2, PartsType
<1>3. CASE bindListen
  <2>1. ServerTypes' /\ ThreadTypes' /\ SockTypes' /\ OtherTypes'
    BY <1>3, <1>a DEF bindListen, ThreadSteps, Ending, ThreadOnly, boundVars, ServerTypes,
       ThreadTypes, SockTypes, OtherTypes
  <2>2. ConnTypes' /\ ClientTypes'
    BY <1>3, <1>b DEF bindListen, ThreadOnly
  <2> QED BY <2>1, <2>2, PartsType
<1>4. CASE loopTop
  <2>1. ServerTypes' /\ ThreadTypes' /\ OtherTypes'
    BY <1>4, <1>a DEF loopTop, ThreadSteps, Ending, ThreadOnly, boundVars, ServerTypes,
       ThreadTypes, OtherTypes
  <2>2. SockTypes' /\ ConnTypes' /\ ClientTypes'
    BY <1>4, <1>b DEF loopTop, ThreadOnly
  <2> QED BY <2>1, <2>2, PartsType
<1>5. CASE acceptCall
  <2>1. ServerTypes' /\ ThreadTypes' /\ OtherTypes'
    BY <1>5, <1>a DEF acceptCall, ThreadSteps, Ending, ThreadOnly, boundVars, ServerTypes,
       ThreadTypes, OtherTypes
  <2>2. SockTypes' /\ ConnTypes' /\ ClientTypes'
    BY <1>5, <1>b DEF acceptCall, ThreadOnly
  <2> QED BY <2>1, <2>2, PartsType
<1>6. CASE acceptReturn
  <2>1. Head(accepts) \in Conn /\ Tail(accepts) \in Seq(Conn)
    BY <1>6, <1>a DEF acceptReturn, SockTypes
  <2>2. accepts' \in Seq(Conn)
    BY <1>6, <1>a, <2>1, EmptySeq DEF acceptReturn, QueueAfter, SockTypes
  <2>3. ServerTypes'
    BY <1>6, <1>a, <2>1, <2>2, PipeAssumption DEF acceptReturn, ThreadOnly, allocate, ServerTypes
  <2>4. ThreadTypes'
    <3>1. thread' \in ThreadSteps
      BY <1>6 DEF acceptReturn, ThreadSteps, Ending
    <3>2. cur' \in Conn \cup {0}
      BY <1>6, <1>a, <2>1 DEF acceptReturn, ThreadTypes
    <3>3. got' \in 0..Chunks /\ left' \in 0..Chunks
      <4>1. got' \in {got, 0} /\ left' = left
        BY <1>6 DEF acceptReturn
      <4> QED BY <4>1, <1>a, PipeAssumption DEF ThreadTypes
    <3> QED BY <3>1, <3>2, <3>3 DEF ThreadTypes
  <2>5. SockTypes'
    BY <1>6, <1>a, <2>1, <2>2, PipeAssumption DEF acceptReturn, allocate, SockTypes
  <2>6. OtherTypes'
    BY <1>6, <1>a, <2>1, <2>2, PipeAssumption DEF acceptReturn, ThreadOnly, boundVars,
       StopperSteps, allocate, OtherTypes
  <2>7. ConnTypes' /\ ClientTypes'
    BY <1>6, <1>b DEF acceptReturn, ThreadOnly
  <2> QED BY <2>3, <2>4, <2>5, <2>6, <2>7, PartsType
<1>7. CASE readTop
  <2>1. ServerTypes' /\ ThreadTypes' /\ OtherTypes'
    BY <1>7, <1>a DEF readTop, ThreadSteps, Ending, ThreadOnly, boundVars, ServerTypes,
       ThreadTypes, OtherTypes
  <2>2. SockTypes' /\ ConnTypes' /\ ClientTypes'
    BY <1>7, <1>b DEF readTop, ThreadOnly
  <2> QED BY <2>1, <2>2, PartsType
<1>8. CASE recvReturn
  <2>1. got' \in 0..Chunks
    BY <1>8, <1>a, PipeAssumption DEF recvReturn, Served, Serving, ThreadTypes, ConnTypes
  <2>2. ServerTypes'
    BY <1>8, <1>a, <2>1, PipeAssumption DEF recvReturn, ThreadOnly, afterMessage, ServerTypes
  <2>3. ThreadTypes'
    <3>1. thread' \in ThreadSteps
      BY <1>8 DEF recvReturn, afterMessage, ThreadSteps, Ending
    <3>2. UNCHANGED cur
      BY <1>8 DEF recvReturn
    <3>3. left' \in 0..Chunks
      BY <1>8, <1>a, PipeAssumption DEF recvReturn, ThreadTypes
    <3> QED BY <1>a, <2>1, <3>1, <3>2, <3>3 DEF ThreadTypes
  <2>4. OtherTypes'
    BY <1>8, <1>a, <2>1, PipeAssumption DEF recvReturn, ThreadOnly, boundVars, StopperSteps,
       afterMessage, OtherTypes
  <2>5. SockTypes' /\ ConnTypes' /\ ClientTypes'
    BY <1>8, <1>b DEF recvReturn, ThreadOnly
  <2> QED BY <2>2, <2>3, <2>4, <2>5, PartsType
<1>9. CASE handlerReturn
  <2>1. ServerTypes'
    BY <1>9, <1>a DEF handlerReturn, ThreadOnly, ServerTypes
  <2>2. ThreadTypes'
    BY <1>9, <1>a DEF handlerReturn, ThreadSteps, Ending, ThreadTypes
  <2>3. OtherTypes'
    <3>1. UNCHANGED <<stopper, appFiles, signals, stops>>
      BY <1>9 DEF handlerReturn, ThreadOnly, boundVars
    <3>2. handled' \in [Conn -> Nat]
      <4>1. handled' = [handled EXCEPT ![cur] = handled[cur] + 1]
        BY <1>9 DEF handlerReturn
      <4>2. handled \in [Conn -> Nat]
        BY <1>a DEF OtherTypes
      <4>3. cur \in Conn => handled[cur] + 1 \in Nat
        BY <4>2
      <4> QED BY <4>1, <4>2, <4>3
    <3> QED BY <1>a, <3>1, <3>2 DEF OtherTypes
  <2>4. SockTypes' /\ ConnTypes' /\ ClientTypes'
    BY <1>9, <1>b DEF handlerReturn, ThreadOnly
  <2> QED BY <2>1, <2>2, <2>3, <2>4, PartsType
<1>10. CASE writeTop
  <2>1. ServerTypes' /\ ThreadTypes' /\ OtherTypes'
    BY <1>10, <1>a DEF writeTop, ThreadSteps, Ending, ThreadOnly, boundVars, ServerTypes,
       ThreadTypes, OtherTypes
  <2>2. SockTypes' /\ ConnTypes' /\ ClientTypes'
    BY <1>10, <1>b DEF writeTop, ThreadOnly
  <2> QED BY <2>1, <2>2, PartsType
<1>11. CASE closeClient
  <2>1. SockTypes'
    BY <1>11, <1>a, closeTypes DEF closeClient
  <2>2. ServerTypes' /\ ThreadTypes' /\ OtherTypes'
    BY <1>11, <1>a DEF closeClient, ThreadOnly, ThreadSteps, Ending, boundVars, ServerTypes,
       ThreadTypes, OtherTypes
  <2>3. ConnTypes' /\ ClientTypes'
    BY <1>11, <1>b DEF closeClient, ThreadOnly
  <2> QED BY <2>1, <2>2, <2>3, PartsType
<1>12. CASE clearClient
  <2>1. ServerTypes' /\ ThreadTypes' /\ OtherTypes'
    BY <1>12, <1>a DEF clearClient, ClearClient, At, Goto, ThreadSteps, Ending, boundVars,
       ServerTypes, ThreadTypes, OtherTypes
  <2>2. SockTypes' /\ ConnTypes' /\ ClientTypes'
    BY <1>12, <1>b DEF clearClient, ClearClient
  <2> QED BY <2>1, <2>2, PartsType
<1>13. CASE runEnd
  <2>1. ServerTypes' /\ ThreadTypes' /\ SockTypes' /\ OtherTypes'
    BY <1>13, <1>a DEF runEnd, ThreadSteps, Ending, ThreadOnly, boundVars, ServerTypes,
       ThreadTypes, SockTypes, OtherTypes
  <2>2. ConnTypes' /\ ClientTypes'
    BY <1>13, <1>b DEF runEnd, ThreadOnly
  <2> QED BY <2>1, <2>2, PartsType
<1> QED BY <1>1, <1>2, <1>3, <1>4, <1>5, <1>6, <1>7, <1>8, <1>9, <1>10, <1>11, <1>12, <1>13

(* start, send, the signals and the steps of stop. *)
LEMMA StopTypes ==
  ASSUME TypeOK, Served,
         start \/ sendReturn \/ interrupted \/ stopBegin \/ stopConnect \/ stopJoin
  PROVE  TypeOK'
<1>a. ServerTypes /\ ThreadTypes /\ SockTypes /\ ConnTypes /\ ClientTypes /\ OtherTypes
  BY TypeParts
<1>b. /\ UNCHANGED serverVars => ServerTypes'
      /\ UNCHANGED threadVars => ThreadTypes'
      /\ UNCHANGED sockVars /\ UNCHANGED foreign => SockTypes'
      /\ UNCHANGED connVars => ConnTypes'
      /\ UNCHANGED clientVars => ClientTypes'
      /\ UNCHANGED <<stopper, handled, boundVars>> => OtherTypes'
  BY TypeFrame
<1>1. CASE start
  <2>1. ServerTypes' /\ ThreadTypes' /\ OtherTypes'
    BY <1>1, <1>a DEF start, ThreadSteps, Ending, boundVars, ServerTypes, ThreadTypes, OtherTypes
  <2>2. SockTypes' /\ ConnTypes' /\ ClientTypes'
    BY <1>1, <1>b DEF start
  <2> QED BY <2>1, <2>2, PartsType
<1>2. CASE sendReturn
  <2>1. left > 0
    BY <1>2 DEF sendReturn, Served, Serving
  <2>2. ThreadTypes'
    <3>1. thread' \in ThreadSteps /\ UNCHANGED <<cur, got>>
      BY <1>2 DEF sendReturn, ThreadSteps, Ending
    <3>2. left' \in 0..Chunks
      BY <1>2, <1>a, <2>1, PipeAssumption DEF sendReturn, ThreadTypes
    <3> QED BY <1>a, <3>1, <3>2 DEF ThreadTypes
  <2>3. ConnTypes'
    BY <1>2, <1>a, <2>1, PipeAssumption DEF sendReturn, ThreadOnly, ConnTypes
  <2>4. OtherTypes'
    BY <1>2, <1>a, <2>1, PipeAssumption DEF sendReturn, ThreadOnly, boundVars, StopperSteps,
       OtherTypes
  <2>5. ServerTypes' /\ SockTypes' /\ ClientTypes'
    BY <1>2, <1>b DEF sendReturn
  <2> QED BY <2>2, <2>3, <2>4, <2>5, PartsType
<1>3. CASE interrupted
  <2>1. accepts' \in Seq(Conn)
    BY <1>3, <1>a, EmptySeq DEF interrupted, QueueAfter, SockTypes
  <2>2. ThreadTypes'
    BY <1>3, <1>a, <2>1 DEF interrupted, ThreadSteps, Ending, ThreadTypes
  <2>3. SockTypes'
    BY <1>3, <1>a, <2>1 DEF interrupted, SockTypes
  <2>4. OtherTypes'
    <3>1. UNCHANGED <<stopper, handled, appFiles, stops>>
      BY <1>3 DEF interrupted
    <3>2. signals' \in Nat
      BY <1>3, <1>a DEF interrupted, OtherTypes
    <3> QED BY <1>a, <3>1, <3>2 DEF OtherTypes
  <2>5. ServerTypes' /\ ConnTypes' /\ ClientTypes'
    BY <1>3, <1>b DEF interrupted
  <2> QED BY <2>2, <2>3, <2>4, <2>5, PartsType
<1>4. CASE stopBegin
  <2>1. ServerTypes' /\ OtherTypes'
    BY <1>4, <1>a DEF stopBegin, StopperSteps, Ending, boundVars, ServerTypes, OtherTypes
  <2>2. ThreadTypes' /\ SockTypes' /\ ConnTypes' /\ ClientTypes'
    BY <1>4, <1>b DEF stopBegin
  <2> QED BY <2>1, <2>2, PartsType
<1>5. CASE stopConnect
  <2>1. SockTypes'
    <3>1. UNCHANGED <<fds, listens, foreign>>
      BY <1>5 DEF stopConnect
    <3>2. accepts' = accepts \/ (nextConn \in Conn /\ accepts' = Append(accepts, nextConn))
      BY <1>5 DEF stopConnect
    <3> QED BY <1>a, <3>1, <3>2 DEF SockTypes
  <2>2. ConnTypes'
    <3>1. UNCHANGED <<sent, back>>
      BY <1>5 DEF stopConnect
    <3>2. shut' \in [Conn -> BOOLEAN] /\ gone' \in [Conn -> BOOLEAN]
      BY <1>5, <1>a DEF stopConnect, ConnTypes
    <3>0. nextConn' = nextConn \/ (nextConn \in Conn /\ nextConn' = nextConn + 1)
      BY <1>5 DEF stopConnect
    <3>3. nextConn' \in 1..(MaxConn + 1)
      BY <1>a, <3>0, PipeAssumption DEF ConnTypes, Conn
    <3> QED BY <1>a, <3>1, <3>2, <3>3 DEF ConnTypes
  <2>3. OtherTypes'
    BY <1>5, <1>a, PipeAssumption DEF stopConnect, ThreadOnly, boundVars, StopperSteps, Conn,
       OtherTypes
  <2>4. ServerTypes' /\ ThreadTypes' /\ ClientTypes'
    BY <1>5, <1>b DEF stopConnect
  <2> QED BY <2>1, <2>2, <2>3, <2>4, PartsType
<1>6. CASE stopJoin
  <2>1. ThreadTypes' /\ OtherTypes'
    BY <1>6, <1>a DEF stopJoin, ThreadSteps, StopperSteps, boundVars, ThreadTypes, OtherTypes
  <2>2. ServerTypes' /\ SockTypes' /\ ConnTypes' /\ ClientTypes'
    BY <1>6, <1>b DEF stopJoin
  <2> QED BY <2>1, <2>2, PartsType
<1> QED BY <1>1, <1>2, <1>3, <1>4, <1>5, <1>6

(* The steps of a client. *)
LEMMA ClientTypesStep ==
  ASSUME TypeOK, Accounts, Clients, NEW c \in Client,
         probeConnect(c) \/ transactConnect(c) \/ clientSteps(c) \/ die(c)
  PROVE  TypeOK'
<1>a. ServerTypes /\ ThreadTypes /\ SockTypes /\ ConnTypes /\ ClientTypes /\ OtherTypes
  BY TypeParts
<1>b. /\ UNCHANGED serverVars => ServerTypes'
      /\ UNCHANGED threadVars => ThreadTypes'
      /\ UNCHANGED sockVars /\ UNCHANGED foreign => SockTypes'
      /\ UNCHANGED connVars => ConnTypes'
      /\ UNCHANGED clientVars => ClientTypes'
      /\ UNCHANGED <<stopper, handled, boundVars>> => OtherTypes'
  BY TypeFrame
<1>1. ASSUME NEW step \in {"probing", "sending"}, connectAs(c, step) PROVE TypeOK'
  <2>1. SockTypes' /\ ConnTypes' /\ ClientTypes'
    <3>1. SockTypes'
      BY <1>1, <1>a, PipeAssumption DEF connectAs, ClientFrame, SockTypes, ConnTypes, Conn
    <3>2. ConnTypes'
      BY <1>1, <1>a, PipeAssumption DEF connectAs, ClientFrame, ConnTypes, Conn
    <3>3. ClientTypes'
      BY <1>1, <1>a, PipeAssumption DEF connectAs, ClientTypes, ConnTypes, Conn
    <3> QED BY <3>1, <3>2, <3>3
  <2>2. ServerTypes' /\ ThreadTypes' /\ OtherTypes'
    BY <1>1, <1>b DEF connectAs, ClientFrame
  <2> QED BY <2>1, <2>2, PartsType
<1>2. ASSUME NEW step \in {"idle", "dead"}, NEW result \in {"none", "answered", "failed", "lost"},
             clientClose(c, step, result)
      PROVE  TypeOK'
  <2>1. SockTypes' /\ ConnTypes' /\ ClientTypes'
    BY <1>2, <1>a DEF clientClose, ClientFrame, SockTypes, ConnTypes, ClientTypes
  <2>2. ServerTypes' /\ ThreadTypes' /\ OtherTypes'
    BY <1>2, <1>b DEF clientClose, ClientFrame
  <2> QED BY <2>1, <2>2, PartsType
<1>3. CASE sendChunk(c)
  <2>1. CASE clientClose(c, "idle", "failed")
    BY <1>2, <2>1
  <2>2. CASE ~clientClose(c, "idle", "failed")
    <3>1. SockTypes' /\ ConnTypes'
      <4>1. UNCHANGED <<fds, listens, foreign, accepts, shut, back, gone, nextConn>>
        BY <1>3, <2>2 DEF sendChunk, ClientFrame
      <4>2. sent' \in [Conn -> 0..Chunks]
        BY <1>3, <2>2, <1>a, PipeAssumption DEF sendChunk, ConnTypes
      <4> QED BY <4>1, <4>2, <1>a DEF SockTypes, ConnTypes
    <3>2. ServerTypes' /\ ThreadTypes' /\ ClientTypes' /\ OtherTypes'
      BY <1>3, <2>2, <1>b DEF sendChunk, ClientFrame
    <3> QED BY <3>1, <3>2, PartsType
  <2> QED BY <2>1, <2>2
<1>4. CASE shutdownWrite(c)
  <2>1. SockTypes' /\ ConnTypes' /\ ClientTypes'
    BY <1>4, <1>a DEF shutdownWrite, ClientFrame, SockTypes, ConnTypes, ClientTypes
  <2>2. ServerTypes' /\ ThreadTypes' /\ OtherTypes'
    BY <1>4, <1>b DEF shutdownWrite, ClientFrame
  <2> QED BY <2>1, <2>2, PartsType
<1>5. CASE recvChunk(c)
  <2>1. mine[c] \in Conn /\ taken[mine[c]] + 1 \in 0..Chunks
    BY <1>5, <1>a, PipeAssumption DEF recvChunk, Accounts, Replied, Clients, Active, ConnTypes,
       ClientTypes
  <2>2. SockTypes' /\ ConnTypes' /\ ClientTypes'
    BY <1>5, <1>a, <2>1 DEF recvChunk, ClientFrame, SockTypes, ConnTypes, ClientTypes
  <2>3. ServerTypes' /\ ThreadTypes' /\ OtherTypes'
    BY <1>5, <1>b DEF recvChunk, ClientFrame
  <2> QED BY <2>2, <2>3, PartsType
<1> QED BY <1>1, <1>2, <1>3, <1>4, <1>5
    DEF probeConnect, transactConnect, clientSteps, probeClose, recvEnd, die

(* The steps of the application. *)
LEMMA AppTypes ==
  ASSUME TypeOK, openFile \/ (\E f \in Fd : closeFile(f)) \/ processExit
  PROVE  TypeOK'
<1>a. ServerTypes /\ ThreadTypes /\ SockTypes /\ ConnTypes /\ ClientTypes /\ OtherTypes
  BY TypeParts
<1>b. /\ UNCHANGED serverVars => ServerTypes'
      /\ UNCHANGED threadVars => ThreadTypes'
      /\ UNCHANGED sockVars /\ UNCHANGED foreign => SockTypes'
      /\ UNCHANGED connVars => ConnTypes'
      /\ UNCHANGED clientVars => ClientTypes'
      /\ UNCHANGED <<stopper, handled, boundVars>> => OtherTypes'
  BY TypeFrame
<1>1. CASE openFile
  <2>1. SockTypes' /\ OtherTypes'
    BY <1>1, <1>a DEF openFile, AppFrame, allocate, SockTypes, OtherTypes
  <2>2. ServerTypes' /\ ThreadTypes' /\ ConnTypes' /\ ClientTypes'
    BY <1>1, <1>b DEF openFile, AppFrame
  <2> QED BY <2>1, <2>2, PartsType
<1>2. CASE \E f \in Fd : closeFile(f)
  <2>1. SockTypes' /\ OtherTypes'
    BY <1>2, <1>a DEF closeFile, AppFrame, SockTypes, OtherTypes
  <2>2. ServerTypes' /\ ThreadTypes' /\ ConnTypes' /\ ClientTypes'
    BY <1>2, <1>b DEF closeFile, AppFrame
  <2> QED BY <2>1, <2>2, PartsType
<1>3. CASE processExit
  <2>1. ThreadTypes'
    BY <1>3, <1>a DEF processExit, ThreadSteps, Ending, ThreadTypes
  <2>2. SockTypes'
    <3>1. fds' \in [Fd -> Conn \cup {Closed, Listener, AppFile}]
      BY <1>3 DEF processExit
    <3>2. accepts' \in Seq(Conn)
      BY <1>3, EmptySeq DEF processExit
    <3>3. listens' \in BOOLEAN /\ foreign' = foreign
      BY <1>3 DEF processExit
    <3> QED BY <1>a, <3>1, <3>2, <3>3 DEF SockTypes
  <2>3. OtherTypes'
    BY <1>3, <1>a DEF processExit, ThreadOnly, boundVars, StopperSteps, OtherTypes
  <2>4. ServerTypes' /\ ConnTypes' /\ ClientTypes'
    BY <1>3, <1>b DEF processExit
  <2> QED BY <2>1, <2>2, <2>3, <2>4, PartsType
<1> QED BY <1>1, <1>2, <1>3

(* Every step keeps the types. *)
LEMMA TypeStep ==
  ASSUME Inv, [Next]_vars
  PROVE  TypeOK'
<1>1. CASE UNCHANGED vars
  <2>1. TypeOK
    BY DEF Inv
  <2> QED BY <1>1, <2>1, TypeFrame, PartsType DEF vars, threadVars, boundVars
<1>2. CASE Next
  <2>1. TypeOK /\ Served /\ Accounts /\ Clients
    BY DEF Inv
  <2> QED BY <1>2, <2>1, CloseTypes, RunTypes, StopTypes, ClientTypesStep, AppTypes
          DEF Next, run, stopSteps, environment
<1> QED BY <1>1, <1>2

-----------------------------------------------------------------------------
(* The life of the connections.                                            *)

Life == Unmade /\ Queued /\ Served /\ Accounts /\ Clients

\* The steps of run() inside one connection that move no data.
Sideways ==
    \/ thread' = thread \/ thread' \notin Serving
    \/ thread = "read" /\ thread' = "receiving"
    \/ thread = "receiving" /\ thread' = "read"
    \/ thread = "write" /\ thread' = "sending" /\ left > 0
    \/ thread = "sending" /\ thread' = "write"

(* A step that moves no data and serves no other connection preserves Life. *)
LEMMA QuietLife ==
  ASSUME TypeOK, Life, Sideways, accepts' = accepts \/ accepts' = <<>>,
         UNCHANGED <<sent, shut, back, nextConn, client, mine, taken, outcome, handled,
                     cur, got, left>>
  PROVE  Life'
<1>1. thread' \in Serving => thread \in Serving
  BY DEF Sideways, Serving
<1>2. Unmade'
  BY <1>1 DEF Life, Unmade, Replied
<1>3. Queued'
  <2>1. CASE accepts' = accepts
    BY <1>1, <2>1 DEF Life, Queued, Replied
  <2>2. CASE accepts' = <<>>
    BY <2>2 DEF Queued
  <2> QED BY <2>1, <2>2
<1>4. Served'
  BY DEF Life, Served, Sideways, Serving, Replying, Replied
<1>5. Accounts'
  BY DEF Life, Accounts, Replied
<1>6. Clients'
  BY DEF Life, Clients, Active
<1> QED BY <1>2, <1>3, <1>4, <1>5, <1>6 DEF Life

(* accept() moves the first connection of the queue into service. *)
LEMMA AcceptLife ==
  ASSUME TypeOK, Life, acceptReturn
  PROVE  Life'
<1>1. CASE FreeFds = {}
  <2>1. accepts' = accepts \/ accepts' = <<>>
    BY <1>1 DEF acceptReturn, QueueAfter, allocate
  <2> QED BY <1>1, <2>1, QuietLife
      DEF acceptReturn, allocate, ThreadOnly, connVars, clientVars, Sideways, Serving
<1>2. CASE FreeFds # {}
  <2>1. /\ accepts # <<>> /\ cur' = Head(accepts) /\ got' = 0 /\ thread' = "read"
        /\ accepts' \in {Tail(accepts), <<>>}
        /\ UNCHANGED <<left, handled, sent, shut, back, nextConn, client, mine, taken, outcome>>
    BY <1>2 DEF acceptReturn, QueueAfter, ThreadOnly, connVars, clientVars
  <2>2. accepts \in Seq(Conn) /\ ConnTypes /\ Chunks \in Nat
    BY PipeAssumption DEF TypeOK, ConnTypes
  <2>3. /\ Head(accepts) = accepts[1] /\ 1 \in DOMAIN accepts /\ Head(accepts) \in Conn
        /\ \A i \in DOMAIN Tail(accepts) :
              i + 1 \in DOMAIN accepts /\ i \in Nat /\ i # 0 /\ Tail(accepts)[i] = accepts[i + 1]
    BY <2>1, <2>2
  <2>4. Unmade'
    BY <2>1, <2>2, <2>3 DEF Life, Unmade, Queued, Replied, Serving, ConnTypes, Conn
  <2>5. Queued'
    <3>1. CASE accepts' = <<>>
      BY <3>1 DEF Queued
    <3>2. CASE accepts' = Tail(accepts)
      <4>1. \A i \in DOMAIN Tail(accepts) :
              /\ Tail(accepts)[i] < nextConn /\ handled[Tail(accepts)[i]] = 0
              /\ Replied(Tail(accepts)[i]) = 0 /\ Tail(accepts)[i] # Head(accepts)
        BY <2>3 DEF Life, Queued
      <4>2. \A i, j \in DOMAIN Tail(accepts) : i # j => Tail(accepts)[i] # Tail(accepts)[j]
        BY <2>3 DEF Life, Queued
      <4> QED BY <2>1, <3>2, <4>1, <4>2 DEF Queued, Replied
    <3> QED BY <2>1, <3>1, <3>2
  <2>6. Served'
    BY <2>1, <2>2, <2>3 DEF Life, Queued, Served, Serving, Replying, Replied, ConnTypes
  <2>7. Accounts'
    BY <2>1 DEF Life, Accounts, Replied
  <2>8. Clients'
    BY <2>1 DEF Life, Clients, Active
  <2> QED BY <2>4, <2>5, <2>6, <2>7, <2>8 DEF Life
<1> QED BY <1>1, <1>2

(* recv() of a piece, or of the end of the stream. *)
LEMMA RecvLife ==
  ASSUME TypeOK, Life, recvReturn
  PROVE  Life'
<1>1. /\ UNCHANGED <<accepts, handled, sent, shut, back, nextConn, client, mine, taken, outcome, cur>>
      /\ thread = "receiving" /\ cur \in Conn
  BY DEF recvReturn, ThreadOnly, connVars, clientVars, sockVars, Life, Served, Serving
<1>2. thread' \in Serving => thread \in Serving
  BY <1>1 DEF Serving
<1>3. Unmade' /\ Queued' /\ Accounts' /\ Clients'
  BY <1>1, <1>2 DEF Life, Unmade, Queued, Accounts, Clients, Active, Replied
<1>4. Served'
  <2>0. handled[cur] = 0 /\ Replied(cur) = 0 /\ got <= sent[cur]
        /\ got \in Nat /\ sent[cur] \in 0..Chunks /\ Chunks \in Nat
    BY <1>1, PipeAssumption DEF Life, Served, Serving, Replying, TypeOK
  <2>1. CASE got < sent[cur] /\ got' = got + 1 /\ thread' = "read"
    BY <1>1, <2>0, <2>1 DEF Served, Serving, Replying, Replied, TypeOK
  <2>2. CASE /\ got = sent[cur] /\ shut[cur] /\ thread' = afterMessage(got)
             /\ left' = Chunks /\ got' = got
    <3>1. thread' = "handler" => sent[cur] = Chunks
      BY <2>0, <2>2 DEF afterMessage
    <3>2. thread' = "write" => sent[cur] # Chunks
      BY <2>0, <2>2 DEF afterMessage
    <3>3. thread' \in {"close", "write", "handler"}
      BY <2>2 DEF afterMessage
    <3> QED BY <1>1, <2>0, <2>2, <3>1, <3>2, <3>3 DEF Served, Serving, Replying, Replied
  <2> QED BY <2>1, <2>2 DEF recvReturn
<1> QED BY <1>3, <1>4 DEF Life

(* The handler runs once for a connection, and the reply is pending. *)
LEMMA HandlerLife ==
  ASSUME TypeOK, Life, handlerReturn
  PROVE  Life'
<1>1. /\ UNCHANGED <<accepts, sent, shut, back, nextConn, client, mine, taken, outcome, cur, got, left>>
      /\ thread = "handler" /\ thread' = "write" /\ cur \in Conn
      /\ handled[cur] = 0 /\ Replied(cur) = 0 /\ shut[cur] /\ sent[cur] = Chunks /\ left = Chunks
  BY DEF handlerReturn, ThreadOnly, connVars, clientVars, sockVars, Life, Served, Serving,
     Replying
<1>2. /\ handled'[cur] = 1
      /\ \A k \in Conn : k # cur => handled'[k] = handled[k]
  BY <1>1 DEF handlerReturn, TypeOK
<1>3. Unmade'
  BY <1>1, <1>2 DEF Life, Unmade, Serving, Replied
<1>4. Queued'
  BY <1>1, <1>2 DEF Life, Queued, Serving, Replied, TypeOK
<1>5. Served'
  BY <1>1, <1>2, PipeAssumption DEF Served, Serving, Replying, Replied
<1>6. Accounts'
  BY <1>1, <1>2, PipeAssumption DEF Life, Accounts, Replied
<1>7. Clients'
  BY <1>1 DEF Life, Clients, Active
<1> QED BY <1>3, <1>4, <1>5, <1>6, <1>7 DEF Life

(* send() moves a piece of the reply, or finds that the client has gone. *)
LEMMA SendLife ==
  ASSUME TypeOK, Life, sendReturn
  PROVE  Life'
<1>1. UNCHANGED <<accepts, handled, sent, shut, nextConn, client, mine, taken, outcome, cur, got>>
  BY DEF sendReturn, sockVars, clientVars
<1>2. CASE UNCHANGED <<back, left>> /\ thread' = "close"
  BY <1>1, <1>2, QuietLife DEF Sideways, Serving
<1>3. CASE /\ back[cur] = 0 /\ back' = [back EXCEPT ![cur] = 1]
           /\ left' = left - 1 /\ thread' = "write"
  <2>1. /\ thread = "sending" /\ cur \in Conn /\ left > 0 /\ shut[cur]
        /\ taken[cur] + left = Chunks /\ (sent[cur] = Chunks => handled[cur] = 1)
        /\ left \in Nat /\ taken[cur] \in Nat /\ Chunks \in Nat
    BY <1>3, PipeAssumption
    DEF sendReturn, Life, Served, Serving, Replying, Replied, TypeOK
  <2>2. /\ back'[cur] = 1
        /\ \A k \in Conn : k # cur => back'[k] = back[k]
    BY <1>3, <2>1 DEF TypeOK
  <2>3. Unmade'
    BY <1>1, <1>3, <2>1, <2>2 DEF Life, Unmade, Replied, Serving
  <2>4. Queued'
    BY <1>1, <1>3, <2>1, <2>2 DEF Life, Queued, Replied, Serving, TypeOK
  <2>5. Served'
    BY <1>1, <1>3, <2>1, <2>2 DEF Served, Serving, Replying, Replied
  <2>6. Accounts'
    BY <1>1, <2>1, <2>2 DEF Life, Accounts, Replied
  <2>7. Clients'
    BY <1>1 DEF Life, Clients, Active
  <2> QED BY <2>3, <2>4, <2>5, <2>6, <2>7 DEF Life
<1> QED BY <1>2, <1>3 DEF sendReturn

(* A new connection, made by a client or by stop(), joins the queue. *)
LEMMA EnqueueQueued ==
  ASSUME TypeOK, Life, nextConn \in Conn,
         accepts' = Append(accepts, nextConn), nextConn' = nextConn + 1,
         UNCHANGED <<back, taken, handled, cur, thread>>
  PROVE  Queued'
<1>1. accepts \in Seq(Conn) /\ nextConn \in Nat
  BY DEF TypeOK, Conn
<1>2. \A i \in DOMAIN accepts' : i \in DOMAIN accepts \/ i = Len(accepts) + 1
  BY <1>1
<1>3. /\ \A i \in DOMAIN accepts : accepts'[i] = accepts[i]
      /\ accepts'[Len(accepts) + 1] = nextConn
  BY <1>1
<1>4. \A i \in DOMAIN accepts :
        /\ accepts[i] < nextConn /\ accepts[i] \in Conn
        /\ handled[accepts[i]] = 0 /\ Replied(accepts[i]) = 0
        /\ thread \in Serving => accepts[i] # cur
  BY <1>1 DEF Life, Queued
<1>5. handled[nextConn] = 0 /\ Replied(nextConn) = 0 /\ (thread \in Serving => nextConn # cur)
  BY DEF Life, Unmade, TypeOK, Conn
<1>6. \A i \in DOMAIN accepts' :
        /\ accepts'[i] < nextConn' /\ handled'[accepts'[i]] = 0
        /\ taken'[accepts'[i]] + back'[accepts'[i]] = 0
        /\ thread' \in Serving => accepts'[i] # cur'
  <2> TAKE i \in DOMAIN accepts'
  <2>1. CASE i \in DOMAIN accepts
    BY <1>1, <1>3, <1>4, <2>1 DEF Replied, Conn
  <2>2. CASE i = Len(accepts) + 1
    BY <1>1, <1>3, <1>5, <2>2 DEF Replied
  <2> QED BY <1>2, <2>1, <2>2
<1>7. \A i, j \in DOMAIN accepts' : i # j => accepts'[i] # accepts'[j]
  BY <1>1, <1>2, <1>3, <1>4 DEF Life, Queued, Conn
<1> QED BY <1>6, <1>7 DEF Queued, Replied

(* stop() connects, closes at once, and sends nothing. *)
LEMMA StopConnectLife ==
  ASSUME TypeOK, Life, stopConnect
  PROVE  Life'
<1>1. UNCHANGED <<thread, cur, got, left, sent, back, client, mine, taken, outcome, handled>>
  BY DEF stopConnect, threadVars, clientVars
<1>2. CASE UNCHANGED <<accepts, shut, gone, nextConn>>
  BY <1>1, <1>2, QuietLife DEF Sideways
<1>3. CASE ~UNCHANGED <<accepts, shut, gone, nextConn>>
  <2>1. /\ nextConn \in Conn /\ accepts' = Append(accepts, nextConn)
        /\ shut' = [shut EXCEPT ![nextConn] = TRUE] /\ nextConn' = nextConn + 1
    BY <1>3 DEF stopConnect
  <2>2. /\ nextConn \in Nat
        /\ \A k \in Conn : k # nextConn => shut'[k] = shut[k]
        /\ \A k \in Conn : shut[k] => shut'[k]
        /\ shut \in [Conn -> BOOLEAN]
    BY <2>1 DEF TypeOK, Conn
  <2>3. Unmade'
    BY <1>1, <2>1, <2>2 DEF Life, Unmade, Replied, Conn
  <2>4. Queued'
    BY <1>1, <2>1, EnqueueQueued
  <2>5. Served'
    BY <1>1, <2>2 DEF Life, Served, Serving, Replied
  <2>6. Accounts'
    BY <1>1, <2>2 DEF Life, Accounts, Replied
  <2>7. Clients'
    <3>1. \A c \in Client : Active(c) => mine[c] \in Conn /\ mine[c] < nextConn
      BY DEF Life, Clients
    <3>2. \A c \in Client : Active(c) => mine[c] < nextConn' /\ mine[c] # nextConn
      BY <2>1, <2>2, <3>1 DEF Conn
    <3>3. \A c \in Client : Active(c) => shut'[mine[c]] = shut[mine[c]]
      BY <2>2, <3>1, <3>2
    <3> QED BY <1>1, <3>2, <3>3 DEF Life, Clients, Active
  <2> QED BY <2>3, <2>4, <2>5, <2>6, <2>7 DEF Life
<1> QED BY <1>2, <1>3

(* A client connects. *)
LEMMA ConnectLife ==
  ASSUME TypeOK, Life, NEW c \in Client, NEW step \in {"probing", "sending"}, connectAs(c, step)
  PROVE  Life'
<1>1. /\ UNCHANGED <<thread, cur, got, left, sent, shut, back, taken, outcome, handled>>
      /\ accepts' = Append(accepts, nextConn) /\ nextConn' = nextConn + 1
      /\ client' = [client EXCEPT ![c] = step] /\ mine' = [mine EXCEPT ![c] = nextConn]
  BY DEF connectAs, ClientFrame, threadVars
<1>2. nextConn \in Conn /\ nextConn \in Nat
  BY PipeAssumption DEF connectAs, TypeOK, Conn
<1>3. Unmade'
  BY <1>1, <1>2 DEF Life, Unmade, Replied, Conn
<1>4. Queued'
  BY <1>1, <1>2, EnqueueQueued
<1>5. Served'
  BY <1>1 DEF Life, Served, Serving, Replied
<1>6. Accounts'
  BY <1>1 DEF Life, Accounts, Replied
<1>7. Clients'
  <2>1. mine'[c] = nextConn /\ \A d \in Client : d # c => mine'[d] = mine[d] /\ client'[d] = client[d]
    BY <1>1 DEF TypeOK
  <2>2. client'[c] = step
    BY <1>1 DEF TypeOK
  <2>3. outcome[nextConn] = "none" /\ ~shut[nextConn]
    BY <1>2 DEF Life, Unmade
  <2>4. \A d \in Client : Active(d) => mine[d] \in Conn /\ mine[d] < nextConn
    BY DEF Life, Clients
  <2>5. \A d \in Client : Active(d)' =>
          /\ mine'[d] \in Conn /\ mine'[d] < nextConn' /\ outcome'[mine'[d]] = "none"
          /\ client'[d] = "sending" => ~shut'[mine'[d]]
          /\ client'[d] = "waiting" => shut'[mine'[d]] /\ sent'[mine'[d]] = Chunks
    <3> TAKE d \in Client
    <3>1. CASE d = c
      BY <1>1, <1>2, <2>1, <2>2, <2>3, <3>1
    <3>2. CASE d # c
      BY <1>1, <1>2, <2>1, <2>4, <3>2 DEF Life, Clients, Active, Conn
    <3> QED BY <3>1, <3>2
  <2>6. \A d, e \in Client : Active(d)' /\ Active(e)' /\ d # e => mine'[d] # mine'[e]
    BY <1>2, <2>1, <2>4 DEF Life, Clients, Active
  <2> QED BY <2>5, <2>6 DEF Clients
<1> QED BY <1>3, <1>4, <1>5, <1>6, <1>7 DEF Life

(* A client closes its end, of its own accord or by its death. *)
LEMMA CloseLife ==
  ASSUME TypeOK, Life, NEW c \in Client, Active(c),
         NEW step \in {"idle", "dead"}, NEW result,
         result = "answered" => handled[mine[c]] = 1, clientClose(c, step, result)
  PROVE  Life'
<1>1. /\ UNCHANGED <<thread, cur, got, left, sent, back, taken, handled, nextConn, mine, accepts>>
      /\ client' = [client EXCEPT ![c] = step]
      /\ shut' = [shut EXCEPT ![mine[c]] = TRUE]
      /\ outcome' = [outcome EXCEPT ![mine[c]] = result]
  BY DEF clientClose, ClientFrame, threadVars
<1>2. mine[c] \in Conn /\ mine[c] < nextConn
  BY DEF Life, Clients
<1>3. /\ outcome'[mine[c]] = result
      /\ \A k \in Conn : shut[k] => shut'[k]
      /\ \A k \in Conn : k # mine[c] => shut'[k] = shut[k] /\ outcome'[k] = outcome[k]
  BY <1>1, <1>2 DEF TypeOK
<1>4. ~Active(c)' /\ \A d \in Client : d # c => client'[d] = client[d]
  BY <1>1 DEF Active, TypeOK
<1>5. Unmade'
  <2>1. \A k \in Conn : k >= nextConn => k # mine[c]
    BY <1>2 DEF Conn, TypeOK
  <2> QED BY <1>1, <1>3, <2>1 DEF Life, Unmade, Replied
<1>6. Queued'
  BY <1>1 DEF Life, Queued, Replied
<1>7. Served'
  BY <1>1, <1>3 DEF Life, Served, Serving, Replied
<1>8. Accounts'
  BY <1>1, <1>2, <1>3 DEF Life, Accounts, Replied
<1>9. Clients'
  <2>1. \A d \in Client : Active(d)' => d # c /\ Active(d) /\ mine[d] # mine[c] /\ mine[d] \in Conn
    BY <1>4 DEF Life, Clients, Active
  <2>2. \A d \in Client : Active(d)' =>
          /\ shut'[mine[d]] = shut[mine[d]] /\ outcome'[mine[d]] = outcome[mine[d]]
          /\ client'[d] = client[d]
    BY <1>3, <1>4, <2>1
  <2> QED BY <1>1, <2>1, <2>2 DEF Life, Clients
<1> QED BY <1>5, <1>6, <1>7, <1>8, <1>9 DEF Life

(* The other steps of a client on its connection. *)
LEMMA SendChunkLife ==
  ASSUME TypeOK, Life, NEW c \in Client, sendChunk(c), ~clientClose(c, "idle", "failed")
  PROVE  Life'
<1>1. /\ UNCHANGED <<thread, cur, got, left, shut, back, taken, outcome, handled, nextConn, client,
                     mine, accepts>>
      /\ client[c] = "sending" /\ sent[mine[c]] < Chunks
      /\ sent' = [sent EXCEPT ![mine[c]] = sent[mine[c]] + 1]
  BY DEF sendChunk, ClientFrame, threadVars, clientVars
<1>2. mine[c] \in Conn /\ mine[c] < nextConn /\ ~shut[mine[c]]
  BY <1>1 DEF Life, Clients, Active
<1>3. /\ sent'[mine[c]] = sent[mine[c]] + 1 /\ sent[mine[c]] \in Nat
      /\ \A k \in Conn : k # mine[c] => sent'[k] = sent[k]
  BY <1>1, <1>2 DEF TypeOK
<1>4. Unmade'
  <2>1. \A k \in Conn : k >= nextConn => k # mine[c]
    BY <1>2 DEF Conn, TypeOK
  <2> QED BY <1>1, <1>3, <2>1 DEF Life, Unmade, Replied
<1>5. Queued'
  BY <1>1 DEF Life, Queued, Replied
<1>6. Served'
  <2>1. \A k \in Conn : shut[k] => sent'[k] = sent[k]
    BY <1>2, <1>3
  <2>2. thread \in Serving => cur \in Conn /\ sent[cur] <= sent'[cur] /\ got \in Nat
    <3>1. got \in Nat /\ \A k \in Conn : sent[k] \in Nat
      BY DEF TypeOK
    <3>2. \A k \in Conn : sent[k] <= sent'[k]
      BY <1>3, <3>1
    <3> QED BY <3>1, <3>2 DEF Life, Served
  <2>3. thread \in Serving => sent[cur] \in Nat /\ sent'[cur] \in Nat
    <3>1. \A k \in Conn : sent[k] \in Nat
      BY DEF TypeOK
    <3>2. \A k \in Conn : sent'[k] \in Nat
      BY <1>3, <3>1
    <3> QED BY <2>2, <3>1, <3>2
  <2> QED BY <1>1, <2>1, <2>2, <2>3 DEF Life, Served, Serving, Replying, Replied
<1>7. Accounts'
  BY <1>1, <1>2, <1>3 DEF Life, Accounts, Replied
<1>8. Clients'
  BY <1>1, <1>2, <1>3 DEF Life, Clients, Active
<1> QED BY <1>4, <1>5, <1>6, <1>7, <1>8 DEF Life

(* The half-close of a client that has sent its whole request. *)
LEMMA ShutdownLife ==
  ASSUME TypeOK, Life, NEW c \in Client, shutdownWrite(c)
  PROVE  Life'
<1>1. /\ UNCHANGED <<thread, cur, got, left, sent, back, taken, outcome, handled, nextConn, mine,
                     accepts>>
      /\ client[c] = "sending" /\ sent[mine[c]] = Chunks
      /\ client' = [client EXCEPT ![c] = "waiting"]
      /\ shut' = [shut EXCEPT ![mine[c]] = TRUE]
  BY DEF shutdownWrite, ClientFrame, threadVars
<1>2. mine[c] \in Conn /\ mine[c] < nextConn /\ outcome[mine[c]] = "none"
  BY <1>1 DEF Life, Clients, Active
<1>3. /\ shut'[mine[c]]
      /\ \A k \in Conn : shut[k] => shut'[k]
      /\ \A k \in Conn : k # mine[c] => shut'[k] = shut[k]
  BY <1>1, <1>2 DEF TypeOK
<1>4. /\ client'[c] = "waiting" /\ \A d \in Client : d # c => client'[d] = client[d]
      /\ \A d \in Client : Active(d)' <=> Active(d)
  BY <1>1 DEF TypeOK, Active
<1>5. Unmade'
  <2>1. \A k \in Conn : k >= nextConn => k # mine[c]
    BY <1>2 DEF Conn, TypeOK
  <2> QED BY <1>1, <1>3, <2>1 DEF Life, Unmade, Replied
<1>6. Queued' /\ Served' /\ Accounts'
  BY <1>1, <1>3 DEF Life, Queued, Served, Accounts, Serving, Replied
<1>7. Clients'
  <2>1. \A d \in Client : d # c /\ Active(d) => mine[d] # mine[c] /\ shut'[mine[d]] = shut[mine[d]]
    BY <1>1, <1>3 DEF Life, Clients, Active
  <2>2. \A d \in Client : Active(d)' =>
          /\ mine[d] \in Conn /\ mine[d] < nextConn /\ outcome[mine[d]] = "none"
          /\ client'[d] = "sending" => ~shut'[mine[d]]
          /\ client'[d] = "waiting" => shut'[mine[d]] /\ sent[mine[d]] = Chunks
    <3> SUFFICES ASSUME NEW d \in Client, Active(d)
                 PROVE  /\ mine[d] \in Conn /\ mine[d] < nextConn /\ outcome[mine[d]] = "none"
                        /\ client'[d] = "sending" => ~shut'[mine[d]]
                        /\ client'[d] = "waiting" => shut'[mine[d]] /\ sent[mine[d]] = Chunks
      BY <1>4
    <3>1. CASE d = c
      BY <1>1, <1>2, <1>3, <1>4, <3>1
    <3>2. CASE d # c
      BY <1>4, <2>1, <3>2 DEF Life, Clients
    <3> QED BY <3>1, <3>2
  <2>3. \A d, e \in Client : Active(d)' /\ Active(e)' /\ d # e => mine[d] # mine[e]
    BY <1>4 DEF Life, Clients
  <2> QED BY <1>1, <2>2, <2>3 DEF Clients
<1> QED BY <1>5, <1>6, <1>7 DEF Life

(* A piece of the reply passes from the socket to the client. *)
LEMMA RecvChunkLife ==
  ASSUME TypeOK, Life, NEW c \in Client, recvChunk(c)
  PROVE  Life'
<1>1. /\ UNCHANGED <<thread, cur, got, left, sent, shut, outcome, handled, nextConn, client, mine,
                     accepts>>
      /\ client[c] = "waiting" /\ back[mine[c]] > 0
      /\ back' = [back EXCEPT ![mine[c]] = 0]
      /\ taken' = [taken EXCEPT ![mine[c]] = taken[mine[c]] + 1]
  BY DEF recvChunk, ClientFrame, threadVars
<1>2. mine[c] \in Conn /\ back[mine[c]] = 1
  BY <1>1 DEF Life, Clients, Active, TypeOK
<1>3. \A k \in Conn : taken'[k] + back'[k] = taken[k] + back[k]
  BY <1>1, <1>2 DEF TypeOK
<1>4. Queued'
  BY <1>1, <1>3 DEF Life, Queued, Replied, TypeOK
<1>5. Unmade' /\ Served' /\ Accounts'
  BY <1>1, <1>3 DEF Life, Unmade, Served, Accounts, Serving, Replied
<1>6. Clients'
  BY <1>1 DEF Life, Clients, Active
<1> QED BY <1>4, <1>5, <1>6 DEF Life

(* Every step of a client. *)
LEMMA ClientLife ==
  ASSUME TypeOK, Life, NEW c \in Client,
         probeConnect(c) \/ transactConnect(c) \/ clientSteps(c) \/ die(c)
  PROVE  Life'
<1>1. CASE probeConnect(c) \/ transactConnect(c)
  BY <1>1, ConnectLife DEF probeConnect, transactConnect
<1>2. CASE probeClose(c) \/ die(c)
  BY <1>2, CloseLife DEF probeClose, die, Active
<1>3. CASE sendChunk(c)
  <2>1. CASE clientClose(c, "idle", "failed")
    BY <1>3, <2>1, CloseLife DEF sendChunk, Active
  <2>2. CASE ~clientClose(c, "idle", "failed")
    BY <1>3, <2>2, SendChunkLife
  <2> QED BY <2>1, <2>2
<1>4. CASE recvEnd(c)
  <2>1. Active(c) /\ mine[c] \in Conn /\ sent[mine[c]] = Chunks
    BY <1>4 DEF recvEnd, Active, Life, Clients
  <2>2. taken[mine[c]] = Chunks => handled[mine[c]] = 1
    <3>1. back \in [Conn -> {0, 1}]
      BY DEF TypeOK
    <3>2. back[mine[c]] \in {0, 1}
      BY <2>1, <3>1
    <3>3. Chunks \in Nat /\ Chunks > 0
      BY PipeAssumption
    <3>4. taken[mine[c]] = Chunks => Replied(mine[c]) > 0
      BY <3>2, <3>3 DEF Replied
    <3> QED BY <2>1, <3>4 DEF Life, Accounts
  <2> DEFINE result == IF taken[mine[c]] = Chunks THEN "answered" ELSE "failed"
  <2>3. result = "answered" => handled[mine[c]] = 1
    BY <2>2
  <2>4. clientClose(c, "idle", result)
    BY <1>4 DEF recvEnd
  <2> HIDE DEF result
  <2> QED BY <2>1, <2>3, <2>4, CloseLife
<1> QED BY <1>1, <1>2, <1>3, <1>4, ShutdownLife, RecvChunkLife DEF clientSteps

(* Every step preserves the strengthening. *)
LEMMA LifeStep ==
  ASSUME TypeOK, Life, [Next]_vars
  PROVE  Life'
<1>1. CASE \/ start \/ runBegin \/ openSocket \/ bindListen \/ loopTop \/ acceptCall
           \/ readTop \/ writeTop \/ closeClient \/ clearClient \/ runEnd
  <2>1. accepts' = accepts \/ accepts' = <<>>
    BY <1>1 DEF start, runBegin, openSocket, bindListen, loopTop, acceptCall, readTop, writeTop,
       closeClient, clearClient, ClearClient, runEnd, close, QueueAfter, sockVars
  <2>2. Sideways
    BY <1>1 DEF start, runBegin, openSocket, bindListen, loopTop, acceptCall, readTop, writeTop,
       closeClient, clearClient, ClearClient, At, Goto, runEnd, Sideways, Serving
  <2>3. UNCHANGED <<sent, shut, back, nextConn, client, mine, taken, outcome, handled,
                    cur, got, left>>
    BY <1>1 DEF start, runBegin, openSocket, bindListen, loopTop, acceptCall, readTop, writeTop,
       closeClient, clearClient, ClearClient, runEnd, ThreadOnly, connVars, clientVars
  <2> QED BY <2>1, <2>2, <2>3, QuietLife
<1>2. CASE closeCurrentPipe("run", "unlink") \/ closeCurrentPipe("stop", "connect")
  <2>1. accepts' = accepts \/ accepts' = <<>>
    BY <1>2 DEF closeCurrentPipe, CheckFd, CloseFd, ClearClient, ClearServer, close, QueueAfter,
       sockVars
  <2>2. Sideways
    BY <1>2 DEF closeCurrentPipe, CheckFd, CloseFd, ClearClient, ClearServer, At, Goto, Sideways,
       Serving
  <2>3. UNCHANGED <<sent, shut, back, nextConn, client, mine, taken, outcome, handled,
                    cur, got, left>>
    BY <1>2 DEF closeCurrentPipe, CheckFd, CloseFd, ClearClient, ClearServer, connVars, clientVars
  <2> QED BY <2>1, <2>2, <2>3, QuietLife
<1>3. CASE interrupted \/ stopBegin \/ stopJoin
  <2>1. accepts' = accepts \/ accepts' = <<>>
    BY <1>3 DEF interrupted, stopBegin, stopJoin, QueueAfter, sockVars
  <2>2. Sideways
    BY <1>3 DEF interrupted, stopBegin, stopJoin, threadVars, Sideways, Serving
  <2>3. UNCHANGED <<sent, shut, back, nextConn, client, mine, taken, outcome, handled,
                    cur, got, left>>
    BY <1>3 DEF interrupted, stopBegin, stopJoin, threadVars, connVars, clientVars
  <2> QED BY <2>1, <2>2, <2>3, QuietLife
<1>4. CASE openFile \/ (\E f \in Fd : closeFile(f)) \/ processExit \/ UNCHANGED vars
  <2>1. accepts' = accepts \/ accepts' = <<>>
    BY <1>4 DEF openFile, closeFile, processExit, AppFrame, vars, sockVars
  <2>2. Sideways
    BY <1>4 DEF openFile, closeFile, processExit, AppFrame, vars, threadVars, Sideways, Serving
  <2>3. UNCHANGED <<sent, shut, back, nextConn, client, mine, taken, outcome, handled,
                    cur, got, left>>
    BY <1>4 DEF openFile, closeFile, processExit, AppFrame, vars, threadVars, connVars, clientVars
  <2> QED BY <2>1, <2>2, <2>3, QuietLife
<1> QED BY <1>1, <1>2, <1>3, <1>4, AcceptLife, RecvLife, HandlerLife, SendLife, StopConnectLife,
           ClientLife
    DEF Next, run, stopSteps, environment

(* The invariant holds before the server is started. *)
LEMMA InvInit == Init => Inv
<1>1. ASSUME Init PROVE TypeOK
  <2>1. /\ m_stop \in BOOLEAN /\ m_running \in BOOLEAN /\ hasPath \in BOOLEAN
        /\ m_serverFd \in Fd \cup {NoFd} /\ m_clientFd \in Fd \cup {NoFd}
        /\ tmp \in [{"run", "stop"} -> Fd \cup {NoFd}]
    BY <1>1 DEF Init
  <2>2. /\ thread \in ThreadSteps /\ stopper \in StopperSteps
        /\ cur \in Conn \cup {0} /\ got \in 0..Chunks /\ left \in 0..Chunks
    BY <1>1, PipeAssumption DEF Init, ThreadSteps, StopperSteps
  <2>3. /\ fds \in [Fd -> Conn \cup {Closed, Listener, AppFile}]
        /\ accepts \in Seq(Conn) /\ listens \in BOOLEAN
    BY <1>1, EmptySeq DEF Init
  <2>4. /\ sent \in [Conn -> 0..Chunks] /\ shut \in [Conn -> BOOLEAN]
        /\ back \in [Conn -> {0, 1}] /\ gone \in [Conn -> BOOLEAN]
    BY <1>1, PipeAssumption DEF Init
  <2>5. nextConn \in 1..(MaxConn + 1)
    BY <1>1, PipeAssumption DEF Init
  <2>6. /\ client \in [Client -> {"idle", "probing", "sending", "waiting", "dead"}]
        /\ mine \in [Client -> Conn \cup {0}]
    BY <1>1 DEF Init
  <2>7. /\ taken \in [Conn -> 0..Chunks] /\ handled \in [Conn -> Nat]
        /\ outcome \in [Conn -> {"none", "answered", "failed", "lost"}]
    BY <1>1, PipeAssumption DEF Init
  <2>8. appFiles \in Nat /\ signals \in Nat /\ stops \in Nat /\ foreign \in BOOLEAN
    BY <1>1 DEF Init
  <2> QED BY <2>1, <2>2, <2>3, <2>4, <2>5, <2>6, <2>7, <2>8 DEF TypeOK
<1>2. ASSUME Init PROVE Unmade /\ Queued /\ Served /\ Accounts /\ Clients
  BY <1>2, PipeAssumption DEF Init, Unmade, Queued, Served, Accounts, Clients, Serving, Replied,
     Active
<1> QED BY <1>1, <1>2 DEF Inv

(* Every step of the server, the kernel, a client or the application keeps it. *)
LEMMA InvNext == Inv /\ [Next]_vars => Inv'
  BY TypeStep, LifeStep DEF Inv, Life

(* The strengthening is an invariant of the server. *)
LEMMA Invariant == Spec => []Inv
  BY InvInit, InvNext, PTL DEF Spec

-----------------------------------------------------------------------------
(* The members and the kernel's tables keep their types: in particular the *)
(* remaining length of a reply never goes below zero.                      *)
THEOREM TypeCorrect == Spec => []TypeOK
<1>1. Inv => TypeOK
  BY DEF Inv
<1> QED BY <1>1, Invariant, PTL

(* A client that got a whole reply had its request handled exactly once, and *)
(* no request is handled twice, for any number of clients, stops, signals,   *)
(* deaths and descriptors.                                                   *)
THEOREM AnsweredExactlyOnce == Spec => []AnsweredOnce
<1>1. Inv => AnsweredOnce
  BY DEF Inv, Accounts, AnsweredOnce
<1> QED BY <1>1, Invariant, PTL

(* Nothing but a request sent to its end reaches the handler. *)
THEOREM WholeRequestsOnly == Spec => []OnlyWholeRequests
<1>1. Inv => OnlyWholeRequests
  <2> SUFFICES ASSUME Inv, NEW k \in Conn, handled[k] > 0 PROVE sent[k] = Chunks
    BY DEF OnlyWholeRequests
  <2>1. handled[k] = 1
    BY DEF Inv, Accounts, TypeOK
  <2> QED BY <2>1 DEF Inv, Accounts
<1> QED BY <1>1, Invariant, PTL

-----------------------------------------------------------------------------
(* The server implements Rpc.                                              *)

(* Only three kinds of step are visible to Rpc. *)
LEMMA RpcInvisible ==
  ASSUME UNCHANGED <<sent, handled, outcome>>
  PROVE  UNCHANGED R!vars
  BY DEF R!vars, Asked, Executed

(* Rpc's view of one connection. *)
LEMMA ViewOf ==
  ASSUME NEW k \in Conn
  PROVE  (Asked[k] <=> sent[k] = Chunks) /\ (Executed[k] <=> handled[k] > 0)
  BY Zenon DEF Asked, Executed

(* What Rpc sees is known entry by entry. *)
LEMMA AskedEntries ==
  ASSUME NEW k \in Conn, sent'[k] = Chunks,
         \A j \in Conn : j # k => sent'[j] = sent[j]
  PROVE  Asked' = [Asked EXCEPT ![k] = TRUE]
<1>1. \A j \in Conn : (sent'[j] = Chunks) = (IF j = k THEN TRUE ELSE sent[j] = Chunks)
  OBVIOUS
<1> QED BY <1>1 DEF Asked

(* The same of the calls that were executed. *)
LEMMA ExecutedEntries ==
  ASSUME NEW k \in Conn, handled'[k] > 0,
         \A j \in Conn : j # k => handled'[j] = handled[j]
  PROVE  Executed' = [Executed EXCEPT ![k] = TRUE]
<1>1. \A j \in Conn : (handled'[j] > 0) = (IF j = k THEN TRUE ELSE handled[j] > 0)
  OBVIOUS
<1> QED BY <1>1 DEF Executed

(* A client that gives up or dies fails its call. *)
LEMMA RpcClose ==
  ASSUME Inv, NEW c \in Client, Active(c), NEW step \in {"idle", "dead"},
         NEW result \in {"failed", "lost"}, clientClose(c, step, result)
  PROVE  [R!Next]_R!vars
<1>1. mine[c] \in Conn /\ outcome[mine[c]] = "none"
  BY DEF Inv, Clients
<1>2. R!Fail(mine[c])
  BY <1>1 DEF R!Fail, clientClose, ClientFrame, Asked, Executed
<1> QED BY <1>1, <1>2 DEF R!Next

(* A step of a client asks a call, answers or fails it, or is not seen. *)
LEMMA RpcClient ==
  ASSUME Inv, NEW c \in Client,
         probeConnect(c) \/ transactConnect(c) \/ clientSteps(c) \/ die(c)
  PROVE  [R!Next]_R!vars
<1>1. CASE probeConnect(c) \/ transactConnect(c) \/ shutdownWrite(c) \/ recvChunk(c)
  BY <1>1, RpcInvisible
  DEF probeConnect, transactConnect, connectAs, shutdownWrite, recvChunk, ClientFrame
<1>2. CASE probeClose(c)
  <2>1. mine[c] \in Conn /\ outcome[mine[c]] = "none"
    BY <1>2 DEF probeClose, Inv, Clients, Active
  <2>2. outcome' = outcome
    BY <1>2, <2>1 DEF probeClose, clientClose, Inv, TypeOK
  <2> QED BY <1>2, <2>2, RpcInvisible DEF probeClose, clientClose, ClientFrame
<1>3. CASE die(c)
  BY <1>3, RpcClose DEF die, Active
<1>4. CASE sendChunk(c)
  <2>1. CASE clientClose(c, "idle", "failed")
    BY <1>4, <2>1, RpcClose DEF sendChunk, Active
  <2>2. CASE ~clientClose(c, "idle", "failed")
    <3>1. /\ mine[c] \in Conn /\ outcome[mine[c]] = "none" /\ sent[mine[c]] < Chunks
          /\ sent' = [sent EXCEPT ![mine[c]] = sent[mine[c]] + 1]
          /\ UNCHANGED <<handled, outcome>>
      BY <1>4, <2>2 DEF sendChunk, ClientFrame, clientVars, Inv, Clients, Active
    <3>2. CASE sent[mine[c]] + 1 = Chunks
      <4>1. sent'[mine[c]] = Chunks /\ \A j \in Conn : j # mine[c] => sent'[j] = sent[j]
        BY <3>1, <3>2 DEF Inv, TypeOK
      <4>2. Asked' = [Asked EXCEPT ![mine[c]] = TRUE]
        BY <3>1, <4>1, AskedEntries
      <4>3. ~Asked[mine[c]]
        <5>1. sent[mine[c]] # Chunks
          BY <3>1, PipeAssumption DEF Inv, TypeOK
        <5> QED BY <3>1, <5>1, ViewOf
      <4>4. UNCHANGED <<Executed, outcome>>
        BY <3>1 DEF Executed
      <4>5. R!Ask(mine[c])
        BY <3>1, <4>2, <4>3, <4>4 DEF R!Ask
      <4>6. R!Next
        BY Zenon, <3>1, <4>5 DEF R!Next
      <4> QED BY <4>6
    <3>3. CASE sent[mine[c]] + 1 # Chunks
      <4>1. \A k \in Conn : (sent'[k] = Chunks) = (sent[k] = Chunks)
        BY <3>1, <3>3, PipeAssumption DEF Inv, TypeOK
      <4>2. Asked' = Asked
        BY <4>1 DEF Asked
      <4> QED BY <3>1, <4>2 DEF R!vars, Executed
    <3> QED BY <3>2, <3>3
  <2> QED BY <2>1, <2>2
<1>5. CASE recvEnd(c)
  <2>1. Active(c) /\ mine[c] \in Conn /\ sent[mine[c]] = Chunks /\ outcome[mine[c]] = "none"
    BY <1>5 DEF recvEnd, Active, Inv, Clients
  <2>2. CASE taken[mine[c]] # Chunks
    BY <1>5, <2>1, <2>2, RpcClose DEF recvEnd
  <2>3. CASE taken[mine[c]] = Chunks
    <3>1. Replied(mine[c]) > 0
      <4>1. back \in [Conn -> {0, 1}]
        BY DEF Inv, TypeOK
      <4>2. back[mine[c]] \in {0, 1}
        BY <2>1, <4>1
      <4>3. Chunks > 0 /\ Chunks \in Nat
        BY PipeAssumption
      <4> QED BY <2>3, <4>2, <4>3 DEF Replied
    <3>2. handled[mine[c]] = 1
      BY <2>1, <3>1 DEF Inv, Accounts
    <3>3. outcome' = [outcome EXCEPT ![mine[c]] = "answered"]
      BY <1>5, <2>3 DEF recvEnd, clientClose
    <3>4. UNCHANGED <<Asked, Executed>>
      BY <1>5 DEF recvEnd, clientClose, ClientFrame, Asked, Executed
    <3>5. Asked[mine[c]] /\ Executed[mine[c]]
      <4>1. handled[mine[c]] > 0
        BY <3>2
      <4> QED BY <2>1, <4>1, ViewOf
    <3>6. R!Answer(mine[c])
      BY <2>1, <3>3, <3>4, <3>5 DEF R!Answer
    <3> QED BY <2>1, <3>6 DEF R!Next
  <2> QED BY <2>2, <2>3
<1> QED BY <1>1, <1>2, <1>3, <1>4, <1>5 DEF clientSteps

(* The return of the handler executes the call being served. *)
LEMMA RpcHandler ==
  ASSUME Inv, handlerReturn
  PROVE  [R!Next]_R!vars
<1>1. /\ cur \in Conn /\ handled[cur] = 0 /\ sent[cur] = Chunks
      /\ handled' = [handled EXCEPT ![cur] = handled[cur] + 1]
      /\ UNCHANGED <<sent, outcome>>
  BY DEF handlerReturn, ThreadOnly, connVars, clientVars, Inv, Served, Serving, Replying
<1>2. handled'[cur] > 0 /\ \A j \in Conn : j # cur => handled'[j] = handled[j]
  BY <1>1 DEF Inv, TypeOK
<1>3. Executed' = [Executed EXCEPT ![cur] = TRUE]
  BY <1>1, <1>2, ExecutedEntries
<1>4. Asked[cur] /\ ~Executed[cur]
  <2>1. ~(handled[cur] > 0)
    BY <1>1
  <2> QED BY <1>1, <2>1, ViewOf
<1>5. UNCHANGED <<Asked, outcome>>
  BY <1>1 DEF Asked
<1>6. R!Execute(cur)
  BY <1>3, <1>4, <1>5 DEF R!Execute
<1>7. R!Next
  BY Zenon, <1>1, <1>6 DEF R!Next
<1> QED BY <1>7

(* Every step is a step of Rpc or leaves its variables alone. *)
LEMMA RpcStep ==
  ASSUME Inv, [Next]_vars
  PROVE  [R!Next]_R!vars
<1>1. CASE run
  <2>1. UNCHANGED <<sent, handled, outcome>>
    BY <1>1 DEF run, runBegin, openSocket, bindListen, loopTop, acceptCall, acceptReturn, readTop,
       recvReturn, writeTop, sendReturn, closeClient, clearClient, closeCurrentPipe, runEnd,
       ThreadOnly, connVars, clientVars
  <2> QED BY <2>1, RpcInvisible
<1>2. CASE start \/ stopBegin \/ stopSteps \/ UNCHANGED vars
  <2>1. UNCHANGED <<sent, handled, outcome>>
    BY <1>2 DEF start, stopBegin, stopSteps, closeCurrentPipe, stopConnect, stopJoin, vars,
       connVars, clientVars
  <2> QED BY <2>1, RpcInvisible
<1>3. CASE interrupted \/ openFile \/ (\E f \in Fd : closeFile(f)) \/ processExit
  <2>1. UNCHANGED <<sent, handled, outcome>>
    BY <1>3 DEF interrupted, openFile, closeFile, processExit, AppFrame, connVars, clientVars
  <2> QED BY <2>1, RpcInvisible
<1> QED BY <1>1, <1>2, <1>3, RpcHandler, RpcClient DEF Next, environment

(* Seen from the clients, the socket server of the Qt backend is a remote     *)
(* procedure call that executes each request at most once and answers only    *)
(* what it has executed.                                                      *)
THEOREM Implementation == Spec => ImplementsRpc
<1>1. Init => R!Init
  <2> SUFFICES ASSUME Init PROVE R!Init
    OBVIOUS
  <2>1. \A k \in Conn : (sent[k] = Chunks) = FALSE /\ (handled[k] > 0) = FALSE
    BY PipeAssumption DEF Init
  <2>2. Asked = [k \in Conn |-> FALSE] /\ Executed = [k \in Conn |-> FALSE]
    BY <2>1 DEF Asked, Executed
  <2> QED BY <2>2 DEF Init, R!Init
<1> QED BY <1>1, Invariant, RpcStep, PTL DEF Spec, R!Spec, ImplementsRpc

-----------------------------------------------------------------------------
(***************************************************************************)
(* Descriptors.  Between the check, the close and the reset of a member    *)
(* each thread holds a number that the other may have closed.  What saves  *)
(* the server is that each member is set once before stop() can tell run() *)
(* to end, and that neither is reset while what it names is open.          *)
(***************************************************************************)
NoListener == \A f \in Fd : fds[f] # Listener
NoConn == \A f \in Fd : fds[f] \notin Conn

Named ==
    \A f \in Fd :
        /\ fds[f] = Listener => f = m_serverFd
        /\ fds[f] \in Conn => f = m_clientFd

RunClient ==
    /\ thread = "client close" => \A f \in Fd : fds[f] \in Conn => f = tmp["run"]
    /\ thread \in {"clear", "client clear"} => NoConn
    /\ thread \in {"none", "begin", "socket", "bind", "loop", "accept", "accepting", "server?",
                   "server close", "server clear", "unlink", "done"} => m_clientFd = NoFd

RunServer ==
    /\ thread = "server close" => \A f \in Fd : fds[f] = Listener => f = tmp["run"]
    /\ thread = "server clear" => NoListener
    /\ thread \in {"none", "begin", "socket", "unlink", "done"} => m_serverFd = NoFd

StopClient ==
    stopper \in {"client close", "client clear"} =>
        /\ thread \notin {"begin", "socket", "bind", "accept", "accepting"}
        /\ stopper = "client close" => \A f \in Fd : fds[f] \in Conn => f = tmp["stop"]
        /\ stopper = "client clear" => NoConn

StopServer ==
    stopper \in {"server close", "server clear"} =>
        /\ thread \notin {"begin", "socket"}
        /\ stopper = "server close" => \A f \in Fd : fds[f] = Listener => f = tmp["stop"]
        /\ stopper = "server clear" => NoListener

Stopping == stopper # "idle" => m_stop /\ thread # "none"

Published ==
    /\ thread \in {"none", "begin", "socket", "bind", "done", "dead"} => ~listens
    /\ thread = "done" => ~m_running

FdInv == Named /\ RunClient /\ RunServer /\ StopClient /\ StopServer /\ Stopping /\ Published


FdVars == <<fds, m_serverFd, m_clientFd, tmp, thread, stopper, m_stop, listens, m_running>>

(* A step that leaves the members and the table alone keeps the invariant. *)
LEMMA FdFrame ==
  ASSUME FdInv, UNCHANGED FdVars
  PROVE  FdInv'
<1>1. /\ UNCHANGED <<fds, m_serverFd, m_clientFd, tmp, thread, stopper>>
      /\ UNCHANGED <<m_stop, listens, m_running>>
  BY DEF FdVars
<1>2. Named' /\ RunClient' /\ RunServer'
  BY <1>1 DEF FdInv, Named, RunClient, RunServer, NoListener, NoConn
<1>3. StopClient' /\ StopServer'
  BY <1>1 DEF FdInv, StopClient, StopServer, NoListener, NoConn
<1>4. Stopping' /\ Published'
  BY <1>1 DEF FdInv, Stopping, Published
<1> QED BY <1>2, <1>3, <1>4 DEF FdInv

(* No descriptor has the number that stands for none. *)
LEMMA FdIsNumber == \A f \in Fd : f # NoFd
BY DEF Fd, NoFd

(* The steps that open and close nothing. *)
LEMMA FdQuiet ==
  ASSUME TypeOK, FdInv,
         \/ runBegin \/ bindListen \/ loopTop \/ acceptCall \/ readTop \/ recvReturn \/ writeTop
         \/ sendReturn \/ clearClient \/ runEnd \/ handlerReturn \/ interrupted \/ start
         \/ stopBegin \/ stopConnect \/ stopJoin
  PROVE  FdInv'
<1>0. /\ fds \in [Fd -> Conn \cup {Closed, Listener, AppFile}] /\ m_serverFd \in Fd \cup {NoFd}
      /\ m_clientFd \in Fd \cup {NoFd} /\ thread \in ThreadSteps /\ stopper \in StopperSteps
      /\ m_stop \in BOOLEAN
  BY DEF TypeOK
<1>1. CASE runBegin
  BY <1>0, <1>1 DEF runBegin, ThreadOnly, serverVars, threadVars, sockVars,
     FdInv, Named, RunClient, RunServer,
     StopClient, StopServer, Stopping, Published, NoListener, NoConn, ThreadSteps, StopperSteps,
     Ending, Serving, Closed, Listener, AppFile, Conn, Fd, NoFd
<1>2. CASE bindListen
  BY <1>0, <1>2 DEF bindListen, ThreadOnly, serverVars, threadVars, sockVars,
     FdInv, Named, RunClient, RunServer,
     StopClient, StopServer, Stopping, Published, NoListener, NoConn, ThreadSteps, StopperSteps,
     Ending, Serving, Closed, Listener, AppFile, Conn, Fd, NoFd
<1>3. CASE loopTop
  BY <1>0, <1>3 DEF loopTop, ThreadOnly, serverVars, threadVars, sockVars,
     FdInv, Named, RunClient, RunServer,
     StopClient, StopServer, Stopping, Published, NoListener, NoConn, ThreadSteps, StopperSteps,
     Ending, Serving, Closed, Listener, AppFile, Conn, Fd, NoFd
<1>4. CASE acceptCall
  BY <1>0, <1>4 DEF acceptCall, ThreadOnly, serverVars, threadVars, sockVars,
     FdInv, Named, RunClient, RunServer,
     StopClient, StopServer, Stopping, Published, NoListener, NoConn, ThreadSteps, StopperSteps,
     Ending, Serving, Closed, Listener, AppFile, Conn, Fd, NoFd
<1>5. CASE readTop
  BY <1>0, <1>5 DEF readTop, ThreadOnly, serverVars, threadVars, sockVars,
     FdInv, Named, RunClient, RunServer,
     StopClient, StopServer, Stopping, Published, NoListener, NoConn, ThreadSteps, StopperSteps,
     Ending, Serving, Closed, Listener, AppFile, Conn, Fd, NoFd
<1>6. CASE recvReturn
  BY <1>0, <1>6 DEF recvReturn, afterMessage, ThreadOnly, serverVars, threadVars, sockVars,
     FdInv, Named, RunClient, RunServer,
     StopClient, StopServer, Stopping, Published, NoListener, NoConn, ThreadSteps, StopperSteps,
     Ending, Serving, Closed, Listener, AppFile, Conn, Fd, NoFd
<1>7. CASE writeTop
  BY <1>0, <1>7 DEF writeTop, ThreadOnly, serverVars, threadVars, sockVars,
     FdInv, Named, RunClient, RunServer,
     StopClient, StopServer, Stopping, Published, NoListener, NoConn, ThreadSteps, StopperSteps,
     Ending, Serving, Closed, Listener, AppFile, Conn, Fd, NoFd
<1>8. CASE sendReturn
  BY <1>0, <1>8 DEF sendReturn, ThreadOnly, serverVars, threadVars, sockVars,
     FdInv, Named, RunClient, RunServer,
     StopClient, StopServer, Stopping, Published, NoListener, NoConn, ThreadSteps, StopperSteps,
     Ending, Serving, Closed, Listener, AppFile, Conn, Fd, NoFd
<1>9. CASE clearClient
  BY <1>0, <1>9 DEF clearClient, ClearClient, At, Goto, ThreadOnly, serverVars, threadVars,
     sockVars,
     FdInv, Named, RunClient, RunServer,
     StopClient, StopServer, Stopping, Published, NoListener, NoConn, ThreadSteps, StopperSteps,
     Ending, Serving, Closed, Listener, AppFile, Conn, Fd, NoFd
<1>10. CASE runEnd
  BY <1>0, <1>10 DEF runEnd, ThreadOnly, serverVars, threadVars, sockVars,
     FdInv, Named, RunClient, RunServer,
     StopClient, StopServer, Stopping, Published, NoListener, NoConn, ThreadSteps, StopperSteps,
     Ending, Serving, Closed, Listener, AppFile, Conn, Fd, NoFd
<1>11. CASE handlerReturn
  BY <1>0, <1>11 DEF handlerReturn, ThreadOnly, serverVars, threadVars, sockVars,
     FdInv, Named, RunClient, RunServer,
     StopClient, StopServer, Stopping, Published, NoListener, NoConn, ThreadSteps, StopperSteps,
     Ending, Serving, Closed, Listener, AppFile, Conn, Fd, NoFd
<1>12. CASE interrupted
  BY <1>0, <1>12 DEF interrupted, ThreadOnly, serverVars, threadVars, sockVars,
     FdInv, Named, RunClient, RunServer,
     StopClient, StopServer, Stopping, Published, NoListener, NoConn, ThreadSteps, StopperSteps,
     Ending, Serving, Closed, Listener, AppFile, Conn, Fd, NoFd
<1>13. CASE start
  BY <1>0, <1>13 DEF start, ThreadOnly, serverVars, threadVars, sockVars,
     FdInv, Named, RunClient, RunServer,
     StopClient, StopServer, Stopping, Published, NoListener, NoConn, ThreadSteps, StopperSteps,
     Ending, Serving, Closed, Listener, AppFile, Conn, Fd, NoFd
<1>14. CASE stopBegin
  BY <1>0, <1>14 DEF stopBegin, ThreadOnly, serverVars, threadVars, sockVars,
     FdInv, Named, RunClient, RunServer,
     StopClient, StopServer, Stopping, Published, NoListener, NoConn, ThreadSteps, StopperSteps,
     Ending, Serving, Closed, Listener, AppFile, Conn, Fd, NoFd
<1>15. CASE stopConnect
  BY <1>0, <1>15 DEF stopConnect, ThreadOnly, serverVars, threadVars, sockVars,
     FdInv, Named, RunClient, RunServer,
     StopClient, StopServer, Stopping, Published, NoListener, NoConn, ThreadSteps, StopperSteps,
     Ending, Serving, Closed, Listener, AppFile, Conn, Fd, NoFd
<1>16. CASE stopJoin
  BY <1>0, <1>16 DEF stopJoin, ThreadOnly, serverVars, threadVars, sockVars,
     FdInv, Named, RunClient, RunServer,
     StopClient, StopServer, Stopping, Published, NoListener, NoConn, ThreadSteps, StopperSteps,
     Ending, Serving, Closed, Listener, AppFile, Conn, Fd, NoFd
<1> QED BY <1>1, <1>2, <1>3, <1>4, <1>5, <1>6, <1>7, <1>8, <1>9, <1>10, <1>11, <1>12, <1>13,
   <1>14, <1>15, <1>16

(* socket() opens the only listening socket of the run. *)
LEMMA FdSocket ==
  ASSUME TypeOK, FdInv, openSocket
  PROVE  FdInv'
<1>0. /\ fds \in [Fd -> Conn \cup {Closed, Listener, AppFile}] /\ m_serverFd \in Fd \cup {NoFd}
      /\ m_clientFd \in Fd \cup {NoFd} /\ thread \in ThreadSteps /\ stopper \in StopperSteps
      /\ m_stop \in BOOLEAN
  BY DEF TypeOK
<1>t. thread = "socket"
  BY DEF openSocket
<1>f. m_clientFd = NoFd /\ m_serverFd = NoFd /\ ~listens
  BY <1>t DEF FdInv, RunClient, RunServer, Published
<1>n. NoListener /\ NoConn
  BY <1>f, FdIsNumber DEF FdInv, Named, NoListener, NoConn
<1>s. stopper \notin {"client close", "client clear", "server close", "server clear"}
  BY <1>t DEF FdInv, StopClient, StopServer
<1>2. UNCHANGED <<m_clientFd, tmp, stopper, m_stop, listens>>
  BY DEF openSocket, ThreadOnly
<1>3. CASE thread' = "done"
  <2>1. UNCHANGED <<fds, m_serverFd>> /\ m_running' = FALSE
    BY <1>3 DEF openSocket
  <2> QED BY <1>0, <1>t, <1>f, <1>n, <1>s, <1>2, <1>3, <2>1 DEF FdInv, Named, RunClient,
     RunServer,
     StopClient, StopServer, Stopping, Published, NoListener, NoConn
<1>4. CASE thread' = "bind"
  <2>1. PICK f \in Fd : fds' = [fds EXCEPT ![f] = Listener] /\ m_serverFd' = f
    BY <1>4 DEF openSocket, allocate
  <2>2. \A g \in Fd : fds'[g] = IF g = f THEN Listener ELSE fds[g]
    BY <1>0, <2>1
  <2>3. Named' /\ NoConn'
    BY <1>n, <2>1, <2>2 DEF Named, NoConn, NoListener, Listener, Conn
  <2>4. Stopping' /\ Published'
    BY <1>t, <1>f, <1>2, <1>4 DEF FdInv, Stopping, Published
  <2> QED BY <1>t, <1>f, <1>s, <1>2, <1>4, <2>3, <2>4 DEF FdInv, RunClient, RunServer,
     StopClient, StopServer
<1> QED BY <1>3, <1>4 DEF openSocket

(* accept() opens the only connection that is served. *)
LEMMA FdAccept ==
  ASSUME TypeOK, FdInv, acceptReturn
  PROVE  FdInv'
<1>0. /\ fds \in [Fd -> Conn \cup {Closed, Listener, AppFile}] /\ m_serverFd \in Fd \cup {NoFd}
      /\ m_clientFd \in Fd \cup {NoFd} /\ thread \in ThreadSteps /\ stopper \in StopperSteps
      /\ m_stop \in BOOLEAN
  BY DEF TypeOK
<1>t. thread = "accepting"
  BY DEF acceptReturn
<1>f. m_clientFd = NoFd /\ stopper \notin {"client close", "client clear"}
  BY <1>t DEF FdInv, RunClient, StopClient
<1>n. NoConn
  BY <1>f, FdIsNumber DEF FdInv, Named, NoConn
<1>1. thread = "accepting" /\ NoConn /\ stopper \notin {"client close", "client clear"}
  BY <1>t, <1>f, <1>n
<1>2. UNCHANGED <<m_serverFd, tmp, stopper, m_stop, listens, m_running>>
  BY DEF acceptReturn, ThreadOnly
<1>3. CASE thread' = "client?"
  <2>1. UNCHANGED <<fds, m_clientFd>>
    BY <1>3 DEF acceptReturn
  <2> QED BY <1>0, <1>1, <1>2, <1>3, <2>1 DEF FdInv, Named, RunClient, RunServer,
     StopClient, StopServer, Stopping, Published, NoListener, NoConn
<1>4. CASE thread' = "read"
  <2>1. PICK f \in Fd : fds' = [fds EXCEPT ![f] = Head(accepts)] /\ m_clientFd' = f
    BY <1>4 DEF acceptReturn, allocate
  <2>0. Head(accepts) \in Conn
    BY DEF TypeOK, acceptReturn
  <2>2. \A g \in Fd : fds'[g] = IF g = f THEN Head(accepts) ELSE fds[g]
    BY <1>0, <2>1
  <2>3. \A g \in Fd : fds'[g] = Listener => fds[g] = Listener
    BY <2>0, <2>2 DEF Conn, Listener
  <2>4. Named'
    BY <1>1, <1>2, <2>1, <2>2, <2>3 DEF FdInv, Named, NoConn
  <2>5. StopServer' /\ StopClient'
    BY <1>1, <1>2, <1>4, <2>3 DEF FdInv, StopServer, StopClient, NoListener
  <2> QED BY <1>1, <1>2, <1>4, <2>4, <2>5 DEF FdInv, RunClient, RunServer, Stopping, Published
<1> QED BY <1>3, <1>4 DEF acceptReturn

(* A close, whatever it hits, names nothing new. *)
LEMMA closeKeeps ==
  ASSUME TypeOK, NEW fd, close(fd)
  PROVE  /\ \A g \in Fd : fds'[g] \in {fds[g], Closed} /\ (g = fd => fds'[g] = Closed)
         /\ \A g \in Fd : fds'[g] = Listener => fds[g] = Listener /\ g # fd
         /\ \A g \in Fd : fds'[g] \in Conn => fds[g] \in Conn /\ g # fd
<1>1. \A g \in Fd : fds'[g] \in {fds[g], Closed} /\ (g = fd => fds'[g] = Closed)
  BY DEF TypeOK, close
<1> QED BY <1>1 DEF Closed, Listener, Conn

(* run() closes the connection it has served. *)
LEMMA FdCloseClient ==
  ASSUME TypeOK, FdInv, closeClient
  PROVE  FdInv'
<1>1. /\ thread = "close" /\ thread' = "clear"
      /\ UNCHANGED <<m_serverFd, m_clientFd, tmp, stopper, m_stop, listens, m_running>>
  BY DEF closeClient, ThreadOnly
<1>2. /\ \A g \in Fd : fds'[g] = Listener => fds[g] = Listener
      /\ \A g \in Fd : fds'[g] \in Conn => fds[g] \in Conn /\ g # m_clientFd
  BY closeKeeps DEF closeClient
<1>3. Named' /\ NoConn'
  BY <1>1, <1>2 DEF FdInv, Named, NoConn
<1>4. StopClient' /\ StopServer'
  BY <1>1, <1>2, <1>3 DEF FdInv, StopClient, StopServer, NoListener, NoConn
<1> QED BY <1>1, <1>3, <1>4 DEF FdInv, RunClient, RunServer, Stopping, Published

(* The application opens and closes files of its own. *)
LEMMA FdFiles ==
  ASSUME TypeOK, FdInv, openFile \/ \E f \in Fd : closeFile(f)
  PROVE  FdInv'
<1>1. UNCHANGED <<m_serverFd, m_clientFd, tmp, thread, stopper, m_stop, listens, m_running>>
  BY DEF openFile, closeFile, AppFrame, serverVars, threadVars
<1>2. PICK f \in Fd : fds' = [fds EXCEPT ![f] = AppFile] \/ fds' = [fds EXCEPT ![f] = Closed]
  BY DEF openFile, closeFile, allocate
<1>3. \A g \in Fd : fds'[g] \in {fds[g], AppFile, Closed}
  BY <1>2 DEF TypeOK
<1>4. /\ \A g \in Fd : fds'[g] = Listener => fds[g] = Listener
      /\ \A g \in Fd : fds'[g] \in Conn => fds[g] \in Conn
  BY <1>3 DEF Closed, AppFile, Listener, Conn
<1>5. Named' /\ RunClient' /\ RunServer'
  BY <1>1, <1>4 DEF FdInv, Named, RunClient, RunServer, NoListener, NoConn
<1>6. StopClient' /\ StopServer'
  BY <1>1, <1>4 DEF FdInv, StopClient, StopServer, NoListener, NoConn
<1> QED BY <1>1, <1>5, <1>6 DEF FdInv, Stopping, Published

(* The end of the process closes everything. *)
LEMMA FdExit ==
  ASSUME TypeOK, FdInv, processExit
  PROVE  FdInv'
<1>1. /\ thread' = "dead" /\ stopper' = "idle" /\ listens' = FALSE
      /\ \A f \in Fd : fds'[f] = Closed
  BY DEF processExit
<1>2. NoListener' /\ NoConn'
  BY <1>1 DEF NoListener, NoConn, Closed, Listener, Conn
<1> QED BY <1>1, <1>2 DEF FdInv, Named, RunClient, RunServer, StopClient, StopServer, Stopping,
     Published, NoListener, NoConn

(* closeCurrentPipe() on the thread of run(). *)
LEMMA FdRunCloses ==
  ASSUME TypeOK, FdInv, closeCurrentPipe("run", "unlink")
  PROVE  FdInv'
<1>0. /\ m_serverFd \in Fd \cup {NoFd} /\ m_clientFd \in Fd \cup {NoFd}
      /\ tmp \in [{"run", "stop"} -> Fd \cup {NoFd}] /\ stopper \in StopperSteps
  BY DEF TypeOK
<1>n. \A x \in Fd \cup {NoFd} : x >= 0 => x \in Fd
  BY DEF Fd, NoFd
<1>m. \A x \in Fd \cup {NoFd} : ~(x >= 0) => x = NoFd
  BY DEF Fd, NoFd
<1>1. CASE CheckFd("run", "client?", m_clientFd, "client close", "server?")
  <2>1. /\ UNCHANGED <<stopper, m_stop, m_running, m_serverFd, m_clientFd, fds, listens>>
        /\ tmp' = [tmp EXCEPT !["run"] = m_clientFd] /\ thread = "client?"
        /\ thread' = IF m_clientFd >= 0 THEN "client close" ELSE "server?"
    BY <1>1 DEF CheckFd, At, Goto, sockVars
  <2>2. tmp'["run"] = m_clientFd /\ tmp'["stop"] = tmp["stop"]
    BY <1>0, <2>1
  <2>3. Named' /\ Stopping' /\ Published' /\ RunServer'
    BY <2>1 DEF FdInv, Named, Stopping, Published, RunServer
  <2>4. RunClient'
    BY <1>0, <1>m, <2>1, <2>2 DEF FdInv, Named, RunClient
  <2>5. StopClient' /\ StopServer'
    BY <2>1, <2>2 DEF FdInv, StopClient, StopServer, NoConn, NoListener
  <2> QED BY <2>3, <2>4, <2>5 DEF FdInv
<1>2. CASE CloseFd("run", "client close", "client clear")
  <2>1. /\ UNCHANGED <<stopper, m_stop, m_running, m_serverFd, m_clientFd, tmp, listens>>
        /\ thread = "client close" /\ thread' = "client clear"
    BY <1>2 DEF CloseFd, At, Goto, serverVars
  <2>2. /\ \A g \in Fd : fds'[g] = Listener => fds[g] = Listener
        /\ \A g \in Fd : fds'[g] \in Conn => fds[g] \in Conn /\ g # tmp["run"]
    BY <1>2, closeKeeps DEF CloseFd
  <2>3. Named' /\ NoConn'
    BY <2>1, <2>2 DEF FdInv, Named, RunClient, NoConn
  <2>4. StopClient' /\ StopServer'
    BY <2>1, <2>2 DEF FdInv, StopClient, StopServer, NoConn, NoListener
  <2> QED BY <2>1, <2>3, <2>4 DEF FdInv, RunClient, RunServer, Stopping, Published
<1>3. CASE ClearClient("run", "client clear", "server?")
  <2>1. /\ UNCHANGED <<stopper, m_stop, m_running, m_serverFd, tmp, fds, listens>>
        /\ thread = "client clear" /\ thread' = "server?" /\ m_clientFd' = NoFd
    BY <1>3 DEF ClearClient, At, Goto, sockVars
  <2>2. Named'
    BY <2>1 DEF FdInv, Named, RunClient, NoConn
  <2>3. StopClient' /\ StopServer'
    BY <2>1 DEF FdInv, StopClient, StopServer, NoConn, NoListener
  <2> QED BY <2>1, <2>2, <2>3 DEF FdInv, RunClient, RunServer, Stopping, Published
<1>4. CASE CheckFd("run", "server?", m_serverFd, "server close", "unlink")
  <2>1. /\ UNCHANGED <<stopper, m_stop, m_running, m_serverFd, m_clientFd, fds, listens>>
        /\ tmp' = [tmp EXCEPT !["run"] = m_serverFd] /\ thread = "server?"
        /\ thread' = IF m_serverFd >= 0 THEN "server close" ELSE "unlink"
    BY <1>4 DEF CheckFd, At, Goto, sockVars
  <2>2. tmp'["run"] = m_serverFd /\ tmp'["stop"] = tmp["stop"]
    BY <1>0, <2>1
  <2>3. Named' /\ Stopping' /\ Published' /\ RunClient'
    BY <2>1 DEF FdInv, Named, Stopping, Published, RunClient
  <2>4. RunServer'
    BY <1>0, <1>m, <2>1, <2>2 DEF FdInv, Named, RunServer
  <2>5. StopClient' /\ StopServer'
    BY <2>1, <2>2 DEF FdInv, StopClient, StopServer, NoConn, NoListener
  <2> QED BY <2>3, <2>4, <2>5 DEF FdInv
<1>5. CASE CloseFd("run", "server close", "server clear")
  <2>1. /\ UNCHANGED <<stopper, m_stop, m_running, m_serverFd, m_clientFd, tmp, listens>>
        /\ thread = "server close" /\ thread' = "server clear"
    BY <1>5 DEF CloseFd, At, Goto, serverVars
  <2>2. /\ \A g \in Fd : fds'[g] = Listener => fds[g] = Listener /\ g # tmp["run"]
        /\ \A g \in Fd : fds'[g] \in Conn => fds[g] \in Conn
    BY <1>5, closeKeeps DEF CloseFd
  <2>3. Named' /\ NoListener'
    BY <2>1, <2>2 DEF FdInv, Named, RunServer, NoListener
  <2>4. StopClient' /\ StopServer'
    BY <2>1, <2>2 DEF FdInv, StopClient, StopServer, NoConn, NoListener
  <2> QED BY <2>1, <2>3, <2>4 DEF FdInv, RunClient, RunServer, Stopping, Published
<1>6. CASE ClearServer("run", "server clear", "unlink")
  <2>1. /\ UNCHANGED <<stopper, m_stop, m_running, m_clientFd, tmp, fds, listens>>
        /\ thread = "server clear" /\ thread' = "unlink" /\ m_serverFd' = NoFd
    BY <1>6 DEF ClearServer, At, Goto, sockVars
  <2>2. Named'
    BY <2>1 DEF FdInv, Named, RunServer, NoListener
  <2>3. StopClient' /\ StopServer'
    BY <2>1 DEF FdInv, StopClient, StopServer, NoConn, NoListener
  <2> QED BY <2>1, <2>2, <2>3 DEF FdInv, RunClient, RunServer, Stopping, Published
<1> QED BY <1>1, <1>2, <1>3, <1>4, <1>5, <1>6 DEF closeCurrentPipe

(* closeCurrentPipe() on the thread of stop(). *)
LEMMA FdStopCloses ==
  ASSUME TypeOK, FdInv, closeCurrentPipe("stop", "connect")
  PROVE  FdInv'
<1>0. /\ m_serverFd \in Fd \cup {NoFd} /\ m_clientFd \in Fd \cup {NoFd}
      /\ tmp \in [{"run", "stop"} -> Fd \cup {NoFd}] /\ thread \in ThreadSteps
  BY DEF TypeOK
<1>m. ~(NoFd >= 0)
  BY DEF NoFd
<1>t. m_stop /\ thread # "none"
  <2>1. stopper # "idle"
    BY DEF closeCurrentPipe, CheckFd, CloseFd, ClearClient, ClearServer, At
  <2> QED BY <2>1 DEF FdInv, Stopping
<1>u. UNCHANGED <<thread, m_stop, m_running, listens>> /\ stopper' # "idle"
  BY DEF closeCurrentPipe, CheckFd, CloseFd, ClearClient, ClearServer, At, Goto, serverVars,
     sockVars
<1>v. Stopping' /\ Published'
  BY <1>t, <1>u DEF FdInv, Stopping, Published
<1>1. CASE CheckFd("stop", "client?", m_clientFd, "client close", "server?")
  <2>1. /\ UNCHANGED <<m_serverFd, m_clientFd, fds>>
        /\ tmp' = [tmp EXCEPT !["stop"] = m_clientFd]
        /\ stopper' = IF m_clientFd >= 0 THEN "client close" ELSE "server?"
    BY <1>1 DEF CheckFd, At, Goto, sockVars
  <2>2. tmp'["stop"] = m_clientFd /\ tmp'["run"] = tmp["run"]
    BY <1>0, <2>1
  <2>3. Named' /\ RunClient' /\ RunServer'
    BY <1>u, <2>1, <2>2 DEF FdInv, Named, RunClient, RunServer, NoConn, NoListener
  <2>4. StopClient'
    <3>1. stopper' = "client close" => m_clientFd # NoFd
      BY <1>m, <2>1
    <3>2. stopper' = "client close" => thread \notin {"begin", "socket", "bind", "accept", "accepting"}
      BY <3>1 DEF FdInv, RunClient
    <3> QED BY <1>u, <2>1, <2>2, <3>2 DEF FdInv, Named, StopClient
  <2> QED BY <1>v, <2>1, <2>3, <2>4 DEF FdInv, StopServer
<1>2. CASE CloseFd("stop", "client close", "client clear")
  <2>1. /\ UNCHANGED <<m_serverFd, m_clientFd, tmp>>
        /\ stopper = "client close" /\ stopper' = "client clear"
    BY <1>2 DEF CloseFd, At, Goto, serverVars
  <2>2. /\ \A g \in Fd : fds'[g] = Listener => fds[g] = Listener
        /\ \A g \in Fd : fds'[g] \in Conn => fds[g] \in Conn /\ g # tmp["stop"]
    BY <1>2, closeKeeps DEF CloseFd
  <2>3. Named' /\ NoConn'
    BY <2>1, <2>2 DEF FdInv, Named, StopClient, NoConn
  <2>4. RunClient' /\ RunServer'
    BY <1>u, <2>1, <2>2 DEF FdInv, RunClient, RunServer, NoConn, NoListener
  <2> QED BY <1>u, <1>v, <2>1, <2>3, <2>4 DEF FdInv, StopClient, StopServer
<1>3. CASE ClearClient("stop", "client clear", "server?")
  <2>1. /\ UNCHANGED <<m_serverFd, tmp, fds>>
        /\ stopper = "client clear" /\ stopper' = "server?" /\ m_clientFd' = NoFd
    BY <1>3 DEF ClearClient, At, Goto, sockVars
  <2>2. Named'
    BY <2>1 DEF FdInv, Named, StopClient, NoConn
  <2>3. RunClient' /\ RunServer'
    BY <1>u, <2>1 DEF FdInv, RunClient, RunServer, NoConn, NoListener
  <2> QED BY <1>v, <2>1, <2>2, <2>3 DEF FdInv, StopClient, StopServer
<1>4. CASE CheckFd("stop", "server?", m_serverFd, "server close", "connect")
  <2>1. /\ UNCHANGED <<m_serverFd, m_clientFd, fds>>
        /\ tmp' = [tmp EXCEPT !["stop"] = m_serverFd]
        /\ stopper' = IF m_serverFd >= 0 THEN "server close" ELSE "connect"
    BY <1>4 DEF CheckFd, At, Goto, sockVars
  <2>2. tmp'["stop"] = m_serverFd /\ tmp'["run"] = tmp["run"]
    BY <1>0, <2>1
  <2>3. Named' /\ RunClient' /\ RunServer'
    BY <1>u, <2>1, <2>2 DEF FdInv, Named, RunClient, RunServer, NoConn, NoListener
  <2>4. StopServer'
    <3>1. stopper' = "server close" => m_serverFd # NoFd
      BY <1>m, <2>1
    <3>2. stopper' = "server close" => thread \notin {"begin", "socket"}
      BY <3>1 DEF FdInv, RunServer
    <3> QED BY <1>u, <2>1, <2>2, <3>2 DEF FdInv, Named, StopServer
  <2> QED BY <1>v, <2>1, <2>3, <2>4 DEF FdInv, StopClient
<1>5. CASE CloseFd("stop", "server close", "server clear")
  <2>1. /\ UNCHANGED <<m_serverFd, m_clientFd, tmp>>
        /\ stopper = "server close" /\ stopper' = "server clear"
    BY <1>5 DEF CloseFd, At, Goto, serverVars
  <2>2. /\ \A g \in Fd : fds'[g] = Listener => fds[g] = Listener /\ g # tmp["stop"]
        /\ \A g \in Fd : fds'[g] \in Conn => fds[g] \in Conn
    BY <1>5, closeKeeps DEF CloseFd
  <2>3. Named' /\ NoListener'
    BY <2>1, <2>2 DEF FdInv, Named, StopServer, NoListener
  <2>4. RunClient' /\ RunServer'
    BY <1>u, <2>1, <2>2 DEF FdInv, RunClient, RunServer, NoConn, NoListener
  <2> QED BY <1>u, <1>v, <2>1, <2>3, <2>4 DEF FdInv, StopClient, StopServer
<1>6. CASE ClearServer("stop", "server clear", "connect")
  <2>1. /\ UNCHANGED <<m_clientFd, tmp, fds>>
        /\ stopper = "server clear" /\ stopper' = "connect" /\ m_serverFd' = NoFd
    BY <1>6 DEF ClearServer, At, Goto, sockVars
  <2>2. Named'
    BY <2>1 DEF FdInv, Named, StopServer, NoListener
  <2>3. RunClient' /\ RunServer'
    BY <1>u, <2>1 DEF FdInv, RunClient, RunServer, NoConn, NoListener
  <2> QED BY <1>v, <2>1, <2>2, <2>3 DEF FdInv, StopClient, StopServer
<1> QED BY <1>1, <1>2, <1>3, <1>4, <1>5, <1>6 DEF closeCurrentPipe

LEMMA FdInit == Init => FdInv
BY DEF Init, FdInv, Named, RunClient, RunServer, StopClient, StopServer, Stopping, Published,
   NoListener, NoConn, Closed, Listener, Conn

LEMMA FdStep == TypeOK /\ FdInv /\ [Next]_vars => FdInv'
<1> SUFFICES ASSUME TypeOK, FdInv, [Next]_vars PROVE FdInv'
  OBVIOUS
<1>1. CASE UNCHANGED vars
  BY <1>1, FdFrame DEF vars, serverVars, threadVars, sockVars, FdVars
<1>2. ASSUME NEW c \in Client, probeConnect(c) \/ transactConnect(c) \/ clientSteps(c) \/ die(c)
      PROVE  FdInv'
  <2>1. ClientFrame
    BY <1>2 DEF probeConnect, transactConnect, connectAs, clientSteps, die, probeClose, sendChunk,
       shutdownWrite, recvChunk, recvEnd, clientClose
  <2> QED BY <2>1, FdFrame DEF ClientFrame, serverVars, threadVars, FdVars
<1> QED BY <1>1, <1>2, FdQuiet, FdSocket, FdAccept, FdCloseClient, FdFiles, FdExit, FdRunCloses,
     FdStopCloses DEF Next, run, stopSteps, environment

(* When run() is over it has left nothing behind, wherever stop() was meanwhile. *)
THEOREM NothingIsLeft == Spec => []NothingLeft
<1>1. TypeOK /\ FdInv => NothingLeft
  <2> SUFFICES ASSUME TypeOK, FdInv, thread = "done"
               PROVE  (\A f \in Fd : fds[f] \in {Closed, AppFile}) /\ ~listens /\ ~m_running
    BY DEF NothingLeft
  <2>1. m_clientFd = NoFd /\ m_serverFd = NoFd /\ ~listens /\ ~m_running
    BY DEF FdInv, RunClient, RunServer, Published
  <2>2. \A f \in Fd : fds[f] # Listener /\ fds[f] \notin Conn
    BY <2>1, FdIsNumber DEF FdInv, Named
  <2> QED BY <2>1, <2>2 DEF TypeOK
<1> QED BY <1>1, FdInit, FdStep, TypeCorrect, PTL DEF Spec

-----------------------------------------------------------------------------
(***************************************************************************)
(* A server that nobody stops.  While run() is in its loop the listening   *)
(* socket and the connection being served stay open, and every client that *)
(* sends or waits is in the queue, being served, or fully answered.        *)
(***************************************************************************)
ClientSteps == {"idle", "probing", "sending", "waiting", "dead"}
Outcomes == {"none", "answered", "failed", "lost"}

StillServes == stops = 0 /\ thread \notin Ending

Unstopped == stops = 0 => stopper = "idle" /\ ~m_stop

Held(k) ==
    \/ \E i \in DOMAIN accepts : accepts[i] = k
    \/ thread \in Serving /\ cur = k
    \/ Replied(k) = Chunks

Ends ==
    /\ \A k \in Conn : k >= nextConn => ~gone[k]
    /\ \A c \in Client : Active(c) => ~gone[mine[c]]

Open ==
    StillServes =>
        /\ thread \notin {"none", "begin", "socket"} =>
              m_serverFd \in Fd /\ fds[m_serverFd] = Listener
        /\ thread \in Serving \cup {"close"} =>
              m_clientFd \in Fd /\ fds[m_clientFd] = cur /\ cur \in Conn

Attended ==
    StillServes => \A c \in Client : client[c] \in {"sending", "waiting"} => Held(mine[c])

EndInv == Unstopped /\ Ends /\ Open /\ Attended /\ FailedOnlyAtEnd

EndVars == <<stops, stopper, m_stop, accepts, cur, taken, back, client, mine, outcome, gone,
             nextConn, fds, m_serverFd, m_clientFd>>

(* stop() and the end are never taken back. *)
LEMMA StillBefore ==
  ASSUME TypeOK, Unstopped, [Next]_vars, StillServes'
  PROVE  StillServes /\ stopper = "idle" /\ ~m_stop
<1>1. stops \in Nat /\ stops' \in {stops, stops + 1}
  <2>1. CASE start \/ run \/ handlerReturn \/ UNCHANGED vars
    BY <2>1 DEF TypeOK, start, run, runBegin, openSocket, bindListen, loopTop, acceptCall,
       acceptReturn,
       readTop, recvReturn, writeTop, sendReturn, closeClient, clearClient, closeCurrentPipe,
       runEnd,
       handlerReturn, ThreadOnly, vars, boundVars
  <2>2. CASE stopBegin \/ stopSteps
    BY <2>2 DEF TypeOK, stopBegin, stopSteps, closeCurrentPipe, stopConnect, stopJoin, boundVars
  <2>3. CASE environment
    BY <2>3 DEF TypeOK, environment, interrupted, openFile, closeFile, processExit, AppFrame,
       probeConnect, transactConnect, connectAs, clientSteps, die, probeClose, sendChunk,
       shutdownWrite, recvChunk, recvEnd, clientClose, ClientFrame, boundVars
  <2> QED BY <2>1, <2>2, <2>3 DEF Next
<1>2. stops = 0 /\ stopper = "idle" /\ ~m_stop
  BY <1>1 DEF StillServes, Unstopped
<1>3. thread \notin Ending
  <2> SUFFICES ASSUME thread \in Ending PROVE FALSE
    OBVIOUS
  <2>1. thread' \notin Ending
    BY DEF StillServes
  <2>2. thread' # thread
    BY <2>1
  <2>3. CASE start \/ handlerReturn
    BY <2>3 DEF start, handlerReturn, Ending
  <2>4. CASE run
    <3>1. CASE closeCurrentPipe("run", "unlink")
      BY <3>1, <2>1 DEF closeCurrentPipe, CheckFd, CloseFd, ClearClient, ClearServer, At, Goto,
         Ending
    <3> QED BY <2>1, <2>4, <3>1 DEF run, runBegin, openSocket, bindListen, loopTop, acceptCall,
       acceptReturn,
       readTop, recvReturn, writeTop, sendReturn, closeClient, clearClient, ClearClient, At,
       runEnd, Ending
  <2>5. CASE stopBegin
    BY <2>2, <2>5 DEF stopBegin, threadVars
  <2>6. CASE stopSteps
    BY <1>2, <2>6 DEF stopSteps, closeCurrentPipe, CheckFd, CloseFd, ClearClient, ClearServer, At,
       stopConnect, stopJoin
  <2>7. CASE interrupted \/ openFile \/ (\E f \in Fd : closeFile(f)) \/ processExit
    BY <2>1, <2>2, <2>7 DEF interrupted, openFile, closeFile, processExit, AppFrame, threadVars,
       Ending
  <2>8. CASE \E c \in Client : probeConnect(c) \/ transactConnect(c) \/ clientSteps(c) \/ die(c)
    BY <2>2, <2>8 DEF probeConnect, transactConnect, connectAs, clientSteps, die, probeClose,
       sendChunk,
       shutdownWrite, recvChunk, recvEnd, clientClose, ClientFrame, threadVars
  <2> QED BY <2>2, <2>3, <2>4, <2>5, <2>6, <2>7, <2>8 DEF Next, environment, vars, threadVars
<1> QED BY <1>2, <1>3 DEF StillServes

(* A step of run() that moves no data and stays in a phase. *)
LEMMA EndQuiet ==
  ASSUME EndInv, StillServes, UNCHANGED EndVars,
         thread \in Serving => thread' \in Serving,
         thread' \in Serving \cup {"close"} => thread \in Serving \cup {"close"},
         thread \in {"none", "begin", "socket"} => thread' \in {"none", "begin", "socket"}
  PROVE  EndInv'
<1>1. /\ UNCHANGED <<stops, stopper, m_stop, accepts, cur, taken, back, client>>
      /\ UNCHANGED <<mine, outcome, gone, nextConn, fds, m_serverFd, m_clientFd>>
  BY DEF EndVars
<1>2. Unstopped' /\ Ends'
  BY <1>1 DEF EndInv, Unstopped, Ends, Active
<1>3. Open'
  BY <1>1 DEF EndInv, Open, StillServes
<1>4. Attended'
  BY <1>1 DEF EndInv, Attended, StillServes, Held, Replied
<1>5. FailedOnlyAtEnd'
  BY <1>1 DEF EndInv, FailedOnlyAtEnd, StillServes
<1> QED BY <1>2, <1>3, <1>4, <1>5 DEF EndInv

(* Nor does a step in which run() stays where it is. *)
LEMMA EndFrame ==
  ASSUME EndInv, UNCHANGED EndVars, UNCHANGED thread
  PROVE  EndInv'
<1>1. /\ UNCHANGED <<stops, stopper, m_stop, accepts, cur, taken, back, client>>
      /\ UNCHANGED <<mine, outcome, gone, nextConn, fds, m_serverFd, m_clientFd>>
  BY DEF EndVars
<1> QED BY <1>1 DEF EndInv, Unstopped, Ends, Active, Open, Attended, FailedOnlyAtEnd, StillServes,
     Held, Replied

(* Once the server has stopped or is about to end, nothing is promised. *)
LEMMA EndOver ==
  ASSUME Unstopped', Ends', stops' \in Nat, ~StillServes'
  PROVE  EndInv'
<1>1. stops' > 0 \/ thread' \in Ending
  BY DEF StillServes
<1> QED BY <1>1 DEF EndInv, Open, Attended, FailedOnlyAtEnd, StillServes

(* A connection that no client needs any more may be closed: its client was  *)
(* answered to the last piece.                                               *)
LEMMA NotNeeded ==
  ASSUME Inv, EndInv, StillServes, thread \in Serving \cup {"close"},
         UNCHANGED <<stops, stopper, m_stop, accepts, cur, taken, back, client>>,
         UNCHANGED <<mine, outcome, gone, nextConn, fds, m_serverFd, m_clientFd>>,
         thread' = "close",
         Replied(cur) = Chunks \/ \A c \in Client :
            client[c] \in {"sending", "waiting"} => mine[c] # cur
  PROVE  EndInv'
<1>1. Unstopped' /\ Ends'
  BY DEF EndInv, Unstopped, Ends, Active
<1>2. Open'
  BY DEF EndInv, Open, StillServes, Serving
<1>3. Attended'
  BY DEF EndInv, Attended, StillServes, Held, Replied
<1>4. FailedOnlyAtEnd'
  BY DEF EndInv, FailedOnlyAtEnd, StillServes
<1> QED BY <1>1, <1>2, <1>3, <1>4 DEF EndInv

(* The steps of run() that change neither the table nor a connection. *)
LEMMA EndRun ==
  ASSUME Inv, EndInv, StillServes, StillServes',
         \/ start \/ runBegin \/ bindListen \/ loopTop \/ acceptCall \/ handlerReturn
         \/ readTop \/ recvReturn \/ writeTop
  PROVE  EndInv'
<1>0. thread \in ThreadSteps /\ m_stop = FALSE /\ Chunks \in Nat \ {0} /\ thread' \notin Ending
  BY PipeAssumption DEF Inv, TypeOK, EndInv, Unstopped, StillServes
<1>1. CASE start \/ runBegin
  <2>1. UNCHANGED EndVars /\ thread \in {"none", "begin"} /\ thread' \in {"begin", "socket"}
    BY <1>0, <1>1 DEF start, runBegin, EndVars, connVars, clientVars, boundVars, sockVars
  <2> QED BY <2>1, EndQuiet DEF Serving
<1>2. CASE bindListen \/ loopTop \/ acceptCall
  <2>1. /\ UNCHANGED EndVars /\ thread \in {"bind", "loop", "accept"}
        /\ thread' \in {"loop", "accept", "accepting"}
    BY <1>0, <1>2 DEF bindListen, loopTop, acceptCall, ThreadOnly, EndVars, connVars, clientVars,
       boundVars, sockVars, Ending
  <2> QED BY <2>1, EndQuiet DEF Serving
<1>3. CASE handlerReturn
  <2>1. UNCHANGED EndVars /\ thread = "handler" /\ thread' = "write"
    BY <1>3 DEF handlerReturn, ThreadOnly, EndVars, connVars, clientVars, boundVars, sockVars
  <2> QED BY <2>1, EndQuiet DEF Serving
<1>4. CASE readTop
  <2>1. m_clientFd \in Fd /\ fds[m_clientFd] = cur
    BY <1>4 DEF readTop, EndInv, Open, Serving
  <2>2. UNCHANGED EndVars /\ thread = "read" /\ thread' = "receiving"
    BY <1>0, <1>4, <2>1 DEF readTop, ThreadOnly, EndVars, connVars, clientVars, boundVars,
       sockVars
  <2> QED BY <2>2, EndQuiet DEF Serving
<1>5. CASE recvReturn
  <2>1. /\ UNCHANGED EndVars /\ thread = "receiving"
        /\ \/ thread' \in {"read", "write", "handler"}
           \/ thread' = "close" /\ got = 0 /\ got = sent[cur] /\ shut[cur]
    BY <1>5 DEF recvReturn, afterMessage, ThreadOnly, EndVars, connVars, clientVars, boundVars,
       sockVars
  <2>2. CASE thread' = "close"
    <3>1. \A c \in Client : client[c] \in {"sending", "waiting"} => mine[c] # cur
      BY <1>0, <2>1, <2>2 DEF Inv, Clients, Active
    <3> QED BY <2>1, <2>2, <3>1, NotNeeded DEF EndVars, Serving
  <2>3. CASE thread' \in {"read", "write", "handler"}
    BY <2>1, <2>3, EndQuiet DEF Serving
  <2> QED BY <2>1, <2>2, <2>3
<1>6. CASE writeTop
  <2>1. m_clientFd \in Fd /\ fds[m_clientFd] = cur
    BY <1>6 DEF writeTop, EndInv, Open, Serving
  <2>2. /\ UNCHANGED EndVars /\ thread = "write"
        /\ thread' = IF left > 0 THEN "sending" ELSE "close"
    BY <1>6, <2>1 DEF writeTop, ThreadOnly, EndVars, connVars, clientVars, boundVars, sockVars
  <2>3. CASE left > 0
    BY <2>2, <2>3, EndQuiet DEF Serving
  <2>4. CASE ~(left > 0)
    <3>1. left = 0
      BY <1>0, <2>4 DEF Inv, TypeOK
    <3>2. Replied(cur) + left = Chunks /\ cur \in Conn
      BY <2>2 DEF Inv, Served, Serving, Replying
    <3>3. Replied(cur) = Chunks
      <4>1. taken[cur] \in Nat /\ back[cur] \in {0, 1}
        BY <1>0, <3>2 DEF Inv, TypeOK
      <4>2. Replied(cur) \in Nat
        BY <4>1 DEF Replied
      <4> QED BY <1>0, <3>1, <3>2, <4>2
    <3> QED BY <2>2, <2>4, <3>3, NotNeeded DEF EndVars, Serving
  <2> QED BY <2>3, <2>4
<1> QED BY <1>1, <1>2, <1>3, <1>4, <1>5, <1>6

(* socket() and accept(): the descriptors and the queue. *)
LEMMA EndOpens ==
  ASSUME Inv, EndInv, StillServes, StillServes', openSocket \/ acceptReturn
  PROVE  EndInv'
<1>0. /\ fds \in [Fd -> Conn \cup {Closed, Listener, AppFile}] /\ accepts \in Seq(Conn)
      /\ thread' \notin Ending
  BY DEF Inv, TypeOK, StillServes
<1>1. CASE openSocket
  <2>1. /\ UNCHANGED <<stops, stopper, m_stop, accepts, cur, taken, back, client>>
        /\ UNCHANGED <<mine, outcome, gone, nextConn, m_clientFd>>
        /\ thread = "socket" /\ thread' = "bind"
    BY <1>0, <1>1 DEF openSocket, ThreadOnly, connVars, clientVars, boundVars, Ending
  <2>2. m_serverFd' \in Fd /\ fds' = [fds EXCEPT ![m_serverFd'] = Listener]
    BY <1>1, <2>1 DEF openSocket, allocate
  <2>3. Open'
    BY <1>0, <2>1, <2>2 DEF Open, Serving
  <2>4. Attended'
    BY <2>1 DEF EndInv, Attended, Held, Replied, Serving
  <2> QED BY <2>1, <2>3, <2>4 DEF EndInv, Unstopped, Ends, Active, FailedOnlyAtEnd, StillServes
<1>2. CASE acceptReturn
  <2>1. /\ UNCHANGED <<stops, stopper, m_stop, taken, back, client>>
        /\ UNCHANGED <<mine, outcome, gone, nextConn, m_serverFd>>
        /\ thread = "accepting" /\ thread' = "read" /\ accepts # <<>> /\ cur' = Head(accepts)
    BY <1>0, <1>2 DEF acceptReturn, ThreadOnly, connVars, clientVars, boundVars, Ending
  <2>2. /\ m_clientFd' \in Fd /\ fds[m_clientFd'] = Closed
        /\ fds' = [fds EXCEPT ![m_clientFd'] = Head(accepts)]
    BY <1>2, <2>1 DEF acceptReturn, allocate, FreeFds
  <2>3. m_serverFd \in Fd /\ fds[m_serverFd] = Listener
    BY <2>1 DEF EndInv, Open
  <2>4. m_serverFd # m_clientFd' /\ accepts' = Tail(accepts)
    BY <1>0, <1>2, <2>1, <2>2, <2>3 DEF acceptReturn, QueueAfter, Closed, Listener
  <2>5. Open'
    <3>1. Head(accepts) \in Conn
      BY <1>0, <2>1
    <3> QED BY <1>0, <2>1, <2>2, <2>3, <2>4, <3>1 DEF Open
  <2>6. \A i \in DOMAIN accepts : accepts[i] = Head(accepts)
            \/ \E j \in DOMAIN Tail(accepts) : Tail(accepts)[j] = accepts[i]
    <3>1. Len(accepts) \in Nat /\ DOMAIN accepts = 1..Len(accepts)
      BY <1>0
    <3>2. /\ DOMAIN Tail(accepts) = 1..(Len(accepts) - 1)
          /\ \A j \in DOMAIN Tail(accepts) : Tail(accepts)[j] = accepts[j + 1]
      BY <1>0, <2>1
    <3>3. ASSUME NEW i \in DOMAIN accepts, i # 1
          PROVE  i - 1 \in DOMAIN Tail(accepts) /\ Tail(accepts)[i - 1] = accepts[i]
      BY <3>1, <3>2, <3>3
    <3>4. Head(accepts) = accepts[1]
      BY <1>0, <2>1
    <3> QED BY <3>3, <3>4
  <2>7. Attended'
    BY <2>1, <2>4, <2>6 DEF EndInv, Attended, Held, Replied, Serving
  <2> QED BY <2>1, <2>5, <2>7 DEF EndInv, Unstopped, Ends, Active, FailedOnlyAtEnd, StillServes
<1> QED BY <1>1, <1>2

(* send(): the reply goes on, or its client is gone. *)
LEMMA EndSend ==
  ASSUME Inv, EndInv, StillServes, sendReturn
  PROVE  EndInv'
<1>1. /\ UNCHANGED <<stops, stopper, m_stop, accepts, cur, taken, client>>
      /\ UNCHANGED <<mine, outcome, gone, nextConn, fds, m_serverFd, m_clientFd>>
      /\ thread = "sending"
  BY DEF sendReturn, serverVars, clientVars, boundVars, sockVars
<1>2. CASE gone[cur] /\ thread' = "close" /\ back' = back
  <2>1. \A c \in Client : client[c] \in {"sending", "waiting"} => mine[c] # cur
    BY <1>2 DEF EndInv, Ends, Active
  <2> QED BY <1>1, <1>2, <2>1, NotNeeded DEF Serving
<1>3. CASE back' = [back EXCEPT ![cur] = 1] /\ thread' = "write"
  <2>1. \A k \in Conn : k # cur => back'[k] = back[k]
    BY <1>3 DEF Inv, TypeOK
  <2>2. Attended'
    <3> SUFFICES ASSUME NEW c \in Client, client[c] \in {"sending", "waiting"}
                 PROVE  Held(mine[c])'
      BY <1>1 DEF Attended
    <3>1. Held(mine[c]) /\ mine[c] \in Conn
      BY DEF EndInv, Attended, Inv, Clients, Active
    <3>2. CASE mine[c] = cur
      BY <1>1, <1>3, <3>2 DEF Held, Serving
    <3>3. CASE mine[c] # cur
      BY <1>1, <1>3, <2>1, <3>1, <3>3 DEF Held, Serving, Replied
    <3> QED BY <3>2, <3>3
  <2>3. Unstopped' /\ Ends'
    BY <1>1 DEF EndInv, Unstopped, Ends, Active
  <2>4. Open' /\ FailedOnlyAtEnd'
    BY <1>1, <1>3 DEF EndInv, Open, FailedOnlyAtEnd, StillServes, Serving, Ending
  <2> QED BY <2>2, <2>3, <2>4 DEF EndInv
<1> QED BY <1>2, <1>3 DEF sendReturn

(* run() closes the connection it has served, which nobody needs. *)
LEMMA EndClose ==
  ASSUME Inv, EndInv, StillServes, closeClient \/ clearClient
  PROVE  EndInv'
<1>0. fds \in [Fd -> Conn \cup {Closed, Listener, AppFile}]
  BY DEF Inv, TypeOK
<1>1. /\ UNCHANGED <<stops, stopper, m_stop, cur, taken, back, client>>
      /\ UNCHANGED <<mine, outcome, gone, nextConn, m_serverFd>>
      /\ thread \in {"close", "clear"} /\ thread' \in {"clear", "loop"}
  BY DEF closeClient, clearClient, ClearClient, At, Goto, ThreadOnly, connVars, clientVars,
     boundVars
<1>2. m_serverFd \in Fd /\ fds[m_serverFd] = Listener
  BY <1>1 DEF EndInv, Open
<1>3. fds'[m_serverFd] = Listener /\ accepts' = accepts
  <2>1. CASE closeClient
    <3>1. m_clientFd \in Fd /\ fds[m_clientFd] = cur /\ cur # Listener
      BY <2>1 DEF closeClient, EndInv, Open, Conn, Listener
    <3>2. fds'[m_serverFd] = Listener
      BY <1>0, <1>2, <2>1, <3>1 DEF closeClient, close
    <3> QED BY <1>2, <2>1, <3>1, <3>2 DEF closeClient, close, QueueAfter
  <2>2. CASE clearClient
    BY <1>2, <2>2 DEF clearClient, ClearClient, sockVars
  <2> QED BY <2>1, <2>2
<1>4. Unstopped' /\ Ends'
  BY <1>1 DEF EndInv, Unstopped, Ends, Active
<1>5. Open'
  BY <1>1, <1>2, <1>3 DEF Open, Serving
<1>6. Attended'
  BY <1>1, <1>3 DEF EndInv, Attended, StillServes, Held, Replied, Serving
<1>7. FailedOnlyAtEnd'
  BY <1>1 DEF EndInv, FailedOnlyAtEnd, StillServes, Ending
<1> QED BY <1>4, <1>5, <1>6, <1>7 DEF EndInv

(* A signal sends run() round its loop; files of the application are others. *)
LEMMA EndElse ==
  ASSUME Inv, EndInv, StillServes, interrupted \/ openFile \/ \E f \in Fd : closeFile(f)
  PROVE  EndInv'
<1>0. fds \in [Fd -> Conn \cup {Closed, Listener, AppFile}] /\ cur \in Conn \cup {0}
  BY DEF Inv, TypeOK
<1>1. CASE interrupted
  <2>1. /\ UNCHANGED <<stops, stopper, m_stop, cur, taken, back, client>>
        /\ UNCHANGED <<mine, outcome, gone, nextConn, m_serverFd, m_clientFd, fds>>
        /\ \/ thread = "accepting" /\ thread' = "loop" /\ accepts' = QueueAfter(fds, FALSE, accepts)
           \/ /\ thread \in Serving /\ thread' \in Serving /\ accepts' = accepts
    BY <1>1 DEF interrupted, serverVars, connVars, clientVars, Serving
  <2>2. accepts' = accepts
    <3>1. CASE thread = "accepting"
      <4>1. m_serverFd \in Fd /\ fds[m_serverFd] = Listener
        BY <3>1 DEF EndInv, Open
      <4> QED BY <2>1, <3>1, <4>1 DEF QueueAfter, Serving
    <3> QED BY <2>1, <3>1
  <2> QED BY <2>1, <2>2, EndQuiet DEF EndVars, Serving
<1>2. CASE openFile \/ \E f \in Fd : closeFile(f)
  <2>1. /\ UNCHANGED <<stops, stopper, m_stop, accepts, cur, taken, back, client, thread>>
        /\ UNCHANGED <<mine, outcome, gone, nextConn, m_serverFd, m_clientFd>>
    BY <1>2 DEF openFile, closeFile, AppFrame, serverVars, threadVars, connVars, clientVars
  <2>2. \A g \in Fd : fds[g] \notin {Closed, AppFile} => fds'[g] = fds[g]
    BY <1>0, <1>2 DEF openFile, closeFile, allocate, FreeFds
  <2>3. Open'
    BY <1>0, <2>1, <2>2 DEF EndInv, Open, StillServes, Conn, Closed, AppFile, Listener
  <2>4. Unstopped' /\ Ends'
    BY <2>1 DEF EndInv, Unstopped, Ends, Active
  <2>5. Attended' /\ FailedOnlyAtEnd'
    BY <2>1 DEF EndInv, Attended, FailedOnlyAtEnd, StillServes, Held, Replied
  <2> QED BY <2>3, <2>4, <2>5 DEF EndInv
<1> QED BY <1>1, <1>2

(* A new connection is queued behind the others. *)
LEMMA EndConnect ==
  ASSUME Inv, EndInv, NEW c \in Client, NEW step \in {"probing", "sending"}, connectAs(c, step)
  PROVE  EndInv'
<1>0. /\ accepts \in Seq(Conn) /\ nextConn \in Conn
      /\ client \in [Client -> ClientSteps] /\ mine \in [Client -> Conn \cup {0}]
  <2>1. nextConn \in 1..(MaxConn + 1) /\ nextConn <= MaxConn - MaxStops
    BY DEF Inv, TypeOK, connectAs
  <2>2. nextConn \in Conn
    BY <2>1, PipeAssumption DEF Conn
  <2> QED BY <2>2 DEF Inv, TypeOK, ClientSteps
<1>1. /\ UNCHANGED <<stops, stopper, m_stop, cur, taken, back, outcome, gone, fds>>
      /\ UNCHANGED <<m_serverFd, m_clientFd, thread>> /\ nextConn' = nextConn + 1
      /\ accepts' = Append(accepts, nextConn)
      /\ client' = [client EXCEPT ![c] = step] /\ mine' = [mine EXCEPT ![c] = nextConn]
  BY DEF connectAs, ClientFrame, serverVars, threadVars, boundVars
<1>2. \A d \in Client : IF d = c THEN client'[d] = step /\ mine'[d] = nextConn
                                   ELSE client'[d] = client[d] /\ mine'[d] = mine[d]
  BY <1>0, <1>1
<1>3. /\ \A i \in DOMAIN accepts : i \in DOMAIN accepts' /\ accepts'[i] = accepts[i]
      /\ \E i \in DOMAIN accepts' : accepts'[i] = nextConn
  <2>1. /\ Len(accepts) \in Nat /\ DOMAIN accepts = 1..Len(accepts)
        /\ DOMAIN accepts' = 1..(Len(accepts) + 1) /\ accepts'[Len(accepts) + 1] = nextConn
        /\ \A i \in 1..Len(accepts) : accepts'[i] = accepts[i]
    BY <1>0, <1>1
  <2> QED BY <2>1
<1>4. Ends'
  BY <1>0, <1>1, <1>2 DEF EndInv, Ends, Active, Conn
<1>5. Attended'
  BY <1>1, <1>2, <1>3 DEF EndInv, Attended, StillServes, Held, Replied
<1> QED BY <1>1, <1>4, <1>5 DEF EndInv, Unstopped, Open, FailedOnlyAtEnd, StillServes

(* A client that closes its end has failed only if the server has. *)
LEMMA EndLeave ==
  ASSUME Inv, EndInv, NEW c \in Client, Active(c), NEW step \in {"idle", "dead"}, NEW result,
         clientClose(c, step, result), result = "failed" => ~StillServes
  PROVE  EndInv'
<1>0. /\ client \in [Client -> ClientSteps] /\ mine[c] \in Conn /\ mine[c] < nextConn
      /\ gone \in [Conn -> BOOLEAN] /\ outcome \in [Conn -> Outcomes] /\ nextConn \in Int
      /\ stops \in Nat
  <2>1. mine[c] \in Conn /\ mine[c] < nextConn
    BY DEF Inv, Clients
  <2> QED BY <2>1 DEF Inv, TypeOK, ClientSteps, Outcomes
<1>1. /\ UNCHANGED <<stops, stopper, m_stop, cur, taken, back, accepts, nextConn, fds, mine>>
      /\ UNCHANGED <<m_serverFd, m_clientFd, thread>>
      /\ client' = [client EXCEPT ![c] = step] /\ gone' = [gone EXCEPT ![mine[c]] = TRUE]
      /\ outcome' = [outcome EXCEPT ![mine[c]] = result]
  BY DEF clientClose, ClientFrame, serverVars, threadVars, boundVars
<1>2. /\ \A d \in Client : client'[d] = IF d = c THEN step ELSE client[d]
      /\ \A k \in Conn : k # mine[c] => gone'[k] = gone[k] /\ outcome'[k] = outcome[k]
      /\ outcome'[mine[c]] = result
  BY <1>0, <1>1
<1>3. Ends'
  <2>1. \A d \in Client : Active(d)' =>
          /\ d # c /\ Active(d) /\ mine[d] \in Conn /\ mine[d] # mine[c]
    BY <1>1, <1>2 DEF Active, Inv, Clients
  <2>2. \A d \in Client : Active(d)' => ~gone'[mine'[d]]
    BY <1>1, <1>2, <2>1 DEF EndInv, Ends
  <2>3. \A k \in Conn : k >= nextConn' => ~gone'[k]
    BY <1>0, <1>1, <1>2 DEF EndInv, Ends, Conn
  <2> QED BY <2>2, <2>3 DEF Ends
<1>4. Attended'
  BY <1>1, <1>2 DEF EndInv, Attended, StillServes, Held, Replied
<1>5. FailedOnlyAtEnd'
  <2>1. ~StillServes => stops > 0 \/ thread \in Ending
    BY <1>0 DEF StillServes
  <2> QED BY <1>0, <1>1, <1>2, <2>1 DEF EndInv, FailedOnlyAtEnd
<1> QED BY <1>1, <1>3, <1>4, <1>5 DEF EndInv, Unstopped, Open, StillServes

(* A client that is held does not see the end of its connection. *)
LEMMA HeldIsOpen ==
  ASSUME Inv, EndInv, StillServes, NEW c \in Client, client[c] \in {"sending", "waiting"}
  PROVE  ServerHas(mine[c]) \/ (client[c] = "waiting" /\ Replied(mine[c]) = Chunks)
<1>1. Held(mine[c]) /\ Active(c) /\ mine[c] \in Conn
  BY DEF EndInv, Attended, Active, Inv, Clients
<1>2. CASE \E i \in DOMAIN accepts : accepts[i] = mine[c]
  BY <1>2 DEF ServerHas
<1>3. CASE thread \in Serving /\ cur = mine[c]
  BY <1>3 DEF ServerHas, EndInv, Open
<1>4. CASE Replied(mine[c]) = Chunks
  <2>1. client[c] # "sending"
    BY <1>1, <1>4, PipeAssumption DEF Inv, Accounts, Clients
  <2> QED BY <1>4, <2>1
<1> QED BY <1>1, <1>2, <1>3, <1>4 DEF Held

(* The steps of a client. *)
LEMMA EndClient ==
  ASSUME Inv, EndInv, NEW c \in Client,
         probeConnect(c) \/ transactConnect(c) \/ clientSteps(c) \/ die(c)
  PROVE  EndInv'
<1>0. /\ client \in [Client -> ClientSteps] /\ (Active(c) => mine[c] \in Conn)
      /\ taken \in [Conn -> 0..Chunks] /\ back \in [Conn -> {0, 1}]
  <2>1. Active(c) => mine[c] \in Conn
    BY DEF Inv, Clients
  <2> QED BY <2>1 DEF Inv, TypeOK, ClientSteps
<1>1. CASE probeConnect(c) \/ transactConnect(c)
  BY <1>1, EndConnect DEF probeConnect, transactConnect
<1>2. CASE probeClose(c) \/ die(c)
  BY <1>2, EndLeave DEF probeClose, die, Active
<1>3. CASE sendChunk(c)
  <2>1. CASE ~ServerHas(mine[c])
    BY <1>3, <2>1, EndLeave, HeldIsOpen DEF sendChunk, Active
  <2>2. CASE ServerHas(mine[c])
    <3>1. UNCHANGED EndVars /\ UNCHANGED thread
      BY <1>3, <2>2 DEF sendChunk, ClientFrame, clientVars, serverVars, threadVars, boundVars,
         EndVars
    <3> QED BY <3>1, EndFrame
  <2> QED BY <2>1, <2>2
<1>4. CASE shutdownWrite(c)
  <2>1. /\ UNCHANGED <<stops, stopper, m_stop, accepts, cur, taken, back, mine, outcome, gone>>
        /\ UNCHANGED <<nextConn, fds, m_serverFd, m_clientFd, thread>>
        /\ client[c] = "sending" /\ client' = [client EXCEPT ![c] = "waiting"]
    BY <1>4 DEF shutdownWrite, ClientFrame, serverVars, threadVars, boundVars
  <2>2. \A d \in Client : client'[d] = IF d = c THEN "waiting" ELSE client[d]
    BY <1>0, <2>1
  <2>3. Ends' /\ Attended'
    BY <2>1, <2>2 DEF EndInv, Ends, Active, Attended, StillServes, Held, Replied
  <2> QED BY <2>1, <2>3 DEF EndInv, Unstopped, Open, FailedOnlyAtEnd, StillServes
<1>5. CASE recvChunk(c)
  <2>1. /\ UNCHANGED <<stops, stopper, m_stop, accepts, cur, client, mine, outcome, gone>>
        /\ UNCHANGED <<nextConn, fds, m_serverFd, m_clientFd, thread>>
        /\ client[c] = "waiting" /\ back[mine[c]] > 0
        /\ back' = [back EXCEPT ![mine[c]] = 0]
        /\ taken' = [taken EXCEPT ![mine[c]] = taken[mine[c]] + 1]
    BY <1>5 DEF recvChunk, ClientFrame, serverVars, threadVars, boundVars
  <2>2. \A k \in Conn : Replied(k)' = Replied(k)
    <3>1. mine[c] \in Conn
      BY <1>0, <2>1 DEF Active
    <3>2. \A k \in Conn : k # mine[c] => taken'[k] = taken[k] /\ back'[k] = back[k]
      BY <1>0, <2>1
    <3>3. taken'[mine[c]] = taken[mine[c]] + 1 /\ back'[mine[c]] = 0
      BY <1>0, <2>1, <3>1
    <3>4. taken[mine[c]] \in Nat /\ back[mine[c]] = 1
      BY <1>0, <2>1, <3>1, PipeAssumption
    <3> QED BY <3>2, <3>3, <3>4 DEF Replied
  <2>3. Attended'
    <3> SUFFICES ASSUME StillServes, NEW d \in Client, client[d] \in {"sending", "waiting"}
                 PROVE  Held(mine[d])'
      BY <2>1 DEF Attended, StillServes
    <3>1. Held(mine[d]) /\ mine[d] \in Conn
      BY DEF EndInv, Attended, Inv, Clients, Active
    <3>2. Replied(mine[d])' = Replied(mine[d]) 
      BY <2>1, <2>2, <3>1 DEF Replied
    <3> QED BY <2>1, <3>1, <3>2 DEF Held
  <2> QED BY <2>1, <2>3 DEF EndInv, Unstopped, Ends, Active, Open, FailedOnlyAtEnd, StillServes
<1>6. CASE recvEnd(c)
  <2>1. client[c] = "waiting" /\ mine[c] \in Conn /\ back[mine[c]] = 0 /\ ~ServerHas(mine[c])
    BY <1>0, <1>6 DEF recvEnd, Active
  <2>2. StillServes => taken[mine[c]] = Chunks
    <3>1. SUFFICES ASSUME StillServes PROVE taken[mine[c]] = Chunks
      OBVIOUS
    <3>2. Replied(mine[c]) = Chunks
      BY <2>1, <3>1, HeldIsOpen
    <3> QED BY <1>0, <2>1, <3>2, PipeAssumption DEF Replied
  <2> QED BY <1>6, <2>1, <2>2, EndLeave DEF recvEnd, Active
<1> QED BY <1>1, <1>2, <1>3, <1>4, <1>5, <1>6 DEF clientSteps

(* The steps of stop() and of the end, after which nothing is promised. *)
LEMMA EndStops ==
  ASSUME Inv, EndInv, [Next]_vars, ~StillServes',
         ~(\E c \in Client : probeConnect(c) \/ transactConnect(c) \/ clientSteps(c) \/ die(c))
  PROVE  EndInv'
<1>0. stops \in Nat /\ m_stop \in BOOLEAN /\ nextConn \in Int
  BY DEF Inv, TypeOK
<1>1. CASE stopConnect
  <2>1. Ends'
    <3>1. CASE UNCHANGED <<nextConn, gone>>
      BY <1>1, <3>1 DEF stopConnect, EndInv, Ends, Active, clientVars
    <3>2. CASE ~UNCHANGED <<nextConn, gone>>
      <4>1. /\ nextConn \in Conn /\ nextConn' = nextConn + 1 /\ UNCHANGED <<client, mine>>
            /\ gone' = [gone EXCEPT ![nextConn] = TRUE]
        BY <1>1, <3>2 DEF stopConnect, clientVars
      <4>2. \A k \in Conn : k # nextConn => gone'[k] = gone[k]
        BY <4>1 DEF Inv, TypeOK
      <4>3. \A k \in Conn : k >= nextConn' => ~gone'[k]
        BY <1>0, <4>1, <4>2 DEF EndInv, Ends, Conn
      <4>4. \A c \in Client : Active(c) => mine[c] \in Conn /\ mine[c] # nextConn
        BY <1>0 DEF Inv, Clients, Conn
      <4>5. \A c \in Client : Active(c)' => ~gone'[mine'[c]]
        BY <4>1, <4>2, <4>4 DEF EndInv, Ends, Active
      <4> QED BY <4>3, <4>5 DEF Ends
    <3> QED BY <3>1, <3>2
  <2>2. Unstopped' /\ stops' = stops
    BY <1>1 DEF stopConnect, EndInv, Unstopped, boundVars
  <2> QED BY <1>0, <2>1, <2>2, EndOver
<1>2. CASE UNCHANGED vars
  <2>1. UNCHANGED EndVars /\ UNCHANGED thread
    BY <1>2 DEF vars, serverVars, threadVars, sockVars, connVars, clientVars, boundVars, EndVars
  <2> QED BY <2>1, EndFrame
<1>3. CASE ~stopConnect /\ Next
  <2>1. UNCHANGED <<gone, nextConn, client, mine>>
    BY <1>3 DEF Next, start, run, runBegin, openSocket, bindListen, loopTop, acceptCall,
       acceptReturn,
       readTop, recvReturn, writeTop, sendReturn, closeClient, clearClient, closeCurrentPipe,
       runEnd,
       handlerReturn, ThreadOnly, stopBegin, stopSteps, stopJoin, environment, interrupted,
       openFile, closeFile, processExit, AppFrame, connVars, clientVars
  <2>2. Ends'
    BY <2>1 DEF EndInv, Ends, Active
  <2>3. stops' \in Nat /\ Unstopped'
    <3>1. CASE start \/ stopBegin \/ stopJoin \/ processExit
      <4>1. CASE stopBegin
        <5>1. stops' = stops + 1
          BY <4>1 DEF stopBegin
        <5> QED BY <1>0, <5>1 DEF Unstopped
      <4>2. CASE start \/ stopJoin \/ processExit
        <5>1. stops' = stops /\ (stopper' = stopper \/ stopper' = "idle")
          BY <4>2 DEF start, stopJoin, processExit, boundVars
        <5>2. m_stop' = m_stop \/ m_stop' = FALSE
          BY <4>2 DEF start, stopJoin, processExit, serverVars
        <5> QED BY <1>0, <5>1, <5>2 DEF EndInv, Unstopped
      <4> QED BY <3>1, <4>1, <4>2
    <3>2. CASE closeCurrentPipe("stop", "connect")
      <4>1. stops' = stops /\ stopper # "idle"
        BY <3>2 DEF closeCurrentPipe, CheckFd, CloseFd, ClearClient, ClearServer, At, boundVars
      <4> QED BY <1>0, <4>1 DEF EndInv, Unstopped
    <3>3. CASE handlerReturn \/ run
      <4>1. UNCHANGED <<stops, stopper, m_stop>>
        <5>1. CASE closeCurrentPipe("run", "unlink")
          BY <5>1 DEF closeCurrentPipe, CheckFd, CloseFd, ClearClient, ClearServer, At, Goto,
             boundVars, serverVars
        <5> QED BY <3>3, <5>1 DEF run, runBegin, openSocket, bindListen, loopTop, acceptCall,
             acceptReturn, readTop, recvReturn, writeTop, sendReturn, closeClient, clearClient,
             ClearClient, At, Goto, runEnd, handlerReturn, ThreadOnly, boundVars, serverVars
      <4> QED BY <1>0, <4>1 DEF EndInv, Unstopped
    <3>4. CASE interrupted \/ openFile \/ (\E f \in Fd : closeFile(f))
      <4>1. UNCHANGED <<stops, stopper, m_stop>>
        BY <3>4 DEF interrupted, openFile, closeFile, AppFrame, serverVars
      <4> QED BY <1>0, <4>1 DEF EndInv, Unstopped
    <3>5. \/ start \/ stopBegin \/ stopJoin \/ processExit \/ handlerReturn \/ run
          \/ closeCurrentPipe("stop", "connect")
          \/ interrupted \/ openFile \/ \E f \in Fd : closeFile(f)
      BY <1>3 DEF Next, stopSteps, environment
    <3> QED BY <3>1, <3>2, <3>3, <3>4, <3>5
  <2> QED BY <2>2, <2>3, EndOver
<1> QED BY <1>1, <1>2, <1>3

LEMMA EndInit == Init => EndInv
BY DEF Init, EndInv, Unstopped, Ends, Active, Open, Attended, FailedOnlyAtEnd, Serving

LEMMA EndStep == Inv /\ EndInv /\ [Next]_vars => EndInv'
<1> SUFFICES ASSUME Inv, EndInv, [Next]_vars PROVE EndInv'
  OBVIOUS
<1>1. CASE \E c \in Client : probeConnect(c) \/ transactConnect(c) \/ clientSteps(c) \/ die(c)
  BY <1>1, EndClient
<1>2. CASE ~(\E c \in Client : probeConnect(c) \/ transactConnect(c) \/ clientSteps(c) \/ die(c))
  <2>1. CASE ~StillServes'
    BY <1>2, <2>1, EndStops
  <2>2. CASE StillServes'
    <3>1. StillServes /\ stopper = "idle" /\ ~m_stop
      BY <2>2, StillBefore DEF Inv, EndInv
    <3>2. CASE UNCHANGED vars
      <4>1. UNCHANGED EndVars /\ UNCHANGED thread
        BY <3>2 DEF vars, serverVars, threadVars, sockVars, connVars, clientVars, boundVars,
           EndVars
      <4> QED BY <4>1, EndFrame
    <3>3. ~stopBegin /\ ~stopSteps /\ ~processExit
      <4>1. ~stopSteps
        BY <3>1 DEF stopSteps, closeCurrentPipe, CheckFd, CloseFd, ClearClient, ClearServer, At,
           stopConnect, stopJoin
      <4>2. ~stopBegin
        BY <2>2, <3>1 DEF stopBegin, StillServes
      <4>3. ~processExit
        BY <2>2 DEF processExit, StillServes, Ending
      <4> QED BY <4>1, <4>2, <4>3
    <3>4. ~closeCurrentPipe("run", "unlink") /\ ~runEnd
      BY <3>1 DEF closeCurrentPipe, CheckFd, CloseFd, ClearClient, ClearServer, At, runEnd,
         StillServes, Ending
    <3> QED BY <1>2, <2>2, <3>1, <3>2, <3>3, <3>4, EndRun, EndOpens, EndSend, EndClose, EndElse
        DEF Next, run, environment
  <2> QED BY <2>1, <2>2
<1> QED BY <1>1, <1>2

(* A live client that connected gets its whole reply, unless stop() is called, *)
(* descriptors run out, or the process ends.                                   *)
THEOREM FailsOnlyAtEnd == Spec => []FailedOnlyAtEnd
<1>1. EndInv => FailedOnlyAtEnd
  BY DEF EndInv
<1>2. Inv => TypeOK
  BY DEF Inv
<1> QED BY <1>1, <1>2, EndInit, EndStep, Invariant, PTL DEF Spec

-----------------------------------------------------------------------------
(***************************************************************************)
(* Nobody waits for ever: the safety half of "every request and every      *)
(* stop() ends".  The pipe thread can go no further by itself when it is   *)
(* in accept() with nobody queued, in recv() with everything read and more *)
(* to come, in send() with a chunk unread, in the handler, or when there   *)
(* is none.  A client owes the connection that is served a step that it    *)
(* can take at any time: to close the probe, to send or half-close, to     *)
(* read.                                                                   *)
(***************************************************************************)
Blocked ==
    \/ thread = "accepting" /\ accepts = <<>>
    \/ thread = "receiving" /\ got = sent[cur] /\ ~shut[cur]
    \/ thread = "sending" /\ back[cur] = 1 /\ ~gone[cur]
    \/ thread \in {"none", "handler", "done", "dead"}

Owes(c) ==
    /\ mine[c] = cur
    /\ client[c] \in {"probing", "sending"} \/ (client[c] = "waiting" /\ back[cur] = 1)

NobodyHangs ==
    Blocked /\ thread # "handler" /\ (\A c \in Client : ~Owes(c)) =>
        /\ \A k \in Conn : ~ServerHas(k)
        /\ stopper = "join" => thread = "done"
        /\ stopper = "unheard join" => thread \in {"accepting", "done"}

(* Every connection that is open at its far end has a client that works on *)
(* it.                                                                     *)
Owned ==
    \A k \in Conn : k < nextConn /\ ~gone[k] => \E c \in Client : Active(c) /\ mine[c] = k
ProbeOpen == \A c \in Client : client[c] = "probing" => ~shut[mine[c]]
GoneShut == \A k \in Conn : gone[k] => shut[k]

OwnInv == Owned /\ ProbeOpen /\ GoneShut

OwnVars == <<nextConn, gone, shut, client, mine>>

(* A step that leaves connections and clients alone keeps their owners. *)
LEMMA OwnFrame ==
  ASSUME OwnInv, UNCHANGED OwnVars
  PROVE  OwnInv'
<1>1. UNCHANGED <<nextConn, gone, shut, client, mine>>
  BY DEF OwnVars
<1> QED BY <1>1 DEF OwnInv, Owned, ProbeOpen, GoneShut, Active

(* The connection that stop() makes is closed at once. *)
LEMMA OwnStopConnect ==
  ASSUME Inv, OwnInv, stopConnect
  PROVE  OwnInv'
<1>0. shut \in [Conn -> BOOLEAN] /\ gone \in [Conn -> BOOLEAN] /\ nextConn \in Nat
  BY DEF Inv, TypeOK
<1>1. UNCHANGED <<client, mine>>
  BY DEF stopConnect, clientVars
<1>2. CASE UNCHANGED <<shut, gone, nextConn>>
  BY <1>1, <1>2, OwnFrame DEF OwnVars
<1>3. CASE /\ nextConn \in Conn /\ nextConn' = nextConn + 1
           /\ shut' = [shut EXCEPT ![nextConn] = TRUE]
           /\ gone' = [gone EXCEPT ![nextConn] = TRUE]
  <2>1. Owned'
    <3> SUFFICES ASSUME NEW k \in Conn, k < nextConn', ~gone'[k]
                 PROVE  \E c \in Client : Active(c)' /\ mine'[c] = k
      BY DEF Owned
    <3>1. k # nextConn /\ gone'[k] = gone[k]
      BY <1>0, <1>3
    <3>2. k < nextConn
      BY <1>0, <1>3, <3>1 DEF Conn
    <3> QED BY <1>1, <3>1, <3>2 DEF OwnInv, Owned, Active
  <2>2. ProbeOpen'
    BY <1>0, <1>1, <1>3 DEF OwnInv, ProbeOpen, Inv, Clients, Active, Conn
  <2>3. GoneShut'
    BY <1>0, <1>3 DEF OwnInv, GoneShut
  <2> QED BY <2>1, <2>2, <2>3 DEF OwnInv
<1> QED BY <1>2, <1>3 DEF stopConnect

(* A client that connects owns the connection that it has made. *)
LEMMA OwnConnect ==
  ASSUME Inv, OwnInv, NEW c \in Client, probeConnect(c) \/ transactConnect(c)
  PROVE  OwnInv'
<1>0. /\ nextConn \in Nat /\ MaxConn \in Nat /\ MaxStops \in Nat
      /\ client \in [Client -> {"idle", "probing", "sending", "waiting", "dead"}]
      /\ mine \in [Client -> Conn \cup {0}]
  BY PipeAssumption DEF Inv, TypeOK
<1>1. PICK step \in {"probing", "sending"} : connectAs(c, step)
  BY DEF probeConnect, transactConnect
<1>2. /\ client[c] = "idle" /\ nextConn <= MaxConn - MaxStops
      /\ mine' = [mine EXCEPT ![c] = nextConn] /\ client' = [client EXCEPT ![c] = step]
      /\ nextConn' = nextConn + 1 /\ UNCHANGED <<shut, gone>>
  BY <1>1 DEF connectAs
<1>3. nextConn \in Conn
  BY <1>0, <1>2 DEF Inv, TypeOK, Conn
<1>4. /\ client'[c] = step /\ mine'[c] = nextConn
      /\ \A d \in Client : d # c => client'[d] = client[d] /\ mine'[d] = mine[d]
  BY <1>0, <1>2
<1>5. Owned'
  <2> SUFFICES ASSUME NEW k \in Conn, k < nextConn', ~gone'[k]
               PROVE  \E d \in Client : Active(d)' /\ mine'[d] = k
    BY DEF Owned
  <2>1. CASE k = nextConn
    BY <1>4, <2>1 DEF Active
  <2>2. CASE k # nextConn
    <3>1. k < nextConn /\ ~gone[k]
      BY <1>0, <1>2, <2>2 DEF Conn
    <3>2. PICK d \in Client : Active(d) /\ mine[d] = k
      BY <3>1 DEF OwnInv, Owned
    <3>3. d # c
      BY <1>2, <3>2 DEF Active
    <3> QED BY <1>4, <3>2, <3>3 DEF Active
  <2> QED BY <2>1, <2>2
<1>6. ProbeOpen'
  <2> SUFFICES ASSUME NEW d \in Client, client'[d] = "probing" PROVE ~shut'[mine'[d]]
    BY DEF ProbeOpen
  <2>1. CASE d = c
    <3>1. ~shut[nextConn]
      BY <1>0, <1>3 DEF Inv, Unmade
    <3> QED BY <1>2, <1>4, <2>1, <3>1
  <2>2. CASE d # c
    BY <1>2, <1>4, <2>2 DEF OwnInv, ProbeOpen
  <2> QED BY <2>1, <2>2
<1>7. GoneShut'
  BY <1>2 DEF OwnInv, GoneShut
<1> QED BY <1>5, <1>6, <1>7 DEF OwnInv

(* A client leaves its connection for good, or goes on with it. *)
LEMMA OwnLeave ==
  ASSUME Inv, OwnInv, NEW c \in Client, Active(c),
         shut' = [shut EXCEPT ![mine[c]] = TRUE], UNCHANGED <<nextConn, mine>>,
         NEW step, client' = [client EXCEPT ![c] = step], step # "probing",
         \/ gone' = [gone EXCEPT ![mine[c]] = TRUE]
         \/ UNCHANGED gone /\ step = "waiting"
  PROVE  OwnInv'
<1>0. /\ shut \in [Conn -> BOOLEAN] /\ gone \in [Conn -> BOOLEAN]
      /\ client \in [Client -> {"idle", "probing", "sending", "waiting", "dead"}]
  BY DEF Inv, TypeOK
<1>1. mine[c] \in Conn
  BY DEF Inv, Clients
<1>2. client'[c] = step /\ \A d \in Client : d # c => client'[d] = client[d]
  BY <1>0
<1>3. /\ \A k \in Conn : k # mine[c] => shut'[k] = shut[k] /\ gone'[k] = gone[k]
      /\ shut'[mine[c]]
  BY <1>0, <1>1
<1>4. Owned'
  <2> SUFFICES ASSUME NEW k \in Conn, k < nextConn, ~gone'[k]
               PROVE  \E d \in Client : Active(d)' /\ mine[d] = k
    BY DEF Owned
  <2>1. ~gone[k]
    BY <1>0, <1>1
  <2>2. PICK d \in Client : Active(d) /\ mine[d] = k
    BY <2>1 DEF OwnInv, Owned
  <2>3. CASE d = c
    <3>1. step = "waiting"
      BY <1>0, <1>1, <2>2, <2>3
    <3> QED BY <1>2, <2>2, <2>3, <3>1 DEF Active
  <2>4. CASE d # c
    BY <1>2, <2>2, <2>4 DEF Active
  <2> QED BY <2>3, <2>4
<1>5. ProbeOpen'
  <2> SUFFICES ASSUME NEW d \in Client, client'[d] = "probing" PROVE ~shut'[mine[d]]
    BY DEF ProbeOpen
  <2>1. d # c /\ client[d] = "probing"
    BY <1>2
  <2>2. mine[d] # mine[c] /\ mine[d] \in Conn
    BY <2>1 DEF Inv, Clients, Active
  <2> QED BY <1>3, <2>1, <2>2 DEF OwnInv, ProbeOpen
<1>6. GoneShut'
  BY <1>3 DEF OwnInv, GoneShut
<1> QED BY <1>4, <1>5, <1>6 DEF OwnInv

(* Every step of the clients keeps the owners. *)
LEMMA OwnClient ==
  ASSUME Inv, OwnInv, NEW c \in Client,
         probeConnect(c) \/ transactConnect(c) \/ clientSteps(c) \/ die(c)
  PROVE  OwnInv'
<1>1. CASE probeConnect(c) \/ transactConnect(c)
  BY <1>1, OwnConnect
<1>2. ASSUME NEW step, NEW result, Active(c), clientClose(c, step, result), step # "probing"
      PROVE  OwnInv'
  BY <1>2, OwnLeave DEF clientClose
<1>3. CASE probeClose(c)
  <2>1. Active(c) /\ clientClose(c, "idle", "none")
    BY <1>3 DEF probeClose, Active
  <2> QED BY <1>2, <2>1
<1>4. CASE sendChunk(c)
  <2>1. CASE clientClose(c, "idle", "failed")
    <3>1. Active(c)
      BY <1>4 DEF sendChunk, Active
    <3> QED BY <1>2, <2>1, <3>1
  <2>2. CASE UNCHANGED <<clientVars, shut, gone, back, nextConn, accepts>>
    BY <2>2, OwnFrame DEF OwnVars, clientVars
  <2> QED BY <1>4, <2>1, <2>2 DEF sendChunk
<1>5. CASE shutdownWrite(c)
  <2>1. /\ Active(c) /\ client' = [client EXCEPT ![c] = "waiting"]
        /\ shut' = [shut EXCEPT ![mine[c]] = TRUE] /\ UNCHANGED <<gone, nextConn, mine>>
    BY <1>5 DEF shutdownWrite, Active
  <2> QED BY <2>1, OwnLeave
<1>6. CASE recvChunk(c)
  BY <1>6, OwnFrame DEF recvChunk, OwnVars
<1>7. CASE recvEnd(c)
  <2>1. /\ Active(c)
        /\ clientClose(c, "idle", IF taken[mine[c]] = Chunks THEN "answered" ELSE "failed")
    BY <1>7 DEF recvEnd, Active
  <2> QED BY <1>2, <2>1
<1>8. CASE die(c)
  <2>1. Active(c) /\ clientClose(c, "dead", "lost")
    BY <1>8 DEF die, Active
  <2> QED BY <1>2, <2>1
<1> QED BY <1>1, <1>3, <1>4, <1>5, <1>6, <1>7, <1>8 DEF clientSteps

(* The owners of connections are an invariant. *)
LEMMA OwnStep == Inv /\ OwnInv /\ [Next]_vars => OwnInv'
<1> SUFFICES ASSUME Inv, OwnInv, [Next]_vars PROVE OwnInv'
  OBVIOUS
<1>1. CASE stopConnect
  BY <1>1, OwnStopConnect
<1>2. CASE \E c \in Client : probeConnect(c) \/ transactConnect(c) \/ clientSteps(c) \/ die(c)
  BY <1>2, OwnClient
<1>3. CASE \/ UNCHANGED vars \/ start \/ handlerReturn \/ stopBegin \/ stopJoin \/ interrupted
           \/ openFile \/ (\E f \in Fd : closeFile(f)) \/ processExit
  BY <1>3, OwnFrame DEF OwnVars, vars, connVars, clientVars, start, handlerReturn, stopBegin,
     stopJoin, interrupted, openFile, closeFile, AppFrame, processExit, ThreadOnly
<1>4. CASE \/ runBegin \/ openSocket \/ bindListen \/ loopTop \/ acceptCall \/ acceptReturn
           \/ readTop \/ recvReturn
  BY <1>4, OwnFrame DEF OwnVars, connVars, clientVars, runBegin, openSocket, bindListen,
     loopTop, acceptCall, acceptReturn, readTop, recvReturn, ThreadOnly
<1>5. CASE \/ writeTop \/ sendReturn \/ closeClient \/ clearClient \/ runEnd
           \/ closeCurrentPipe("run", "unlink") \/ closeCurrentPipe("stop", "connect")
  BY <1>5, OwnFrame DEF OwnVars, connVars, clientVars, writeTop, sendReturn, closeClient,
     clearClient, runEnd, closeCurrentPipe, ThreadOnly
<1> QED BY <1>1, <1>2, <1>3, <1>4, <1>5 DEF Next, run, stopSteps, environment

(* Where the pipe thread may wait, the socket listens and stop() can wake  *)
(* it: an accept queue hangs on a listening socket, stop() in join() has   *)
(* closed that socket, and, unless it had no descriptor to connect with,   *)
(* left a connection for the accept() that still holds the socket.         *)
Looping == Serving \cup {"loop", "accept", "accepting", "close", "clear"}

QueueHeld == accepts # <<>> => Accepting \/ ~NoListener
DeadInv == thread = "dead" => stopper = "idle" /\ \A f \in Fd : fds[f] = Closed
Opened ==
    /\ thread \in Looping \cup {"socket", "bind"} => hasPath
    /\ thread \in Looping => listens
AtEnd == {"connect", "join", "unheard join"}
Unheard == stopper \in AtEnd /\ thread \in Looping \ {"loop"} => NoListener
Called == stopper = "join" /\ thread = "accepting" => accepts # <<>>

WakeInv == QueueHeld /\ DeadInv /\ Opened /\ Unheard /\ Called

WakeVars == <<accepts, thread, stopper, fds, hasPath, listens>>

(* A step that leaves the socket and both threads alone keeps WakeInv. *)
LEMMA WakeFrame ==
  ASSUME WakeInv, UNCHANGED WakeVars
  PROVE  WakeInv'
<1>1. UNCHANGED <<accepts, thread, stopper, fds, hasPath, listens>>
  BY DEF WakeVars
<1>2. UNCHANGED NoListener
  BY <1>1 DEF NoListener
<1>3. QueueHeld' /\ Called'
  BY <1>1, <1>2 DEF WakeInv, QueueHeld, Called, Accepting
<1>4. DeadInv' /\ Opened' /\ Unheard'
  BY <1>1, <1>2 DEF WakeInv, DeadInv, Opened, Unheard
<1> QED BY <1>3, <1>4 DEF WakeInv

(* The steps of run() that open and close nothing. *)
LEMMA WakeQuiet ==
  ASSUME TypeOK, FdInv, WakeInv,
         \/ runBegin \/ bindListen \/ loopTop \/ acceptCall \/ readTop \/ recvReturn \/ writeTop
         \/ sendReturn \/ clearClient \/ runEnd \/ handlerReturn \/ start
  PROVE  WakeInv'
<1>1. UNCHANGED <<accepts, fds, stopper>> /\ (UNCHANGED listens \/ runBegin \/ bindListen \/ runEnd)
  BY DEF runBegin, bindListen, loopTop, acceptCall, readTop, recvReturn, writeTop, sendReturn,
     clearClient, ClearClient, Goto, runEnd, handlerReturn, start, ThreadOnly, serverVars,
     sockVars
<1>2. UNCHANGED NoListener /\ thread # "accepting" /\ thread' # "dead"
  BY <1>1 DEF NoListener, runBegin, bindListen, loopTop, acceptCall, readTop, recvReturn, writeTop,
     sendReturn, clearClient, ClearClient, At, Goto, runEnd, handlerReturn, start, afterMessage
<1>3. QueueHeld'
  BY <1>1, <1>2 DEF WakeInv, QueueHeld, Accepting
<1>4. DeadInv'
  BY <1>2 DEF DeadInv
<1>5. Opened'
  BY DEF WakeInv, Opened, Looping, Serving, runBegin, bindListen, loopTop, acceptCall, readTop,
     recvReturn, writeTop, sendReturn, clearClient, ClearClient, At, Goto, runEnd, handlerReturn,
     start, afterMessage, ThreadOnly, serverVars, sockVars
<1>6. thread' \in Looping \ {"loop"} =>
        \/ thread = "loop" /\ ~m_stop /\ thread' = "accept"
        \/ thread \in Looping \ {"loop"} /\ (thread' = "accepting" => ~NoListener)
  BY DEF Looping, Serving, runBegin, bindListen, loopTop, acceptCall, readTop, recvReturn,
     writeTop, sendReturn, clearClient, ClearClient, At, Goto, runEnd, handlerReturn, start,
     afterMessage, NoListener
<1>7. thread' \in Looping \ {"loop"} /\ stopper \in AtEnd =>
        NoListener /\ thread' # "accepting"
  BY <1>6 DEF WakeInv, Unheard, AtEnd, FdInv, Stopping
<1>8. Unheard' /\ Called'
  BY <1>1, <1>2, <1>7 DEF Unheard, AtEnd, Called, Looping
<1> QED BY <1>3, <1>4, <1>5, <1>8 DEF WakeInv

(* The ends of stop(): it has closed the socket before it connects, and    *)
(* where accept() holds the socket open its connection is queued.          *)
LEMMA WakeStop ==
  ASSUME Inv, FdInv, WakeInv, stopBegin \/ stopConnect \/ stopJoin
  PROVE  WakeInv'
<1>0. accepts \in Seq(Conn)
  BY DEF Inv, TypeOK
<1>1. CASE stopBegin
  <2>1. UNCHANGED <<accepts, thread, fds, hasPath, listens>> /\ stopper' = "client?"
    BY <1>1 DEF stopBegin, threadVars, sockVars
  <2>2. thread # "dead" /\ UNCHANGED NoListener
    BY <1>1, <2>1 DEF stopBegin, NoListener
  <2> QED BY <2>1, <2>2 DEF WakeInv, QueueHeld, DeadInv, Opened, Unheard, AtEnd,
       Called, Accepting
<1>2. CASE stopConnect
  <2>1. /\ UNCHANGED <<thread, fds, hasPath, listens>>
        /\ stopper = "connect" /\ stopper' \in {"join", "unheard join"}
        /\ thread # "dead" /\ UNCHANGED NoListener
    BY <1>2 DEF stopConnect, threadVars, serverVars, WakeInv, DeadInv, NoListener
  <2>2. CASE hasPath /\ FreeFds # {} /\ Listening
    <3>1. accepts' = Append(accepts, nextConn)
      BY <1>2, <2>2 DEF stopConnect
    <3>2. accepts' # <<>>
      BY <1>0, <3>1
    <3>3. Accepting \/ ~NoListener
      BY <2>2 DEF Listening, NoListener
    <3> QED BY <2>1, <3>2, <3>3 DEF WakeInv, QueueHeld, DeadInv, Opened, Unheard, AtEnd,
       Called, Accepting
  <2>3. CASE ~(hasPath /\ FreeFds # {} /\ Listening)
    <3>1. UNCHANGED accepts
      BY <1>2, <2>3 DEF stopConnect
    <3>2. stopper' = "join" => thread # "accepting"
      BY <1>2, <2>3 DEF stopConnect, WakeInv, Opened, Looping, Listening, Accepting
    <3> QED BY <2>1, <3>1, <3>2 DEF WakeInv, QueueHeld, DeadInv, Opened, Unheard, AtEnd,
       Called, Accepting
  <2> QED BY <2>2, <2>3
<1>3. CASE stopJoin
  <2>1. UNCHANGED <<accepts, fds>> /\ thread = "done" /\ thread' = "none" /\ stopper' = "idle"
    BY <1>3 DEF stopJoin, sockVars
  <2>2. UNCHANGED NoListener
    BY <2>1 DEF NoListener
  <2> QED BY <2>1, <2>2 DEF WakeInv, QueueHeld, DeadInv, Opened, Unheard, AtEnd, Called, Accepting,
       Looping, Serving
<1> QED BY <1>1, <1>2, <1>3

(* A system call that a signal interrupts lets go of its file. *)
LEMMA WakeSignal ==
  ASSUME Inv, FdInv, WakeInv, interrupted
  PROVE  WakeInv'
<1>1. UNCHANGED <<fds, stopper, hasPath, listens>> /\ UNCHANGED NoListener
  BY DEF interrupted, serverVars, NoListener
<1>2. CASE thread = "accepting"
  <2>1. thread' = "loop" /\ accepts' = QueueAfter(fds, FALSE, accepts)
    BY <1>2 DEF interrupted
  <2>2. QueueHeld'
    BY <1>1, <2>1 DEF QueueHeld, QueueAfter, NoListener
  <2> QED BY <1>1, <1>2, <2>1, <2>2 DEF WakeInv, DeadInv, Opened, Unheard, AtEnd, Called, Looping
<1>3. CASE thread # "accepting"
  <2>1. /\ thread \in Serving /\ thread' \in {"read", "write"} /\ UNCHANGED accepts
    BY <1>3 DEF interrupted, Serving
  <2> QED BY <1>1, <1>3, <2>1 DEF WakeInv, QueueHeld, DeadInv, Opened, Unheard, AtEnd, Called,
       Looping,
       Serving, Accepting
<1> QED BY <1>2, <1>3

(* Where the descriptor table changes, listening sockets stay, or take     *)
(* their queue with them.                                                  *)
LEMMA WakeTable ==
  ASSUME Inv, FdInv, WakeInv,
         openSocket \/ acceptReturn \/ closeClient \/ openFile \/ (\E f \in Fd : closeFile(f))
  PROVE  WakeInv'
<1>0. fds \in [Fd -> Conn \cup {Closed, Listener, AppFile}]
  BY DEF Inv, TypeOK
<1>1. CASE openSocket
  <2>1. /\ thread = "socket" /\ UNCHANGED <<accepts, stopper, hasPath, listens>>
        /\ thread' \in {"bind", "done"}
        /\ UNCHANGED fds \/ \E f \in FreeFds : fds' = [fds EXCEPT ![f] = Listener]
    BY <1>1 DEF openSocket, allocate, ThreadOnly
  <2>2. ~NoListener => ~NoListener'
    BY <1>0, <2>1 DEF NoListener, FreeFds
  <2> QED BY <2>1, <2>2 DEF WakeInv, QueueHeld, DeadInv, Opened, Unheard, AtEnd, Called, Accepting,
       Looping, Serving
<1>2. CASE acceptReturn
  <2>1. /\ thread = "accepting" /\ UNCHANGED <<stopper, hasPath, listens>>
        /\ thread' \in {"client?", "read"}
        /\ \E q : accepts' = QueueAfter(fds, FALSE, q)
        /\ \/ UNCHANGED fds
           \/ \E f \in FreeFds : fds' = [fds EXCEPT ![f] = Head(accepts)]
    BY <1>2 DEF acceptReturn, allocate, ThreadOnly
  <2>0. accepts # <<>> /\ accepts \in Seq(Conn)
    BY <1>2 DEF acceptReturn, Inv, TypeOK
  <2>4. Head(accepts) \in Conn
    BY <2>0
  <2>2. NoListener' <=> NoListener
    BY <1>0, <2>1, <2>4 DEF NoListener, FreeFds, Closed, Listener, Conn
  <2>3. QueueHeld'
    BY <2>1, <2>2 DEF QueueHeld, QueueAfter, NoListener
  <2>5. Unheard'
    BY <2>1, <2>2 DEF WakeInv, Unheard, AtEnd, Looping
  <2> QED BY <2>1, <2>3, <2>5 DEF WakeInv, DeadInv, Opened, Called, Looping, Serving
<1>3. CASE closeClient
  <2>1. /\ thread = "close" /\ thread' = "clear" /\ UNCHANGED <<stopper, hasPath, listens>>
        /\ close(m_clientFd)
    BY <1>3 DEF closeClient, ThreadOnly
  <2>2. QueueHeld'
    BY <2>1 DEF WakeInv, QueueHeld, close, QueueAfter, NoListener, Accepting
  <2>3. NoListener => NoListener'
    BY <2>1, closeKeeps DEF NoListener, Inv
  <2>4. Unheard'
    BY <2>1, <2>3 DEF WakeInv, Unheard, AtEnd, Looping
  <2> QED BY <2>1, <2>2, <2>4 DEF WakeInv, DeadInv, Opened, Called, Looping, Serving
<1>4. CASE openFile
  <2>1. /\ UNCHANGED <<accepts, thread, stopper, hasPath, listens>> /\ thread # "dead"
        /\ \E f \in FreeFds : fds' = [fds EXCEPT ![f] = AppFile]
    BY <1>4 DEF openFile, AppFrame, allocate, threadVars, serverVars
  <2>2. UNCHANGED NoListener
    BY <1>0, <2>1 DEF NoListener, FreeFds, Closed, Listener, AppFile
  <2> QED BY <2>1, <2>2 DEF WakeInv, QueueHeld, DeadInv, Opened, Unheard, AtEnd,
       Called, Accepting
<1>5. CASE \E f \in Fd : closeFile(f)
  <2>1. /\ UNCHANGED <<accepts, thread, stopper, hasPath, listens>>
        /\ \E f \in Fd : fds[f] = AppFile /\ fds' = [fds EXCEPT ![f] = Closed]
    BY <1>5 DEF closeFile, AppFrame, threadVars, serverVars
  <2>2. UNCHANGED NoListener
    BY <1>0, <2>1 DEF NoListener, Closed, Listener, AppFile
  <2>3. thread # "dead"
    BY <2>1 DEF WakeInv, DeadInv, Closed, AppFile
  <2> QED BY <2>1, <2>2, <2>3 DEF WakeInv, QueueHeld, DeadInv, Opened, Unheard, AtEnd,
       Called, Accepting
<1> QED BY <1>1, <1>2, <1>3, <1>4, <1>5

(* closeCurrentPipe() closes the listening socket with its queue, unless    *)
(* accept() still holds it.                                                *)
LEMMA WakeCloses ==
  ASSUME Inv, FdInv, WakeInv,
         closeCurrentPipe("run", "unlink") \/ closeCurrentPipe("stop", "connect")
  PROVE  WakeInv'
<1>0. fds \in [Fd -> Conn \cup {Closed, Listener, AppFile}]
  BY DEF Inv, TypeOK
<1>1. UNCHANGED <<hasPath, listens>>
  BY DEF closeCurrentPipe, CheckFd, CloseFd, ClearClient, ClearServer, serverVars, sockVars
<1>2. \/ /\ thread \in Ending \ {"done", "dead"} /\ thread' \in Ending \ {"dead"}
         /\ UNCHANGED stopper
      \/ /\ stopper \notin AtEnd \cup {"idle"} /\ stopper' \notin {"join", "unheard join"}
         /\ UNCHANGED thread
  BY DEF closeCurrentPipe, CheckFd, CloseFd, ClearClient, ClearServer, At, Goto, Ending, AtEnd
<1>3. UNCHANGED <<fds, accepts>> \/ \E fd : close(fd)
  BY DEF closeCurrentPipe, CheckFd, CloseFd, ClearClient, ClearServer, sockVars
<1>4. NoListener => NoListener'
  <2>1. CASE UNCHANGED fds
    BY <2>1 DEF NoListener
  <2>2. CASE \E fd : close(fd)
    BY <2>2, closeKeeps DEF NoListener, Inv
  <2> QED BY <1>3, <2>1, <2>2
<1>5. QueueHeld'
  <2>0. Accepting' = Accepting
    BY <1>2 DEF Accepting, Ending
  <2>1. CASE UNCHANGED <<fds, accepts>>
    <3>1. UNCHANGED NoListener
      BY <2>1 DEF NoListener
    <3> QED BY <2>0, <2>1, <3>1 DEF WakeInv, QueueHeld
  <2>2. CASE \E fd : close(fd)
    BY <2>0, <2>2 DEF WakeInv, QueueHeld, close, QueueAfter, NoListener
  <2> QED BY <1>3, <2>1, <2>2
<1>6. thread # "dead" /\ thread' # "dead"
  BY <1>2 DEF WakeInv, DeadInv, Ending
<1>7. DeadInv' /\ Opened'
  BY <1>1, <1>2, <1>6 DEF WakeInv, DeadInv, Opened, Looping, Serving, Ending
<1>8. Called'
  BY <1>2 DEF Called, Ending
<1>9. Unheard'
  <2>1. CASE thread \in Ending \ {"done", "dead"} /\ thread' \in Ending \ {"dead"}
    BY <2>1 DEF Unheard, AtEnd, Looping, Serving, Ending
  <2>2. CASE stopper' # "connect"
    BY <1>2, <2>2 DEF Unheard, AtEnd, Looping, Serving, Ending
  <2>3. CASE stopper \notin AtEnd \cup {"idle"} /\ stopper' = "connect"
    <3>1. \/ stopper = "server?" /\ ~(m_serverFd >= 0) /\ UNCHANGED fds
          \/ stopper = "server clear" /\ UNCHANGED fds
      BY <2>3 DEF closeCurrentPipe, CheckFd, CloseFd, ClearClient, ClearServer, At, Goto,
         sockVars, AtEnd
    <3>2. CASE stopper = "server?" /\ ~(m_serverFd >= 0)
      <4>1. \A f \in Fd : f # m_serverFd
        BY <3>2 DEF Fd
      <4>2. NoListener
        BY <4>1 DEF FdInv, Named, NoListener
      <4> QED BY <1>4, <4>2 DEF Unheard
    <3>3. CASE stopper = "server clear"
      <4>1. NoListener
        BY <3>3 DEF FdInv, StopServer
      <4> QED BY <1>4, <4>1 DEF Unheard
    <3> QED BY <3>1, <3>2, <3>3
  <2> QED BY <1>2, <2>1, <2>2, <2>3
<1> QED BY <1>5, <1>7, <1>8, <1>9 DEF WakeInv

(* The clients wake the server, or leave it alone. *)
LEMMA WakeClient ==
  ASSUME Inv, WakeInv, NEW c \in Client,
         probeConnect(c) \/ transactConnect(c) \/ clientSteps(c) \/ die(c)
  PROVE  WakeInv'
<1>1. CASE probeConnect(c) \/ transactConnect(c)
  <2>1. /\ UNCHANGED <<thread, stopper, fds, hasPath, listens>> /\ Listening
        /\ accepts' = Append(accepts, nextConn)
    BY <1>1 DEF probeConnect, transactConnect, connectAs, ClientFrame, serverVars, threadVars
  <2>0. accepts \in Seq(Conn)
    BY DEF Inv, TypeOK
  <2>2. accepts' # <<>>
    BY <2>0, <2>1
  <2>4. UNCHANGED NoListener
    BY <2>1 DEF NoListener
  <2>3. Accepting \/ ~NoListener
    BY <2>1 DEF Listening, NoListener
  <2> QED BY <2>1, <2>2, <2>3, <2>4 DEF WakeInv, QueueHeld, DeadInv, Opened, Unheard, AtEnd, Called,
       Accepting
<1>2. CASE clientSteps(c) \/ die(c)
  <2>1. UNCHANGED <<accepts, thread, stopper, fds, hasPath, listens>>
    BY <1>2 DEF clientSteps, probeClose, sendChunk, shutdownWrite, recvChunk, recvEnd, die,
       clientClose, ClientFrame, serverVars, threadVars
  <2> QED BY <2>1, WakeFrame DEF WakeVars
<1> QED BY <1>1, <1>2

(* That stop() can wake the pipe thread is an invariant. *)
LEMMA WakeStep == Inv /\ FdInv /\ WakeInv /\ [Next]_vars => WakeInv'
<1> SUFFICES ASSUME Inv, FdInv, WakeInv, [Next]_vars PROVE WakeInv'
  OBVIOUS
<1>0. TypeOK
  BY DEF Inv
<1>1. CASE UNCHANGED vars
  BY <1>1, WakeFrame DEF vars, WakeVars, serverVars, threadVars, sockVars
<1>2. CASE \/ runBegin \/ bindListen \/ loopTop \/ acceptCall \/ readTop \/ recvReturn
           \/ writeTop \/ sendReturn \/ clearClient \/ runEnd \/ handlerReturn \/ start
  BY <1>0, <1>2, WakeQuiet
<1>3. CASE stopBegin \/ stopConnect \/ stopJoin
  BY <1>3, WakeStop
<1>4. CASE interrupted
  BY <1>4, WakeSignal
<1>5. CASE openSocket \/ acceptReturn \/ closeClient \/ openFile \/ (\E f \in Fd : closeFile(f))
  BY <1>5, WakeTable
<1>6. CASE closeCurrentPipe("run", "unlink") \/ closeCurrentPipe("stop", "connect")
  BY <1>6, WakeCloses
<1>7. CASE \E c \in Client : probeConnect(c) \/ transactConnect(c) \/ clientSteps(c) \/ die(c)
  BY <1>7, WakeClient
<1>8. CASE processExit
  <2>1. /\ accepts' = <<>> /\ thread' = "dead" /\ stopper' = "idle"
        /\ \A f \in Fd : fds'[f] = Closed
    BY <1>8 DEF processExit
  <2> QED BY <2>1 DEF WakeInv, QueueHeld, DeadInv, Opened, Unheard, AtEnd, Called, Looping, Serving
<1> QED BY <1>1, <1>2, <1>3, <1>4, <1>5, <1>6, <1>7, <1>8 DEF Next, run, stopSteps, environment

(* What the two invariants and the earlier ones say of a thread that waits. *)
LEMMA HangsNot == Inv /\ FdInv /\ OwnInv /\ WakeInv => NobodyHangs
<1> SUFFICES ASSUME Inv, FdInv, OwnInv, WakeInv, Blocked, thread # "handler",
                    \A c \in Client : ~Owes(c)
             PROVE  /\ \A k \in Conn : ~ServerHas(k)
                    /\ stopper = "join" => thread = "done"
                    /\ stopper = "unheard join" => thread \in {"accepting", "done"}
  BY DEF NobodyHangs
<1>1. ASSUME thread \in Serving, ~gone[cur]
      PROVE  \E c \in Client : Active(c) /\ mine[c] = cur
  <2>1. cur \in Conn /\ cur < nextConn
    BY <1>1 DEF Inv, TypeOK, Served, Unmade, Conn
  <2> QED BY <1>1, <2>1 DEF OwnInv, Owned
<1>2. ~(thread = "receiving" /\ got = sent[cur] /\ ~shut[cur])
  <2> SUFFICES ASSUME thread = "receiving", ~shut[cur] PROVE FALSE
    OBVIOUS
  <2>1. ~gone[cur]
    BY DEF OwnInv, GoneShut, Inv, Served, Serving
  <2>2. PICK c \in Client : Active(c) /\ mine[c] = cur
    BY <1>1, <2>1 DEF Serving
  <2> QED BY <2>2 DEF Active, Owes, Inv, Clients
<1>3. ~(thread = "sending" /\ back[cur] = 1 /\ ~gone[cur])
  <2> SUFFICES ASSUME thread = "sending", back[cur] = 1, ~gone[cur] PROVE FALSE
    OBVIOUS
  <2>1. PICK c \in Client : Active(c) /\ mine[c] = cur
    BY <1>1 DEF Serving
  <2>2. shut[cur]
    BY DEF Inv, Served, Serving, Replying
  <2> QED BY <2>1, <2>2 DEF Active, Owes, Inv, Clients, OwnInv, ProbeOpen
<1>4. CASE thread = "accepting" /\ accepts = <<>>
  <2>1. NoConn
    BY <1>4, FdIsNumber DEF FdInv, RunClient, Named, NoConn
  <2> QED BY <1>4, <2>1 DEF ServerHas, InCall, NoConn, WakeInv, Called
<1>5. CASE thread \in {"none", "done", "dead"}
  <2>1. NoConn /\ NoListener
    <3>1. CASE thread = "dead"
      BY <3>1 DEF WakeInv, DeadInv, NoConn, NoListener, Closed, Listener, Conn
    <3>2. CASE thread \in {"none", "done"}
      <4>1. m_clientFd = NoFd /\ m_serverFd = NoFd
        BY <3>2 DEF FdInv, RunClient, RunServer
      <4> QED BY <4>1, FdIsNumber DEF FdInv, Named, NoConn, NoListener
    <3> QED BY <1>5, <3>1, <3>2
  <2>2. accepts = <<>>
    BY <1>5, <2>1 DEF WakeInv, QueueHeld, Accepting
  <2>3. \A k \in Conn : ~ServerHas(k)
    BY <1>5, <2>1, <2>2 DEF ServerHas, InCall, NoConn
  <2>4. stopper \in {"join", "unheard join"} => thread = "done"
    BY <1>5 DEF FdInv, Stopping, WakeInv, DeadInv
  <2> QED BY <2>3, <2>4
<1> QED BY <1>2, <1>3, <1>4, <1>5 DEF Blocked

(* The descriptors, the owners and the waking hold together. *)
LEMMA Waking == Spec => [](Inv /\ FdInv /\ OwnInv /\ WakeInv)
<1>1. Init => FdInv /\ OwnInv /\ WakeInv
  <2>1. Init => OwnInv
    BY PipeAssumption DEF Init, OwnInv, Owned, ProbeOpen, GoneShut, Conn
  <2>2. Init => WakeInv
    BY DEF Init, WakeInv, QueueHeld, DeadInv, Opened, Unheard, AtEnd, Called, Looping, Serving
  <2> QED BY <2>1, <2>2, FdInit
<1>2. Inv /\ FdInv /\ OwnInv /\ WakeInv /\ [Next]_vars => FdInv' /\ OwnInv' /\ WakeInv'
  BY FdStep, OwnStep, WakeStep DEF Inv
<1> QED BY <1>1, <1>2, Invariant, PTL DEF Spec

(* Who waits for ever, for any number of clients, connections, signals and *)
(* stops: where the pipe thread is stuck in a system call, or there is     *)
(* none, and no client owes it anything, the server has no connection open *)
(* or queued whose client could wait for a reply, and a stop() that is in  *)
(* join() finds run() over.  The connection that stop() makes to its own   *)
(* socket always reaches an accept() it has to wake; only a stop() whose   *)
(* socket() found the descriptor table full joins a thread that may sit in *)
(* accept() until somebody else connects.                                  *)
THEOREM NobodyElseHangs == Spec => []NobodyHangs
BY Waking, HangsNot, PTL

-----------------------------------------------------------------------------
(***************************************************************************)
(* QtHelloServer.  Its event queue is a sequence: what matters of it is    *)
(* which events wait, and that none of two kinds waits twice.              *)
(***************************************************************************)
Event == {"start", "stop", "request"}

Waits(e) == \E i \in DOMAIN events : events[i] = e
AtMostOne(e) ==
    \A i, j \in DOMAIN events : events[i] = e /\ events[j] = e => i = j

QtTypes ==
    /\ boot \in {"waiting", "gave up", "done"} /\ app \in {"absent", "looping", "exited"}
    /\ events \in Seq(Event) /\ request \in {"none", "posted", "modal"}
    /\ m_pipeServer \in BOOLEAN

Requested ==
    /\ AtMostOne("request")
    /\ request = "posted" <=> Waits("request")
    /\ request # "none" => thread \in {"handler", "dead"}

\* The one start() comes before any stop(), and a server that was stopped is gone.
StartsOnce ==
    /\ AtMostOne("start")
    /\ boot # "done" => ~Waits("start") /\ ~m_pipeServer /\ stops = 0
    /\ Waits("start") => ~m_pipeServer /\ stops = 0
    /\ stops \in {0, 1}
    /\ stops = 1 /\ stopper = "idle" => ~m_pipeServer \/ thread = "dead"

QtInv == QtTypes /\ Requested /\ ThreadOwned /\ StartsOnce

(* Every step of the composition is a step of the PipeServer or none. *)
LEMMA QtStepIsStep == [QtNext]_allVars => [Next]_vars
<1> SUFFICES ASSUME [QtNext]_allVars PROVE [Next]_vars
  OBVIOUS
<1>1. CASE appLoops \/ bootstrap \/ bootstrapTimeout \/ shutdown \/ postRequest \/ openDialog
           \/ appExits
  BY <1>1 DEF appLoops, bootstrap, bootstrapTimeout, shutdown, postRequest, openDialog, appExits
<1>2. CASE startSlot \/ stopSlot \/ stopSlotGoesOn
  BY <1>2 DEF startSlot, stopSlot, stopSlotGoesOn, Next
<1>3. CASE processRequest \/ closeDialog
  BY <1>3 DEF processRequest, closeDialog, Next
<1>4. CASE run \/ environment
  BY <1>4 DEF Next
<1>5. CASE UNCHANGED allVars
  BY <1>5 DEF allVars
<1> QED BY <1>1, <1>2, <1>3, <1>4, <1>5 DEF QtNext, gui

(* What taking the first event leaves waiting. *)
LEMMA TakesOne ==
  ASSUME QtTypes, NEW e, takes(e)
  PROVE  /\ events' \in Seq(Event) /\ Waits(e)
         /\ AtMostOne(e) => ~Waits(e)'
         /\ \A f : (AtMostOne(f) => AtMostOne(f)') /\ (Waits(f)' => Waits(f))
         /\ \A f : f # e /\ Waits(f) => Waits(f)'
<1>0. events \in Seq(Event) /\ events # <<>> /\ events' = Tail(events) /\ Head(events) = e
  BY DEF QtTypes, takes
<1>1. /\ Len(events) \in Nat \ {0} /\ DOMAIN events = 1..Len(events)
      /\ events[1] = e
      /\ events' \in Seq(Event) /\ DOMAIN events' = 1..(Len(events) - 1)
      /\ \A i \in 1..(Len(events) - 1) : events'[i] = events[i + 1]
  BY <1>0
<1>2. /\ 1 \in DOMAIN events
      /\ \A i \in DOMAIN events' : i + 1 \in DOMAIN events /\ events'[i] = events[i + 1]
      /\ \A i \in DOMAIN events : i # 1 => i - 1 \in DOMAIN events' /\ (i - 1) + 1 = i
      /\ \A i, j \in DOMAIN events' : i + 1 = j + 1 => i = j
      /\ \A i \in DOMAIN events' : i + 1 # 1
  BY <1>1
<1>3. \A f : Waits(f)' => Waits(f)
  BY <1>2 DEF Waits
<1>4. \A f : AtMostOne(f) => AtMostOne(f)'
  BY <1>2 DEF AtMostOne
<1>5. AtMostOne(e) => ~Waits(e)'
  BY <1>1, <1>2 DEF AtMostOne, Waits
<1>6. \A f : f # e /\ Waits(f) => Waits(f)'
  BY <1>1, <1>2 DEF Waits
<1>7. Waits(e)
  BY <1>1, <1>2 DEF Waits
<1> QED BY <1>1, <1>3, <1>4, <1>5, <1>6, <1>7

(* What posting an event adds. *)
LEMMA PostsOne ==
  ASSUME QtTypes, NEW e \in Event, events' = Append(events, e)
  PROVE  /\ events' \in Seq(Event) /\ Waits(e)'
         /\ ~Waits(e) => AtMostOne(e)'
         /\ \A f : f # e => (AtMostOne(f) => AtMostOne(f)') /\ (Waits(f)' <=> Waits(f))
<1>1. /\ Len(events) \in Nat /\ DOMAIN events = 1..Len(events)
      /\ events' \in Seq(Event) /\ DOMAIN events' = 1..(Len(events) + 1)
      /\ \A i \in 1..Len(events) : events'[i] = events[i]
      /\ events'[Len(events) + 1] = e
  <2>1. events \in Seq(Event)
    BY DEF QtTypes
  <2> QED BY <2>1
<1>2. \A i \in DOMAIN events' : i \in DOMAIN events \/ i = Len(events) + 1
  BY <1>1
<1>3. Len(events) + 1 \in DOMAIN events' /\ \A i \in DOMAIN events : i \in DOMAIN events'
  BY <1>1
<1> QED BY <1>1, <1>2, <1>3 DEF Waits, AtMostOne

(* The queue is left alone. *)
LEMMA SameQueue ==
  ASSUME UNCHANGED events
  PROVE  \A f : (Waits(f)' <=> Waits(f)) /\ (AtMostOne(f) => AtMostOne(f)')
BY DEF Waits, AtMostOne

(* The steps of the pipe thread and of what surrounds the server. *)
LEMMA QtElsewhere ==
  ASSUME QtInv, run \/ environment \/ UNCHANGED vars, UNCHANGED qtVars
  PROVE  QtInv'
<1>0. UNCHANGED <<boot, app, events, request, m_pipeServer>>
  BY DEF qtVars
<1>1. UNCHANGED stops /\ (stopper' = stopper \/ thread' = "dead")
  <2>1. CASE run
    <3>1. CASE closeCurrentPipe("run", "unlink")
      BY <3>1 DEF closeCurrentPipe, CheckFd, CloseFd, ClearClient, ClearServer, At, Goto,
         boundVars
    <3> QED BY <2>1, <3>1 DEF run, runBegin, openSocket, bindListen, loopTop, acceptCall,
         acceptReturn, readTop, recvReturn, writeTop, sendReturn, closeClient, clearClient,
         ClearClient, At, Goto, runEnd, ThreadOnly, boundVars
  <2>2. CASE interrupted \/ openFile \/ (\E f \in Fd : closeFile(f)) \/ processExit
    BY <2>2 DEF interrupted, openFile, closeFile, processExit, AppFrame, boundVars
  <2>3. CASE \E c \in Client : probeConnect(c) \/ transactConnect(c) \/ clientSteps(c) \/ die(c)
    BY <2>3 DEF probeConnect, transactConnect, connectAs, clientSteps, die, probeClose, sendChunk,
       shutdownWrite, recvChunk, recvEnd, clientClose, ClientFrame, boundVars
  <2>4. CASE UNCHANGED vars
    BY <2>4 DEF vars, boundVars
  <2> QED BY <2>1, <2>2, <2>3, <2>4 DEF environment
<1>2. \/ thread' = thread \/ thread' = "dead"
      \/ thread \notin {"none", "dead", "handler"} /\ thread' # "none"
  <2>1. CASE run
    <3>1. CASE closeCurrentPipe("run", "unlink")
      BY <3>1 DEF closeCurrentPipe, CheckFd, CloseFd, ClearClient, ClearServer, At, Goto
    <3> QED BY <2>1, <3>1 DEF run, runBegin, openSocket, bindListen, loopTop, acceptCall,
         acceptReturn, readTop, recvReturn, afterMessage, writeTop, sendReturn, closeClient,
         clearClient, ClearClient, At, Goto, runEnd
  <2>2. CASE interrupted \/ openFile \/ (\E f \in Fd : closeFile(f)) \/ processExit
    BY <2>2 DEF interrupted, openFile, closeFile, processExit, AppFrame, threadVars
  <2>3. CASE \E c \in Client : probeConnect(c) \/ transactConnect(c) \/ clientSteps(c) \/ die(c)
    BY <2>3 DEF probeConnect, transactConnect, connectAs, clientSteps, die, probeClose, sendChunk,
       shutdownWrite, recvChunk, recvEnd, clientClose, ClientFrame, threadVars
  <2>4. CASE UNCHANGED vars
    BY <2>4 DEF vars, threadVars
  <2> QED BY <2>1, <2>2, <2>3, <2>4 DEF environment
<1>3. QtTypes'
  BY <1>0 DEF QtInv, QtTypes
<1>4. Requested'
  BY <1>0, <1>2, SameQueue DEF QtInv, Requested
<1>5. ThreadOwned'
  BY <1>0, <1>2 DEF QtInv, ThreadOwned
<1>6. StartsOnce'
  BY <1>0, <1>1, <1>2, SameQueue DEF QtInv, StartsOnce
<1> QED BY <1>3, <1>4, <1>5, <1>6 DEF QtInv

(* The bootstrap thread, and shutdown(). *)
LEMMA QtBootstrap ==
  ASSUME QtInv, appLoops \/ bootstrap \/ bootstrapTimeout \/ shutdown
  PROVE  QtInv'
<1>0. /\ UNCHANGED <<thread, stopper, stops, request, m_pipeServer>>
      /\ boot' \in {boot, "gave up", "done"} /\ (boot' # "done" => boot # "done")
      /\ app' \in {app, "looping"}
  BY DEF appLoops, bootstrap, bootstrapTimeout, shutdown, vars, threadVars, boundVars
<1>1. \/ events' = events
      \/ events' = Append(events, "stop") /\ UNCHANGED boot /\ m_pipeServer
      \/ events' = Append(events, "start") /\ boot = "waiting" /\ boot' = "done"
  BY DEF appLoops, bootstrap, bootstrapTimeout, shutdown, isRunning
<1>2. CASE events' = events
  BY <1>0, <1>2, SameQueue DEF QtInv, QtTypes, Requested, ThreadOwned, StartsOnce
<1>3. CASE events' = Append(events, "stop") /\ UNCHANGED boot
  BY <1>0, <1>3, PostsOne DEF QtInv, QtTypes, Requested, ThreadOwned, StartsOnce, Event
<1>4. CASE events' = Append(events, "start") /\ boot = "waiting" /\ boot' = "done"
  BY <1>0, <1>4, PostsOne DEF QtInv, QtTypes, Requested, ThreadOwned, StartsOnce, Event
<1> QED BY <1>1, <1>2, <1>3, <1>4

(* The slots start() and stop(). *)
LEMMA QtSlots ==
  ASSUME QtInv, startSlot \/ stopSlot \/ stopSlotGoesOn
  PROVE  QtInv'
<1>1. CASE startSlot
  <2>1. /\ takes("start") /\ UNCHANGED <<boot, app, request, stopper, stops>>
        /\ \/ UNCHANGED thread /\ UNCHANGED m_pipeServer
           \/ thread = "none" /\ thread' = "begin" /\ m_pipeServer'
    BY <1>1 DEF startSlot, start, vars, threadVars, boundVars
  <2>2. Waits("start") /\ ~Waits("start")'
    BY <2>1, TakesOne DEF QtInv, StartsOnce
  <2>3. m_pipeServer' \in BOOLEAN
    BY <1>1 DEF startSlot, QtInv, QtTypes
  <2>4. QtTypes'
    BY <2>1, <2>3, TakesOne DEF QtInv, QtTypes
  <2>5. ThreadOwned'
    BY <2>1 DEF QtInv, ThreadOwned
  <2>6. Requested'
    BY <2>1, TakesOne DEF QtInv, Requested
  <2>7. StartsOnce'
    BY <2>1, <2>2, TakesOne DEF QtInv, StartsOnce
  <2> QED BY <2>4, <2>5, <2>6, <2>7 DEF QtInv
<1>2. CASE stopSlot
  <2>1. /\ takes("stop") /\ UNCHANGED <<boot, app, request, m_pipeServer, thread>>
        /\ \/ UNCHANGED <<stopper, stops>>
           \/ /\ m_pipeServer /\ stopper = "idle" /\ thread # "dead"
              /\ stopper' = "client?" /\ stops' = stops + 1
    BY <1>2 DEF stopSlot, stopBegin, vars, threadVars, boundVars
  <2>2. QtTypes' /\ ThreadOwned' /\ Requested'
    BY <2>1, TakesOne DEF QtInv, QtTypes, ThreadOwned, Requested
  <2>3. StartsOnce'
    BY <2>1, TakesOne DEF QtInv, StartsOnce
  <2> QED BY <2>2, <2>3 DEF QtInv
<1>3. CASE stopSlotGoesOn
  <2>1. /\ UNCHANGED <<boot, app, events, request, stops>>
        /\ m_pipeServer' = (m_pipeServer /\ stopper' # "idle")
        /\ \/ stopper' # "idle" /\ stopper # "idle" /\ UNCHANGED thread
           \/ stopper' = "idle" /\ thread = "done" /\ thread' = "none"
    BY <1>3 DEF stopSlotGoesOn, stopSteps, closeCurrentPipe, CheckFd, CloseFd, ClearClient,
       ClearServer, At, Goto, stopConnect, stopJoin, threadVars, boundVars
  <2>2. QtTypes' /\ ThreadOwned'
    BY <2>1 DEF QtInv, QtTypes, ThreadOwned
  <2>3. Requested'
    BY <2>1, SameQueue DEF QtInv, Requested
  <2>4. StartsOnce'
    BY <2>1, SameQueue DEF QtInv, StartsOnce
  <2> QED BY <2>2, <2>3, <2>4 DEF QtInv
<1> QED BY <1>1, <1>2, <1>3

(* A request on its way through the GUI thread, and the end of the loop. *)
LEMMA QtRequest ==
  ASSUME QtInv, postRequest \/ processRequest \/ openDialog \/ closeDialog \/ appExits
  PROVE  QtInv'
<1>0. UNCHANGED <<boot, m_pipeServer, stopper, stops>> /\ app' \in {app, "exited"}
  BY DEF postRequest, processRequest, openDialog, closeDialog, appExits, handlerReturn,
     ThreadOnly,
     vars, boundVars
<1>1. CASE postRequest
  <2>1. /\ thread = "handler" /\ UNCHANGED thread /\ request = "none" /\ request' = "posted"
        /\ events' = Append(events, "request")
    BY <1>1 DEF postRequest, vars, threadVars
  <2> QED BY <1>0, <2>1, PostsOne DEF QtInv, QtTypes, Requested, ThreadOwned, StartsOnce, Event
<1>2. CASE processRequest
  <2>1. takes("request") /\ thread = "handler" /\ thread' = "write" /\ request' = "none"
    BY <1>2 DEF processRequest, handlerReturn
  <2>2. QtTypes' /\ ThreadOwned' /\ Requested'
    BY <1>0, <2>1, TakesOne DEF QtInv, QtTypes, ThreadOwned, Requested
  <2>3. StartsOnce'
    BY <1>0, <2>1, TakesOne DEF QtInv, StartsOnce
  <2> QED BY <2>2, <2>3 DEF QtInv
<1>3. CASE openDialog
  <2>1. takes("request") /\ UNCHANGED thread /\ request' = "modal"
    BY <1>3 DEF openDialog, vars, threadVars
  <2>2. QtTypes' /\ ThreadOwned' /\ Requested'
    BY <1>0, <2>1, TakesOne DEF QtInv, QtTypes, ThreadOwned, Requested
  <2>3. StartsOnce'
    BY <1>0, <2>1, TakesOne DEF QtInv, StartsOnce
  <2> QED BY <2>2, <2>3 DEF QtInv
<1>4. CASE closeDialog
  <2>1. /\ UNCHANGED events /\ request = "modal" /\ request' = "none"
        /\ thread = "handler" /\ thread' = "write"
    BY <1>4 DEF closeDialog, handlerReturn
  <2> QED BY <1>0, <2>1, SameQueue DEF QtInv, QtTypes, Requested, ThreadOwned, StartsOnce
<1>5. CASE appExits
  <2>1. UNCHANGED <<thread, events, request>>
    BY <1>5 DEF appExits, vars, threadVars
  <2> QED BY <1>0, <2>1, SameQueue DEF QtInv, QtTypes, Requested, ThreadOwned, StartsOnce
<1> QED BY <1>1, <1>2, <1>3, <1>4, <1>5

LEMMA QtInitial == QtInit => QtInv
<1> SUFFICES ASSUME QtInit PROVE QtInv
  OBVIOUS
<1>1. events \in Seq(Event) /\ \A i \in DOMAIN events : FALSE
  BY DEF QtInit
<1> QED BY <1>1 DEF QtInit, Init, QtInv, QtTypes, Requested, ThreadOwned, StartsOnce, Waits,
   AtMostOne

LEMMA QtStep == QtInv /\ [QtNext]_allVars => QtInv'
<1> SUFFICES ASSUME QtInv, [QtNext]_allVars PROVE QtInv'
  OBVIOUS
<1>1. CASE UNCHANGED allVars
  BY <1>1, QtElsewhere DEF allVars
<1>2. CASE QtNext
  BY <1>2, QtElsewhere, QtBootstrap, QtSlots, QtRequest DEF QtNext, gui
<1> QED BY <1>1, <1>2

LEMMA QtInvariant == QtSpec => []QtInv
BY QtInitial, QtStep, PTL DEF QtSpec

(* QtHelloServer uses its PipeServer as it is meant to be used: whatever is   *)
(* proved of the PipeServer holds inside the composition.                     *)
THEOREM ServerInServer == QtSpec => ImplementsPipeServer
<1>1. QtInit => Init
  BY DEF QtInit
<1> QED BY <1>1, QtStepIsStep, PTL DEF QtSpec, ImplementsPipeServer, Spec

(* A joinable std::thread is never destroyed nor assigned over. *)
THEOREM OwnsItsThread == QtSpec => []ThreadOwned
<1>1. QtInv => ThreadOwned
  BY DEF QtInv
<1> QED BY <1>1, QtInvariant, PTL

(* One request is in the GUI thread at a time, nested event loops included. *)
THEOREM RequestsOneByOne == QtSpec => []OneRequestAtATime
<1>1. QtInv => OneRequestAtATime
  <2> SUFFICES ASSUME QtInv PROVE OneRequestAtATime
    OBVIOUS
  <2>1. CASE request = "posted"
    <3>1. PICK i \in DOMAIN events : events[i] = "request"
      BY <2>1 DEF QtInv, Requested, Waits
    <3>2. RequestEvents = {i}
      BY <3>1 DEF QtInv, Requested, AtMostOne, RequestEvents
    <3> QED BY <2>1, <3>2, FS_Singleton DEF QtInv, Requested, OneRequestAtATime
  <2>2. CASE request # "posted"
    <3>1. RequestEvents = {}
      BY <2>2 DEF QtInv, Requested, Waits, RequestEvents
    <3> QED BY <2>2, <3>1, FS_EmptySet DEF QtInv, Requested, OneRequestAtATime
  <2> QED BY <2>1, <2>2
<1> QED BY <1>1, QtInvariant, PTL

(* However often shutdown() is called, the server is stopped once. *)
THEOREM StopsOnce == QtSpec => []StoppedOnce
<1>1. QtInv => StoppedOnce
  BY DEF QtInv, StartsOnce, StoppedOnce
<1> QED BY <1>1, QtInvariant, PTL

(* Where the GUI thread can go no further by itself: its event loop is over *)
(* or not begun, or has nothing to do, in a dialog or not, or stop() waits  *)
(* in connect() or join().                                                  *)
GuiBlocked ==
    \/ app # "looping"
    \/ stopper = "idle" /\ events = <<>>
    \/ stopper = "connect" /\ hasPath /\ Listening /\ Len(accepts) > Backlog
    \/ stopper \in {"join", "unheard join"} /\ thread # "done"

Settled ==
    /\ \A k \in Conn : ~ServerHas(k)
    /\ stopper = "join" => thread = "done"
    /\ stopper = "unheard join" => thread \in {"accepting", "done"}

RequestWaits ==
    /\ thread = "handler"
    /\ stopper \in {"join", "unheard join"} \/ app # "looping" \/ request = "modal"

WaitsThatRemain ==
    Blocked /\ (thread = "handler" => request # "none") /\ GuiBlocked
        /\ (\A c \in Client : ~Owes(c))
    => Settled \/ RequestWaits

(* The waits that remain in the composition, for any number of clients,   *)
(* requests, dialogs and calls of shutdown(): where neither the pipe       *)
(* thread nor the GUI thread can go on and no client owes anything, either *)
(* all is done, up to a stop() that joins a thread in accept() because it  *)
(* had no descriptor to wake it with; or the pipe thread waits for         *)
(* processRequest of a GUI thread that joins it in stop(), whose event     *)
(* loop is over, or that is in a dialog nobody has closed.                 *)
THEOREM OnlyTheseWaits == QtSpec => []WaitsThatRemain
<1>1. Inv /\ FdInv /\ OwnInv /\ WakeInv /\ QtInv => WaitsThatRemain
  <2> SUFFICES ASSUME Inv, FdInv, OwnInv, WakeInv, QtInv, Blocked, GuiBlocked,
                      thread = "handler" => request # "none", \A c \in Client : ~Owes(c)
               PROVE  Settled \/ RequestWaits
    BY DEF WaitsThatRemain
  <2>1. CASE thread # "handler"
    BY <2>1, HangsNot DEF NobodyHangs, Settled
  <2>2. CASE thread = "handler"
    <3>1. stopper = "connect" => ~Listening
      BY <2>2 DEF WakeInv, Unheard, AtEnd, Looping, Serving, Listening, Accepting, NoListener
    <3>2. request # "modal" => events # <<>>
      <4>1. request # "modal" => Waits("request")
        BY <2>2 DEF QtInv, QtTypes, Requested
      <4>2. Waits("request") => events # <<>>
        BY DEF Waits
      <4> QED BY <4>1, <4>2
    <3> QED BY <2>2, <3>1, <3>2 DEF GuiBlocked, RequestWaits
  <2> QED BY <2>1, <2>2
<1>2. QtSpec => Spec
  BY ServerInServer DEF ImplementsPipeServer
<1> QED BY <1>1, <1>2, Waking, QtInvariant, PTL
=============================================================================
