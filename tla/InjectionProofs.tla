---------------------------- MODULE InjectionProofs ----------------------------
(***************************************************************************)
(* Proofs about Injection, for any number of Python processes, injections  *)
(* and attempts: the reference count of the bootstrap DLL and the threads  *)
(* it starts keep each other in step, so a target never runs two servers   *)
(* and never runs code that is not mapped.                                 *)
(***************************************************************************)
EXTENDS Injection, TLAPS

(***************************************************************************)
(* The strengthening: an attempt is made only while some are left; an      *)
(* injection that has not loaded anything has no thread; as long as the    *)
(* DLL came in once there is one reference, that of the thread it started; *)
(* and a pipe that was opened leads to a server that was serving, which    *)
(* has it at its other end unless it has disconnected it.                  *)
(***************************************************************************)
TriesLeft == \A p \in Process : step[p] = "connect" => tries[p] > 0

Fresh ==
    \A n \in Load :
        /\ remote[n] # "done" => thread[n] = "none"
        /\ n >= nextLoad => remote[n] = "none"

Counted == ~again => refs <= 1 /\ (refs = 1 => Live # {})

Opened == \A p \in Process : pipes[p] # 0 => thread[pipes[p]] \in {"serving", "finished", "gone"}

Held ==
    /\ holder # Nobody => pipes[holder] \in Serving /\ step[holder] # "dead"
    /\ \A p \in Process :
          step[p] # "dead" /\ pipes[p] \in Serving => holder = p \/ p \in cutOff

Servers == Fresh /\ OneServer /\ CodeMapped /\ Counted

Inv == TypeOK /\ TriesLeft /\ Servers /\ Opened /\ Held

(* Nothing is loaded and nobody calls at first. *)
LEMMA InitInv == Init => Inv
<1> SUFFICES ASSUME Init PROVE Inv
  OBVIOUS
<1>1. TypeOK
  <2>1. 1 \in 1..(MaxLoads + 1) /\ 0 \in 0..Attempts
    BY InjectionAssumption
  <2> QED BY <2>1 DEF Init, TypeOK
<1>2. Live = {} /\ Serving = {}
  BY DEF Init, Live, Serving
<1>3. TriesLeft /\ Servers
  BY <1>2 DEF Init, TriesLeft, Servers, Fresh, OneServer, CodeMapped, Counted
<1>4. Opened /\ Held
  BY <1>2 DEF Init, Opened, Held
<1> QED BY <1>1, <1>3, <1>4 DEF Inv

(* What a call does in Python leaves the references and the threads alone. *)
LEMMA CallServers ==
  ASSUME Inv, UNCHANGED <<refs, thread, again>>, Fresh'
  PROVE  Servers'
  BY DEF Inv, Servers, OneServer, CodeMapped, Counted, Live

(* A step that opens no pipe and ends no server leaves the pipes as they were. *)
LEMMA SamePipes ==
  ASSUME Inv, UNCHANGED <<thread, pipes, holder, cutOff>>,
         \A p \in Process : step[p] = "dead" <=> step'[p] = "dead"
  PROVE  Opened' /\ Held'
  BY InjectionAssumption DEF Inv, TypeOK, Opened, Held, Serving

(* CreateFile opens the pipe only when nobody has it, and then its caller has. *)
LEMMA CreateFileStep ==
  ASSUME Inv, NEW p \in Process, NEW next \in {"inject", "idle", "connect"},
         step[p] # "dead", createFile(p, next), UNCHANGED <<thread, cutOff>>
  PROVE  /\ pipes' \in [Process -> Load \cup {0}] /\ holder' \in Process \cup {Nobody}
         /\ step' = [step EXCEPT ![p] = step'[p]]
         /\ step'[p] \in {"transact", "idle", next}
         /\ Opened' /\ Held'
<1>1. ASSUME NEW n \in Serving, holder = Nobody, pipes' = [pipes EXCEPT ![p] = n],
             holder' = p, step' = [step EXCEPT ![p] = "transact"]
      PROVE  /\ pipes' \in [Process -> Load \cup {0}] /\ holder' \in Process \cup {Nobody}
             /\ Opened' /\ Held'
  <2>1. \A q \in Process : step[q] # "dead" /\ pipes[q] \in Serving => q \in cutOff
    BY <1>1, InjectionAssumption DEF Inv, Held
  <2> QED BY <1>1, <2>1, InjectionAssumption DEF Inv, TypeOK, Opened, Held, Serving, Load
<1>2. ASSUME NEW s \in {"idle", next}, UNCHANGED <<pipes, holder>>,
             step' = [step EXCEPT ![p] = s]
      PROVE  /\ pipes' \in [Process -> Load \cup {0}] /\ holder' \in Process \cup {Nobody}
             /\ Opened' /\ Held'
  BY <1>2 DEF Inv, TypeOK, Opened, Held, Serving
<1>3. \/ /\ holder = Nobody /\ holder' = p /\ step' = [step EXCEPT ![p] = "transact"]
         /\ \E n \in Serving : pipes' = [pipes EXCEPT ![p] = n]
      \/ \E s \in {"idle", next} : UNCHANGED <<pipes, holder>> /\ step' = [step EXCEPT ![p] = s]
  BY DEF createFile, busy, goto, raises
<1>4. step' = [step EXCEPT ![p] = step'[p]] /\ step'[p] \in {"transact", "idle", next}
  BY <1>3 DEF Inv, TypeOK
<1> QED BY <1>1, <1>2, <1>3, <1>4

(* The first attempt of connect(). *)
LEMMA ProbeInv == ASSUME Inv, NEW p \in Process, probe(p) PROVE Inv'
<1>1. createFile(p, "inject") /\ step[p] = "probe"
      /\ UNCHANGED <<tries, mine, nextLoad, dllVars, cutOff>>
  BY DEF probe
<1>2. /\ pipes' \in [Process -> Load \cup {0}] /\ holder' \in Process \cup {Nobody}
      /\ step' = [step EXCEPT ![p] = step'[p]] /\ step'[p] \in {"transact", "idle", "inject"}
      /\ Opened' /\ Held'
  BY <1>1, CreateFileStep DEF dllVars
<1>3. TypeOK' /\ TriesLeft'
  BY <1>1, <1>2 DEF Inv, TypeOK, TriesLeft, dllVars
<1>4. Servers'
  BY <1>1, CallServers DEF Inv, Servers, Fresh, dllVars
<1> QED BY <1>2, <1>3, <1>4 DEF Inv

(* An attempt of connect() after an injection. *)
LEMMA ConnectInv == ASSUME Inv, NEW p \in Process, connect(p) PROVE Inv'
<1> DEFINE next == IF triesLeft(p) = 0 THEN "idle" ELSE "connect"
<1>1. createFile(p, next) /\ step[p] = "connect" /\ tries' = [tries EXCEPT ![p] = triesLeft(p)]
      /\ UNCHANGED <<mine, nextLoad, dllVars, cutOff>>
  BY DEF connect
<1>2. /\ pipes' \in [Process -> Load \cup {0}] /\ holder' \in Process \cup {Nobody}
      /\ step' = [step EXCEPT ![p] = step'[p]] /\ step'[p] \in {"transact", "idle", next}
      /\ Opened' /\ Held'
  BY <1>1, CreateFileStep DEF dllVars
<1>3. TypeOK' /\ TriesLeft'
  BY <1>1, <1>2, InjectionAssumption DEF Inv, TypeOK, TriesLeft, triesLeft, dllVars
<1>4. Servers'
  BY <1>1, CallServers DEF Inv, Servers, Fresh, dllVars
<1> QED BY <1>2, <1>3, <1>4 DEF Inv

(* The other steps of a call, which open nothing. *)
LEMMA CallInv ==
  ASSUME Inv, NEW p \in Process,
         call_action(p) \/ inject(p) \/ waitForSingleObject(p) \/ returns(p)
  PROVE  Inv'
<1>1. CASE call_action(p)
  <2>1. TypeOK' /\ TriesLeft'
    BY <1>1 DEF call_action, goto, dllVars, Inv, TypeOK, TriesLeft
  <2>2. Servers'
    BY <1>1, CallServers DEF call_action, dllVars, Inv, Servers, Fresh
  <2>3. Opened' /\ Held'
    BY <1>1, SamePipes DEF call_action, goto, dllVars, Inv, TypeOK
  <2> QED BY <2>1, <2>2, <2>3 DEF Inv
<1>2. CASE inject(p)
  <2>1. TypeOK' /\ TriesLeft'
    <3>1. CASE nextLoad \in Load /\ remote' = [remote EXCEPT ![nextLoad] = "running"]
               /\ mine' = [mine EXCEPT ![p] = nextLoad] /\ nextLoad' = nextLoad + 1
               /\ step' = [step EXCEPT ![p] = "wait"]
      <4>1. nextLoad + 1 \in 1..(MaxLoads + 1)
        BY <3>1, InjectionAssumption DEF Load
      <4> QED BY <1>2, <3>1, <4>1 DEF inject, Inv, TypeOK, TriesLeft
    <3>2. CASE step' = [step EXCEPT ![p] = "idle"] /\ UNCHANGED <<remote, mine, nextLoad>>
      BY <1>2, <3>2 DEF inject, Inv, TypeOK, TriesLeft
    <3> QED BY <1>2, <3>1, <3>2 DEF inject, goto, raises
  <2>2. Fresh'
    <3>1. CASE nextLoad \in Load /\ remote' = [remote EXCEPT ![nextLoad] = "running"]
               /\ nextLoad' = nextLoad + 1
      BY <1>2, <3>1 DEF inject, Inv, Servers, Fresh, TypeOK, Load
    <3>2. CASE UNCHANGED <<remote, nextLoad>>
      BY <1>2, <3>2 DEF inject, Inv, Servers, Fresh
    <3> QED BY <1>2, <3>1, <3>2 DEF inject
  <2>4. Servers'
    BY <1>2, <2>2, CallServers DEF inject
  <2>3. Opened' /\ Held'
    BY <1>2, SamePipes DEF inject, goto, raises, Inv, TypeOK
  <2> QED BY <2>1, <2>3, <2>4 DEF Inv
<1>3. CASE waitForSingleObject(p)
  <2>1. TypeOK' /\ TriesLeft'
    BY <1>3, InjectionAssumption
    DEF waitForSingleObject, goto, raises, dllVars, Inv, TypeOK, TriesLeft
  <2>2. Servers'
    BY <1>3, CallServers DEF waitForSingleObject, dllVars, Inv, Servers, Fresh
  <2>3. Opened' /\ Held'
    BY <1>3, SamePipes DEF waitForSingleObject, goto, raises, dllVars, Inv, TypeOK
  <2> QED BY <2>1, <2>2, <2>3 DEF Inv
<1>4. CASE returns(p)
  <2>1. TypeOK' /\ TriesLeft'
    BY <1>4 DEF returns, goto, dllVars, Inv, TypeOK, TriesLeft
  <2>2. Servers'
    BY <1>4, CallServers DEF returns, dllVars, Inv, Servers, Fresh
  <2>3. Opened' /\ Held'
    BY <1>4, SamePipes DEF returns, goto, dllVars, Inv, TypeOK
  <2> QED BY <2>1, <2>2, <2>3 DEF Inv
<1> QED BY <1>1, <1>2, <1>3, <1>4

(* A process that dies lets go of the pipe, if it had it. *)
LEMMA DieInv == ASSUME Inv, NEW p \in Process, die(p) PROVE Inv'
<1>1. TypeOK' /\ TriesLeft'
  BY DEF die, dllVars, Inv, TypeOK, TriesLeft
<1>2. Servers'
  BY CallServers DEF die, dllVars, Inv, Servers, Fresh
<1>3. Opened' /\ Held'
  BY InjectionAssumption DEF die, dllVars, Inv, TypeOK, Opened, Held, Serving
<1> QED BY <1>1, <1>2, <1>3 DEF Inv

(* The DLL comes in, with its thread, only where no thread was left. *)
LEMMA LoadLibraryInv == ASSUME Inv, NEW n \in Load, loadLibrary(n) PROVE Inv'
<1>1. /\ remote[n] = "running" /\ remote' = [remote EXCEPT ![n] = "done"]
      /\ UNCHANGED <<callVars, nextLoad, holder, cutOff>>
  BY DEF loadLibrary
<1>2. thread[n] = "none"
  BY <1>1 DEF Inv, Servers, Fresh
<1>3. CASE refs = 0 /\ refs' = 1 /\ again' = FALSE /\ thread' = [thread EXCEPT ![n] = "starting"]
  <2>1. Live = {}
    BY <1>3 DEF Inv, Servers, CodeMapped
  <2>2. Live' = {n}
    BY <1>3, <2>1 DEF Live, Inv, TypeOK
  <2>3. TypeOK' /\ TriesLeft'
    BY <1>1, <1>3 DEF callVars, Inv, TypeOK, TriesLeft
  <2>4. Servers'
    BY <1>1, <1>2, <1>3, <2>2 DEF Inv, TypeOK, Servers, Fresh, OneServer, CodeMapped, Counted
  <2>5. Serving' = Serving
    BY <1>2, <1>3 DEF Serving, Inv, TypeOK
  <2>6. Opened' /\ Held'
    BY <1>1, <1>2, <1>3, <2>5, InjectionAssumption DEF callVars, Inv, TypeOK, Opened, Held
  <2> QED BY <2>3, <2>4, <2>6 DEF Inv
<1>4. CASE refs > 0 /\ refs' = refs + 1 /\ again' = TRUE /\ thread' = thread
  <2>1. TypeOK' /\ TriesLeft'
    BY <1>1, <1>4 DEF callVars, Inv, TypeOK, TriesLeft
  <2>2. Servers'
    BY <1>1, <1>4 DEF Inv, TypeOK, Servers, Fresh, OneServer, CodeMapped, Counted, Live
  <2>3. Opened' /\ Held'
    BY <1>1, <1>4, SamePipes DEF callVars
  <2> QED BY <2>1, <2>2, <2>3 DEF Inv
<1>5. CASE UNCHANGED <<refs, thread, again>>
  <2>1. TypeOK' /\ TriesLeft'
    BY <1>1, <1>5 DEF callVars, Inv, TypeOK, TriesLeft
  <2>2. Servers'
    BY <1>1, <1>5, CallServers DEF Inv, TypeOK, Servers, Fresh
  <2>3. Opened' /\ Held'
    BY <1>1, <1>5, SamePipes DEF callVars
  <2> QED BY <2>1, <2>2, <2>3 DEF Inv
<1>6. refs \in Nat
  BY DEF Inv, TypeOK
<1>7. CASE refs = 0
  <2>1. (refs > 0) = FALSE /\ refs + 1 = 1
    BY <1>7
  <2> QED BY <1>3, <1>5, <1>7, <2>1, Zenon DEF loadLibrary, attaches
<1>8. CASE refs > 0
  <2>1. (refs > 0) = TRUE /\ (refs = 0) = FALSE
    BY <1>6, <1>8
  <2> QED BY <1>4, <1>8, <2>1, Zenon DEF loadLibrary, attaches
<1> QED BY <1>6, <1>7, <1>8

(* A thread that serves, or gives up serving, is the one that started. *)
LEMMA ServerInv ==
  ASSUME Inv, NEW n \in Load, startServer(n) \/ endServer(n)
  PROVE  Inv'
<1>1. /\ thread[n] \in {"starting", "serving"}
      /\ \E s \in {"serving", "finished"} : thread' = [thread EXCEPT ![n] = s]
      /\ UNCHANGED <<callVars, nextLoad, remote, refs, again, cutOff>>
  BY DEF startServer, endServer
<1>2. Live' = Live
  BY <1>1 DEF Live, Inv, TypeOK
<1>3. TypeOK' /\ TriesLeft'
  BY <1>1 DEF startServer, endServer, callVars, Inv, TypeOK, TriesLeft
<1>4. Servers'
  BY <1>1, <1>2 DEF Inv, TypeOK, Servers, Fresh, OneServer, CodeMapped, Counted
<1>5. Opened'
  BY <1>1 DEF callVars, Inv, TypeOK, Opened
<1>6. Held'
  <2>1. CASE startServer(n)
    <3>1. \A p \in Process : pipes[p] # n
      BY <2>1 DEF startServer, Inv, TypeOK, Opened, Load
    <3> QED BY <2>1, <3>1, InjectionAssumption
            DEF startServer, callVars, Inv, TypeOK, Held, Serving
  <2>2. CASE endServer(n)
    <3>1. Serving' = {}
      BY <2>2 DEF endServer, Inv, TypeOK, Servers, OneServer, Live, Serving
    <3> QED BY <2>2, <3>1 DEF endServer, Held
  <2> QED BY <2>1, <2>2
<1> QED BY <1>3, <1>4, <1>5, <1>6 DEF Inv

(* The server waits for the next client, and its last one remembers nothing. *)
LEMMA DisconnectInv == ASSUME Inv, NEW n \in Load, disconnect(n) PROVE Inv'
<1>1. /\ holder \in Process /\ holder' = Nobody /\ cutOff' = cutOff \cup {holder}
      /\ UNCHANGED <<callVars, nextLoad, dllVars>>
  BY DEF disconnect, Inv, TypeOK
<1>2. TypeOK' /\ TriesLeft'
  BY <1>1 DEF callVars, dllVars, Inv, TypeOK, TriesLeft
<1>3. Servers'
  BY <1>1, CallServers DEF callVars, dllVars, Inv, Servers, Fresh
<1>4. Opened' /\ Held'
  BY <1>1 DEF callVars, dllVars, Inv, Opened, Held, Serving
<1> QED BY <1>2, <1>3, <1>4 DEF Inv

(* The thread that ends was the only one, so nothing needs the reference. *)
LEMMA FreeLibraryInv == ASSUME Inv, NEW n \in Load, freeLibraryAndExitThread(n) PROVE Inv'
<1>1. /\ thread[n] = "finished" /\ thread' = [thread EXCEPT ![n] = "gone"]
      /\ refs' = refs - 1 /\ again' = (again /\ refs' > 0)
      /\ UNCHANGED <<callVars, nextLoad, remote, holder, cutOff>>
  BY DEF freeLibraryAndExitThread, referencesLeft
<1>2. n \in Live /\ refs > 0
  BY <1>1 DEF Live, Inv, Servers, CodeMapped
<1>3. Live' = {}
  BY <1>1, <1>2 DEF Live, Inv, TypeOK, Servers, OneServer
<1>4. TypeOK' /\ TriesLeft'
  BY <1>1, <1>2 DEF callVars, Inv, TypeOK, TriesLeft
<1>5. Servers'
  <2>1. Fresh'
    BY <1>1 DEF Inv, TypeOK, Servers, Fresh
  <2>2. Counted'
    BY <1>1, <1>2 DEF Inv, TypeOK, Servers, Counted
  <2> QED BY <1>3, <2>1, <2>2 DEF Servers, OneServer, CodeMapped
<1>6. Serving' = Serving
  BY <1>1 DEF Serving, Inv, TypeOK
<1>7. Opened' /\ Held'
  BY <1>1, <1>6, InjectionAssumption DEF callVars, Inv, TypeOK, Opened, Held
<1> QED BY <1>4, <1>5, <1>7 DEF Inv

(* Every step keeps the invariant. *)
LEMMA StepInv == Inv /\ [Next]_vars => Inv'
<1> SUFFICES ASSUME Inv, [Next]_vars PROVE Inv'
  OBVIOUS
<1>1. ASSUME NEW p \in Process, call_action(p) \/ goes(p) \/ reply(p) \/ die(p)
      PROVE  Inv'
  BY <1>1, ProbeInv, ConnectInv, CallInv, DieInv DEF goes, reply, brokenPipe
<1>2. ASSUME NEW n \in Load, loadLibrary(n) \/ startServer(n) \/ disconnect(n) \/ endServer(n)
                              \/ freeLibraryAndExitThread(n)
      PROVE  Inv'
  BY <1>2, LoadLibraryInv, ServerInv, DisconnectInv, FreeLibraryInv
<1>3. CASE UNCHANGED vars
  BY <1>3 DEF vars, callVars, dllVars, Inv, TypeOK, TriesLeft, Servers, Fresh, OneServer,
     CodeMapped, Counted, Opened, Held, Live, Serving
<1> QED BY <1>1, <1>2, <1>3 DEF Next

(* The invariant holds throughout. *)
LEMMA Invariance == Spec => []Inv
<1> QED BY InitInv, StepInv, PTL DEF Spec

(* Every variable keeps its type; the reference count never becomes negative. *)
THEOREM TypeCorrect == Spec => []TypeOK
<1>1. Inv => TypeOK
  BY DEF Inv
<1> QED BY Invariance, <1>1, PTL

(* A target runs one server, whatever the number of processes that inject it, the
   timeouts and the retries: LoadWorkerDll is never running twice. *)
THEOREM NeverTwoServers == Spec => []OneServer
<1>1. Inv => OneServer
  BY DEF Inv, Servers
<1> QED BY Invariance, <1>1, PTL

(* FreeLibraryAndExitThread never takes the code from under another thread. *)
THEOREM CodeStaysMapped == Spec => []CodeMapped
<1>1. Inv => CodeMapped
  BY DEF Inv, Servers
<1> QED BY Invariance, <1>1, PTL

(* The bootstrap DLL outlives its server only if it was injected twice. *)
THEOREM UnloadedAtTheEnd == Spec => []UnloadedUnlessAgain
<1>1. Inv => UnloadedUnlessAgain
  BY DEF Inv, TypeOK, Servers, Counted, UnloadedUnlessAgain
<1> QED BY Invariance, <1>1, PTL

(* The server talks to a process that lives, and every other process that calls through
   a pipe of this server was disconnected by it. *)
THEOREM OneHolder == Spec => []HolderConnected
<1>1. Inv => HolderConnected
  BY DEF Inv, Held, HolderConnected
<1> QED BY Invariance, <1>1, PTL

-----------------------------------------------------------------------------
(***************************************************************************)
(* What CallEnds rests on, but for fairness: whatever the target and the   *)
(* other processes do, a call that was begun has a next step of its own,   *)
(* and a bounded number of them, unless the server has its request.        *)
(***************************************************************************)

(* WaitForSingleObject has a thread to wait for. *)
Waited ==
    \A p \in Process : step[p] = "wait" => mine[p] \in Load /\ remote[mine[p]] # "none"

LEMMA NextWaited == Inv /\ Waited /\ [Next]_vars => Waited'
<1> SUFFICES ASSUME Inv, Waited, [Next]_vars PROVE Waited'
  OBVIOUS
<1>a. /\ step \in [Process -> {"idle", "probe", "inject", "wait", "connect", "transact", "dead"}]
      /\ mine \in [Process -> Load \cup {0}]
      /\ remote \in [Load -> {"none", "running", "done"}]
  BY DEF Inv, TypeOK
<1> USE <1>a DEF Waited
<1>1. ASSUME NEW p \in Process, inject(p)
      PROVE  Waited'
  <2>1. CASE /\ nextLoad \in Load /\ remote' = [remote EXCEPT ![nextLoad] = "running"]
             /\ mine' = [mine EXCEPT ![p] = nextLoad] /\ goto(p, "wait")
    BY <2>1 DEF goto
  <2>2. CASE raises(p) /\ UNCHANGED <<remote, mine>>
    BY <2>2 DEF raises, goto
  <2> QED
    BY <1>1, <2>1, <2>2 DEF inject
<1>2. ASSUME NEW p \in Process, UNCHANGED <<mine, remote>>, NEW s,
             s # "wait", step' = [step EXCEPT ![p] = s]
      PROVE  Waited'
  BY <1>2
<1>3. ASSUME NEW p \in Process, probe(p) \/ connect(p)
      PROVE  Waited'
  BY <1>2, <1>3 DEF probe, connect, createFile, goto, raises, dllVars
<1>4. ASSUME NEW p \in Process,
             call_action(p) \/ waitForSingleObject(p) \/ returns(p) \/ die(p)
      PROVE  Waited'
  BY <1>2, <1>4 DEF call_action, waitForSingleObject, returns, die, goto, raises, dllVars
<1>5. ASSUME NEW n \in Load, loadLibrary(n)
      PROVE  Waited'
  BY <1>5 DEF loadLibrary, callVars
<1>6. ASSUME NEW n \in Load,
             startServer(n) \/ disconnect(n) \/ endServer(n) \/ freeLibraryAndExitThread(n)
      PROVE  Waited'
  BY <1>6 DEF startServer, disconnect, endServer, freeLibraryAndExitThread, callVars, dllVars
<1>7. CASE UNCHANGED vars
  BY <1>7 DEF vars, callVars, dllVars
<1> QED
  BY <1>1, <1>3, <1>4, <1>5, <1>6, <1>7 DEF Next, goes, reply, brokenPipe

(* Where a call could be left with no step to take: its wait is over or may be given
   up, connect() has an attempt left, and the request is with a server that serves
   and can still answer, or with none, and then the call raises. *)
NeverStuck ==
    \A p \in Process :
        /\ step[p] = "wait" => mine[p] \in Load /\ remote[mine[p]] \in {"running", "done"}
        /\ step[p] = "connect" => tries[p] \in 1..Attempts
        /\ Unanswered(p) => thread[pipes[p]] = "serving"

(* A process is never left waiting for a remote thread that was not started, never
   goes on to connect without an attempt left, and never waits for the reply of a
   server that has ended. *)
THEOREM NeverAtALoss == Spec => []NeverStuck
<1>1. Init => Waited
  BY DEF Init, Waited
<1>2. Inv /\ Waited => NeverStuck
  <2> SUFFICES ASSUME Inv, Waited, NEW p \in Process
               PROVE  /\ step[p] = "wait" => mine[p] \in Load
                                              /\ remote[mine[p]] \in {"running", "done"}
                      /\ step[p] = "connect" => tries[p] \in 1..Attempts
                      /\ Unanswered(p) => thread[pipes[p]] = "serving"
    BY DEF NeverStuck
  <2>1. step[p] = "wait" => mine[p] \in Load /\ remote[mine[p]] \in {"running", "done"}
    BY DEF Inv, TypeOK, Waited
  <2>2. step[p] = "connect" => tries[p] \in 1..Attempts
    BY InjectionAssumption DEF Inv, TypeOK, TriesLeft
  <2>3. Unanswered(p) => thread[pipes[p]] = "serving"
    BY InjectionAssumption DEF Inv, Held, Serving, Unanswered
  <2> QED
    BY <2>1, <2>2, <2>3
<1> QED
  BY <1>1, <1>2, NextWaited, Invariance, PTL DEF Spec

(* Steps a call may still take: the attempts of connect() come one by one. *)
Ahead(p) ==
    CASE step[p] = "probe" -> Attempts + 4 [] step[p] = "inject" -> Attempts + 3
      [] step[p] = "wait" -> Attempts + 2 [] step[p] = "connect" -> tries[p] + 1
      [] step[p] = "transact" -> 1 [] OTHER -> 0

(* Each step of a call shortens it, and nothing but the next call makes any longer. *)
Shorter ==
    /\ \A p \in Process : goes(p) \/ reply(p) => Ahead(p)' < Ahead(p)
    /\ \A p \in Process : Ahead(p)' > Ahead(p) => call_action(p)

Counts == \A p \in Process : Ahead(p) \in Nat

LEMMA AheadCounts == Inv => Counts
BY InjectionAssumption DEF Inv, TypeOK, Ahead, Counts

LEMMA GoesShorter == ASSUME Inv, NEW p \in Process, goes(p) \/ reply(p)
                     PROVE  Ahead(p)' < Ahead(p)
<1>a. /\ step \in [Process -> {"idle", "probe", "inject", "wait", "connect", "transact", "dead"}]
      /\ tries \in [Process -> 0..Attempts] /\ Attempts \in Nat \ {0}
      /\ step[p] = "connect" => tries[p] > 0
  BY InjectionAssumption DEF Inv, TypeOK, TriesLeft
<1>1. CASE probe(p)
  <2>1. step[p] = "probe" /\ step'[p] \in {"transact", "idle", "inject"}
    BY <1>a, <1>1 DEF probe, createFile, goto, raises
  <2> QED
    BY <1>a, <2>1 DEF Ahead
<1>2. CASE inject(p)
  <2>1. step[p] = "inject" /\ step'[p] \in {"wait", "idle"}
    BY <1>a, <1>2 DEF inject, goto, raises
  <2> QED
    BY <1>a, <2>1 DEF Ahead
<1>3. CASE waitForSingleObject(p)
  <2>1. step[p] = "wait" /\ (step'[p] = "idle" \/ (step'[p] = "connect" /\ tries'[p] = Attempts))
    BY <1>a, <1>3 DEF waitForSingleObject, goto, raises
  <2> QED
    BY <1>a, <2>1 DEF Ahead
<1>4. CASE connect(p)
  <2>1. /\ step[p] = "connect" /\ step'[p] \in {"transact", "idle", "connect"}
        /\ tries'[p] = tries[p] - 1
    BY <1>a, <1>4 DEF connect, createFile, triesLeft, goto, raises
  <2> QED
    BY <1>a, <2>1 DEF Ahead
<1>5. CASE returns(p)
  <2>1. step[p] = "transact" /\ step'[p] = "idle"
    BY <1>a, <1>5 DEF returns, goto
  <2> QED
    BY <1>a, <2>1 DEF Ahead
<1> QED
  BY <1>1, <1>2, <1>3, <1>4, <1>5 DEF goes, reply, brokenPipe

(* A call takes a bounded number of steps, whatever becomes of the pipe, the target
   and the injections of others: no timeout or retry starts it over. *)
THEOREM StepsRunOut == Spec => [][Shorter]_vars
<1>a. Inv' => Counts'
  BY AheadCounts, PTL
<1>1. Inv /\ Inv' /\ [Next]_vars => Shorter
  <2> SUFFICES ASSUME Inv, Inv', [Next]_vars, NEW p \in Process,
                      Ahead(p)' > Ahead(p)
               PROVE  call_action(p)
    BY GoesShorter DEF Shorter
  <2>a. Ahead(p) \in Nat /\ Ahead(p)' \in Nat
    BY <1>a, AheadCounts DEF Counts
  <2>1. ~(step'[p] = step[p] /\ tries'[p] = tries[p])
    BY <2>a DEF Ahead
  <2>2. ASSUME NEW q \in Process, q # p, call_action(q) \/ goes(q) \/ reply(q) \/ die(q)
        PROVE  FALSE
    BY <2>1, <2>2 DEF Inv, TypeOK, call_action, goes, probe, connect, createFile, inject,
       waitForSingleObject, reply, brokenPipe, returns, die, goto, raises
  <2>3. ~goes(p) /\ ~reply(p)
    BY <2>a, GoesShorter
  <2>4. ~die(p)
    <3>1. die(p) => Ahead(p)' = 0
      BY DEF die, Inv, TypeOK, Ahead
    <3> QED
      BY <2>a, <3>1
  <2>5. ASSUME NEW n \in Load, loadLibrary(n) \/ startServer(n) \/ disconnect(n) \/ endServer(n)
                                \/ freeLibraryAndExitThread(n)
        PROVE  FALSE
    BY <2>1, <2>5 DEF loadLibrary, startServer, disconnect, endServer,
       freeLibraryAndExitThread, callVars
  <2>6. ~UNCHANGED vars
    BY <2>1 DEF vars, callVars
  <2> QED
    BY <2>2, <2>3, <2>4, <2>5, <2>6 DEF Next
<1> QED
  BY <1>1, StepInv, Invariance, PTL DEF Spec
================================================================================
