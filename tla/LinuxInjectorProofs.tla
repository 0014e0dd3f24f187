------------------------- MODULE LinuxInjectorProofs --------------------------
(***************************************************************************)
(* Machine-checked facts about the injection with ptrace, for any number   *)
(* of injectors, signals and interrupted waits.                            *)
(***************************************************************************)
EXTENDS LinuxInjector, TLAPS

USE DEF injVars, memVars, dlVars, runVars, TargetFrame, StubFrame

-----------------------------------------------------------------------------
(* Steps of the target that leave an injector, or the memory, alone.       *)

LEMMA TargetKeeps == target => UNCHANGED <<injVars, tracer, alive, memVars, signals, interrupts>>
BY DEF target, attachStop, eventArrives, callDlopen, dlopenMaps, construct, trap

LEMMA OthersKeep ==
    /\ signal => UNCHANGED <<injVars, tracer, alive, memVars, interrupts>>
    /\ systemCall => UNCHANGED <<injVars, tracer, alive, stack, code, interrupts>>
    /\ killed => UNCHANGED <<injVars, tracer, memVars, interrupts>>
BY DEF signal, systemCall, killed

-----------------------------------------------------------------------------
(* Types.                                                                  *)

LEMMA NextInjectors == TypeMemory /\ TypeInjectors /\ [Next]_vars => TypeInjectors'
<1> SUFFICES ASSUME TypeMemory, TypeInjectors, [Next]_vars PROVE TypeInjectors'
  OBVIOUS
<1> USE DEF TypeInjectors, Steps, goto
<1>1. ASSUME NEW i \in Injector, resolve(i) \/ attach(i) \/ attachWait(i) \/ interrupted(i)
      PROVE  TypeInjectors'
  BY <1>1 DEF resolve, attach, attachWait, interrupted
<1>2. ASSUME NEW i \in Injector, saveRegs(i) \/ saveStack(i) \/ saveCode(i)
      PROVE  TypeInjectors'
  BY <1>2 DEF saveRegs, saveStack, saveCode, request, Done, TypeMemory
<1>3. ASSUME NEW i \in Injector, writeStack(i) \/ writeCode(i) \/ setRegs(i) \/ continue(i)
      PROVE  TypeInjectors'
  BY <1>3 DEF writeStack, writeCode, setRegs, continue, request
<1>4. ASSUME NEW i \in Injector, wait(i) \/ check(i)
      PROVE  TypeInjectors'
  BY <1>4 DEF wait, check, request
<1>5. ASSUME NEW i \in Injector, restoreStack(i) \/ restoreCode(i) \/ restoreRegs(i)
      PROVE  TypeInjectors'
  BY <1>5 DEF restoreStack, restoreCode, restoreRegs, restore, afterRestore
<1>6. ASSUME NEW i \in Injector, detach(i) \/ verify(i)
      PROVE  TypeInjectors'
  BY <1>6 DEF detach, verify, restore, afterDetach
<1>7. CASE target \/ systemCall \/ signal \/ killed \/ UNCHANGED vars
  BY <1>7, TargetKeeps, OthersKeep DEF vars
<1> QED
  BY <1>1, <1>2, <1>3, <1>4, <1>5, <1>6, <1>7 DEF Next, _inject_shared_object

LEMMA NextMemory == TypeMemory /\ TypeInjectors /\ [Next]_vars => TypeMemory'
<1> SUFFICES ASSUME TypeMemory, TypeInjectors, [Next]_vars PROVE TypeMemory'
  OBVIOUS
<1> USE DEF TypeMemory
<1>1. ASSUME NEW i \in Injector, restoreStack(i) \/ restoreCode(i) \/ restoreRegs(i)
      PROVE  TypeMemory'
  BY <1>1 DEF restoreStack, restoreCode, restoreRegs, restoredStack, restoredCode, TypeInjectors
<1>2. ASSUME NEW i \in Injector, _inject_shared_object(i) \/ interrupted(i),
             ~(restoreStack(i) \/ restoreCode(i) \/ restoreRegs(i))
      PROVE  TypeMemory'
  BY <1>2 DEF _inject_shared_object, resolve, attach, attachWait, interrupted, saveRegs,
         saveStack, saveCode, writeStack, writeCode, setRegs, continue, wait, check, detach, verify
<1>3. CASE target \/ signal \/ killed \/ UNCHANGED vars
  BY <1>3, TargetKeeps, OthersKeep DEF vars
<1>4. CASE systemCall
  BY <1>4 DEF systemCall
<1> QED
  BY <1>1, <1>2, <1>3, <1>4 DEF Next

LEMMA NextTarget == TypeTarget /\ [Next]_vars => TypeTarget'
<1> SUFFICES ASSUME TypeTarget, [Next]_vars PROVE TypeTarget'
  OBVIOUS
<1> USE DEF TypeTarget
<1>1. ASSUME NEW i \in Injector,
             resolve(i) \/ attach(i) \/ attachWait(i) \/ interrupted(i) \/ verify(i)
      PROVE  TypeTarget'
  <2>1. UNCHANGED <<alive, stopped, runVars>>
    BY <1>1 DEF resolve, attach, attachWait, interrupted, verify
  <2>2. tracer' \in {tracer, i} /\ sigstop' \in {sigstop, "left", "pending"}
    BY <1>1 DEF resolve, attach, attachWait, interrupted, verify
  <2> QED
    BY <2>1, <2>2
<1>2. ASSUME NEW i \in Injector, saveRegs(i) \/ saveStack(i) \/ saveCode(i)
      PROVE  TypeTarget'
  <2>1. UNCHANGED <<tracer, alive, stopped, sigstop, runVars>>
    BY <1>2 DEF saveRegs, saveStack, saveCode, request
  <2> QED
    BY <2>1
<1>3. ASSUME NEW i \in Injector, setRegs(i)
      PROVE  TypeTarget'
  <2>1. (regs = "blocked") \in BOOLEAN
    OBVIOUS
  <2>2. resuming' \in BOOLEAN
    BY <1>3, <2>1, Zenon DEF setRegs
  <2> QED
    BY <1>3, <2>2 DEF setRegs, request
<1>4. ASSUME NEW i \in Injector, writeStack(i) \/ writeCode(i) \/ continue(i)
      PROVE  TypeTarget'
  BY <1>4 DEF writeStack, writeCode, continue, request
<1>5. ASSUME NEW i \in Injector, wait(i) \/ check(i)
      PROVE  TypeTarget'
  BY <1>5 DEF wait, check, request
<1>6. ASSUME NEW i \in Injector, restoreStack(i) \/ restoreCode(i) \/ restoreRegs(i)
      PROVE  TypeTarget'
  <2>1. UNCHANGED <<tracer, alive, stopped, sigstop, runVars>>
    BY <1>6 DEF restoreStack, restoreCode, restoreRegs, restore
  <2> QED
    BY <2>1
<1>7. ASSUME NEW i \in Injector, detach(i)
      PROVE  TypeTarget'
  <2>1. UNCHANGED <<alive, runVars>> /\ tracer' \in {tracer, Nobody}
    BY <1>7 DEF detach, restore
  <2>2. stopped' = stopped \/ stopped' = (sigstop # "none")
    BY <1>7, Zenon DEF detach
  <2>3. sigstop' \in {sigstop, "none", "left"}
    BY <1>7 DEF detach
  <2>4. stopped' \in BOOLEAN
    BY <2>2
  <2> QED
    BY <2>1, <2>3, <2>4
<1>8. CASE target
  BY <1>8 DEF target, attachStop, eventArrives, callDlopen, dlopenMaps, construct, trap
<1>9. CASE systemCall \/ killed \/ UNCHANGED vars
  <2>1. alive' \in {alive, FALSE} /\ UNCHANGED <<tracer, stopped, sigstop, runVars>>
    BY <1>9 DEF systemCall, killed, vars
  <2> QED
    BY <2>1
<1>10. CASE signal
  <2>1. torn' \in BOOLEAN
    BY <1>10 DEF signal
  <2> QED
    BY <1>10, <2>1 DEF signal
<1> QED
  BY <1>1, <1>2, <1>3, <1>4, <1>5, <1>6, <1>7, <1>8, <1>9, <1>10 DEF Next, _inject_shared_object

LEMMA NextCounters == TypeCounters /\ [Next]_vars => TypeCounters'
<1> SUFFICES ASSUME TypeCounters, [Next]_vars PROVE TypeCounters'
  OBVIOUS
<1>1. MaxSignals \in Nat /\ MaxInterrupts \in Nat
  BY InjectorAssumption
<1> USE <1>1 DEF TypeCounters
<1>2. ASSUME NEW i \in Injector, _inject_shared_object(i)
      PROVE  TypeCounters'
  <2>1. UNCHANGED <<signals, interrupts, constructed>>
    BY <1>2 DEF _inject_shared_object, resolve, attach, attachWait, saveRegs, saveStack,
           saveCode, writeStack, writeCode, setRegs, continue, wait, check, request, restoreStack,
           restoreCode, restoreRegs, restore, detach, verify
  <2> QED
    BY <2>1
<1>3. ASSUME NEW i \in Injector, interrupted(i)
      PROVE  TypeCounters'
  <2>1. /\ UNCHANGED <<signals, constructed>>
        /\ interrupts < MaxInterrupts /\ interrupts' = interrupts + 1
    BY <1>3 DEF interrupted
  <2> QED
    BY <2>1
<1>4. CASE target
  BY <1>4 DEF target, attachStop, eventArrives, callDlopen, dlopenMaps, construct, trap
<1>5. CASE systemCall \/ signal \/ killed \/ UNCHANGED vars
  BY <1>5 DEF systemCall, signal, killed, vars
<1> QED
  BY <1>2, <1>3, <1>4, <1>5 DEF Next

\* Contents, steps and counters keep their types.
THEOREM TypeCorrect == Spec => []TypeOK
<1>1. Init => TypeInjectors /\ TypeMemory
  BY DEF Init, TypeInjectors, TypeMemory, Steps
<1>2. Init => TypeTarget
  BY DEF Init, TypeTarget
<1>3. Init => TypeCounters
  BY InjectorAssumption DEF Init, TypeCounters
<1>4. TypeOK /\ [Next]_vars => TypeOK'
  BY NextInjectors, NextMemory, NextTarget, NextCounters DEF TypeOK
<1> QED
  BY <1>1, <1>2, <1>3, <1>4, PTL DEF Spec, TypeOK

-----------------------------------------------------------------------------
(***************************************************************************)
(* Between attach and detach an injector is the tracer, which lets nobody  *)
(* else in; one that was cut off remains the tracer.                       *)
(***************************************************************************)
Busy == {"attach wait", "save regs", "save stack", "save code", "write stack", "write code",
    "set regs", "continue", "wait", "check", "restore stack", "restore code", "restore regs",
    "detach", "cut off"}

Owner == \A i \in Injector : step[i] \in Busy <=> tracer = i

LEMMA StaysAlive == [Next]_vars /\ alive' => alive
<1>1. ASSUME NEW i \in Injector, _inject_shared_object(i) \/ interrupted(i)
      PROVE  alive' = alive
  BY <1>1 DEF _inject_shared_object, resolve, attach, attachWait, interrupted, request, saveRegs,
         saveStack, saveCode, writeStack, writeCode, setRegs, continue, wait, check, restore,
         restoreStack, restoreCode, restoreRegs, detach, verify
<1> QED
  BY <1>1, TargetKeeps, OthersKeep DEF Next, vars, killed

LEMMA NextOwner == TypeInjectors /\ Owner /\ [Next]_vars /\ alive' => Owner'
<1> SUFFICES ASSUME TypeInjectors, Owner, [Next]_vars, alive' PROVE Owner'
  OBVIOUS
<1>a. alive /\ step \in [Injector -> Steps]
  BY StaysAlive DEF TypeInjectors
<1> USE <1>a DEF Owner, Busy
<1>1. ASSUME NEW i \in Injector, resolve(i) \/ attachWait(i) \/ verify(i)
      PROVE  Owner'
  BY <1>1 DEF resolve, attachWait, verify, goto
<1>2. ASSUME NEW i \in Injector, attach(i)
      PROVE  Owner'
  <2>1. CASE tracer = Nobody
    BY <1>2, <2>1, InjectorAssumption DEF attach, goto
  <2>2. CASE tracer # Nobody
    BY <1>2, <2>2 DEF attach, goto
  <2> QED
    BY <2>1, <2>2
<1>3. ASSUME NEW i \in Injector, saveRegs(i) \/ saveStack(i) \/ saveCode(i)
      PROVE  Owner'
  BY <1>3 DEF saveRegs, saveStack, saveCode, request, goto
<1>4. ASSUME NEW i \in Injector, writeStack(i) \/ writeCode(i) \/ setRegs(i)
      PROVE  Owner'
  BY <1>4 DEF writeStack, writeCode, setRegs, request, goto
<1>5. ASSUME NEW i \in Injector, continue(i) \/ wait(i) \/ check(i)
      PROVE  Owner'
  BY <1>5 DEF continue, wait, check, request, goto
<1>6. ASSUME NEW i \in Injector, restoreStack(i) \/ restoreCode(i) \/ restoreRegs(i)
      PROVE  Owner'
  BY <1>6 DEF restoreStack, restoreCode, restoreRegs, restore, Answers, afterRestore, goto
<1>7. ASSUME NEW i \in Injector, detach(i)
      PROVE  Owner'
  BY <1>7, InjectorAssumption DEF detach, restore, Answers, afterDetach, goto
<1>8. ASSUME NEW i \in Injector, interrupted(i)
      PROVE  Owner'
  BY <1>8 DEF interrupted, goto
<1>9. CASE target \/ systemCall \/ signal \/ killed \/ UNCHANGED vars
  BY <1>9, TargetKeeps, OthersKeep DEF vars
<1> QED
  BY <1>1, <1>2, <1>3, <1>4, <1>5, <1>6, <1>7, <1>8, <1>9 DEF Next, _inject_shared_object

-----------------------------------------------------------------------------
(***************************************************************************)
(* What an injector has read is the application's, it overwrites only what *)
(* it has read, and has put it back before it goes on to the next: the     *)
(* stack, the code and the registers each follow this protocol.            *)
(***************************************************************************)
StackSafe(i) ==
    /\ savedStack[i] \in {"none", "app"}
    /\ step[i] \in {"resolve", "attach", "attach wait"} => savedStack[i] = "none"
    /\ step[i] \in {"save code", "write stack"} => savedStack[i] = "app"
    /\ step[i] \in {"attach wait", "save regs", "save stack", "save code", "write stack",
                    "restore code", "restore regs", "detach"} => stack = "app"
    /\ step[i] \in Busy => (stack = "app" \/ savedStack[i] = "app")

StackInv == (tracer = Nobody => stack = "app") /\ \A i \in Injector : StackSafe(i)

LEMMA NextStack == TypeInjectors /\ TypeMemory /\ Owner /\ StackInv /\ [Next]_vars /\ alive'
                       => StackInv'
<1> SUFFICES ASSUME TypeInjectors, TypeMemory, Owner, StackInv, [Next]_vars, alive'
             PROVE  StackInv'
  OBVIOUS
<1>a. /\ alive /\ Nobody \notin Injector /\ step \in [Injector -> Steps]
      /\ DOMAIN savedStack = Injector
  BY StaysAlive, InjectorAssumption DEF TypeInjectors
<1> USE <1>a DEF Owner, Busy, StackInv, StackSafe
<1>1. ASSUME NEW i \in Injector, resolve(i) \/ attachWait(i) \/ interrupted(i) \/ verify(i)
      PROVE  StackInv'
  <2>1. CASE resolve(i)
    BY <2>1 DEF resolve, goto
  <2>2. CASE attachWait(i)
    BY <2>2 DEF attachWait, goto
  <2>3. CASE interrupted(i)
    BY <2>3 DEF interrupted, goto
  <2>4. CASE verify(i)
    BY <2>4 DEF verify, goto
  <2> QED
    BY <1>1, <2>1, <2>2, <2>3, <2>4
<1>2. ASSUME NEW i \in Injector, attach(i)
      PROVE  StackInv'
  BY <1>2 DEF attach, goto
<1>3. ASSUME NEW i \in Injector, saveRegs(i)
      PROVE  StackInv'
  BY <1>3 DEF saveRegs, request, goto
<1>4. ASSUME NEW i \in Injector, saveStack(i)
      PROVE  StackInv'
  <2>1. step[i] = "save stack" /\ UNCHANGED <<tracer, stack>>
    BY <1>4 DEF saveStack, request, goto
  <2>2. \/ /\ step' = [step EXCEPT ![i] = "save code"]
           /\ savedStack' = [savedStack EXCEPT ![i] = stack]
        \/ step' = [step EXCEPT ![i] = "restore stack"] /\ savedStack' = savedStack
    BY <1>4 DEF saveStack, request, Done, goto
  <2>3. StackSafe(i)'
    BY <2>1, <2>2
  <2>4. ASSUME NEW j \in Injector, j # i
        PROVE  StackSafe(j)'
    BY <2>1, <2>2, <2>4
  <2> QED
    BY <2>1, <2>3, <2>4
<1>5. ASSUME NEW i \in Injector, saveCode(i)
      PROVE  StackInv'
  BY <1>5 DEF saveCode, request, goto
<1>6. ASSUME NEW i \in Injector, writeStack(i)
      PROVE  StackInv'
  <2>1. /\ tracer' = tracer /\ savedStack' = savedStack /\ stack' = "payload"
        /\ step[i] = "write stack" /\ step' = [step EXCEPT ![i] = "write code"]
    BY <1>6 DEF writeStack, request, goto
  <2> QED
    <3>1. tracer' # Nobody
      BY <2>1
    <3>2. StackSafe(i)'
      BY <2>1
    <3>3. ASSUME NEW j \in Injector, j # i
          PROVE  StackSafe(j)'
      BY <2>1, <3>3
    <3> QED
      BY <3>1, <3>2, <3>3
<1>7. ASSUME NEW i \in Injector, writeCode(i) \/ setRegs(i) \/ continue(i)
      PROVE  StackInv'
  <2>1. CASE writeCode(i)
    BY <2>1 DEF writeCode, request, goto
  <2>2. CASE setRegs(i)
    BY <2>2 DEF setRegs, request, goto
  <2>3. CASE continue(i)
    BY <2>3 DEF continue, request, goto
  <2> QED
    BY <1>7, <2>1, <2>2, <2>3
<1>8. ASSUME NEW i \in Injector, wait(i) \/ check(i)
      PROVE  StackInv'
  <2>1. CASE wait(i)
    BY <2>1 DEF wait, request, goto
  <2>2. CASE check(i)
    BY <2>2 DEF check, request, goto
  <2> QED
    BY <1>8, <2>1, <2>2
<1>9. ASSUME NEW i \in Injector, restoreStack(i)
      PROVE  StackInv'
  BY <1>9 DEF restoreStack, restoredStack, restore, Answers, goto
<1>10. ASSUME NEW i \in Injector, restoreCode(i) \/ restoreRegs(i)
      PROVE  StackInv'
  BY <1>10 DEF restoreCode, restoreRegs, restore, Answers, afterRestore, goto
<1>11. ASSUME NEW i \in Injector, detach(i)
      PROVE  StackInv'
  BY <1>11 DEF detach, restore, Answers, afterDetach, goto
<1>12. CASE target \/ systemCall \/ signal \/ killed \/ UNCHANGED vars
  BY <1>12, TargetKeeps, OthersKeep DEF vars
<1> QED
  BY <1>1, <1>2, <1>3, <1>4, <1>5, <1>6, <1>7, <1>8, <1>9, <1>10, <1>11, <1>12
  DEF Next, _inject_shared_object

CodeSafe(i) ==
    /\ savedCode[i] \in {"none", "app"}
    /\ step[i] \in {"write stack", "write code"} => savedCode[i] = "app"
    /\ step[i] \in {"attach wait", "save regs", "save stack", "save code", "write stack",
                    "write code", "restore regs", "detach"} => code = "app"
    /\ step[i] \in Busy => (code = "app" \/ savedCode[i] = "app")

CodeInv == (tracer = Nobody => code = "app") /\ \A i \in Injector : CodeSafe(i)

LEMMA NextCode == TypeInjectors /\ TypeMemory /\ Owner /\ CodeInv /\ [Next]_vars /\ alive'
                      => CodeInv'
<1> SUFFICES ASSUME TypeInjectors, TypeMemory, Owner, CodeInv, [Next]_vars, alive'
             PROVE  CodeInv'
  OBVIOUS
<1>a. /\ alive /\ Nobody \notin Injector /\ step \in [Injector -> Steps]
      /\ DOMAIN savedCode = Injector
  BY StaysAlive, InjectorAssumption DEF TypeInjectors
<1> USE <1>a DEF Owner, Busy, CodeInv, CodeSafe
<1>1. ASSUME NEW i \in Injector, resolve(i) \/ attachWait(i) \/ interrupted(i) \/ verify(i)
      PROVE  CodeInv'
  <2>1. CASE resolve(i)
    BY <2>1 DEF resolve, goto
  <2>2. CASE attachWait(i)
    BY <2>2 DEF attachWait, goto
  <2>3. CASE interrupted(i)
    BY <2>3 DEF interrupted, goto
  <2>4. CASE verify(i)
    BY <2>4 DEF verify, goto
  <2> QED
    BY <1>1, <2>1, <2>2, <2>3, <2>4
<1>2. ASSUME NEW i \in Injector, attach(i)
      PROVE  CodeInv'
  BY <1>2 DEF attach, goto
<1>3. ASSUME NEW i \in Injector, saveRegs(i)
      PROVE  CodeInv'
  BY <1>3 DEF saveRegs, request, goto
<1>4. ASSUME NEW i \in Injector, saveStack(i)
      PROVE  CodeInv'
  BY <1>4 DEF saveStack, request, goto
<1>5. ASSUME NEW i \in Injector, saveCode(i)
      PROVE  CodeInv'
  BY <1>5 DEF saveCode, request, Done, goto
<1>6. ASSUME NEW i \in Injector, writeStack(i)
      PROVE  CodeInv'
  BY <1>6 DEF writeStack, request, goto
<1>7. ASSUME NEW i \in Injector, writeCode(i)
      PROVE  CodeInv'
  <2>1. /\ tracer' = tracer /\ savedCode' = savedCode /\ code' = "stub"
        /\ step[i] = "write code" /\ step' = [step EXCEPT ![i] = "set regs"]
    BY <1>7 DEF writeCode, request, goto
  <2>2. tracer' # Nobody
    BY <2>1
  <2>3. CodeSafe(i)'
    BY <2>1
  <2>4. ASSUME NEW j \in Injector, j # i
        PROVE  CodeSafe(j)'
    BY <2>1, <2>4
  <2> QED
    BY <2>2, <2>3, <2>4
<1>8. ASSUME NEW i \in Injector, setRegs(i) \/ continue(i)
      PROVE  CodeInv'
  <2>1. CASE setRegs(i)
    BY <2>1 DEF setRegs, request, goto
  <2>2. CASE continue(i)
    BY <2>2 DEF continue, request, goto
  <2> QED
    BY <1>8, <2>1, <2>2
<1>9. ASSUME NEW i \in Injector, wait(i) \/ check(i)
      PROVE  CodeInv'
  <2>1. CASE wait(i)
    BY <2>1 DEF wait, request, goto
  <2>2. CASE check(i)
    BY <2>2 DEF check, request, goto
  <2> QED
    BY <1>9, <2>1, <2>2
<1>10. ASSUME NEW i \in Injector, restoreStack(i)
      PROVE  CodeInv'
  BY <1>10 DEF restoreStack, restore, Answers, goto
<1>11. ASSUME NEW i \in Injector, restoreCode(i)
      PROVE  CodeInv'
  BY <1>11 DEF restoreCode, restoredCode, restore, Answers, goto
<1>12. ASSUME NEW i \in Injector, restoreRegs(i)
      PROVE  CodeInv'
  BY <1>12 DEF restoreRegs, restore, Answers, afterRestore, goto
<1>13. ASSUME NEW i \in Injector, detach(i)
      PROVE  CodeInv'
  BY <1>13 DEF detach, restore, Answers, afterDetach, goto
<1>14. CASE target \/ systemCall \/ signal \/ killed \/ UNCHANGED vars
  BY <1>14, TargetKeeps, OthersKeep DEF vars
<1> QED
  BY <1>1, <1>2, <1>3, <1>4, <1>5, <1>6, <1>7, <1>8, <1>9, <1>10, <1>11, <1>12, <1>13, <1>14
  DEF Next, _inject_shared_object

RegsSafe(i) ==
    /\ savedRegs[i] # "stub"
    /\ step[i] \in {"save stack", "save code", "write stack", "write code", "set regs"} =>
          savedRegs[i] # "none"
    /\ step[i] \in {"attach wait", "save regs", "save stack", "save code", "write stack",
                    "write code", "set regs", "detach"} => regs # "stub"
    /\ step[i] \in Busy => (regs # "stub" \/ savedRegs[i] # "none")

RegsInv == (tracer = Nobody => regs # "stub") /\ \A i \in Injector : RegsSafe(i)

LEMMA NextRegs == TypeInjectors /\ TypeMemory /\ Owner /\ RegsInv /\ [Next]_vars /\ alive'
                      => RegsInv'
<1> SUFFICES ASSUME TypeInjectors, TypeMemory, Owner, RegsInv, [Next]_vars, alive'
             PROVE  RegsInv'
  OBVIOUS
<1>a. /\ alive /\ Nobody \notin Injector /\ step \in [Injector -> Steps]
      /\ DOMAIN savedRegs = Injector /\ regs # "none"
  BY StaysAlive, InjectorAssumption DEF TypeInjectors, TypeMemory
<1> USE <1>a DEF Owner, Busy, RegsInv, RegsSafe
<1>1. ASSUME NEW i \in Injector, resolve(i) \/ attachWait(i) \/ interrupted(i) \/ verify(i)
      PROVE  RegsInv'
  <2>1. CASE resolve(i)
    BY <2>1 DEF resolve, goto
  <2>2. CASE attachWait(i)
    BY <2>2 DEF attachWait, goto
  <2>3. CASE interrupted(i)
    BY <2>3 DEF interrupted, goto
  <2>4. CASE verify(i)
    BY <2>4 DEF verify, goto
  <2> QED
    BY <1>1, <2>1, <2>2, <2>3, <2>4
<1>2. ASSUME NEW i \in Injector, attach(i)
      PROVE  RegsInv'
  BY <1>2 DEF attach, goto
<1>3. ASSUME NEW i \in Injector, saveRegs(i)
      PROVE  RegsInv'
  BY <1>3 DEF saveRegs, request, Done, goto
<1>4. ASSUME NEW i \in Injector, saveStack(i)
      PROVE  RegsInv'
  BY <1>4 DEF saveStack, request, goto
<1>5. ASSUME NEW i \in Injector, saveCode(i)
      PROVE  RegsInv'
  BY <1>5 DEF saveCode, request, goto
<1>6. ASSUME NEW i \in Injector, writeStack(i) \/ writeCode(i)
      PROVE  RegsInv'
  <2>1. CASE writeStack(i)
    BY <2>1 DEF writeStack, request, goto
  <2>2. CASE writeCode(i)
    BY <2>2 DEF writeCode, request, goto
  <2> QED
    BY <1>6, <2>1, <2>2
<1>7. ASSUME NEW i \in Injector, setRegs(i)
      PROVE  RegsInv'
  <2>1. /\ tracer' = tracer /\ savedRegs' = savedRegs /\ regs' = "stub"
        /\ step[i] = "set regs" /\ step' = [step EXCEPT ![i] = "continue"]
    BY <1>7 DEF setRegs, request, goto
  <2>2. tracer' # Nobody
    BY <2>1
  <2>3. RegsSafe(i)'
    BY <2>1
  <2>4. ASSUME NEW j \in Injector, j # i
        PROVE  RegsSafe(j)'
    BY <2>1, <2>4
  <2> QED
    BY <2>2, <2>3, <2>4
<1>8. ASSUME NEW i \in Injector, continue(i) \/ wait(i) \/ check(i)
      PROVE  RegsInv'
  <2>1. CASE continue(i)
    BY <2>1 DEF continue, request, goto
  <2>2. CASE wait(i)
    BY <2>2 DEF wait, request, goto
  <2>3. CASE check(i)
    BY <2>3 DEF check, request, goto
  <2> QED
    BY <1>8, <2>1, <2>2, <2>3
<1>9. ASSUME NEW i \in Injector, restoreStack(i) \/ restoreCode(i)
      PROVE  RegsInv'
  BY <1>9 DEF restoreStack, restoreCode, restore, Answers, goto
<1>10. ASSUME NEW i \in Injector, restoreRegs(i)
      PROVE  RegsInv'
  BY <1>10 DEF restoreRegs, restore, Answers, afterRestore, goto
<1>11. ASSUME NEW i \in Injector, detach(i)
      PROVE  RegsInv'
  BY <1>11 DEF detach, restore, Answers, afterDetach, goto
<1>12. CASE systemCall
  BY <1>12 DEF systemCall
<1>13. CASE target \/ signal \/ killed \/ UNCHANGED vars
  BY <1>13, TargetKeeps, OthersKeep DEF vars
<1> QED
  BY <1>1, <1>2, <1>3, <1>4, <1>5, <1>6, <1>7, <1>8, <1>9, <1>10, <1>11, <1>12, <1>13
  DEF Next, _inject_shared_object

-----------------------------------------------------------------------------
(***************************************************************************)
(* The target stands still while an injector works on it, but for the stub *)
(* that the injector waits for.  A SIGSTOP that is still to come means a   *)
(* signal came before it, and a target that runs while its memory is to be *)
(* restored, or that was not let go, an interrupted wait.                  *)
(***************************************************************************)
Untraced ==
    tracer = Nobody => sigstop \in {"none", "left"} /\ (stopped => sigstop = "left")

Overtaken ==
    /\ stopped => sigstop # "pending"
    /\ sigstop \in {"overtaken", "left"} => signals > 0

StillFor(i) ==
    /\ step[i] \in Busy \ {"attach wait", "wait", "restore stack", "cut off"} => stopped
    /\ step[i] \in Busy \ {"attach wait", "cut off"} => sigstop # "pending"
    /\ step[i] = "attach wait" => stopped \/ sigstop # "none"
    /\ step[i] = "restore stack" => stopped \/ interrupts > 0
    /\ step[i] = "cut off" => interrupts > 0

Still == Untraced /\ Overtaken /\ \A i \in Injector : StillFor(i)

LEMMA NextStill == TypeInjectors /\ TypeTarget /\ TypeCounters /\ Owner /\ Still /\ [Next]_vars
                       /\ alive' => Still'
<1> SUFFICES ASSUME TypeInjectors, TypeTarget, TypeCounters, Owner, Still, [Next]_vars, alive'
             PROVE  Still'
  OBVIOUS
<1>a. /\ alive /\ Nobody \notin Injector /\ step \in [Injector -> Steps]
      /\ stopped \in BOOLEAN /\ signals \in Nat /\ interrupts \in Nat
  BY StaysAlive, InjectorAssumption DEF TypeInjectors, TypeTarget, TypeCounters
<1>b. \A i, j \in Injector : step[i] \in Busy /\ step[j] \in Busy => i = j
  BY DEF Owner
<1> USE <1>a
<1>1. ASSUME NEW i \in Injector, resolve(i) \/ attachWait(i) \/ verify(i)
      PROVE  Still'
  <2>1. /\ UNCHANGED <<tracer, stopped, sigstop, signals, interrupts>>
        /\ \A j \in Injector \ {i} : step'[j] = step[j]
        /\ step'[i] \notin Busy \/ (step'[i] = "save regs" /\ stopped)
    BY <1>1 DEF resolve, attachWait, waitedFor, verify, goto, Busy
  <2> QED
    BY <2>1 DEF Still, Untraced, Overtaken, StillFor, Busy
<1>2. ASSUME NEW i \in Injector, attach(i)
      PROVE  Still'
  <2>1. /\ UNCHANGED <<stopped, signals, interrupts>>
        /\ \A j \in Injector \ {i} : step'[j] = step[j]
    BY <1>2 DEF attach, goto
  <2>2. CASE tracer = Nobody
    <3>1. /\ step'[i] = "attach wait" /\ tracer' = i
          /\ sigstop' = IF sigstop = "left" THEN "left" ELSE "pending"
      BY <1>2, <2>2 DEF attach, goto
    <3>2. \A j \in Injector : step[j] \notin Busy
      BY <2>2 DEF Owner
    <3> QED
      BY <2>1, <2>2, <3>1, <3>2 DEF Still, Untraced, Overtaken, StillFor, Busy
  <2>3. CASE tracer # Nobody
    <3>1. step'[i] = "raised" /\ UNCHANGED <<tracer, sigstop>>
      BY <1>2, <2>3 DEF attach, goto
    <3> QED
      BY <2>1, <3>1 DEF Still, Untraced, Overtaken, StillFor, Busy
  <2> QED
    BY <2>2, <2>3
<1>3. ASSUME NEW i \in Injector, interrupted(i)
      PROVE  Still'
  <2>1. UNCHANGED <<tracer, stopped, sigstop, signals>> /\ interrupts' = interrupts + 1
    BY <1>3 DEF interrupted
  <2>2. /\ \A j \in Injector \ {i} : step'[j] = step[j]
        /\ step[i] \in {"attach wait", "wait"}
        /\ \/ step'[i] = "cut off"
           \/ step[i] = "wait" /\ step'[i] = "restore stack"
    BY <1>3 DEF interrupted, goto
  <2>3. interrupts' > 0
    BY <2>1
  <2> QED
    BY <2>1, <2>2, <2>3 DEF Still, Untraced, Overtaken, StillFor, Busy
<1>4. ASSUME NEW i \in Injector,
             \/ saveRegs(i) \/ saveStack(i) \/ saveCode(i) \/ writeStack(i) \/ writeCode(i)
             \/ setRegs(i) \/ check(i)
      PROVE  Still'
  <2>1. /\ UNCHANGED <<tracer, stopped, sigstop, signals, interrupts>>
        /\ \A j \in Injector \ {i} : step'[j] = step[j]
        /\ step[i] \in Busy \ {"attach wait", "wait", "restore stack", "cut off"}
        /\ step'[i] \in Busy \ {"attach wait", "cut off"}
    BY <1>4 DEF saveRegs, saveStack, saveCode, writeStack, writeCode, setRegs, check, request,
           goto, Busy
  <2> QED
    BY <2>1 DEF Still, Untraced, Overtaken, StillFor, Busy
<1>5. ASSUME NEW i \in Injector, continue(i)
      PROVE  Still'
  <2>1. /\ UNCHANGED <<tracer, sigstop, signals, interrupts>> /\ ~stopped'
        /\ \A j \in Injector \ {i} : step'[j] = step[j]
        /\ step[i] = "continue" /\ step'[i] = "wait"
    BY <1>5 DEF continue, request, goto
  <2>2. \A j \in Injector \ {i} : step[j] \notin Busy
    BY <1>b, <2>1 DEF Busy
  <2>3. tracer # Nobody
    BY <2>1 DEF Owner, Busy
  <2> QED
    BY <2>1, <2>2, <2>3 DEF Still, Untraced, Overtaken, StillFor, Busy
<1>6. ASSUME NEW i \in Injector, wait(i)
      PROVE  Still'
  <2>1. /\ UNCHANGED <<tracer, stopped, sigstop, signals, interrupts>> /\ stopped
        /\ \A j \in Injector \ {i} : step'[j] = step[j]
        /\ step[i] = "wait" /\ step'[i] \in {"check", "restore stack"}
    BY <1>6 DEF wait, waitedFor, request, goto
  <2> QED
    BY <2>1 DEF Still, Untraced, Overtaken, StillFor, Busy
<1>7. ASSUME NEW i \in Injector, restoreStack(i) \/ restoreCode(i) \/ restoreRegs(i)
      PROVE  Still'
  <2>1. /\ UNCHANGED <<tracer, stopped, sigstop, signals, interrupts>>
        /\ \A j \in Injector \ {i} : step'[j] = step[j]
        /\ step[i] \in {"restore stack", "restore code", "restore regs"}
        /\ \/ stopped /\ step'[i] \in {"restore code", "restore regs", "detach"}
           \/ ~stopped /\ step'[i] = "cut off"
    BY <1>7 DEF restoreStack, restoreCode, restoreRegs, restore, Answers, afterRestore, goto
  <2> QED
    BY <2>1 DEF Still, Untraced, Overtaken, StillFor, Busy
<1>8. ASSUME NEW i \in Injector, detach(i)
      PROVE  Still'
  <2>1. step[i] = "detach" /\ stopped /\ sigstop # "pending"
    BY <1>8 DEF detach, restore, goto, Still, StillFor, Busy
  <2>2. /\ UNCHANGED <<signals, interrupts>> /\ tracer' = Nobody
        /\ stopped' = (sigstop # "none")
        /\ sigstop' = IF sigstop = "none" THEN "none" ELSE "left"
        /\ \A j \in Injector \ {i} : step'[j] = step[j]
        /\ step'[i] \in {"raised", "verify"}
    BY <1>8, <2>1 DEF detach, restore, Answers, afterDetach, goto
  <2>3. \A j \in Injector \ {i} : step[j] \notin Busy
    BY <1>b, <2>1 DEF Busy
  <2>4. sigstop # "none" => signals > 0
    BY <2>1 DEF Still, Overtaken, TypeTarget
  <2> QED
    BY <2>1, <2>2, <2>3, <2>4 DEF Still, Untraced, Overtaken, StillFor, Busy
<1>9. CASE target
  <2>1. UNCHANGED <<step, tracer, interrupts, signals>>
    BY <1>9, TargetKeeps
  <2>2. CASE attachStop
    <3>1. /\ stopped' /\ tracer # Nobody /\ sigstop # "none"
          /\ sigstop' = IF sigstop = "left" THEN "left" ELSE "none"
      BY <2>2 DEF attachStop
    <3> QED
      BY <2>1, <3>1 DEF Still, Untraced, Overtaken, StillFor, Busy
  <2>3. CASE ~attachStop
    <3>1. sigstop' = sigstop /\ (stopped' = stopped \/ (stopped' /\ tracer # Nobody))
      BY <1>9, <2>3 DEF target, eventArrives, callDlopen, dlopenMaps, construct, trap, InStub
    <3>2. sigstop = "none" \/ stopped' = stopped
      BY <1>9, <2>3 DEF target, eventArrives, callDlopen, dlopenMaps, construct, trap, InStub
    <3> QED
      BY <2>1, <3>1, <3>2 DEF Still, Untraced, Overtaken, StillFor, Busy
  <2> QED
    BY <2>2, <2>3
<1>10. CASE systemCall \/ killed \/ UNCHANGED vars
  <2>1. UNCHANGED <<step, tracer, stopped, sigstop, signals, interrupts>>
    BY <1>10 DEF systemCall, killed, vars
  <2> QED
    BY <2>1 DEF Still, Untraced, Overtaken, StillFor
<1>11. CASE signal
  <2>1. /\ UNCHANGED <<step, tracer, interrupts>> /\ signals' > 0 /\ stopped' /\ tracer # Nobody
        /\ sigstop' = IF sigstop = "pending" THEN "overtaken" ELSE sigstop
    BY <1>11 DEF signal
  <2> QED
    BY <2>1 DEF Still, Untraced, Overtaken, StillFor, Busy
<1> QED
  BY <1>1, <1>2, <1>3, <1>4, <1>5, <1>6, <1>7, <1>8, <1>9, <1>10, <1>11
  DEF Next, _inject_shared_object

-----------------------------------------------------------------------------
(* Nothing is claimed of a target that is gone.                            *)

SafeInv == alive => Owner /\ StackInv /\ CodeInv /\ RegsInv /\ Still

LEMMA AlwaysSafe == Spec => []SafeInv
<1>1. Init => Owner /\ Still
  BY InjectorAssumption
  DEF Init, Owner, Still, Untraced, Overtaken, StillFor, Busy
<1>2. Init => StackInv /\ CodeInv /\ RegsInv
  BY DEF Init, StackInv, CodeInv, RegsInv, StackSafe, CodeSafe, RegsSafe, Busy
<1>3. TypeOK /\ SafeInv /\ [Next]_vars => SafeInv'
  BY StaysAlive, NextOwner, NextStack, NextCode, NextRegs, NextStill DEF SafeInv, TypeOK
<1> QED
  BY <1>1, <1>2, <1>3, TypeCorrect, PTL DEF Spec, SafeInv

\* A target that is not traced has its own stack, code and general registers back,
\* for any number of injectors and whatever failed on the way; and it runs, unless
\* a signal came between an attach and the SIGSTOP of that attach.
THEOREM TargetRunsItself == Spec => []RunsItself
<1>1. SafeInv => RunsItself
  BY DEF SafeInv, StackInv, CodeInv, RegsInv, Still, Untraced, Overtaken, RunsItself
<1> QED
  BY <1>1, AlwaysSafe, PTL

\* An injector that is through has let go of a target that lives: detach is on
\* every way out of the try block, but for the waitpid that a signal interrupts.
THEOREM InjectorLetsGo == Spec => []LetsGo
<1>1. SafeInv => LetsGo
  BY DEF SafeInv, Owner, Busy, Still, StillFor, LetsGo
<1> QED
  BY <1>1, AlwaysSafe, PTL

-----------------------------------------------------------------------------
(***************************************************************************)
(* What an injector waits for: a stop of the stub it has started, with the *)
(* result of dlopen if it is the trap that stopped it.                     *)
(***************************************************************************)
StubSafe(i) ==
    /\ step[i] \in {"continue", "wait"} => regs = "stub"
    /\ step[i] = "wait" /\ stopped =>
          stopSignal = "other" \/ (stopSignal = "trap" /\ dl \in {"loaded", "null"})
    /\ step[i] = "check" => dl \in {"loaded", "null"}

StubInv == \A i \in Injector : StubSafe(i)

LEMMA NextStub == TypeInjectors /\ Owner /\ Still /\ StubInv /\ [Next]_vars /\ alive' => StubInv'
<1> SUFFICES ASSUME TypeInjectors, Owner, Still, StubInv, [Next]_vars, alive'
             PROVE  StubInv'
  OBVIOUS
<1>a. alive /\ Nobody \notin Injector /\ step \in [Injector -> Steps]
  BY StaysAlive, InjectorAssumption DEF TypeInjectors
<1>b. \A i \in Injector : step[i] = "check" => stopped
  BY DEF Still, StillFor, Busy
<1> USE <1>a, <1>b DEF StubInv, StubSafe
<1>1. ASSUME NEW i \in Injector,
             resolve(i) \/ attach(i) \/ attachWait(i) \/ interrupted(i) \/ verify(i)
      PROVE  StubInv'
  <2>1. UNCHANGED <<regs, dl, stopSignal, stopped>>
    BY <1>1 DEF resolve, attach, attachWait, interrupted, verify
  <2>2. /\ step'[i] \notin {"continue", "wait", "check"}
        /\ \A j \in Injector \ {i} : step'[j] = step[j]
    BY <1>1 DEF resolve, attach, attachWait, interrupted, verify, goto
  <2> QED
    BY <2>1, <2>2
<1>2. ASSUME NEW i \in Injector,
             saveRegs(i) \/ saveStack(i) \/ saveCode(i) \/ writeStack(i) \/ writeCode(i)
      PROVE  StubInv'
  <2>1. UNCHANGED <<regs, dl, stopSignal, stopped>>
    BY <1>2 DEF saveRegs, saveStack, saveCode, writeStack, writeCode
  <2>2. /\ step'[i] \notin {"continue", "wait", "check"}
        /\ \A j \in Injector \ {i} : step'[j] = step[j]
    BY <1>2 DEF saveRegs, saveStack, saveCode, writeStack, writeCode, request, goto
  <2> QED
    BY <2>1, <2>2
<1>3. ASSUME NEW i \in Injector, setRegs(i)
      PROVE  StubInv'
  <2>1. /\ regs' = "stub" /\ step' = [step EXCEPT ![i] = "continue"]
        /\ UNCHANGED <<dl, stopSignal, stopped>>
    BY <1>3 DEF setRegs, request, goto
  <2> QED
    BY <2>1
<1>4. ASSUME NEW i \in Injector, continue(i)
      PROVE  StubInv'
  <2>1. /\ step[i] = "continue" /\ step' = [step EXCEPT ![i] = "wait"]
        /\ regs' = regs /\ stopped' = FALSE /\ dl' = "none"
    BY <1>4 DEF continue, request, goto
  <2>2. \A j \in Injector : step'[j] # "check"
    BY <2>1 DEF Owner, Busy
  <2> QED
    BY <2>1, <2>2
<1>5. ASSUME NEW i \in Injector, wait(i)
      PROVE  StubInv'
  <2>1. stopped /\ step[i] = "wait" /\ UNCHANGED <<regs, dl, stopSignal, stopped>>
    BY <1>5 DEF wait, waitedFor
  <2>2. \/ stopSignal = "trap" /\ step' = [step EXCEPT ![i] = "check"]
        \/ step' = [step EXCEPT ![i] = "restore stack"]
    BY <1>5 DEF wait, request, goto
  <2>3. stopSignal = "trap" => dl \in {"loaded", "null"}
    BY <2>1
  <2> QED
    BY <2>1, <2>2, <2>3
<1>6. ASSUME NEW i \in Injector, check(i)
      PROVE  StubInv'
  <2>1. step' = [step EXCEPT ![i] = "restore stack"] /\ UNCHANGED <<regs, dl, stopSignal, stopped>>
    BY <1>6 DEF check, request, goto
  <2> QED
    BY <2>1
<1>7. ASSUME NEW i \in Injector,
             restoreStack(i) \/ restoreCode(i) \/ restoreRegs(i) \/ detach(i)
      PROVE  StubInv'
  <2>1. /\ UNCHANGED <<dl, stopSignal>> /\ step[i] \in Busy
        /\ step[i] \notin {"continue", "wait", "check"}
    BY <1>7 DEF restoreStack, restoreCode, restoreRegs, detach, restore, goto, Busy
  <2>2. /\ step'[i] \notin {"continue", "wait", "check"}
        /\ \A j \in Injector \ {i} : step'[j] = step[j]
    BY <1>7 DEF restoreStack, restoreCode, restoreRegs, detach, restore, goto, afterRestore,
           afterDetach
  <2>3. \A j \in Injector : step'[j] \notin {"continue", "wait", "check"}
    BY <2>1, <2>2 DEF Owner, Busy
  <2> QED
    BY <2>3
<1>8. CASE target
  <2>1. step' = step /\ regs' = regs
    BY <1>8, TargetKeeps
  <2>2. ~stopped
    BY <1>8 DEF target, attachStop, eventArrives, callDlopen, dlopenMaps, construct, trap,
           InStub, Running
  <2>3. stopped' => stopSignal' = "other" \/ (stopSignal' = "trap" /\ dl' \in {"loaded", "null"})
    BY <1>8, <2>2
    DEF target, attachStop, eventArrives, callDlopen, dlopenMaps, construct, trap
  <2> QED
    BY <2>1, <2>2, <2>3
<1>9. CASE signal
  <2>1. step' = step /\ regs' = regs /\ ~stopped /\ stopSignal' = "other"
    BY <1>9 DEF signal, Running
  <2> QED
    BY <2>1
<1>10. CASE systemCall
  <2>1. step' = step /\ tracer = Nobody
    BY <1>10 DEF systemCall
  <2>2. \A j \in Injector : step[j] \notin {"continue", "wait", "check"}
    BY <2>1 DEF Owner, Busy
  <2> QED
    BY <2>1, <2>2
<1>11. CASE killed \/ UNCHANGED vars
  <2>1. UNCHANGED <<step, regs, dl, stopSignal, stopped>>
    BY <1>11 DEF killed, vars
  <2> QED
    BY <2>1
<1> QED
  BY <1>1, <1>2, <1>3, <1>4, <1>5, <1>6, <1>7, <1>8, <1>9, <1>10, <1>11
  DEF Next, _inject_shared_object

LEMMA AlwaysStub == Spec => [](alive => StubInv)
<1>1. Init => StubInv
  BY DEF Init, StubInv, StubSafe
<1>2. TypeOK /\ SafeInv /\ (alive => StubInv) /\ [Next]_vars => (alive => StubInv)'
  BY StaysAlive, NextStub DEF SafeInv, TypeOK
<1> QED
  BY <1>1, <1>2, TypeCorrect, AlwaysSafe, PTL DEF Spec

\* The result register is looked at only after dlopen has returned, and what
\* waitpid reported is a stop of this run of the stub.
ResultIsIn ==
    alive => \A i \in Injector :
        /\ step[i] = "check" => stopped /\ dl \in {"loaded", "null"}
        /\ step[i] = "wait" /\ stopped => stopSignal # "none"

\* An injector takes the result of dlopen for one only when it is.
THEOREM ResultAlwaysIn == Spec => []ResultIsIn
<1>1. SafeInv /\ (alive => StubInv) => ResultIsIn
  BY DEF SafeInv, Still, StillFor, Busy, StubInv, StubSafe, ResultIsIn
<1> QED
  BY <1>1, AlwaysSafe, AlwaysStub, PTL

-----------------------------------------------------------------------------
(***************************************************************************)
(* The constructor of the library.  Between the mapping of the library and *)
(* the end of its constructor the target runs, traced: a signal that stops *)
(* it there tears the dlopen.  A library that is mapped at any other time  *)
(* has its constructor run, or a dlopen of it was torn.                    *)
(***************************************************************************)
Ran == constructed = 1 \/ torn

Library ==
    /\ constructed \in {0, 1}
    /\ dl = "mapped" => constructed = 0

InDlopen ==
    /\ mapped => Ran \/ dl = "mapped"
    /\ dl = "loaded" => Ran
    /\ dl = "mapped" /\ ~torn => ~stopped /\ sigstop = "none" /\ tracer # Nobody

Succeeds(i) ==
    /\ step[i] \in {"restore stack", "restore code", "restore regs", "detach"} =>
          failed[i] \/ Ran
    /\ step[i] = "verify" => Ran

LibInv == alive => InDlopen /\ \A i \in Injector : Succeeds(i)

DoneRan == \A i \in Injector : step[i] = "done" => Ran

LEMMA InjectorsLib == ASSUME NEW i \in Injector, _inject_shared_object(i) \/ interrupted(i)
                      PROVE  /\ UNCHANGED <<mapped, constructed, torn>>
                             /\ dl' = dl \/ (step[i] = "continue" /\ dl' = "none")
<1>1. CASE _inject_shared_object(i) /\ ~continue(i)
  BY <1>1 DEF _inject_shared_object, resolve, attach, attachWait, saveRegs, saveStack, saveCode,
         writeStack, writeCode, setRegs, wait, check, restoreStack, restoreCode, restoreRegs,
         restore, detach, verify
<1>2. CASE continue(i)
  <2>1. dl' = "none" /\ UNCHANGED <<mapped, constructed, torn>>
    BY <1>2 DEF continue
  <2>2. step[i] = "continue"
    BY <1>2 DEF continue, request, goto
  <2> QED
    BY <2>1, <2>2
<1>3. CASE interrupted(i)
  BY <1>3 DEF interrupted
<1> QED
  BY <1>1, <1>2, <1>3

LEMMA NextLibrary == Library /\ [Next]_vars => Library'
<1> SUFFICES ASSUME Library, [Next]_vars PROVE Library'
  OBVIOUS
<1> USE DEF Library
<1>1. ASSUME NEW i \in Injector, _inject_shared_object(i) \/ interrupted(i)
      PROVE  Library'
  BY <1>1, InjectorsLib
<1>2. CASE target
  BY <1>2 DEF target, attachStop, eventArrives, callDlopen, dlopenMaps, needsConstructor,
         construct, trap
<1>3. CASE systemCall \/ signal \/ killed \/ UNCHANGED vars
  BY <1>3 DEF systemCall, signal, killed, vars
<1> QED
  BY <1>1, <1>2, <1>3 DEF Next

LEMMA NextInDlopen == TypeTarget /\ Owner /\ Still /\ Library /\ InDlopen /\ [Next]_vars /\ alive'
                          => InDlopen'
<1> SUFFICES ASSUME TypeTarget, Owner, Still, Library, InDlopen, [Next]_vars, alive'
             PROVE  InDlopen'
  OBVIOUS
<1>a. alive /\ stopped \in BOOLEAN /\ mapped \in BOOLEAN /\ torn \in BOOLEAN
  BY StaysAlive DEF TypeTarget
<1> USE <1>a DEF InDlopen, Ran
<1>1. ASSUME NEW i \in Injector, _inject_shared_object(i) \/ interrupted(i)
      PROVE  InDlopen'
  <2>1. UNCHANGED <<mapped, constructed, torn>>
    BY <1>1, InjectorsLib
  <2>2. CASE dl' = dl
    <3>1. CASE dl = "mapped" /\ ~torn
      <4>1. tracer # Nobody /\ ~stopped /\ sigstop = "none"
        BY <3>1
      <4>2. ~(step[i] \in Busy \ {"attach wait", "wait", "restore stack", "cut off"})
        BY <4>1 DEF Still, StillFor
      <4>3. UNCHANGED <<tracer, stopped, sigstop>>
        <5>1. ~(attachWait(i) \/ saveRegs(i) \/ saveStack(i) \/ saveCode(i) \/ writeStack(i)
                  \/ writeCode(i) \/ setRegs(i) \/ continue(i) \/ wait(i) \/ check(i)
                  \/ restoreCode(i) \/ restoreRegs(i) \/ detach(i))
          BY <4>1, <4>2 DEF attachWait, saveRegs, saveStack, saveCode, writeStack, writeCode,
                 setRegs, continue, wait, check, restoreCode, restoreRegs, detach, request,
                 restore, goto, waitedFor, Busy
        <5>2. resolve(i) \/ attach(i) \/ restoreStack(i) \/ verify(i) \/ interrupted(i)
          BY <1>1, <5>1 DEF _inject_shared_object
        <5> QED
          BY <4>1, <5>2 DEF resolve, attach, restoreStack, verify, interrupted
      <4> QED
        BY <2>1, <2>2, <4>1, <4>3
    <3>2. CASE ~(dl = "mapped" /\ ~torn)
      BY <2>1, <2>2, <3>2
    <3> QED
      BY <3>1, <3>2
  <2>3. CASE step[i] = "continue" /\ dl' = "none"
    <3>1. stopped
      BY <2>3 DEF Still, StillFor, Busy
    <3>2. mapped => Ran
      BY <3>1
    <3> QED
      BY <2>1, <2>3, <3>2
  <2> QED
    BY <1>1, <2>2, <2>3, InjectorsLib
<1>2. CASE attachStop
  BY <1>2 DEF attachStop
<1>3. CASE eventArrives \/ callDlopen \/ trap
  BY <1>3 DEF eventArrives, callDlopen, trap, InStub
<1>4. CASE dlopenMaps
  BY <1>4 DEF dlopenMaps, InStub, Running
<1>5. CASE construct
  <2>1. constructed' = 1 /\ dl' = "loaded"
    BY <1>5 DEF construct, Library
  <2> QED
    BY <2>1
<1>6. CASE signal
  <2>1. UNCHANGED <<dl, mapped, constructed>> /\ torn' = (torn \/ dl = "mapped")
    BY <1>6 DEF signal
  <2> QED
    BY <2>1
<1>7. CASE systemCall \/ killed \/ UNCHANGED vars
  <2>1. UNCHANGED <<tracer, stopped, sigstop, dl, mapped, constructed, torn>>
    BY <1>7 DEF systemCall, killed, vars
  <2> QED
    BY <2>1
<1> QED
  BY <1>1, <1>2, <1>3, <1>4, <1>5, <1>6, <1>7 DEF Next, target

LEMMA RanStays == TypeTarget /\ Library /\ Ran /\ [Next]_vars => Ran'
<1> SUFFICES ASSUME TypeTarget, Library, Ran, [Next]_vars PROVE Ran'
  OBVIOUS
<1> USE DEF Ran
<1>1. ASSUME NEW i \in Injector, _inject_shared_object(i) \/ interrupted(i)
      PROVE  Ran'
  BY <1>1, InjectorsLib
<1>2. CASE target
  BY <1>2 DEF target, attachStop, eventArrives, callDlopen, dlopenMaps, construct, trap, Library
<1>3. CASE systemCall \/ signal \/ killed \/ UNCHANGED vars
  BY <1>3 DEF systemCall, signal, killed, vars
<1> QED
  BY <1>1, <1>2, <1>3 DEF Next

LEMMA NextSucceeds ==
    ASSUME TypeInjectors, TypeTarget, StubInv, Library, InDlopen, [Next]_vars, alive, alive',
           \A i \in Injector : Succeeds(i)
    PROVE  \A i \in Injector : Succeeds(i)'
<1>a. step \in [Injector -> Steps] /\ failed \in [Injector -> BOOLEAN]
  BY DEF TypeInjectors
<1>b. Ran => Ran'
  BY RanStays
<1> USE <1>a, <1>b DEF Succeeds
<1>1. ASSUME NEW i \in Injector, NEW j \in Injector, step'[j] = step[j], failed'[j] = failed[j]
      PROVE  Succeeds(j)'
  BY <1>1
<1>2. ASSUME NEW i \in Injector, _inject_shared_object(i) \/ interrupted(i)
      PROVE  \A j \in Injector \ {i} : step'[j] = step[j] /\ failed'[j] = failed[j]
  BY <1>2 DEF _inject_shared_object, resolve, attach, attachWait, interrupted, saveRegs,
         saveStack, saveCode, writeStack, writeCode, setRegs, continue, wait, check, request,
         restoreStack, restoreCode, restoreRegs, restore, detach, verify, goto
<1>3. ASSUME NEW i \in Injector, resolve(i) \/ attach(i) \/ attachWait(i) \/ verify(i)
      PROVE  Succeeds(i)'
  <2>1. step'[i] \in {"attach", "attach wait", "save regs", "done", "raised"}
    BY <1>3 DEF resolve, attach, attachWait, verify, goto
  <2> QED
    BY <2>1
<1>4. ASSUME NEW i \in Injector, interrupted(i)
      PROVE  Succeeds(i)'
  <2>1. step'[i] = "cut off" \/ (step'[i] = "restore stack" /\ failed'[i])
    BY <1>4 DEF interrupted, goto
  <2> QED
    BY <2>1
<1>5. ASSUME NEW i \in Injector,
             \/ saveRegs(i) \/ saveStack(i) \/ saveCode(i) \/ writeStack(i) \/ writeCode(i)
             \/ setRegs(i) \/ continue(i) \/ wait(i)
      PROVE  Succeeds(i)'
  <2>1. \/ step'[i] \in {"save stack", "save code", "write stack", "write code", "set regs",
                         "continue", "wait", "check"}
        \/ step'[i] = "restore stack" /\ failed'[i]
    BY <1>5 DEF saveRegs, saveStack, saveCode, writeStack, writeCode, setRegs, continue, wait,
           request, goto
  <2> QED
    BY <2>1
<1>6. ASSUME NEW i \in Injector, check(i)
      PROVE  Succeeds(i)'
  <2>1. step[i] = "check" /\ step'[i] = "restore stack" /\ (failed'[i] \/ dl # "null")
    BY <1>6 DEF check, request, goto
  <2>2. dl # "null" => Ran
    BY <2>1 DEF StubInv, StubSafe, InDlopen
  <2> QED
    BY <2>1, <2>2
<1>7. ASSUME NEW i \in Injector, restoreStack(i) \/ restoreCode(i) \/ restoreRegs(i)
      PROVE  Succeeds(i)'
  <2>1. /\ step[i] \in {"restore stack", "restore code", "restore regs"} /\ failed' = failed
        /\ step'[i] \in {"restore code", "restore regs", "detach", "cut off"}
    BY <1>7 DEF restoreStack, restoreCode, restoreRegs, restore, Answers, afterRestore, goto
  <2> QED
    BY <2>1
<1>8. ASSUME NEW i \in Injector, detach(i)
      PROVE  Succeeds(i)'
  <2>1. /\ step[i] = "detach"
        /\ step'[i] \in {"raised", "cut off"} \/ (step'[i] = "verify" /\ ~failed[i])
    BY <1>8 DEF detach, restore, Answers, afterDetach, goto
  <2> QED
    BY <2>1
<1>9. CASE target \/ systemCall \/ signal \/ killed \/ UNCHANGED vars
  <2>1. UNCHANGED <<step, failed>>
    BY <1>9, TargetKeeps, OthersKeep DEF vars
  <2> QED
    BY <2>1
<1>10. ASSUME NEW i \in Injector, _inject_shared_object(i) \/ interrupted(i)
       PROVE  \A j \in Injector : Succeeds(j)'
  <2>1. Succeeds(i)'
    BY <1>10, <1>3, <1>4, <1>5, <1>6, <1>7, <1>8 DEF _inject_shared_object
  <2>2. ASSUME NEW j \in Injector, j # i
        PROVE  Succeeds(j)'
    BY <1>1, <1>2, <1>10, <2>2
  <2> QED
    BY <2>1, <2>2
<1> QED
  BY <1>9, <1>10 DEF Next

LEMMA NextDone == TypeInjectors /\ TypeTarget /\ Library /\ LibInv /\ DoneRan /\ [Next]_vars
                      => DoneRan'
<1> SUFFICES ASSUME TypeInjectors, TypeTarget, Library, LibInv, DoneRan, [Next]_vars
             PROVE  DoneRan'
  OBVIOUS
<1>a. step \in [Injector -> Steps]
  BY DEF TypeInjectors
<1>b. Ran => Ran'
  BY RanStays
<1> USE <1>a, <1>b DEF DoneRan
<1>1. ASSUME NEW i \in Injector, _inject_shared_object(i) \/ interrupted(i), ~verify(i)
      PROVE  \A j \in Injector : step'[j] = "done" => step[j] = "done"
  <2>1. CASE interrupted(i)
    BY <2>1 DEF interrupted, goto
  <2>2. CASE resolve(i) \/ attach(i) \/ attachWait(i)
    BY <2>2 DEF resolve, attach, attachWait, goto
  <2>3. CASE \/ saveRegs(i) \/ saveStack(i) \/ saveCode(i) \/ writeStack(i) \/ writeCode(i)
             \/ setRegs(i) \/ continue(i) \/ wait(i) \/ check(i)
    BY <2>3 DEF saveRegs, saveStack, saveCode, writeStack, writeCode, setRegs, continue, wait,
           check, request, goto
  <2>4. CASE restoreStack(i) \/ restoreCode(i) \/ restoreRegs(i) \/ detach(i)
    BY <2>4 DEF restoreStack, restoreCode, restoreRegs, detach, restore, afterRestore,
           afterDetach, goto
  <2> QED
    BY <1>1, <2>1, <2>2, <2>3, <2>4 DEF _inject_shared_object
<1>2. ASSUME NEW i \in Injector, verify(i)
      PROVE  DoneRan'
  <2>1. /\ step[i] = "verify" /\ (step'[i] = "done" => alive)
        /\ \A j \in Injector \ {i} : step'[j] = step[j]
    BY <1>2 DEF verify, goto
  <2>2. alive => Ran
    BY <2>1 DEF LibInv, Succeeds
  <2> QED
    BY <2>1, <2>2
<1>3. CASE target \/ systemCall \/ signal \/ killed \/ UNCHANGED vars
  <2>1. step' = step
    BY <1>3, TargetKeeps, OthersKeep DEF vars
  <2> QED
    BY <2>1
<1> QED
  BY <1>1, <1>2, <1>3 DEF Next

\* The constructor that starts the server runs at most once, for any number of
\* injectors, and has run when an injection succeeds, although the injector looks
\* for nothing but the mapping; unless a signal tore a dlopen before it.
THEOREM StartedOnce == Spec => []LoadedOnce
<1>1. Init => Library /\ LibInv /\ DoneRan
  BY DEF Init, Library, LibInv, InDlopen, Succeeds, DoneRan
<1>2. TypeOK /\ SafeInv /\ (alive => StubInv) /\ Library /\ LibInv /\ [Next]_vars => LibInv'
  BY StaysAlive, NextInDlopen, NextSucceeds DEF LibInv, SafeInv, TypeOK
<1>3. TypeOK /\ Library /\ LibInv /\ DoneRan /\ [Next]_vars => DoneRan'
  BY NextDone DEF TypeOK
<1>4. Library /\ DoneRan => LoadedOnce
  BY DEF Library, DoneRan, Ran, LoadedOnce
<1> QED
  BY <1>1, <1>2, <1>3, <1>4, NextLibrary, TypeCorrect, AlwaysSafe, AlwaysStub, PTL DEF Spec

-----------------------------------------------------------------------------
(***************************************************************************)
(* What InjectionEnds rests on, but for fairness: an injection has a       *)
(* bounded number of steps, the only ones that may have to wait are the    *)
(* calls of waitpid, and there the target has a way to a stop that gets    *)
(* shorter with each of its steps.                                         *)
(***************************************************************************)

\* How many steps are ahead of an injector, and of a target on its way to a stop.
Ahead(s) ==
    CASE s = "resolve" -> 18 [] s = "attach" -> 17 [] s = "attach wait" -> 16
      [] s = "save regs" -> 15 [] s = "save stack" -> 14 [] s = "save code" -> 13
      [] s = "write stack" -> 12 [] s = "write code" -> 11 [] s = "set regs" -> 10
      [] s = "continue" -> 9 [] s = "wait" -> 8 [] s = "check" -> 7 [] s = "restore stack" -> 6
      [] s = "restore code" -> 5 [] s = "restore regs" -> 4 [] s = "detach" -> 3
      [] s = "verify" -> 2 [] OTHER -> 0

StubAhead ==
    IF stopped THEN 0
    ELSE IF sigstop # "none" THEN 1
    ELSE (CASE dl = "none" -> 4 [] dl = "inside" -> 3 [] dl = "mapped" -> 2 [] OTHER -> 1)
             + (IF resuming THEN 1 ELSE 0)

\* Where an injection has no end yet, its process can act: every request is
\* answered at once, and a waitpid is answered or the target is traced, runs, and
\* is on its way to the SIGSTOP of the attach or to the trap of the stub.
NeverInVain ==
    \A i \in Injector :
        step[i] \in {"attach wait", "wait"} =>
            waitedFor \/ (tracer = i /\ Running /\ (sigstop # "none" \/ regs = "stub"))

\* Every step of an injector or of the stub brings it nearer to its end, and leaves
\* every other injector where it was.
Nearer ==
    /\ \A i \in Injector : _inject_shared_object(i) \/ interrupted(i) =>
          /\ Ahead(step'[i]) < Ahead(step[i])
          /\ \A j \in Injector \ {i} : step'[j] = step[j]
    /\ target => step' = step /\ StubAhead' < StubAhead

\* However many inject and whatever fails, no injector waits for a target that
\* does not move: the safety half of InjectionEnds.
THEOREM NeverWaitsInVain == Spec => []NeverInVain
<1>1. TypeOK /\ SafeInv /\ (alive => StubInv) => NeverInVain
  <2> SUFFICES ASSUME TypeOK, SafeInv, alive => StubInv, NEW i \in Injector,
                      step[i] \in {"attach wait", "wait"}, ~waitedFor
               PROVE  tracer = i /\ Running /\ (sigstop # "none" \/ regs = "stub")
    BY DEF NeverInVain
  <2>1. alive /\ ~stopped
    BY DEF waitedFor
  <2>2. tracer = i
    BY <2>1 DEF SafeInv, Owner, Busy
  <2>3. CASE step[i] = "attach wait"
    BY <2>1, <2>2, <2>3 DEF SafeInv, Still, StillFor, Running
  <2>4. CASE step[i] = "wait"
    BY <2>1, <2>2, <2>4 DEF StubInv, StubSafe, Running
  <2> QED
    BY <2>3, <2>4
<1> QED
  BY <1>1, TypeCorrect, AlwaysSafe, AlwaysStub, PTL

LEMMA Downward ==
    /\ \A next \in {"attach", "raised"} : Ahead(next) < Ahead("resolve")
    /\ \A next \in {"attach wait", "raised"} : Ahead(next) < Ahead("attach")
    /\ \A next \in {"save regs", "raised", "cut off"} : Ahead(next) < Ahead("attach wait")
    /\ \A next \in {"save stack", "restore stack"} : Ahead(next) < Ahead("save regs")
    /\ \A next \in {"save code", "restore stack"} : Ahead(next) < Ahead("save stack")
    /\ \A next \in {"write stack", "restore stack"} : Ahead(next) < Ahead("save code")
    /\ \A next \in {"write code", "restore stack"} : Ahead(next) < Ahead("write stack")
    /\ \A next \in {"set regs", "restore stack"} : Ahead(next) < Ahead("write code")
    /\ \A next \in {"continue", "restore stack"} : Ahead(next) < Ahead("set regs")
    /\ \A next \in {"wait", "restore stack"} : Ahead(next) < Ahead("continue")
    /\ \A next \in {"check", "restore stack"} : Ahead(next) < Ahead("wait")
    /\ Ahead("restore stack") < Ahead("check")
    /\ \A next \in {"restore code", "raised", "cut off"} : Ahead(next) < Ahead("restore stack")
    /\ \A next \in {"restore regs", "raised", "cut off"} : Ahead(next) < Ahead("restore code")
    /\ \A next \in {"detach", "raised", "cut off"} : Ahead(next) < Ahead("restore regs")
    /\ \A next \in {"verify", "raised", "cut off"} : Ahead(next) < Ahead("detach")
    /\ \A next \in {"done", "raised"} : Ahead(next) < Ahead("verify")
BY DEF Ahead

LEMMA Goes == ASSUME TypeInjectors, NEW i \in Injector, NEW here, NEW next, goto(i, here, next)
              PROVE  /\ step[i] = here /\ step'[i] = next
                     /\ \A j \in Injector \ {i} : step'[j] = step[j]
BY DEF goto, TypeInjectors

\* Where each line leads, whatever fails.
Line(i) ==
    \/ \E next \in {"attach", "raised"} : goto(i, "resolve", next)
    \/ \E next \in {"attach wait", "raised"} : goto(i, "attach", next)
    \/ \E next \in {"save regs", "raised", "cut off"} : goto(i, "attach wait", next)
    \/ \E next \in {"save stack", "restore stack"} : goto(i, "save regs", next)
    \/ \E next \in {"save code", "restore stack"} : goto(i, "save stack", next)
    \/ \E next \in {"write stack", "restore stack"} : goto(i, "save code", next)
    \/ \E next \in {"write code", "restore stack"} : goto(i, "write stack", next)
    \/ \E next \in {"set regs", "restore stack"} : goto(i, "write code", next)
    \/ \E next \in {"continue", "restore stack"} : goto(i, "set regs", next)
    \/ \E next \in {"wait", "restore stack"} : goto(i, "continue", next)
    \/ \E next \in {"check", "restore stack"} : goto(i, "wait", next)
    \/ goto(i, "check", "restore stack")
    \/ \E next \in {"restore code", "raised", "cut off"} : goto(i, "restore stack", next)
    \/ \E next \in {"restore regs", "raised", "cut off"} : goto(i, "restore code", next)
    \/ \E next \in {"detach", "raised", "cut off"} : goto(i, "restore regs", next)
    \/ \E next \in {"verify", "raised", "cut off"} : goto(i, "detach", next)
    \/ \E next \in {"done", "raised"} : goto(i, "verify", next)

LEMMA Lines == ASSUME NEW i \in Injector, _inject_shared_object(i) \/ interrupted(i) PROVE Line(i)
<1> USE DEF Line
<1>1. resolve(i) \/ attach(i) \/ attachWait(i) \/ interrupted(i) \/ verify(i) => Line(i)
  BY DEF resolve, attach, attachWait, interrupted, verify
<1>2. saveRegs(i) \/ saveStack(i) \/ saveCode(i) => Line(i)
  BY DEF saveRegs, saveStack, saveCode, request
<1>3. writeStack(i) \/ writeCode(i) \/ setRegs(i) => Line(i)
  BY DEF writeStack, writeCode, setRegs, request
<1>4. continue(i) \/ wait(i) \/ check(i) => Line(i)
  BY DEF continue, wait, check, request
<1>5. restoreStack(i) \/ restoreCode(i) => Line(i)
  BY DEF restoreStack, restoreCode, restore
<1>6. restoreRegs(i) \/ detach(i) => Line(i)
  BY DEF restoreRegs, detach, restore, afterRestore, afterDetach
<1> QED
  BY <1>1, <1>2, <1>3, <1>4, <1>5, <1>6 DEF _inject_shared_object

LEMMA InjectorNearer == ASSUME TypeInjectors, NEW i \in Injector, Line(i)
                        PROVE  /\ Ahead(step'[i]) < Ahead(step[i])
                               /\ \A j \in Injector \ {i} : step'[j] = step[j]
<1>1. PICK here, next : /\ goto(i, here, next)
                        /\ Ahead(next) < Ahead(here)
  BY Downward, Zenon DEF Line
<1> QED
  BY <1>1, Goes

LEMMA StubNearer == TypeTarget /\ target => step' = step /\ StubAhead' < StubAhead
<1> SUFFICES ASSUME TypeTarget, target PROVE step' = step /\ StubAhead' < StubAhead
  OBVIOUS
<1> USE DEF TypeTarget
<1>1. step' = step /\ ~stopped
  BY TargetKeeps DEF target, attachStop, eventArrives, callDlopen, dlopenMaps, construct, trap,
     InStub, Running
<1>2. CASE attachStop
  BY <1>1, <1>2 DEF attachStop, StubAhead
<1>3. CASE eventArrives
  BY <1>1, <1>3 DEF eventArrives, StubAhead
<1>4. CASE callDlopen
  BY <1>1, <1>4 DEF callDlopen, InStub, StubAhead
<1>5. CASE dlopenMaps
  BY <1>1, <1>5 DEF dlopenMaps, InStub, StubAhead
<1>6. CASE construct
  BY <1>1, <1>6 DEF construct, InStub, StubAhead
<1>7. CASE trap
  BY <1>1, <1>7 DEF trap, InStub, StubAhead
<1> QED
  BY <1>1, <1>2, <1>3, <1>4, <1>5, <1>6, <1>7 DEF target

\* An injection has at most as many steps as its code, for the injector and for
\* the stub, and none that another injector can take back.
THEOREM StepsRunOut == Spec => [][Nearer]_vars
<1>1. TypeOK => Nearer
  BY Lines, InjectorNearer, StubNearer DEF TypeOK, Nearer
<1> QED
  BY <1>1, TypeCorrect, PTL
=============================================================================
