---------------------------- MODULE LinuxInjector -----------------------------
(***************************************************************************)
(* LinuxInjector: one or more Python processes that load the library into  *)
(* the same target with ptrace.  The injector writes a stub over the code  *)
(* at the instruction pointer of the target's main thread and a path below *)
(* its stack, lets the stub call dlopen, and puts the code, the stack and  *)
(* the general registers back.  The floating-point and vector registers,   *)
(* which dlopen may change and no line saves, are not part of the model.   *)
(*                                                                         *)
(* Memory and registers are abstracted to whose content they hold.  The    *)
(* registers of a thread stopped inside a system call that the kernel      *)
(* restarts make it go through that call again before anything else.       *)
(***************************************************************************)
EXTENDS Naturals, FiniteSets

CONSTANTS
    Injector,       \* Python processes
    Nobody,
    MaxSignals,     \* bound: signals the target gets while it is traced
    MaxInterrupts,  \* bound: waitpid calls of the injectors that a signal interrupts
    StackMapped,    \* whether the room below the stack is mapped: the possible answers
    MayDie          \* whether the target may be killed

ASSUME InjectorAssumption ==
    /\ Nobody \notin Injector
    /\ MaxSignals \in Nat /\ MaxInterrupts \in Nat
    /\ StackMapped \subseteq BOOLEAN /\ MayDie \in BOOLEAN

VARIABLES
    step,           \* per injector: where _inject_shared_object is; "cut off" when an
                    \* exception has left it without detaching
    failed,         \* per injector: an exception is on its way
    savedStack, savedCode, savedRegs,   \* per injector; "none" before they are read
    tracer, alive, stopped,             \* the target
    sigstop,        \* the SIGSTOP of PTRACE_ATTACH: "none", "pending", "overtaken" by a
                    \* signal that stopped the target first, or "left" behind by detach
    stack, code,    \* "app", "payload" below the stack; "app", "stub" at rip
    regs,           \* the general registers: "user", "blocked" in a system call, or "stub"
    resuming,       \* system call the thread must finish before the stub
    dl,             \* remote dlopen: "none", "inside", "mapped", "loaded" or "null"
    stopSignal, signals, interrupts,
    mapped, constructed,    \* the library is mapped; runs of its constructor
    torn            \* history: a dlopen was stopped before it ran the constructor

injVars == <<step, failed, savedStack, savedCode, savedRegs>>
memVars == <<stack, code, regs>>
dlVars == <<dl, mapped, constructed, torn>>
runVars == <<resuming, dlVars, stopSignal, signals>>
vars == <<injVars, tracer, alive, stopped, sigstop, memVars, runVars, interrupts>>

Init ==
    /\ step = [i \in Injector |-> "resolve"] /\ failed = [i \in Injector |-> FALSE]
    /\ savedStack = [i \in Injector |-> "none"]
    /\ savedCode = [i \in Injector |-> "none"] /\ savedRegs = [i \in Injector |-> "none"]
    /\ tracer = Nobody /\ alive = TRUE /\ stopped = FALSE /\ sigstop = "none"
    /\ stack = "app" /\ code = "app" /\ regs \in {"user", "blocked"}
    /\ resuming = FALSE /\ dl = "none" /\ stopSignal = "none" /\ signals = 0
    /\ mapped = FALSE /\ constructed = 0 /\ torn = FALSE /\ interrupts = 0

-----------------------------------------------------------------------------
(* The injector.                                                           *)

goto(i, here, next) == step[i] = here /\ step' = [step EXCEPT ![i] = next]

\* An exception before the try block leaves nothing to undo.
resolve(i) ==
    /\ \E next \in {"attach", "raised"} : goto(i, "resolve", next)
    /\ UNCHANGED <<failed, savedStack, savedCode, savedRegs, tracer, alive, stopped, sigstop,
                   memVars, runVars, interrupts>>

\* PTRACE_ATTACH fails on a process that is traced already or gone, else it sends
\* a SIGSTOP.
attach(i) ==
    /\ \/ /\ tracer = Nobody /\ alive
          /\ goto(i, "attach", "attach wait")
          /\ tracer' = i /\ sigstop' = IF sigstop = "left" THEN "left" ELSE "pending"
       \/ /\ tracer # Nobody \/ ~alive
          /\ goto(i, "attach", "raised")
          /\ UNCHANGED <<tracer, sigstop>>
    /\ UNCHANGED <<failed, savedStack, savedCode, savedRegs, alive, stopped, memVars, runVars,
                   interrupts>>

\* Mutant: the injector waits for a stop, never for the end of the target.
waitedForStop == stopped

waitedFor == stopped \/ ~alive

\* Its waitpid: any stop will do, and the end of the target raises.
attachWait(i) ==
    /\ waitedFor
    /\ goto(i, "attach wait", IF alive THEN "save regs" ELSE "raised")
    /\ UNCHANGED <<failed, savedStack, savedCode, savedRegs, tracer, alive, stopped, sigstop,
                   memVars, runVars, interrupts>>

\* waitpid returns EINTR and raises: in attach before the try block, which leaves
\* the target traced; in the try block while the target runs the stub.
interrupted(i) ==
    /\ interrupts < MaxInterrupts /\ interrupts' = interrupts + 1
    /\ ~waitedFor
    /\ \/ goto(i, "attach wait", "cut off") /\ UNCHANGED failed
       \/ goto(i, "wait", "restore stack") /\ failed' = [failed EXCEPT ![i] = TRUE]
    /\ UNCHANGED <<savedStack, savedCode, savedRegs, tracer, alive, stopped, sigstop, memVars,
                   runVars>>

\* A request on the stopped target, of the try block: it raises when the target
\* is gone or the memory is not mapped, and the finally block runs.
request(i, here, possible, next) ==
    /\ IF alive /\ possible
       THEN goto(i, here, next) /\ UNCHANGED failed
       ELSE goto(i, here, "restore stack") /\ failed' = [failed EXCEPT ![i] = TRUE]
    /\ UNCHANGED <<tracer, alive, sigstop, interrupts>>

Done(possible, saved, i, content) ==
    saved' = IF alive /\ possible THEN [saved EXCEPT ![i] = content] ELSE saved

saveRegs(i) ==
    /\ request(i, "save regs", TRUE, "save stack")
    /\ Done(TRUE, savedRegs, i, regs)
    /\ UNCHANGED <<savedStack, savedCode, stopped, memVars, runVars>>

saveStack(i) ==
    /\ \E room \in StackMapped :
        /\ request(i, "save stack", room, "save code")
        /\ Done(room, savedStack, i, stack)
    /\ UNCHANGED <<savedCode, savedRegs, stopped, memVars, runVars>>

saveCode(i) ==
    /\ request(i, "save code", TRUE, "write stack")
    /\ Done(TRUE, savedCode, i, code)
    /\ UNCHANGED <<savedStack, savedRegs, stopped, memVars, runVars>>

writeStack(i) ==
    /\ request(i, "write stack", TRUE, "write code")
    /\ stack' = IF alive THEN "payload" ELSE stack
    /\ UNCHANGED <<savedStack, savedCode, savedRegs, stopped, code, regs, runVars>>

writeCode(i) ==
    /\ request(i, "write code", TRUE, "set regs")
    /\ code' = IF alive THEN "stub" ELSE code
    /\ UNCHANGED <<savedStack, savedCode, savedRegs, stopped, stack, regs, runVars>>

\* rip stays; what the kernel knows of an interrupted call stays with it.
setRegs(i) ==
    /\ request(i, "set regs", TRUE, "continue")
    /\ IF alive THEN regs' = "stub" /\ resuming' = (regs = "blocked")
                ELSE UNCHANGED <<regs, resuming>>
    /\ UNCHANGED <<savedStack, savedCode, savedRegs, stopped, stack, code, dlVars, stopSignal,
                   signals>>

continue(i) ==
    /\ request(i, "continue", TRUE, "wait")
    /\ IF alive THEN stopped' = FALSE ELSE UNCHANGED stopped
    /\ stopSignal' = "none" /\ dl' = "none"
    /\ UNCHANGED <<savedStack, savedCode, savedRegs, memVars, resuming, signals, mapped,
                   constructed, torn>>

\* waitpid: the trap at the end of the stub, another signal, or the end.
wait(i) ==
    /\ step[i] = "wait" /\ waitedFor
    /\ request(i, "wait", stopSignal = "trap", "check")
    /\ UNCHANGED <<savedStack, savedCode, savedRegs, stopped, memVars, runVars>>

\* A dlopen that returned NULL raises as well.
check(i) ==
    /\ request(i, "check", dl # "null", "restore stack")
    /\ UNCHANGED <<savedStack, savedCode, savedRegs, stopped, memVars, runVars>>

\* The finally block: a request that fails there skips the ones that follow, the
\* detach included.  It fails on a target that is gone, or that still runs because
\* the wait for it was interrupted.
Answers == alive /\ stopped

restore(i, here, next) ==
    /\ goto(i, here, IF Answers THEN next ELSE IF alive THEN "cut off" ELSE "raised")
    /\ UNCHANGED <<failed, savedStack, savedCode, savedRegs, alive, runVars, interrupts>>

restoredStack(i) == IF savedStack[i] = "none" THEN stack ELSE savedStack[i]

\* Mutant: the code is restored only if the injection succeeded.
restoredCodeOnSuccess(i) == IF failed[i] \/ savedCode[i] = "none" THEN code ELSE savedCode[i]

restoredCode(i) == IF savedCode[i] = "none" THEN code ELSE savedCode[i]

restoreStack(i) ==
    /\ restore(i, "restore stack", "restore code")
    /\ stack' = IF Answers THEN restoredStack(i) ELSE stack
    /\ UNCHANGED <<tracer, stopped, sigstop, code, regs>>

restoreCode(i) ==
    /\ restore(i, "restore code", "restore regs")
    /\ code' = IF Answers THEN restoredCode(i) ELSE code
    /\ UNCHANGED <<tracer, stopped, sigstop, stack, regs>>

\* Mutant: an exception leaves without detaching.
afterRestoreRaised(i) == IF failed[i] THEN "raised" ELSE "detach"

afterRestore(i) == "detach"

restoreRegs(i) ==
    /\ restore(i, "restore regs", afterRestore(i))
    /\ regs' = IF Answers /\ savedRegs[i] # "none" THEN savedRegs[i] ELSE regs
    /\ UNCHANGED <<tracer, stopped, sigstop, stack, code>>

afterDetach(i) == IF failed[i] THEN "raised" ELSE "verify"

\* A SIGSTOP that is still to come then stops the target for good.
detach(i) ==
    /\ restore(i, "detach", afterDetach(i))
    /\ IF Answers
       THEN /\ tracer' = Nobody /\ stopped' = (sigstop # "none")
            /\ sigstop' = IF sigstop = "none" THEN "none" ELSE "left"
       ELSE UNCHANGED <<tracer, stopped, sigstop>>
    /\ UNCHANGED memVars

\* _target_has_library; the maps of a process that is gone cannot be opened.
verify(i) ==
    /\ goto(i, "verify", IF alive /\ mapped THEN "done" ELSE "raised")
    /\ UNCHANGED <<failed, savedStack, savedCode, savedRegs, tracer, alive, stopped, sigstop,
                   memVars, runVars, interrupts>>

_inject_shared_object(i) ==
    \/ resolve(i) \/ attach(i) \/ attachWait(i) \/ saveRegs(i) \/ saveStack(i) \/ saveCode(i)
    \/ writeStack(i) \/ writeCode(i) \/ setRegs(i) \/ continue(i) \/ wait(i) \/ check(i)
    \/ restoreStack(i) \/ restoreCode(i) \/ restoreRegs(i) \/ detach(i) \/ verify(i)

-----------------------------------------------------------------------------
(* The target.                                                             *)

Running == alive /\ ~stopped

TargetFrame == UNCHANGED <<injVars, tracer, alive, stack, code, interrupts>>

\* The application enters a system call and comes back when its event arrives;
\* under the tracer only the call it was in comes back.
systemCall ==
    /\ Running /\ tracer = Nobody
    /\ regs' = IF regs = "user" THEN "blocked" ELSE "user"
    /\ UNCHANGED <<stopped, sigstop, runVars>> /\ TargetFrame

\* The target takes its SIGSTOP before it runs anything else.
attachStop ==
    /\ Running /\ tracer # Nobody /\ sigstop # "none"
    /\ stopped' = TRUE /\ stopSignal' = "other"
    /\ sigstop' = IF sigstop = "left" THEN "left" ELSE "none"
    /\ UNCHANGED <<regs, resuming, dlVars, signals>> /\ TargetFrame

eventArrives ==
    /\ Running /\ sigstop = "none" /\ resuming /\ resuming' = FALSE
    /\ UNCHANGED <<stopped, sigstop, regs, dlVars, stopSignal, signals>> /\ TargetFrame

InStub == Running /\ tracer # Nobody /\ sigstop = "none" /\ regs = "stub" /\ ~resuming

StubFrame == UNCHANGED <<sigstop, regs, resuming, signals>> /\ TargetFrame

callDlopen ==
    /\ InStub /\ dl = "none" /\ dl' = "inside"
    /\ UNCHANGED <<stopped, stopSignal, mapped, constructed, torn>> /\ StubFrame

\* Mutant: a library that is mapped already is initialised again.
needsConstructorAlways == TRUE

needsConstructor == constructed = 0

\* dlopen maps the library and has its constructor to run, finds it open, or fails.
\* After a dlopen that was torn it may do either: that depends on where it was.
dlopenMaps ==
    /\ InStub /\ dl = "inside"
    /\ \/ needsConstructor /\ dl' = "mapped" /\ mapped' = TRUE
       \/ mapped /\ dl' = "loaded" /\ UNCHANGED mapped
       \/ ~mapped /\ dl' = "null" /\ UNCHANGED mapped
    /\ UNCHANGED <<stopped, stopSignal, constructed, torn>> /\ StubFrame

construct ==
    /\ InStub /\ dl = "mapped" /\ dl' = "loaded"
    /\ constructed' = constructed + 1
    /\ UNCHANGED <<stopped, stopSignal, mapped, torn>> /\ StubFrame

trap ==
    /\ InStub /\ dl \in {"loaded", "null"}
    /\ stopped' = TRUE /\ stopSignal' = "trap"
    /\ UNCHANGED dlVars /\ StubFrame

\* Any other signal stops a traced process before it is delivered, wherever it is.
signal ==
    /\ Running /\ tracer # Nobody /\ signals < MaxSignals
    /\ signals' = signals + 1
    /\ stopped' = TRUE /\ stopSignal' = "other"
    /\ sigstop' = IF sigstop = "pending" THEN "overtaken" ELSE sigstop
    /\ torn' = (torn \/ dl = "mapped")
    /\ UNCHANGED <<regs, resuming, dl, mapped, constructed>> /\ TargetFrame

killed ==
    /\ MayDie /\ alive /\ alive' = FALSE
    /\ UNCHANGED <<injVars, tracer, stopped, sigstop, memVars, runVars, interrupts>>

target == attachStop \/ eventArrives \/ callDlopen \/ dlopenMaps \/ construct \/ trap

Next ==
    \/ \E i \in Injector : _inject_shared_object(i) \/ interrupted(i)
    \/ target \/ systemCall \/ signal \/ killed

Spec == Init /\ [][Next]_vars

\* Both processes run, and the event the target waits for arrives some day.
FairSpec == Spec /\ WF_vars(target) /\ \A i \in Injector : WF_vars(_inject_shared_object(i))

-----------------------------------------------------------------------------
(* Properties.                                                             *)

Steps == {"resolve", "attach", "attach wait", "save regs", "save stack", "save code", "write stack",
    "write code", "set regs", "continue", "wait", "check", "restore stack", "restore code",
    "restore regs", "detach", "verify", "done", "raised", "cut off"}

TypeInjectors ==
    /\ step \in [Injector -> Steps] /\ failed \in [Injector -> BOOLEAN]
    /\ savedStack \in [Injector -> {"none", "app", "payload"}]
    /\ savedCode \in [Injector -> {"none", "app", "stub"}]
    /\ savedRegs \in [Injector -> {"none", "user", "blocked", "stub"}]

TypeMemory ==
    /\ stack \in {"app", "payload"} /\ code \in {"app", "stub"}
    /\ regs \in {"user", "blocked", "stub"}

TypeTarget ==
    /\ tracer \in Injector \cup {Nobody} /\ alive \in BOOLEAN /\ stopped \in BOOLEAN
    /\ sigstop \in {"none", "pending", "overtaken", "left"}
    /\ resuming \in BOOLEAN /\ dl \in {"none", "inside", "mapped", "loaded", "null"}
    /\ stopSignal \in {"none", "trap", "other"} /\ mapped \in BOOLEAN /\ torn \in BOOLEAN

TypeCounters ==
    signals \in 0..MaxSignals /\ interrupts \in 0..MaxInterrupts /\ constructed \in Nat

\* Contents, steps and signals are the ones the code distinguishes.
TypeOK == TypeInjectors /\ TypeMemory /\ TypeTarget /\ TypeCounters

\* A target that nobody traces has its own code, stack and general registers,
\* whatever failed, whichever signal came, whoever else injected; and it runs,
\* unless a signal overtook the SIGSTOP of an attach and the injector let go of
\* the target before the SIGSTOP had come.
RunsItself ==
    alive /\ tracer = Nobody =>
        /\ stack = "app" /\ code = "app" /\ regs # "stub"
        /\ stopped => sigstop = "left" /\ signals > 0

\* An injector that is through, with a result or an exception, has let go of a
\* target that lives.  The one way out that does not is a waitpid that a signal
\* interrupts: then it is cut off.
LetsGo ==
    alive => \A i \in Injector :
        /\ step[i] \in {"done", "raised"} => tracer # i
        /\ step[i] = "cut off" => interrupts > 0

\* However many processes inject, the constructor that starts the server runs at
\* most once, and an injection that succeeds has it run, unless a signal stopped
\* the target in the middle of an earlier dlopen.
LoadedOnce ==
    /\ constructed <= 1
    /\ \A i \in Injector : step[i] = "done" => constructed = 1 \/ torn

\* An injection ends, with a result or an exception.
InjectionEnds == \A i \in Injector : <>(step[i] \in {"done", "raised", "cut off"})
=============================================================================
