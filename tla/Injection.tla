------------------------------- MODULE Injection -------------------------------
(***************************************************************************)
(* How Python processes find, inject and reach the .NET worker on Windows: *)
(* ConnectionManager and Injector on their side, and in the target the     *)
(* remote threads that call LoadLibrary, the reference count of the        *)
(* bootstrap DLL, and the LoadWorkerDll threads that run the server.  What *)
(* passes over the pipe is the business of NamedPipe.                      *)
(***************************************************************************)
EXTENDS Integers

CONSTANTS
    Process,    \* Python processes
    Nobody,
    MaxLoads,   \* bound: injections
    Attempts    \* n_attempts of the second connect() (30 in the source)

ASSUME InjectionAssumption ==
    Nobody \notin Process /\ MaxLoads \in Nat /\ Attempts \in Nat \ {0}

Load == 1..MaxLoads     \* an injection, and the server thread it may start

VARIABLES
    step,       \* per process: where call_action is; "idle" outside
    tries,      \* per process: attempts left of connect()
    pipes,      \* per process: ConnectionManager._pipes, the server it leads to or 0
    mine,       \* per process: its last injection
    nextLoad,
    remote,     \* per injection: "none", "running" LoadLibrary, or "done"
    refs,       \* references to the bootstrap DLL
    thread,     \* per injection: "none", "starting", "serving", "finished", "gone"
    holder,     \* the process whose handle is the other end of the pipe
    again,      \* history: LoadLibrary found the DLL loaded since it last came
    cutOff      \* history: processes whose handle the server has disconnected

callVars == <<step, tries, pipes, mine>>
dllVars == <<remote, refs, thread, again>>
vars == <<callVars, nextLoad, dllVars, holder, cutOff>>

Init ==
    /\ step = [p \in Process |-> "idle"] /\ tries = [p \in Process |-> 0]
    /\ pipes = [p \in Process |-> 0] /\ mine = [p \in Process |-> 0]
    /\ nextLoad = 1 /\ remote = [n \in Load |-> "none"]
    /\ refs = 0 /\ thread = [n \in Load |-> "none"]
    /\ holder = Nobody /\ again = FALSE /\ cutOff = {}

Serving == {n \in Load : thread[n] = "serving"}

-----------------------------------------------------------------------------
(* The Python side.                                                        *)

goto(p, next) == step' = [step EXCEPT ![p] = next]
raises(p) == goto(p, "idle")

\* _get_pipe: a pipe is kept for ever, whatever became of its server.
call_action(p) ==
    /\ step[p] = "idle"
    /\ goto(p, IF pipes[p] = 0 THEN "probe" ELSE "transact")
    /\ UNCHANGED <<tries, pipes, mine, nextLoad, dllVars, holder, cutOff>>

\* Mutant: the pipe is created with as many instances as there are clients.
busyNever == FALSE

\* The pipe has one instance.
busy == holder # Nobody

\* One CreateFile: it opens the pipe, raises because another process has it or the
\* server is between two connections, or finds no file.
createFile(p, notFound) ==
    \/ /\ ~busy
       /\ \E n \in Serving : pipes' = [pipes EXCEPT ![p] = n]
       /\ holder' = p /\ goto(p, "transact")
    \/ /\ Serving # {}
       /\ raises(p) /\ UNCHANGED <<pipes, holder>>
    \/ /\ Serving = {}
       /\ goto(p, notFound) /\ UNCHANGED <<pipes, holder>>

probe(p) ==
    /\ step[p] = "probe" /\ createFile(p, "inject")
    /\ UNCHANGED <<tries, mine, nextLoad, dllVars, cutOff>>

\* CreateRemoteThread; what goes before it may raise, and does after MaxLoads.
inject(p) ==
    /\ step[p] = "inject"
    /\ \/ /\ nextLoad \in Load
          /\ remote' = [remote EXCEPT ![nextLoad] = "running"]
          /\ mine' = [mine EXCEPT ![p] = nextLoad] /\ nextLoad' = nextLoad + 1
          /\ goto(p, "wait")
       \/ raises(p) /\ UNCHANGED <<remote, mine, nextLoad>>
    /\ UNCHANGED <<tries, pipes, refs, thread, again, holder, cutOff>>

\* WaitForSingleObject: the thread has ended, with any exit code, or 1000 ms
\* have passed and TimeoutError leaves it running.
waitForSingleObject(p) ==
    /\ step[p] = "wait"
    /\ \/ /\ remote[mine[p]] = "done"
          /\ goto(p, "connect") /\ tries' = [tries EXCEPT ![p] = Attempts]
       \/ /\ remote[mine[p]] = "running"
          /\ raises(p) /\ UNCHANGED tries
    /\ UNCHANGED <<pipes, mine, nextLoad, dllVars, holder, cutOff>>

\* Mutant: the attempts are not counted.
triesLeftAlways(p) == tries[p]

triesLeft(p) == tries[p] - 1

connect(p) ==
    /\ step[p] = "connect"
    /\ createFile(p, IF triesLeft(p) = 0 THEN "idle" ELSE "connect")
    /\ tries' = [tries EXCEPT ![p] = triesLeft(p)]
    /\ UNCHANGED <<mine, nextLoad, dllVars, cutOff>>

returns(p) ==
    /\ step[p] = "transact" /\ goto(p, "idle")
    /\ UNCHANGED <<tries, pipes, mine, nextLoad, dllVars, holder, cutOff>>

\* transact() on a handle that the server has: its reply, for which
\* FlushFileBuffers and ReadFile wait without a time limit.
reply(p) == holder = p /\ returns(p)

\* On any other handle transact() raises InjectedBrokenPipeError at once.
brokenPipe(p) == holder # p /\ returns(p)

\* The process dies: its handles close, and a LoadLibrary it started goes on.
die(p) ==
    /\ step' = [step EXCEPT ![p] = "dead"] /\ step[p] # "dead"
    /\ holder' = IF holder = p THEN Nobody ELSE holder
    /\ UNCHANGED <<tries, pipes, mine, nextLoad, dllVars, cutOff>>

goes(p) == probe(p) \/ inject(p) \/ waitForSingleObject(p) \/ connect(p) \/ brokenPipe(p)

-----------------------------------------------------------------------------
(* The target.                                                             *)

\* Mutant: every LoadLibrary starts the server, as a call of the exported
\* LoadWorkerDll would.
attachesAlways == TRUE

attaches == refs = 0

\* LoadLibrary: DllMain(DLL_PROCESS_ATTACH) creates the LoadWorkerDll thread when
\* the DLL comes in, and is not called when it is there already.
loadLibrary(n) ==
    /\ remote[n] = "running" /\ remote' = [remote EXCEPT ![n] = "done"]
    /\ \/ /\ refs' = refs + 1
          /\ thread' = IF attaches THEN [thread EXCEPT ![n] = "starting"] ELSE thread
          /\ again' = (refs > 0)
       \/ refs = 0 /\ UNCHANGED <<refs, thread, again>>     \* returned FALSE, or no such file
    /\ UNCHANGED <<callVars, nextLoad, holder, cutOff>>

\* Server.Start, or a runtime that is missing or cannot start it; the pipe has
\* one instance only.
startServer(n) ==
    /\ thread[n] = "starting"
    /\ \/ Serving = {} /\ thread' = [thread EXCEPT ![n] = "serving"]
       \/ thread' = [thread EXCEPT ![n] = "finished"]
    /\ UNCHANGED <<callVars, nextLoad, remote, refs, again, holder, cutOff>>

\* The client has written "disconnect", or an IOException ended its loop: the server
\* waits for the next one, and the client keeps its handle.
disconnect(n) ==
    /\ thread[n] = "serving" /\ holder # Nobody
    /\ holder' = Nobody /\ cutOff' = cutOff \cup {holder}
    /\ UNCHANGED <<callVars, nextLoad, dllVars>>

\* The client has written "shutdown", or another exception ended Server.Start.
endServer(n) ==
    /\ thread[n] = "serving" /\ thread' = [thread EXCEPT ![n] = "finished"]
    /\ holder' = Nobody
    /\ UNCHANGED <<callVars, nextLoad, remote, refs, again, cutOff>>

\* Mutant: a thread ends without dropping its reference.
referencesLeftAll == refs

referencesLeft == refs - 1

\* Mutant: FreeLibrary, after which the thread still has to end.
freeLibrary(n) ==
    /\ thread[n] = "finished" /\ refs' = referencesLeft
    /\ UNCHANGED <<callVars, nextLoad, remote, thread, again, holder, cutOff>>

freeLibraryAndExitThread(n) ==
    /\ thread[n] = "finished" /\ thread' = [thread EXCEPT ![n] = "gone"]
    /\ refs' = referencesLeft
    /\ again' = (again /\ refs' > 0)
    /\ UNCHANGED <<callVars, nextLoad, remote, holder, cutOff>>

Next ==
    \/ \E p \in Process : call_action(p) \/ goes(p) \/ reply(p) \/ die(p)
    \/ \E n \in Load : loadLibrary(n) \/ startServer(n) \/ disconnect(n) \/ endServer(n)
                         \/ freeLibraryAndExitThread(n)

Spec == Init /\ [][Next]_vars

\* A call goes on; the threads of the target may take as long as they like, to
\* answer a request as well.
FairSpec == Spec /\ \A p \in Process : WF_vars(goes(p))

-----------------------------------------------------------------------------
(* Properties.                                                             *)

\* The calls, the references and the threads are counted as the code does.
TypeOK ==
    /\ step \in [Process -> {"idle", "probe", "inject", "wait", "connect", "transact", "dead"}]
    /\ tries \in [Process -> 0..Attempts] /\ pipes \in [Process -> Load \cup {0}]
    /\ mine \in [Process -> Load \cup {0}] /\ nextLoad \in 1..(MaxLoads + 1)
    /\ remote \in [Load -> {"none", "running", "done"}] /\ refs \in Nat
    /\ thread \in [Load -> {"none", "starting", "serving", "finished", "gone"}]
    /\ holder \in Process \cup {Nobody} /\ again \in BOOLEAN /\ cutOff \subseteq Process

Live == {n \in Load : thread[n] \in {"starting", "serving", "finished"}}

\* However many processes inject, at once, after a TimeoutError or while a server
\* ends, a target never runs two servers.
OneServer == \A m, n \in Live : m = n

\* The bootstrap DLL is mapped as long as a thread executes it.
CodeMapped == Live # {} => refs > 0

\* Once its server is over the DLL is unloaded, so that the next injection starts
\* another, unless it was injected again while it was there.
UnloadedUnlessAgain == Live = {} /\ refs > 0 => again

\* The server talks to a process that lives and whose pipe leads to it; and a call
\* whose pipe leads to the running server has that server at the other end, unless
\* the server has disconnected it: _pipes keeps the handle all the same.
HolderConnected ==
    /\ holder # Nobody => pipes[holder] \in Serving /\ step[holder] # "dead"
    /\ \A p \in Process :
          step[p] = "transact" /\ pipes[p] \in Serving => holder = p \/ p \in cutOff

\* Every call of call_action ends, with a reply or an exception, whatever the target
\* does, except one that the server has and never answers, nor drops.
Unanswered(p) == step[p] = "transact" /\ holder = p

CallEnds ==
    \A p \in Process :
        \/ step[p] # "idle" ~> step[p] \in {"idle", "dead"}
        \/ <>[]Unanswered(p)
=============================================================================
