----------------------------- MODULE HookRecorder -----------------------------
(***************************************************************************)
(* The message hook: InjectorManager and PipeManager in the process that   *)
(* called SetApprovedList and Initialize.  A thread of its own opens the   *)
(* recorder's pipe, installs two hooks and sleeps, because Windows removes *)
(* a hook with the thread that installed it; the threads of the            *)
(* application run the hook procedures and write to the pipe; the static   *)
(* manager is destroyed when the process exits, its other threads being    *)
(* dead, or when the library is freed under them.                          *)
(*                                                                         *)
(* A hook call is numbered.  The copies of the library in other processes  *)
(* have an empty list and send nothing.                                    *)
(***************************************************************************)
EXTENDS Naturals, FiniteSets

CONSTANTS
    Thread,     \* threads of the application that get messages
    Nobody,
    Message,    \* message numbers
    Lists,      \* the lists that are passed to SetApprovedList
    MaxCalls,   \* bound: hook calls
    Capacity    \* bound: messages the pipe holds unread

ASSUME HookAssumption ==
    /\ Nobody \notin Thread /\ {"thread", "destructor"} \cap (Thread \cup {Nobody}) = {}
    /\ Lists \subseteq SUBSET Message /\ MaxCalls \in Nat /\ Capacity \in Nat \ {0}

Hook == {"sys", "wnd"}
HookCall == 1..MaxCalls
NoCall == [number |-> 0, message |-> Nobody]

VARIABLES
    approved,   \* m_approved_messages_ids
    pending,    \* what SetApprovedList has still to insert
    inserting,  \* insert() is under way
    thread,     \* m_hook_thread: "none", where it is, "ended", or "killed" with the process
    m_status, m_hook_stop_thread,
    hookMutex,  \* m_hook_mutex: Nobody, "thread" or "destructor"
    handles,    \* g_hook_handle_sys and g_hook_handle_wnd that are not null
    handle,     \* m_h_pipe: "none", "open" or "closed"
    m_pipe_initialized, m_have_to_close,
    recorder,   \* the other end of the pipe is there
    unread,     \* messages in the pipe
    at,         \* per thread: where it is in the hook procedure
    call,       \* per thread: the number and the message of its hook call
    nextCall,
    sendMutex,  \* m_send_mutex
    ending,     \* "no", "exit" of the process, or "unload" of the library
    destructor, \* where ~InjectorManager is
    owed, written, raced,   \* history: sets of hook calls
    misused     \* history: the pipe's handle was used or closed after it was closed

listVars == <<approved, pending, inserting>>
threadVars == <<thread, m_status, m_hook_stop_thread, hookMutex, handles>>
flagVars == <<m_pipe_initialized, m_have_to_close>>
callVars == <<at, call, nextCall, sendMutex>>
endVars == <<ending, destructor>>
historyVars == <<owed, written, raced, misused>>
vars == <<listVars, threadVars, handle, flagVars, recorder, unread, callVars, endVars, historyVars>>

Init ==
    /\ approved = {} /\ pending = {} /\ inserting = FALSE
    /\ thread = "none" /\ m_status = "undefined" /\ m_hook_stop_thread = FALSE
    /\ hookMutex = Nobody /\ handles = {}
    /\ handle = "none" /\ m_pipe_initialized = FALSE /\ m_have_to_close = FALSE
    /\ recorder = TRUE /\ unread = 0
    /\ at = [t \in Thread |-> "idle"] /\ call = [t \in Thread |-> NoCall]
    /\ nextCall = 1 /\ sendMutex = Nobody
    /\ ending = "no" /\ destructor = "none"
    /\ owed = {} /\ written = {} /\ raced = {} /\ misused = FALSE

\* The manager is destroyed, or the process has ended.
Over == {"done", "terminated", "gone"}

Running == destructor \notin Over

-----------------------------------------------------------------------------
(* The exported functions, called by one thread.                           *)

\* parse_skip_list, one insert() after the other, without m_send_mutex.
SetApprovedList(list) ==
    /\ ending = "no" /\ pending = {} /\ pending' = list
    /\ UNCHANGED <<approved, inserting, threadVars, handle, flagVars, recorder, unread,
                   callVars, endVars, historyVars>>

insert ==
    /\ ending = "no" /\ pending # {}
    /\ \/ ~inserting /\ inserting' = TRUE /\ UNCHANGED <<approved, pending>>
       \/ /\ inserting /\ inserting' = FALSE
          /\ \E m \in pending : approved' = approved \cup {m} /\ pending' = pending \ {m}
    /\ UNCHANGED <<threadVars, handle, flagVars, recorder, unread, callVars, endVars, historyVars>>

\* It returns TRUE at once.  A second call destroys the first thread, which is
\* joinable: std::terminate.
Initialize ==
    /\ ending = "no" /\ pending = {}
    /\ IF thread = "none"
       THEN thread' = "open" /\ UNCHANGED endVars
       ELSE ending' = "exit" /\ destructor' = "terminated" /\ UNCHANGED thread
    /\ UNCHANGED <<listVars, m_status, m_hook_stop_thread, hookMutex, handles, handle, flagVars,
                   recorder, unread, callVars, historyVars>>

-----------------------------------------------------------------------------
(* The hook thread.                                                        *)

ThreadFrame == UNCHANGED <<listVars, recorder, unread, callVars, endVars, historyVars>>

ends(status) == thread' = "ended" /\ m_status' = status

\* PipeManager::initialize.  A pipe that cannot be switched to messages stays open.
openPipe ==
    /\ thread = "open"
    /\ \/ /\ recorder /\ handle' = "open" /\ m_have_to_close' = TRUE
          /\ thread' = "switch" /\ UNCHANGED m_status
       \/ ends("pipe_failed") /\ UNCHANGED <<handle, m_have_to_close>>
    /\ UNCHANGED <<m_hook_stop_thread, hookMutex, handles, m_pipe_initialized>> /\ ThreadFrame

switchPipe ==
    /\ thread = "switch"
    /\ \/ m_pipe_initialized' = TRUE /\ thread' = "hook sys" /\ UNCHANGED m_status
       \/ ends("pipe_failed") /\ UNCHANGED m_pipe_initialized
    /\ UNCHANGED <<m_hook_stop_thread, hookMutex, handles, handle, m_have_to_close>> /\ ThreadFrame

\* SetWindowsHookEx may fail; the second is installed even so.
setHook(h, here, next) ==
    /\ thread = here /\ thread' = next
    /\ handles' \in {handles, handles \cup {h}}
    /\ UNCHANGED <<m_status, m_hook_stop_thread, hookMutex, handle, flagVars>> /\ ThreadFrame

setStatus ==
    /\ thread = "status"
    /\ IF handles = Hook THEN m_status' = "success" /\ thread' = "lock" ELSE ends("hook_failed")
    /\ UNCHANGED <<m_hook_stop_thread, hookMutex, handles, handle, flagVars>> /\ ThreadFrame

\* Mutant: the condition is tested once, so that a spurious wakeup ends the thread.
afterWakeupAny == "ended"

afterWakeup == IF m_hook_stop_thread THEN "ended" ELSE "waiting"

\* cpu_save_infinite_wait: wait() gives the mutex back, and takes it again when
\* it is notified or wakes up by itself.
cpu_save_infinite_wait ==
    /\ \/ /\ thread = "lock" /\ hookMutex = Nobody
          /\ hookMutex' = "thread" /\ thread' = "test"
       \/ /\ thread = "test" /\ hookMutex' = Nobody
          /\ thread' = IF m_hook_stop_thread THEN "ended" ELSE "waiting"
       \/ /\ thread = "waiting" /\ hookMutex = Nobody
          /\ hookMutex' = "thread" /\ thread' = "awake"
       \/ /\ thread = "awake" /\ hookMutex' = Nobody /\ thread' = afterWakeup
    /\ UNCHANGED <<m_status, m_hook_stop_thread, handles, handle, flagVars>> /\ ThreadFrame

hookThread ==
    /\ Running
    /\ \/ openPipe \/ switchPipe
       \/ setHook("sys", "hook sys", "hook wnd") \/ setHook("wnd", "hook wnd", "status")
       \/ setStatus \/ cpu_save_infinite_wait

-----------------------------------------------------------------------------
(* Hook procedures on the threads of the application.                      *)

Alive == thread \notin {"none", "ended", "killed"}

\* Windows calls the hooks whose thread lives.
Installed == IF Alive THEN handles ELSE {}

goto(t, next) == at' = [at EXCEPT ![t] = next]

HookFrame == UNCHANGED <<listVars, threadVars, recorder, endVars, nextCall>>

\* HandleWindowMessage.  The call is owed to the recorder when its message was
\* on the list, and the pipe up, before it.
HandleWindowMessage(t, m) ==
    /\ Running /\ at[t] = "idle" /\ Installed # {} /\ nextCall \in HookCall
    /\ goto(t, "lock")
    /\ call' = [call EXCEPT ![t] = [number |-> nextCall, message |-> m]]
    /\ nextCall' = nextCall + 1
    /\ owed' = IF m \in approved /\ m_pipe_initialized THEN owed \cup {nextCall} ELSE owed
    /\ UNCHANGED <<listVars, threadVars, handle, flagVars, recorder, unread, sendMutex, endVars,
                   written, raced, misused>>

\* Mutant: the pipe is written to without the lock.
mayLockAlways == TRUE

mayLock == sendMutex = Nobody

lock(t) ==
    /\ at[t] = "lock" /\ mayLock /\ sendMutex' = t /\ goto(t, "count")
    /\ UNCHANGED <<call, handle, flagVars, unread, historyVars>> /\ HookFrame

\* Mutant: the list holds the messages to be skipped, as its parser's name says.
isApprovedSkipping(m) == m \notin approved

isApproved(m) == m \in approved

\* A lookup beside an insert() is a data race: it may miss what is there.
count(t) ==
    /\ at[t] = "count"
    /\ \/ goto(t, IF isApproved(call[t].message) THEN "send" ELSE "unlock") /\ UNCHANGED raced
       \/ inserting /\ goto(t, "unlock") /\ raced' = raced \cup {call[t].number}
    /\ UNCHANGED <<call, handle, flagVars, unread, sendMutex, owed, written, misused>> /\ HookFrame

\* PipeManager::send_message.  WriteFile waits for room in the pipe, and fails
\* when the recorder is gone or the handle is not open any more.
WriteFile(kept) ==
    \/ handle = "open" /\ recorder /\ unread < Capacity /\ unread' = unread + 1 /\ kept
    \/ ~(handle = "open" /\ recorder) /\ UNCHANGED unread /\ ~kept

send(t) ==
    /\ at[t] = "send" /\ goto(t, IF m_pipe_initialized THEN "write" ELSE "unlock")
    /\ UNCHANGED <<call, handle, flagVars, unread, sendMutex, historyVars>> /\ HookFrame

write(t) ==
    /\ at[t] = "write"
    /\ \/ WriteFile(TRUE) /\ written' = written \cup {call[t].number} /\ goto(t, "unlock")
       \/ WriteFile(FALSE) /\ goto(t, "close") /\ UNCHANGED written
    /\ misused' = (misused \/ handle = "closed")
    /\ UNCHANGED <<call, handle, flagVars, sendMutex, owed, raced>> /\ HookFrame

closeHandle == handle' = "closed" /\ misused' = (misused \/ handle = "closed")

clears == m_pipe_initialized' = FALSE /\ m_have_to_close' = FALSE

close(t) ==
    /\ at[t] = "close" /\ closeHandle /\ goto(t, "clear")
    /\ UNCHANGED <<call, flagVars, unread, sendMutex, owed, written, raced>> /\ HookFrame

clear(t) ==
    /\ at[t] = "clear" /\ clears /\ goto(t, "unlock")
    /\ UNCHANGED <<call, handle, unread, sendMutex, historyVars>> /\ HookFrame

\* Mutant: a call that could not write keeps the lock.
unlockedUnlessFailed(t) == IF m_pipe_initialized THEN Nobody ELSE t

unlocked(t) == Nobody

unlock(t) ==
    /\ at[t] = "unlock" /\ goto(t, "idle") /\ call' = [call EXCEPT ![t] = NoCall]
    /\ sendMutex' = unlocked(t)
    /\ UNCHANGED <<handle, flagVars, unread, historyVars>> /\ HookFrame

send_msg(t) ==
    /\ Running
    /\ lock(t) \/ count(t) \/ send(t) \/ write(t) \/ close(t) \/ clear(t) \/ unlock(t)

-----------------------------------------------------------------------------
(* The recorder.                                                           *)

reads ==
    /\ recorder /\ unread > 0 /\ unread' = unread - 1
    /\ UNCHANGED <<listVars, threadVars, handle, flagVars, recorder, callVars, endVars, historyVars>>

dies ==
    /\ recorder /\ recorder' = FALSE /\ unread' = 0
    /\ UNCHANGED <<listVars, threadVars, handle, flagVars, callVars, endVars, historyVars>>

-----------------------------------------------------------------------------
(* The end of the process or of the library, and ~InjectorManager.         *)

\* ExitProcess ends every other thread where it is; what it owns stays owned.
exitProcess ==
    /\ ending = "no" /\ ending' = "exit" /\ destructor' = "marker"
    /\ at' = [t \in Thread |-> "dead"] /\ call' = [t \in Thread |-> NoCall]
    /\ thread' = IF Alive THEN "killed" ELSE thread
    /\ UNCHANGED <<listVars, m_status, m_hook_stop_thread, hookMutex, handles, handle, flagVars,
                   recorder, unread, nextCall, sendMutex, historyVars>>

freeLibrary ==
    /\ ending = "no" /\ pending = {} /\ ending' = "unload" /\ destructor' = "marker"
    /\ UNCHANGED <<listVars, threadVars, handle, flagVars, recorder, unread, callVars, historyVars>>

DestructorFrame == UNCHANGED <<listVars, recorder, callVars, ending, owed, written, raced>>

\* send_message without m_send_mutex: it may run beside the hook of a thread.
marker ==
    /\ \/ /\ destructor = "marker"
          /\ destructor' = IF m_pipe_initialized THEN "write" ELSE "unhook"
          /\ UNCHANGED <<handle, flagVars, unread, misused>>
       \/ /\ destructor = "write" /\ UNCHANGED <<handle, flagVars>>
          /\ misused' = (misused \/ handle = "closed")
          /\ \/ WriteFile(TRUE) /\ destructor' = "unhook"
             \/ WriteFile(FALSE) /\ destructor' = "close"
       \/ /\ destructor = "close" /\ destructor' = "clear"
          /\ closeHandle /\ UNCHANGED <<flagVars, unread>>
       \/ /\ destructor = "clear" /\ destructor' = "unhook"
          /\ clears /\ UNCHANGED <<handle, unread, misused>>
    /\ UNCHANGED threadVars /\ DestructorFrame

\* UnhookWindowsHookEx may fail; a handle that it could not free stays.
unhook ==
    /\ destructor = "unhook" /\ handles' \in SUBSET handles
    /\ destructor' = IF m_status = "success" THEN "stop" ELSE "unjoined"
    /\ UNCHANGED <<thread, m_status, m_hook_stop_thread, hookMutex, handle, flagVars, unread, misused>>
    /\ DestructorFrame

\* Windows ends a process that waits, while it exits, for a lock of a killed thread.
stop_infinite_wait ==
    /\ destructor = "stop"
    /\ \/ /\ hookMutex = Nobody /\ hookMutex' = "destructor"
          /\ m_hook_stop_thread' = TRUE /\ destructor' = "join"
       \/ /\ hookMutex = "thread" /\ thread = "killed" /\ destructor' = "gone"
          /\ UNCHANGED <<hookMutex, m_hook_stop_thread>>
    /\ UNCHANGED <<thread, m_status, handles, handle, flagVars, unread, misused>> /\ DestructorFrame

\* Mutant: only a thread that left by itself counts as ended.
joinableEndEnded == thread = "ended"

joinableEnd == thread \in {"ended", "killed"}

\* join() is called with m_hook_mutex held.
join ==
    /\ destructor = "join" /\ joinableEnd /\ destructor' = "joined" /\ hookMutex' = Nobody
    /\ UNCHANGED <<thread, m_status, m_hook_stop_thread, handles, handle, flagVars, unread, misused>>
    /\ DestructorFrame

\* A thread that was not joined takes the process with it; ~PipeManager closes
\* the handle after it.
members ==
    /\ destructor \in {"joined", "unjoined"}
    /\ IF destructor = "unjoined" /\ thread # "none"
       THEN destructor' = "terminated" /\ UNCHANGED <<handle, misused>>
       ELSE /\ destructor' = "done"
            /\ IF m_have_to_close THEN closeHandle ELSE UNCHANGED <<handle, misused>>
    /\ UNCHANGED <<threadVars, flagVars, unread>> /\ DestructorFrame

destroys == marker \/ unhook \/ stop_infinite_wait \/ join \/ members

-----------------------------------------------------------------------------
Next ==
    \/ \E list \in Lists : SetApprovedList(list)
    \/ insert \/ Initialize
    \/ hookThread
    \/ \E t \in Thread : send_msg(t) \/ \E m \in Message : HandleWindowMessage(t, m)
    \/ reads \/ dies
    \/ exitProcess \/ freeLibrary \/ destroys

Spec == Init /\ [][Next]_vars

\* The threads are scheduled, and a thread that wakes up again and again does not
\* keep m_hook_mutex from the destructor.  Nothing makes the recorder read.
FairSpec ==
    /\ Spec
    /\ WF_vars(hookThread) /\ WF_vars(destroys)
    /\ SF_vars(stop_infinite_wait)
    /\ \A t \in Thread : WF_vars(send_msg(t))

-----------------------------------------------------------------------------
(* Properties.                                                             *)

TypeLists ==
    /\ approved \subseteq Message /\ pending \subseteq Message /\ inserting \in BOOLEAN

TypeThread ==
    /\ thread \in {"none", "open", "switch", "hook sys", "hook wnd", "status", "lock", "test",
                   "waiting", "awake", "ended", "killed"}
    /\ m_status \in {"undefined", "success", "hook_failed", "pipe_failed"}
    /\ m_hook_stop_thread \in BOOLEAN /\ hookMutex \in {Nobody, "thread", "destructor"}
    /\ handles \subseteq Hook

TypePipe ==
    /\ handle \in {"none", "open", "closed"}
    /\ m_pipe_initialized \in BOOLEAN /\ m_have_to_close \in BOOLEAN
    /\ recorder \in BOOLEAN

TypeUnread == unread \in 0..Capacity

TypeCalls ==
    /\ at \in [Thread -> {"idle", "lock", "count", "send", "write", "close", "clear", "unlock", "dead"}]
    /\ call \in [Thread -> [number : HookCall, message : Message] \cup {NoCall}]
    /\ \A t \in Thread : at[t] \notin {"idle", "dead"} => call[t] # NoCall
    /\ nextCall \in 1..(MaxCalls + 1) /\ sendMutex \in Thread \cup {Nobody}

TypeEnd ==
    /\ ending \in {"no", "exit", "unload"}
    /\ destructor \in {"none", "marker", "write", "close", "clear", "unhook", "stop", "join",
                       "joined", "unjoined"} \cup Over

TypeHistory ==
    /\ owed \subseteq HookCall /\ written \subseteq HookCall /\ raced \subseteq HookCall
    /\ misused \in BOOLEAN

\* The types of the variables, group by group.
TypeOK ==
    TypeLists /\ TypeThread /\ TypePipe /\ TypeUnread /\ TypeCalls /\ TypeEnd /\ TypeHistory

\* Status "success" means that the hooks are installed until the process or the
\* library ends, whatever wakes the hook thread up.
StaysHooked == m_status = "success" /\ ending = "no" => Installed = Hook

\* A message that was on the list before its hook was called, with the pipe up,
\* has been written when the hook has returned, unless the pipe failed or
\* insert() ran beside the lookup.
Recorded ==
    \A n \in owed : ending = "no" =>
        \/ n \in written \/ n \in raced
        \/ handle = "closed"
        \/ \E t \in Thread : at[t] # "idle" /\ call[t].number = n

\* Until the end the handle of the pipe is not used once it is closed, though
\* every thread of the application may find out that the recorder is gone.
ClosedOnce == ending = "no" => ~misused

\* WriteFile waits here: the recorder lives and has not read what the pipe holds.
PipeFull == handle = "open" /\ recorder /\ unread = Capacity

\* The hook of a thread returns, unless a recorder that lives stops reading for
\* good: WriteFile has no time limit, and the one that waits in it holds the lock.
HookReturns ==
    \A t \in Thread :
        (at[t] = "lock" ~> at[t] \in {"idle", "dead"} \/ ~Running) \/ <>[]PipeFull

\* The destructor gets to its end, except in join(), where it keeps the mutex
\* that the hook thread of a freed library needs to leave, and before its marker
\* when a recorder that lives stops reading for good.
ProcessEnds ==
    \/ ending # "no" ~> ~Running \/ (ending = "unload" /\ destructor = "join" /\ Alive)
    \/ <>[]PipeFull

=============================================================================
