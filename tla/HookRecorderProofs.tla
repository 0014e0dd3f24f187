-------------------------- MODULE HookRecorderProofs --------------------------
(***************************************************************************)
(* Machine-checked facts about the message hook, for any threads, any      *)
(* messages and lists, and any capacity of the pipe.                       *)
(***************************************************************************)
EXTENDS HookRecorder, TLAPS

\* Tuples of variables in UNCHANGED are always taken apart.
USE DEF listVars, threadVars, flagVars, callVars, endVars, historyVars

-----------------------------------------------------------------------------
(* Which steps change which variables.                                     *)

LEMMA ListSteps == [Next]_vars =>
    \/ \E list \in Lists : SetApprovedList(list)
    \/ insert
    \/ UNCHANGED listVars
BY DEF vars, Next, Initialize, hookThread, send_msg, destroys, openPipe, switchPipe, setHook,
       setStatus, cpu_save_infinite_wait, ThreadFrame, HandleWindowMessage, lock, count, send,
       write, close, clear, unlock, HookFrame, reads, dies, exitProcess, freeLibrary, marker,
       unhook, stop_infinite_wait, join, members, DestructorFrame

LEMMA ThreadSteps == [Next]_vars =>
    \/ Initialize \/ openPipe \/ switchPipe
    \/ setHook("sys", "hook sys", "hook wnd") \/ setHook("wnd", "hook wnd", "status")
    \/ setStatus \/ cpu_save_infinite_wait
    \/ exitProcess \/ unhook \/ stop_infinite_wait \/ join
    \/ UNCHANGED threadVars
BY DEF vars, Next, SetApprovedList, insert, hookThread, send_msg, destroys, HandleWindowMessage,
       lock, count, send, write, close, clear, unlock, HookFrame, reads, dies, freeLibrary,
       marker, members

LEMMA EndSteps == [Next]_vars =>
    \/ Initialize \/ exitProcess \/ freeLibrary \/ destroys
    \/ UNCHANGED endVars
BY DEF vars, Next, SetApprovedList, insert, hookThread, send_msg, openPipe, switchPipe, setHook,
       setStatus, cpu_save_infinite_wait, ThreadFrame, HandleWindowMessage, lock, count, send,
       write, close, clear, unlock, HookFrame, reads, dies

LEMMA PipeSteps == [Next]_vars =>
    \/ openPipe \/ switchPipe \/ reads \/ dies \/ marker \/ members
    \/ \E t \in Thread : write(t) \/ close(t) \/ clear(t)
    \/ UNCHANGED <<handle, flagVars, recorder, unread>>
BY DEF vars, Next, SetApprovedList, insert, Initialize, hookThread, send_msg, destroys, setHook,
       setStatus, cpu_save_infinite_wait, ThreadFrame, HandleWindowMessage, lock, count, send,
       unlock, HookFrame, exitProcess, freeLibrary, unhook, stop_infinite_wait, join,
       DestructorFrame

LEMMA CallSteps == [Next]_vars =>
    \/ \E t \in Thread : \/ lock(t) \/ count(t) \/ send(t) \/ write(t)
                         \/ close(t) \/ clear(t) \/ unlock(t)
                         \/ \E m \in Message : HandleWindowMessage(t, m)
    \/ exitProcess
    \/ UNCHANGED callVars
BY DEF vars, Next, SetApprovedList, insert, Initialize, hookThread, send_msg, destroys, openPipe,
       switchPipe, setHook, setStatus, cpu_save_infinite_wait, ThreadFrame, reads, dies,
       freeLibrary, marker, unhook, stop_infinite_wait, join, members, DestructorFrame

LEMMA HistorySteps == [Next]_vars =>
    \/ \E t \in Thread : \/ count(t) \/ write(t) \/ close(t)
                         \/ \E m \in Message : HandleWindowMessage(t, m)
    \/ marker \/ members
    \/ UNCHANGED historyVars
BY DEF vars, Next, SetApprovedList, insert, Initialize, hookThread, send_msg, destroys, openPipe,
       switchPipe, setHook, setStatus, cpu_save_infinite_wait, ThreadFrame, lock, send, clear,
       unlock, HookFrame, reads, dies, exitProcess, freeLibrary, unhook, stop_infinite_wait,
       join, DestructorFrame

-----------------------------------------------------------------------------
(* Types, group by group.                                                  *)

LEMMA NextLists == TypeLists /\ [Next]_vars => TypeLists'
<1> SUFFICES ASSUME TypeLists, [Next]_vars PROVE TypeLists'
  OBVIOUS
<1> USE DEF TypeLists
<1>1. ASSUME NEW list \in Lists, SetApprovedList(list)
      PROVE  TypeLists'
  BY <1>1, HookAssumption DEF SetApprovedList
<1>2. CASE insert
  BY <1>2 DEF insert
<1>3. CASE UNCHANGED listVars
  BY <1>3
<1> QED
  BY <1>1, <1>2, <1>3, ListSteps

LEMMA NextThread == TypeThread /\ [Next]_vars => TypeThread'
<1> SUFFICES ASSUME TypeThread, [Next]_vars PROVE TypeThread'
  OBVIOUS
<1> USE DEF TypeThread, Hook
<1>1. CASE Initialize
  BY <1>1 DEF Initialize
<1>2. CASE openPipe \/ switchPipe \/ setStatus
  BY <1>2 DEF openPipe, switchPipe, setStatus, ends
<1>3. CASE setHook("sys", "hook sys", "hook wnd") \/ setHook("wnd", "hook wnd", "status")
  BY <1>3 DEF setHook
<1>4. CASE cpu_save_infinite_wait
  BY <1>4 DEF cpu_save_infinite_wait, afterWakeup
<1>5. CASE exitProcess
  BY <1>5 DEF exitProcess
<1>6. CASE unhook \/ stop_infinite_wait \/ join
  BY <1>6 DEF unhook, stop_infinite_wait, join
<1>7. CASE UNCHANGED threadVars
  BY <1>7
<1> QED
  BY <1>1, <1>2, <1>3, <1>4, <1>5, <1>6, <1>7, ThreadSteps

LEMMA NextPipeType == TypePipe /\ [Next]_vars => TypePipe'
<1> SUFFICES ASSUME TypePipe, [Next]_vars PROVE TypePipe'
  OBVIOUS
<1> USE DEF TypePipe
<1>1. CASE openPipe \/ switchPipe
  BY <1>1 DEF openPipe, switchPipe, ThreadFrame
<1>2. CASE reads \/ dies
  BY <1>2 DEF reads, dies
<1>3. ASSUME NEW t \in Thread, write(t) \/ close(t) \/ clear(t)
      PROVE  TypePipe'
  BY <1>3 DEF write, close, closeHandle, clear, clears, HookFrame
<1>4. CASE marker \/ members
  BY <1>4 DEF marker, members, closeHandle, clears, DestructorFrame
<1>5. CASE UNCHANGED <<handle, flagVars, recorder, unread>>
  BY <1>5
<1> QED
  BY <1>1, <1>2, <1>3, <1>4, <1>5, PipeSteps

LEMMA NextUnread == TypeUnread /\ [Next]_vars => TypeUnread'
<1> SUFFICES ASSUME TypeUnread, [Next]_vars PROVE TypeUnread'
  OBVIOUS
<1>1. Capacity \in Nat /\ Capacity > 0
  BY HookAssumption
<1> USE <1>1 DEF TypeUnread
<1>2. CASE openPipe \/ switchPipe
  BY <1>2 DEF openPipe, switchPipe, ThreadFrame
<1>3. CASE reads \/ dies
  BY <1>3 DEF reads, dies
<1>4. ASSUME NEW t \in Thread, write(t) \/ close(t) \/ clear(t)
      PROVE  TypeUnread'
  BY <1>4 DEF write, WriteFile, close, clear
<1>5. CASE marker \/ members
  BY <1>5 DEF marker, WriteFile, members
<1>6. CASE UNCHANGED <<handle, flagVars, recorder, unread>>
  BY <1>6
<1> QED
  BY <1>2, <1>3, <1>4, <1>5, <1>6, PipeSteps

LEMMA NextCalls == TypeCalls /\ [Next]_vars => TypeCalls'
<1> SUFFICES ASSUME TypeCalls, [Next]_vars PROVE TypeCalls'
  OBVIOUS
<1> USE HookAssumption DEF TypeCalls, NoCall, HookCall
<1>1. ASSUME NEW t \in Thread, NEW m \in Message, HandleWindowMessage(t, m)
      PROVE  TypeCalls'
  BY <1>1 DEF HandleWindowMessage, goto
<1>2. ASSUME NEW t \in Thread, lock(t) \/ unlock(t)
      PROVE  TypeCalls'
  BY <1>2 DEF lock, unlock, mayLock, unlocked, goto, HookFrame
<1>3. ASSUME NEW t \in Thread, count(t) \/ send(t)
      PROVE  TypeCalls'
  BY <1>3 DEF count, send, goto, HookFrame
<1>4. ASSUME NEW t \in Thread, write(t) \/ close(t) \/ clear(t)
      PROVE  TypeCalls'
  BY <1>4 DEF write, close, clear, goto, HookFrame
<1>5. CASE exitProcess
  BY <1>5 DEF exitProcess
<1>6. CASE UNCHANGED callVars
  BY <1>6
<1> QED
  BY <1>1, <1>2, <1>3, <1>4, <1>5, <1>6, CallSteps

LEMMA NextEnd == TypeEnd /\ [Next]_vars => TypeEnd'
<1> SUFFICES ASSUME TypeEnd, [Next]_vars PROVE TypeEnd'
  OBVIOUS
<1> USE DEF TypeEnd, Over
<1>1. CASE Initialize \/ exitProcess \/ freeLibrary
  BY <1>1 DEF Initialize, exitProcess, freeLibrary
<1>2. CASE destroys
  BY <1>2 DEF destroys, marker, unhook, stop_infinite_wait, join, members, DestructorFrame
<1>3. CASE UNCHANGED endVars
  BY <1>3
<1> QED
  BY <1>1, <1>2, <1>3, EndSteps

LEMMA NextHistory == TypeCalls /\ TypeHistory /\ [Next]_vars => TypeHistory'
<1> SUFFICES ASSUME TypeCalls, TypeHistory, [Next]_vars PROVE TypeHistory'
  OBVIOUS
<1> USE DEF TypeHistory
<1>1. ASSUME NEW t \in Thread, NEW m \in Message, HandleWindowMessage(t, m)
      PROVE  TypeHistory'
  BY <1>1 DEF HandleWindowMessage
<1>2. ASSUME NEW t \in Thread, count(t) \/ write(t)
      PROVE  TypeHistory'
  <2>1. call[t].number \in HookCall
    BY <1>2 DEF count, write, TypeCalls
  <2> QED
    BY <1>2, <2>1 DEF count, write
<1>3. ASSUME NEW t \in Thread, close(t)
      PROVE  TypeHistory'
  BY <1>3 DEF close, closeHandle
<1>4. CASE marker \/ members
  BY <1>4 DEF marker, members, closeHandle, DestructorFrame
<1>5. CASE UNCHANGED historyVars
  BY <1>5
<1> QED
  BY <1>1, <1>2, <1>3, <1>4, <1>5, HistorySteps

LEMMA InitType == Init => TypeOK
<1> SUFFICES ASSUME Init PROVE TypeOK
  OBVIOUS
<1> USE HookAssumption DEF Init
<1>1. TypeLists /\ TypeThread /\ TypeEnd /\ TypeHistory
  BY DEF TypeLists, TypeThread, TypeEnd, TypeHistory
<1>2. TypePipe
  BY DEF TypePipe
<1>3. TypeUnread
  BY DEF TypeUnread
<1>4. TypeCalls
  BY DEF TypeCalls
<1> QED
  BY <1>1, <1>2, <1>3, <1>4 DEF TypeOK

\* The variables of the hook keep the types of what they stand for, and a
\* thread in a hook procedure has a message.
THEOREM TypeCorrect == Spec => []TypeOK
<1>1. TypeOK /\ [Next]_vars => TypeOK'
  BY NextLists, NextThread, NextPipeType, NextUnread, NextCalls, NextEnd, NextHistory
  DEF TypeOK
<1> QED
  BY <1>1, InitType, PTL DEF Spec

-----------------------------------------------------------------------------
(***************************************************************************)
(* The thread with status "success" sleeps, and nothing but the destructor *)
(* tells it to stop: a wakeup takes it back to sleep.                      *)
(***************************************************************************)
Sleeping == {"lock", "test", "waiting", "awake"}

HookedInv == ending = "no" =>
    /\ destructor = "none" /\ ~m_hook_stop_thread
    /\ m_status = "success" => thread \in Sleeping /\ handles = Hook

LEMMA NextHooked == HookedInv /\ [Next]_vars => HookedInv'
<1> SUFFICES ASSUME HookedInv, [Next]_vars PROVE HookedInv'
  OBVIOUS
<1> USE DEF HookedInv, Sleeping
<1>1. CASE Initialize
  BY <1>1 DEF Initialize
<1>2. CASE openPipe \/ switchPipe \/ setStatus
  BY <1>2 DEF openPipe, switchPipe, setStatus, ends, ThreadFrame
<1>3. CASE setHook("sys", "hook sys", "hook wnd") \/ setHook("wnd", "hook wnd", "status")
  BY <1>3 DEF setHook, ThreadFrame
<1>4. CASE cpu_save_infinite_wait
  BY <1>4 DEF cpu_save_infinite_wait, afterWakeup, ThreadFrame
<1>5. CASE exitProcess \/ freeLibrary
  BY <1>5 DEF exitProcess, freeLibrary
<1>6. CASE destroys
  BY <1>6 DEF destroys, marker, unhook, stop_infinite_wait, join, members, DestructorFrame
<1>7. CASE UNCHANGED <<threadVars, endVars>>
  BY <1>7
<1> QED
  BY <1>1, <1>2, <1>3, <1>4, <1>5, <1>6, <1>7, ThreadSteps, EndSteps DEF destroys

\* "success" means hooked until the end, for any number of wakeups.
THEOREM HooksStay == Spec => []StaysHooked
<1>1. Init => HookedInv
  BY DEF Init, HookedInv
<1>2. HookedInv => StaysHooked
  BY DEF HookedInv, StaysHooked, Sleeping, Installed, Alive
<1> QED
  BY <1>1, <1>2, NextHooked, PTL DEF Spec

-----------------------------------------------------------------------------
(***************************************************************************)
(* One thread at a time is between lock and unlock, and the handle that it *)
(* is about to use is not closed: between close and clear, where a closed  *)
(* handle passes for a good one, no other thread is inside.                *)
(***************************************************************************)
Inside == {"count", "send", "write", "close", "clear", "unlock"}
Using == {"write", "close"}

PipeInv == ending = "no" =>
    /\ destructor = "none" /\ ~misused
    /\ \A t \in Thread : at[t] \in Inside => sendMutex = t
    /\ \A t \in Thread : at[t] \in Using => handle # "closed"
    /\ \A t \in Thread : at[t] = "clear" => handle = "closed"
    /\ handle = "closed" => (~m_pipe_initialized \/ \E t \in Thread : at[t] = "clear")
    /\ thread \in {"none", "open"} => handle = "none"
    /\ thread = "switch" => handle = "open"
    /\ thread \in {"none", "open", "switch"} =>
          ~m_pipe_initialized /\ \A t \in Thread : at[t] \notin Using \cup {"clear"}

LEMMA NextPipe == TypeCalls /\ PipeInv /\ [Next]_vars => PipeInv'
<1> SUFFICES ASSUME TypeCalls, PipeInv, [Next]_vars PROVE PipeInv'
  OBVIOUS
<1> USE HookAssumption DEF TypeCalls, PipeInv, Inside, Using
<1>1. CASE Initialize
  BY <1>1 DEF Initialize
<1>2. CASE openPipe \/ switchPipe
  BY <1>2 DEF openPipe, switchPipe, ends, ThreadFrame
<1>3. CASE setHook("sys", "hook sys", "hook wnd") \/ setHook("wnd", "hook wnd", "status")
  BY <1>3 DEF setHook, ThreadFrame
<1>4. CASE setStatus \/ cpu_save_infinite_wait
  BY <1>4 DEF setStatus, ends, cpu_save_infinite_wait, afterWakeup, ThreadFrame
<1>5. ASSUME NEW t \in Thread, NEW m \in Message, HandleWindowMessage(t, m)
      PROVE  PipeInv'
  BY <1>5 DEF HandleWindowMessage, goto
<1>6. ASSUME NEW t \in Thread, lock(t) \/ unlock(t)
      PROVE  PipeInv'
  BY <1>6 DEF lock, mayLock, unlock, unlocked, goto, HookFrame
<1>7. ASSUME NEW t \in Thread, count(t) \/ send(t)
      PROVE  PipeInv'
  BY <1>7 DEF count, send, goto, HookFrame
<1>8. ASSUME NEW t \in Thread, write(t)
      PROVE  PipeInv'
  BY <1>8 DEF write, WriteFile, goto, HookFrame
<1>9. ASSUME NEW t \in Thread, close(t) \/ clear(t)
      PROVE  PipeInv'
  BY <1>9 DEF close, closeHandle, clear, clears, goto, HookFrame
<1>10. CASE exitProcess \/ freeLibrary \/ destroys
  BY <1>10 DEF exitProcess, freeLibrary, destroys, marker, unhook, stop_infinite_wait, join,
               members, DestructorFrame
<1>11. CASE (\E list \in Lists : SetApprovedList(list)) \/ insert \/ reads \/ dies \/ UNCHANGED vars
  BY <1>11 DEF SetApprovedList, insert, reads, dies, vars
<1> QED
  BY <1>1, <1>2, <1>3, <1>4, <1>5, <1>6, <1>7, <1>8, <1>9, <1>10, <1>11
  DEF Next, hookThread, send_msg

\* The handle of the pipe is not used after it was closed, by any threads.
THEOREM HandleClosedOnce == Spec => []ClosedOnce
<1>1. Init => PipeInv
  BY HookAssumption DEF Init, PipeInv, Inside, Using
<1>2. PipeInv => ClosedOnce
  BY DEF PipeInv, ClosedOnce
<1> QED
  BY <1>1, <1>2, NextPipe, TypeCorrect, PTL DEF Spec, TypeOK

-----------------------------------------------------------------------------
(***************************************************************************)
(* A hook call that is owed to the recorder is on its way to the write, or *)
(* the pipe has failed: the list only grows, and what stops a sender, the  *)
(* flag of the pipe, is cleared once the handle is closed for good.        *)
(***************************************************************************)
Carries(t, n) ==
    /\ at[t] \in {"lock", "count", "send", "write", "close"}
    /\ call[t].number = n /\ call[t].message \in approved /\ m_pipe_initialized

Settled(n) == n \in written \/ n \in raced \/ handle = "closed"

OwedInv == ending = "no" =>
    \A n \in owed : Settled(n) \/ \E t \in Thread : Carries(t, n)

LEMMA NextOwed == TypeCalls /\ PipeInv /\ OwedInv /\ [Next]_vars => OwedInv'
<1> SUFFICES ASSUME TypeCalls, PipeInv, OwedInv, [Next]_vars, (ending = "no")',
                    NEW n \in owed'
             PROVE  Settled(n)' \/ \E t \in Thread : Carries(t, n)'
  BY DEF OwedInv
<1> USE DEF Settled, Carries
<1>1. ending = "no"
  BY EndSteps DEF Initialize, exitProcess, freeLibrary, destroys, marker, unhook,
         stop_infinite_wait, join, members, DestructorFrame
<1>2. destructor = "none" /\ \A t \in Thread : at[t] = "clear" => handle = "closed"
  BY <1>1 DEF PipeInv
<1>3. n \in owed => Settled(n) \/ \E t \in Thread : Carries(t, n)
  BY <1>1 DEF OwedInv
<1>4. ASSUME NEW t \in Thread, NEW m \in Message, HandleWindowMessage(t, m)
      PROVE  Settled(n)' \/ \E u \in Thread : Carries(u, n)'
  <2>1. CASE n \in owed
    BY <1>3, <1>4, <2>1 DEF HandleWindowMessage, goto, TypeCalls
  <2>2. CASE n \notin owed
    BY <1>4, <2>2 DEF HandleWindowMessage, goto, TypeCalls
  <2> QED
    BY <2>1, <2>2
<1>5. ASSUME NEW t \in Thread, lock(t) \/ send(t)
      PROVE  Settled(n)' \/ \E u \in Thread : Carries(u, n)'
  BY <1>3, <1>5 DEF lock, mayLock, send, goto, HookFrame, TypeCalls
<1>6. ASSUME NEW t \in Thread, count(t)
      PROVE  Settled(n)' \/ \E u \in Thread : Carries(u, n)'
  BY <1>3, <1>6 DEF count, isApproved, goto, HookFrame, TypeCalls
<1>7. ASSUME NEW t \in Thread, write(t)
      PROVE  Settled(n)' \/ \E u \in Thread : Carries(u, n)'
  BY <1>3, <1>7 DEF write, WriteFile, goto, HookFrame, TypeCalls
<1>8. ASSUME NEW t \in Thread, close(t) \/ clear(t) \/ unlock(t)
      PROVE  Settled(n)' \/ \E u \in Thread : Carries(u, n)'
  BY <1>2, <1>3, <1>8 DEF close, closeHandle, clear, clears, unlock, goto, HookFrame, TypeCalls
<1>9. CASE (\E list \in Lists : SetApprovedList(list)) \/ insert
  BY <1>3, <1>9 DEF SetApprovedList, insert
<1>10. CASE hookThread
  <2>1. handle' # handle => handle = "none"
    BY <1>1, <1>10 DEF hookThread, openPipe, switchPipe, setHook, setStatus,
           cpu_save_infinite_wait, ThreadFrame, PipeInv
  <2>2. m_pipe_initialized => m_pipe_initialized'
    BY <1>10 DEF hookThread, openPipe, switchPipe, setHook, setStatus, cpu_save_infinite_wait,
           ThreadFrame
  <2>3. UNCHANGED <<listVars, callVars, historyVars>>
    BY <1>10 DEF hookThread, openPipe, switchPipe, setHook, setStatus, cpu_save_infinite_wait,
           ThreadFrame
  <2> QED
    BY <1>3, <2>1, <2>2, <2>3
<1>11. CASE Initialize \/ reads \/ dies \/ UNCHANGED vars
  BY <1>3, <1>11 DEF Initialize, reads, dies, vars
<1>12. CASE exitProcess \/ freeLibrary \/ destroys
  BY <1>2, <1>12 DEF exitProcess, freeLibrary, destroys, marker, unhook, stop_infinite_wait, join,
         members
<1> QED
  BY <1>4, <1>5, <1>6, <1>7, <1>8, <1>9, <1>10, <1>11, <1>12 DEF Next, send_msg

\* What the list and the pipe promised before a hook call is written when the
\* hook has returned, for any threads, lists and calls.
THEOREM OwedIsRecorded == Spec => []Recorded
<1>1. Init => PipeInv /\ OwedInv
  BY HookAssumption DEF Init, PipeInv, Inside, Using, OwedInv
<1>2. OwedInv => Recorded
  BY DEF OwedInv, Recorded, Settled, Carries
<1> QED
  BY <1>1, <1>2, NextPipe, NextOwed, TypeCorrect, PTL DEF Spec, TypeOK

-----------------------------------------------------------------------------
(***************************************************************************)
(* What HookReturns and ProcessEnds rest on, but for fairness: who waits   *)
(* for whom.  A hook procedure waits for the one that is inside, which at  *)
(* most waits for a recorder that has something to read.  The destructor   *)
(* waits for that too, for the hook thread to give m_hook_mutex back, and  *)
(* in join(): there the hook thread of a library that is freed may wait    *)
(* for the mutex that the destructor keeps.                                *)
(***************************************************************************)

HookBlocked(t) ==
    \/ at[t] = "lock" /\ sendMutex # Nobody
    \/ at[t] = "write" /\ PipeFull

ThreadBlocked == thread \in {"lock", "waiting"} /\ hookMutex # Nobody

DestructorBlocked ==
    \/ destructor = "write" /\ PipeFull
    \/ destructor = "stop" /\ hookMutex # Nobody /\ ~(hookMutex = "thread" /\ thread = "killed")
    \/ destructor = "join" /\ thread \notin {"ended", "killed"}

\* Until the process exits, a hook procedure that waits for m_send_mutex waits for
\* another, which is inside and moves, or waits for the recorder to read.
HooksMove ==
    ending # "exit" => \A t \in Thread : at[t] = "lock" /\ HookBlocked(t) =>
        /\ sendMutex \in Thread \ {t} /\ at[sendMutex] \in Inside
        /\ HookBlocked(sendMutex) => unread > 0 /\ recorder

\* Until the destructor has called join(), the hook thread waits for nobody, and
\* the destructor for one that moves; after it they wait for one another if the
\* library is freed, and never if the process exits.
OnlyJoinHangs ==
    Running =>
        /\ ThreadBlocked => destructor = "join" /\ hookMutex = "destructor" /\ ending = "unload"
        /\ DestructorBlocked =>
              \/ destructor = "write" /\ unread > 0
              \/ destructor = "stop" /\ thread \in {"test", "awake"} /\ hookMutex = "thread"
              \/ destructor = "join" /\ ending = "unload" /\ hookMutex = "destructor"
                   /\ thread \in {"lock", "waiting"}

SendInv ==
    ending # "exit" =>
        /\ \A t \in Thread : at[t] \in Inside <=> sendMutex = t
        /\ \A t \in Thread : at[t] # "dead"

MutexInv ==
    /\ destructor = "none" <=> ending = "no"
    /\ Running =>
          /\ thread \in {"test", "awake"} => hookMutex = "thread"
          /\ hookMutex = "thread" => thread \in {"test", "awake", "killed"}
          /\ hookMutex = "destructor" <=> destructor = "join"
          /\ ending = "exit" => ~Alive
          /\ thread = "killed" => ending = "exit"
          /\ m_status = "success" => thread \in Sleeping \cup {"ended", "killed"}
          /\ destructor \in {"stop", "join"} => m_status = "success"

LEMMA NextSend == TypeCalls /\ SendInv /\ [Next]_vars => SendInv'
<1> SUFFICES ASSUME TypeCalls, SendInv, [Next]_vars PROVE SendInv'
  OBVIOUS
<1> USE HookAssumption DEF TypeCalls, SendInv, Inside
<1>1. ASSUME NEW t \in Thread, NEW m \in Message, HandleWindowMessage(t, m)
      PROVE  SendInv'
  BY <1>1 DEF HandleWindowMessage, goto
<1>2. ASSUME NEW t \in Thread, lock(t) \/ unlock(t)
      PROVE  SendInv'
  BY <1>2 DEF lock, mayLock, unlock, unlocked, goto, HookFrame
<1>3. ASSUME NEW t \in Thread, count(t) \/ send(t)
      PROVE  SendInv'
  BY <1>3 DEF count, send, goto, HookFrame
<1>4. ASSUME NEW t \in Thread, write(t) \/ close(t) \/ clear(t)
      PROVE  SendInv'
  BY <1>4 DEF write, close, clear, goto, HookFrame
<1>5. CASE exitProcess
  BY <1>5 DEF exitProcess
<1>6. CASE UNCHANGED callVars
  <2>1. ending' # "exit" => ending # "exit"
    BY EndSteps DEF Initialize, exitProcess, freeLibrary, destroys, marker, unhook,
       stop_infinite_wait, join, members, DestructorFrame
  <2> QED
    BY <1>6, <2>1
<1> QED
  BY <1>1, <1>2, <1>3, <1>4, <1>5, <1>6, CallSteps

LEMMA NextMutex == TypeThread /\ TypeEnd /\ MutexInv /\ [Next]_vars => MutexInv'
<1> SUFFICES ASSUME TypeThread, TypeEnd, MutexInv, [Next]_vars PROVE MutexInv'
  OBVIOUS
<1> USE HookAssumption DEF TypeThread, TypeEnd, MutexInv, Sleeping, Running, Over, Alive
<1>1. CASE Initialize
  BY <1>1 DEF Initialize
<1>2. CASE Running /\ (openPipe \/ switchPipe)
  BY <1>2 DEF openPipe, switchPipe, ends, ThreadFrame
<1>3. CASE Running /\ (\/ setHook("sys", "hook sys", "hook wnd")
                       \/ setHook("wnd", "hook wnd", "status"))
  BY <1>3 DEF setHook, ThreadFrame
<1>4. CASE Running /\ setStatus
  BY <1>4 DEF setStatus, ends, ThreadFrame
<1>5. CASE Running /\ cpu_save_infinite_wait
  BY <1>5 DEF cpu_save_infinite_wait, afterWakeup, ThreadFrame
<1>6. CASE exitProcess
  BY <1>6 DEF exitProcess
<1>7. CASE freeLibrary
  BY <1>7 DEF freeLibrary
<1>8. CASE marker \/ unhook
  BY <1>8 DEF marker, unhook, DestructorFrame
<1>9. CASE stop_infinite_wait \/ join
  BY <1>9 DEF stop_infinite_wait, join, joinableEnd, DestructorFrame
<1>10. CASE members
  BY <1>10 DEF members, DestructorFrame
<1>11. CASE UNCHANGED <<threadVars, endVars>>
  BY <1>11
<1>12. ASSUME NEW t \in Thread,
              send_msg(t) \/ (\E m \in Message : HandleWindowMessage(t, m))
       PROVE  UNCHANGED <<threadVars, endVars>>
  BY <1>12 DEF send_msg, HandleWindowMessage, lock, count, send, write, close, clear, unlock,
     HookFrame
<1>13. CASE (\E list \in Lists : SetApprovedList(list)) \/ insert \/ reads \/ dies \/ UNCHANGED vars
  BY <1>11, <1>13 DEF SetApprovedList, insert, reads, dies, vars
<1> QED
  BY <1>1, <1>2, <1>3, <1>4, <1>5, <1>6, <1>7, <1>8, <1>9, <1>10, <1>11, <1>12, <1>13
  DEF Next, hookThread, destroys

\* A hook procedure waits for another that moves, or for a recorder that has
\* something to read: the safety half of HookReturns.
THEOREM HooksAlwaysMove == Spec => []HooksMove
<1>1. Init => SendInv
  BY HookAssumption DEF Init, SendInv, Inside
<1>2. TypeCalls /\ SendInv => HooksMove
  <2> SUFFICES ASSUME TypeCalls, SendInv, ending # "exit", NEW t \in Thread, at[t] = "lock",
                      HookBlocked(t)
               PROVE  /\ sendMutex \in Thread \ {t} /\ at[sendMutex] \in Inside
                      /\ HookBlocked(sendMutex) => unread > 0 /\ recorder
    BY DEF HooksMove
  <2>1. sendMutex # Nobody
    BY DEF HookBlocked
  <2>2. sendMutex \in Thread /\ at[sendMutex] \in Inside
    BY <2>1 DEF TypeCalls, SendInv
  <2>3. sendMutex # t
    BY <2>2 DEF Inside
  <2>4. HookBlocked(sendMutex) => PipeFull
    BY <2>2 DEF HookBlocked, Inside
  <2> QED
    BY <2>2, <2>3, <2>4, HookAssumption DEF PipeFull
<1> QED
  BY <1>1, <1>2, NextSend, TypeCorrect, PTL DEF Spec, TypeOK

\* The destructor and the hook thread hang in one place only, and not when the
\* process exits: the safety half of ProcessEnds.
THEOREM HangsInJoinOnly == Spec => []OnlyJoinHangs
<1>1. Init => MutexInv
  BY HookAssumption DEF Init, MutexInv, Alive, Running, Over
<1>2. TypeThread /\ TypeEnd /\ MutexInv => OnlyJoinHangs
  <2> SUFFICES ASSUME TypeThread, TypeEnd, MutexInv, Running PROVE OnlyJoinHangs
    BY DEF OnlyJoinHangs
  <2>1. ThreadBlocked => destructor = "join" /\ hookMutex = "destructor" /\ ending = "unload"
    BY HookAssumption DEF ThreadBlocked, TypeThread, TypeEnd, MutexInv, Alive
  <2>2. PipeFull => unread > 0
    BY HookAssumption DEF PipeFull
  <2>3. ASSUME destructor = "stop", DestructorBlocked
        PROVE  thread \in {"test", "awake"} /\ hookMutex = "thread"
    BY <2>3 DEF DestructorBlocked, TypeThread, MutexInv
  <2>4. ASSUME destructor = "join", DestructorBlocked
        PROVE  ending = "unload" /\ hookMutex = "destructor" /\ thread \in {"lock", "waiting"}
    BY <2>4 DEF DestructorBlocked, TypeThread, TypeEnd, MutexInv, Sleeping, Alive
  <2> QED
    BY <2>1, <2>2, <2>3, <2>4 DEF OnlyJoinHangs, DestructorBlocked
<1> QED
  BY <1>1, <1>2, NextMutex, TypeCorrect, PTL DEF Spec, TypeOK
=============================================================================
