-------------------------- MODULE QtActionsProofs --------------------------
(***************************************************************************)
(* Theorems about the commands of the Qt worker: a client reads what it    *)
(* wrote, posted effects keep the order of the requests, and nothing put   *)
(* off is called on a widget that is gone.  The invariant behind them says *)
(* what may wait in the queue of the GUI thread, for any widgets and any   *)
(* number of requests.                                                     *)
(***************************************************************************)
EXTENDS QtActions, TLAPS

(***************************************************************************)
(* The queue of the GUI thread holds one call at most, and behind it the   *)
(* request that the pipe thread waits for.                                 *)
(***************************************************************************)
Names == Actions \cup {"clicked", "removed"}

Calls == [action : Names, on : Element, from : Text, bound : BOOLEAN]

ARequest == [action : Actions, on : Element]

Types ==
    /\ alive \subseteq Element /\ text \in [Edit \cup Item -> Text]
    /\ posted \in Seq(Calls \cup {TheRequest}) /\ timers \subseteq Calls
    /\ dialogs \in Seq({"request", "call"})
    /\ server \in {"idle", "posted", "handling", "replied"} /\ answer \in Text
    /\ server # "idle" => request \in ARequest
    /\ asked \in Text /\ expected \in [Edit -> Text] /\ dangled \subseteq Element

Queue ==
    /\ Len(posted) <= IF server = "posted" THEN 2 ELSE 1
    /\ server = "posted" => posted # <<>> /\ posted[Len(posted)] = TheRequest
    /\ \A i \in DOMAIN posted : posted[i] = TheRequest => server = "posted" /\ i = Len(posted)

(* What is put off is about something that lives, or was taken back; only  *)
(* the timers of tab bars and graphics items are forgotten.                *)
Live(k) == k # TheRequest /\ k.action # "removed"

PostedAlive == \A i \in DOMAIN posted : Live(posted[i]) => posted[i].on \in alive

TimersBound ==
    \A k \in timers :
        /\ k.bound = boundTo(k.on) /\ (k.bound => k.on \in alive)
        /\ k.on \notin Edit

(* One dialog at most holds a request back, and no read opens one.         *)
Dialogs ==
    /\ \A i \in DOMAIN dialogs : dialogs[i] = "request" => server = "handling"
    /\ \A i, j \in DOMAIN dialogs : dialogs[i] = "request" /\ dialogs[j] = "request" => i = j
    /\ server = "handling" => request.action # "GetValue"

(* The text that a client counts on is there, or is what the call in the   *)
(* queue will set.                                                         *)
Writes(k, e) == Live(k) /\ k.on = e /\ setsText(k.action, e)

Counted ==
    \A e \in Edit :
        IF posted # <<>> /\ Writes(posted[1], e)
        THEN expected[e] \in {0, posted[1].from}
        ELSE e \in alive => expected[e] \in {0, text[e]}

QInv ==
    /\ Types /\ Queue /\ CommandsInOrder /\ PostedAlive /\ TimersBound /\ Dialogs /\ Counted
    /\ PutOffSafely /\ ReadsOwnWrites

-----------------------------------------------------------------------------

(* How a handler acts, for the actions that the proofs tell apart.          *)
LEMMA Manners ==
  ASSUME NEW a, NEW e
  PROVE  /\ manner("GetValue", e) = "read"
         /\ manner(a, e) = "posted" => a \in {"SetText", "SetValue"}
         /\ manner(a, e) = "timer" => e \notin Edit
<1>1. manner("GetValue", e) = "read"
  BY Zenon DEF manner, reads
<1>2. \/ a = "SetText" /\ manner(a, e) = setText(e)
      \/ a = "SetValue" /\ manner(a, e) = setValue(e)
      \/ a = "Click" /\ manner(a, e) = click(e)
      \/ manner(a, e) \in {"now", "read", "unsupported", "notFound"}
  <2>1. a = "SetText" => manner(a, e) = setText(e)
    BY Zenon DEF manner
  <2>2. a = "SetValue" => manner(a, e) = setValue(e)
    BY Zenon DEF manner
  <2>3. a = "Click" => manner(a, e) = click(e)
    BY Zenon DEF manner
  <2>4. /\ toggle(e) \in {"now", "unsupported"} /\ select(e) \in {"now", "unsupported"}
        /\ expand(e) \in {"now", "unsupported"} /\ cell(e, "now") \in {"now", "notFound"}
        /\ cell(e, "read") \in {"read", "notFound"} /\ items(e) \in {"read", "unsupported"}
        /\ treeItem(e) \in {"read", "unsupported"} /\ reads(e) = "read"
    BY DEF toggle, select, expand, cell, items, treeItem, reads
  <2>5. a \notin {"SetText", "SetValue", "Click"} =>
          manner(a, e) \in {toggle(e), select(e), expand(e), cell(e, "now"), cell(e, "read"),
                            items(e), treeItem(e), "now", reads(e)}
    BY Zenon DEF manner
  <2> QED BY <2>1, <2>2, <2>3, <2>4, <2>5
<1>3. /\ setText(e) = "timer" => e \notin Edit
      /\ setValue(e) # "timer" /\ click(e) # "posted"
      /\ click(e) = "timer" => e \notin Edit
  <2>1. e \in Edit => setText(e) = "posted"
    BY Zenon, QtActionsAssumption DEF setText
  <2>2. setValue(e) \in {"posted", "now", "unsupported"}
    BY Zenon DEF setValue
  <2>3. click(e) \in {"timer", "unsupported"} /\ (click(e) = "timer" => e \in Button \cup TabBar)
    BY DEF click
  <2> QED BY <2>1, <2>2, <2>3, QtActionsAssumption
<1> QED BY <1>1, <1>2, <1>3

-----------------------------------------------------------------------------

(* The first two places of the queue after its ends have changed.           *)
LEMMA QueueEnds ==
  ASSUME NEW S, NEW s \in Seq(S), NEW x \in S
  PROVE  /\ Append(s, x) \in Seq(S) /\ Len(Append(s, x)) = Len(s) + 1 /\ Append(s, x) # <<>>
         /\ Append(s, x)[Len(s) + 1] = x /\ DOMAIN s = 1..Len(s)
         /\ DOMAIN Append(s, x) = 1..(Len(s) + 1)
         /\ \A i \in DOMAIN s : Append(s, x)[i] = s[i]
         /\ Len(s) \in Nat
         /\ s # <<>> => /\ Tail(s) \in Seq(S) /\ Len(Tail(s)) = Len(s) - 1 /\ Head(s) = s[1]
                        /\ \A i \in DOMAIN Tail(s) : Tail(s)[i] = s[i + 1]
                        /\ DOMAIN Tail(s) = 1..(Len(s) - 1) /\ Len(s) # 0
                        /\ s[1] \in S
<1>1. Len(s) \in Nat /\ DOMAIN s = 1..Len(s)
  OBVIOUS
<1>2. /\ Append(s, x) \in Seq(S) /\ Len(Append(s, x)) = Len(s) + 1 /\ Append(s, x) # <<>>
      /\ Append(s, x)[Len(s) + 1] = x
  OBVIOUS
<1>3. \A i \in DOMAIN s : Append(s, x)[i] = s[i]
  OBVIOUS
<1>4. DOMAIN Append(s, x) = 1..(Len(s) + 1)
  BY <1>1, <1>2
<1>5. ASSUME s # <<>>
      PROVE  /\ Tail(s) \in Seq(S) /\ Len(Tail(s)) = Len(s) - 1 /\ Head(s) = s[1]
             /\ Len(s) # 0 /\ s[1] \in S
  BY <1>5
<1>6. ASSUME s # <<>>
      PROVE  DOMAIN Tail(s) = 1..(Len(s) - 1) /\ \A i \in DOMAIN Tail(s) : Tail(s)[i] = s[i + 1]
  <2>1. DOMAIN Tail(s) = 1..(Len(s) - 1)
    BY <1>5, <1>6
  <2> QED BY <1>1, <1>6, <2>1
<1> QED BY <1>1, <1>2, <1>3, <1>4, <1>5, <1>6

(* A call that is posted or set to a timer.                                 *)
LEMMA CallTypes ==
  ASSUME NEW a \in Names, NEW e \in Element, NEW n \in Text, NEW b \in BOOLEAN
  PROVE  /\ Call(a, e, n, b) \in Calls /\ Call(a, e, n, b).action = a
         /\ Call(a, e, n, b).on = e /\ Call(a, e, n, b).from = n /\ Call(a, e, n, b).bound = b
BY DEF Call, Calls

(* A call is not the request.                                              *)
LEMMA CallsAreNot ==
  ASSUME NEW k \in Calls
  PROVE  k # TheRequest
<1>1. TheRequest.action = "processRequest"
  BY DEF TheRequest
<1>2. "processRequest" \notin Names
  BY QtActionsAssumption DEF Names, ObjectActions, ItemActions
<1>3. k.action \in Names
  BY DEF Calls
<1> QED BY <1>1, <1>2, <1>3

(* What is in the queue is a call or the request.                          *)
LEMMA PostedCalls ==
  ASSUME Types, NEW i \in DOMAIN posted, posted[i] # TheRequest
  PROVE  /\ posted[i] \in Calls /\ posted[i].action \in Names /\ posted[i].on \in Element
         /\ posted[i].from \in Text
<1>1. posted \in Seq(Calls \cup {TheRequest})
  BY DEF Types
<1>2. posted[i] \in Calls
  BY <1>1
<1> QED BY <1>2 DEF Calls

(* The request is handled when nothing else is left in the queue, and no     *)
(* dialog of an earlier one is open.                                        *)
LEMMA Handled ==
  ASSUME QInv, server = "posted", nextEvent(TheRequest)
  PROVE  /\ posted = <<TheRequest>> /\ Tail(posted) = <<>>
         /\ \A i \in DOMAIN dialogs : dialogs[i] = "call"
         /\ request \in ARequest
         /\ \A e \in Edit : e \in alive => expected[e] \in {0, text[e]}
<1>1. posted \in Seq(Calls \cup {TheRequest}) /\ posted # <<>>
  BY DEF QInv, Types, nextEvent
<1>2. posted[1] = TheRequest /\ 1 \in DOMAIN posted
  BY <1>1 DEF nextEvent
<1>3. 1 = Len(posted)
  BY <1>2 DEF QInv, Queue
<1>4. posted = <<TheRequest>>
  BY <1>1, <1>2, <1>3
<1>5. \A i \in DOMAIN dialogs : dialogs[i] = "call"
  <2>1. dialogs \in Seq({"request", "call"}) /\ \A i \in DOMAIN dialogs : dialogs[i] # "request"
    BY DEF QInv, Types, Dialogs
  <2> QED BY <2>1
<1>6. \A e \in Edit : ~Writes(posted[1], e)
  BY <1>2 DEF Writes, Live
<1>7. \A e \in Edit : e \in alive => expected[e] \in {0, text[e]}
  BY <1>6 DEF QInv, Counted
<1> QED BY <1>4, <1>5, <1>7 DEF QInv, Types

(* After the request: a handler may have posted a call.                     *)
LEMMA QueueAfter ==
  ASSUME QInv, server = "posted", nextEvent(TheRequest), server' \in {"handling", "replied"},
         UNCHANGED <<alive, asked>>,
         \/ posted' = Tail(posted)
         \/ \E k \in Calls : /\ posted' = queued(k, Tail(posted))
                             /\ k.from = asked /\ k.on \in alive
  PROVE  /\ posted' \in Seq(Calls \cup {TheRequest})
         /\ Queue' /\ CommandsInOrder' /\ PostedAlive'
<1>1. Tail(posted) = <<>>
  BY Handled
<1>2. CASE posted' = <<>>
  <2>1. DOMAIN posted' = {} /\ Len(posted') = 0
    BY <1>2
  <2> QED BY <1>2, <2>1 DEF Queue, CommandsInOrder, PostedAlive
<1>3. CASE \E k \in Calls : posted' = queued(k, Tail(posted)) /\ k.from = asked /\ k.on \in alive
  <2>1. PICK k \in Calls : posted' = queued(k, Tail(posted)) /\ k.from = asked /\ k.on \in alive
    BY <1>3
  <2>2. posted' = <<k>>
    <3>1. posted' = Append(<<>>, k)
      BY <1>1, <2>1, Zenon DEF queued
    <3> QED BY <3>1
  <2>3. DOMAIN posted' = {1} /\ Len(posted') = 1 /\ posted'[1] = k
    BY <2>2
  <2>4. k # TheRequest
    BY CallsAreNot
  <2>5. Queue'
    BY <2>3, <2>4 DEF Queue
  <2>6. CommandsInOrder'
    BY <2>1, <2>3 DEF CommandsInOrder
  <2>7. PostedAlive'
    BY <2>1, <2>3 DEF PostedAlive
  <2>8. posted' \in Seq(Calls \cup {TheRequest})
    BY <2>2
  <2> QED BY <2>5, <2>6, <2>7, <2>8
<1> QED BY <1>1, <1>2, <1>3

(* A dialog more, which a call opens, or a request that is held back by it.  *)
LEMMA DialogsAfter ==
  ASSUME Types, Dialogs, NEW w \in {"request", "call"}, mayOpenDialog(w),
         w = "request" => /\ \A i \in DOMAIN dialogs : dialogs[i] = "call"
                          /\ server' = IF dialogs' = dialogs THEN "replied" ELSE "handling"
                          /\ request'.action # "GetValue",
         w = "call" => UNCHANGED <<server, request>>
  PROVE  Dialogs' /\ dialogs' \in Seq({"request", "call"})
<1>1. dialogs \in Seq({"request", "call"})
  BY DEF Types
<1>2. CASE UNCHANGED dialogs
  <2>1. CASE w = "request"
    <3>1. server' = "replied" /\ \A i \in DOMAIN dialogs' : dialogs'[i] # "request"
      BY <1>2, <2>1
    <3> QED BY <1>1, <1>2, <3>1 DEF Dialogs
  <2>2. CASE w = "call"
    BY <1>1, <1>2, <2>2 DEF Dialogs
  <2> QED BY <2>1, <2>2
<1>3. CASE dialogs' = Append(dialogs, w)
  <2>1. /\ dialogs' \in Seq({"request", "call"}) /\ Len(dialogs') = Len(dialogs) + 1
        /\ dialogs'[Len(dialogs) + 1] = w /\ Len(dialogs) \in Nat
        /\ \A i \in DOMAIN dialogs' :
              i # Len(dialogs) + 1 => i \in DOMAIN dialogs /\ dialogs'[i] = dialogs[i]
    BY <1>1, <1>3
  <2>2. dialogs' # dialogs
    BY <2>1
  <2>3. CASE w = "request"
    <3>1. \A i \in DOMAIN dialogs' : dialogs'[i] = "request" => i = Len(dialogs) + 1
      BY <2>1, <2>3
    <3>2. server' = "handling" /\ request'.action # "GetValue"
      BY <2>2, <2>3
    <3> QED BY <2>1, <3>1, <3>2 DEF Dialogs
  <2>4. CASE w = "call"
    <3>1. \A i \in DOMAIN dialogs' : dialogs'[i] = "request" =>
             i \in DOMAIN dialogs /\ dialogs[i] = "request"
      BY <2>1, <2>4
    <3>2. UNCHANGED <<server, request>>
      BY <2>4
    <3> QED BY <2>1, <3>1, <3>2 DEF Dialogs
  <2> QED BY <2>3, <2>4
<1> QED BY <1>2, <1>3 DEF mayOpenDialog

-----------------------------------------------------------------------------

(* A request that is answered without an effect.                            *)
LEMMA Replies ==
  ASSUME QInv, server = "posted", nextEvent(TheRequest), posted' = Tail(posted),
         server' = "replied", answer' \in Text,
         UNCHANGED <<alive, text, timers, dialogs, request, asked, expected, dangled>>,
         request.action = "GetValue" /\ code' = "OK" /\ request.on \in Edit =>
             request.on \in alive /\ answer' = text[request.on]
  PROVE  QInv'
<1>1. /\ posted' = <<>> /\ request \in ARequest
      /\ \A i \in DOMAIN dialogs : dialogs[i] = "call"
      /\ \A e \in Edit : e \in alive => expected[e] \in {0, text[e]}
  BY Handled
<1>2. posted' \in Seq(Calls \cup {TheRequest}) /\ Queue' /\ CommandsInOrder' /\ PostedAlive'
  BY QueueAfter
<1>3. Types'
  BY <1>1, <1>2 DEF QInv, Types
<1>4. TimersBound' /\ PutOffSafely'
  BY DEF QInv, TimersBound, PutOffSafely
<1>5. Dialogs'
  BY <1>1 DEF Dialogs
<1>6. Counted'
  BY <1>1 DEF Counted
<1>7. ReadsOwnWrites'
  BY <1>1 DEF ReadsOwnWrites
<1> QED BY <1>2, <1>3, <1>4, <1>5, <1>6, <1>7 DEF QInv

(* A command on a widget that is gone, or a read, is answered at once.     *)
LEMMA UnknownOrRead ==
  ASSUME QInv, handleUnknown \/ handleRefused \/ handleRead
  PROVE  QInv'
<1>1. /\ server = "posted" /\ nextEvent(TheRequest) /\ posted' = Tail(posted)
      /\ server' = "replied"
      /\ UNCHANGED <<alive, text, timers, dialogs, request, asked, expected, dangled>>
  BY DEF handleUnknown, handleRefused, handleRead, Handling, application, pipe, history
<1>2. \/ code' # "OK" /\ UNCHANGED answer
      \/ /\ request.on \in alive
         /\ answer' = IF request.on \in DOMAIN text THEN text[request.on] ELSE 0
  BY DEF handleUnknown, handleRefused, handleRead, Handling
<1>3. DOMAIN text = Edit \cup Item /\ text \in [Edit \cup Item -> Text] /\ answer \in Text
  BY DEF QInv, Types
<1>4. answer' \in Text
  BY <1>2, <1>3, QtActionsAssumption DEF Text
<1> QED BY <1>1, <1>2, <1>3, <1>4, Replies

(* The text that the client may count on from now on.                       *)
LEMMA Expects ==
  ASSUME Types, NEW e, expects(e)
  PROVE  /\ expected' \in [Edit -> Text]
         /\ \A x \in Edit : expected'[x] = IF x = e THEN asked ELSE expected[x]
BY DEF Types, expects

(* A command that the handler carries out before it replies.               *)
LEMMA NowInv ==
  ASSUME QInv, handleNow
  PROVE  QInv'
<1> DEFINE e == request.on
<1>1. /\ server = "posted" /\ nextEvent(TheRequest) /\ e \in alive
      /\ manner(request.action, e) = "now"
      /\ mayOpenDialog("request")
      /\ server' = IF dialogs' = dialogs THEN "replied" ELSE "handling"
      /\ UNCHANGED <<alive, timers, request, asked, answer, dangled>>
  BY DEF handleNow, Handling, pipe
<1>2. /\ Tail(posted) = <<>> /\ request \in ARequest /\ e \in Element
      /\ \A i \in DOMAIN dialogs : dialogs[i] = "call"
      /\ \A x \in Edit : x \in alive => expected[x] \in {0, text[x]}
  BY <1>1, Handled DEF ARequest
<1>3. request.action # "GetValue"
  BY <1>1, Manners
<1>4. Types /\ asked \in Text /\ text \in [Edit \cup Item -> Text] /\ expected \in [Edit -> Text]
  BY DEF QInv, Types
<1>5. \/ setsText(request.action, e) /\ text' = [text EXCEPT ![e] = asked] /\ expects(e)
      \/ UNCHANGED <<text, expected>>
  BY Zenon DEF handleNow
<1>6. /\ text' \in [Edit \cup Item -> Text] /\ expected' \in [Edit -> Text]
      /\ \A x \in Edit : x \in alive => expected'[x] \in {0, text'[x]}
  <2>1. CASE setsText(request.action, e) /\ text' = [text EXCEPT ![e] = asked] /\ expects(e)
    <3>1. /\ expected' \in [Edit -> Text]
          /\ \A x \in Edit : expected'[x] = IF x = e THEN asked ELSE expected[x]
      BY <1>4, <2>1, Expects
    <3>2. text' \in [Edit \cup Item -> Text]
      BY <1>4, <2>1
    <3>3. \A x \in Edit : text'[x] = IF x = e THEN asked ELSE text[x]
      BY <1>4, <2>1
    <3> HIDE DEF e
    <3> QED BY <1>2, <3>1, <3>2, <3>3
  <2>2. CASE UNCHANGED <<text, expected>>
    BY <1>2, <1>4, <2>2
  <2> QED BY <1>5, <2>1, <2>2
<1>7. \/ posted' = Tail(posted)
      \/ posted' = queued(Call("clicked", e, asked, TRUE), Tail(posted))
  BY Zenon DEF handleNow
<1>8. /\ Call("clicked", e, asked, TRUE) \in Calls
      /\ Call("clicked", e, asked, TRUE).action = "clicked"
      /\ Call("clicked", e, asked, TRUE).on = e /\ Call("clicked", e, asked, TRUE).from = asked
  <2>1. "clicked" \in Names
    BY DEF Names
  <2> HIDE DEF e
  <2> QED BY <1>2, <1>4, <2>1 DEF Call, Calls
<1>9. server' \in {"handling", "replied"}
  BY <1>1
<1>10. posted' \in Seq(Calls \cup {TheRequest}) /\ Queue' /\ CommandsInOrder' /\ PostedAlive'
  BY <1>1, <1>7, <1>8, <1>9, QueueAfter
<1>11. Dialogs' /\ dialogs' \in Seq({"request", "call"})
  BY <1>1, <1>2, <1>3, DialogsAfter DEF QInv
<1>12. Types'
  BY <1>1, <1>2, <1>4, <1>6, <1>9, <1>10, <1>11 DEF Types
<1>13. Counted'
  <2>1. posted' # <<>> => posted'[1].action = "clicked"
    <3>1. CASE posted' = Tail(posted)
      BY <1>2, <3>1
    <3>2. CASE posted' = queued(Call("clicked", e, asked, TRUE), Tail(posted))
      <4>1. posted' = Append(<<>>, Call("clicked", e, asked, TRUE))
        BY <1>2, <3>2, Zenon DEF queued
      <4>2. posted'[1] = Call("clicked", e, asked, TRUE)
        BY <4>1
      <4> QED BY <1>8, <4>2
    <3> QED BY <1>7, <3>1, <3>2
  <2>2. \A x \in Edit : ~(posted' # <<>> /\ Writes(posted[1], x)')
    BY <2>1 DEF Writes, setsText
  <2> QED BY <1>1, <1>6, <2>2 DEF Counted
<1>14. TimersBound' /\ PutOffSafely'
  BY <1>1 DEF QInv, TimersBound, PutOffSafely
<1>15. ReadsOwnWrites'
  BY <1>1, <1>3 DEF ReadsOwnWrites
<1> QED BY <1>10, <1>11, <1>12, <1>13, <1>14, <1>15 DEF QInv

(* A command that the handler posts to the event loop.                     *)
LEMMA PostedInv ==
  ASSUME QInv, handlePosted
  PROVE  QInv'
<1> DEFINE e == request.on
           k == Call(request.action, e, asked, TRUE)
<1>1. /\ server = "posted" /\ nextEvent(TheRequest) /\ e \in alive
      /\ manner(request.action, e) = "posted" /\ server' = "replied"
      /\ posted' = queued(k, Tail(posted)) /\ expects(e)
      /\ UNCHANGED <<alive, text, timers, dialogs, request, asked, answer, dangled>>
  BY DEF handlePosted, Handling, application, pipe
<1>2. /\ Tail(posted) = <<>> /\ request \in ARequest /\ e \in Element /\ request.action \in Names
      /\ \A i \in DOMAIN dialogs : dialogs[i] = "call"
      /\ \A x \in Edit : x \in alive => expected[x] \in {0, text[x]}
  BY <1>1, Handled DEF ARequest, Names
<1>3. request.action \in {"SetText", "SetValue"}
  BY <1>1, Manners
<1>4. Types /\ asked \in Text /\ text \in [Edit \cup Item -> Text] /\ expected \in [Edit -> Text]
  BY DEF QInv, Types
<1>5. /\ expected' \in [Edit -> Text]
      /\ \A x \in Edit : expected'[x] = IF x = e THEN asked ELSE expected[x]
  BY <1>1, <1>4, Expects
<1>6. k \in Calls /\ k.action = request.action /\ k.on = e /\ k.from = asked /\ k # TheRequest
  <2>1. k \in Calls /\ k.action = request.action /\ k.on = e /\ k.from = asked
    <3> HIDE DEF e
    <3> QED BY <1>2, <1>4 DEF Call, Calls
  <2> QED BY <2>1, CallsAreNot
<1>7. posted' = <<k>>
  <2>1. posted' = Append(<<>>, k)
    BY <1>1, <1>2, Zenon DEF queued
  <2> QED BY <2>1
<1> HIDE DEF k, e
<1>8. posted' \in Seq(Calls \cup {TheRequest}) /\ Queue' /\ CommandsInOrder' /\ PostedAlive'
  BY <1>1, <1>6, QueueAfter
<1>9. Types'
  BY <1>1, <1>2, <1>5, <1>8 DEF QInv, Types
<1>10. Dialogs'
  BY <1>1, <1>2 DEF Dialogs
<1>11. Counted'
  <2> SUFFICES ASSUME NEW x \in Edit
               PROVE  IF posted' # <<>> /\ Writes(posted[1], x)'
                      THEN expected'[x] \in {0, posted'[1].from}
                      ELSE x \in alive' => expected'[x] \in {0, text'[x]}
    BY DEF Counted
  <2>1. posted'[1] = k /\ posted' # <<>>
    BY <1>7
  <2>2. CASE x = e
    <3>1. Writes(k, x)
      BY <1>3, <1>4, <1>6, <2>2 DEF Writes, Live, setsText
    <3>2. Writes(posted[1], x)'
      BY <1>1, <2>1, <3>1 DEF Writes, Live, setsText
    <3> QED BY <1>5, <1>6, <2>1, <2>2, <3>2
  <2>3. CASE x # e
    <3>1. ~Writes(posted[1], x)'
      BY <1>6, <2>1, <2>3 DEF Writes
    <3> QED BY <1>1, <1>2, <1>5, <2>3, <3>1
  <2> QED BY <2>2, <2>3
<1>12. TimersBound' /\ PutOffSafely'
  BY <1>1 DEF QInv, TimersBound, PutOffSafely
<1>13. ReadsOwnWrites'
  BY <1>1, <1>3 DEF ReadsOwnWrites
<1> QED BY <1>8, <1>9, <1>10, <1>11, <1>12, <1>13 DEF QInv

(* A command that the handler leaves to a timer.                           *)
LEMMA TimerInv ==
  ASSUME QInv, handleTimer
  PROVE  QInv'
<1> DEFINE e == request.on
           k == Call(request.action, e, asked, boundTo(e))
<1>1. /\ server = "posted" /\ nextEvent(TheRequest) /\ e \in alive
      /\ manner(request.action, e) = "timer" /\ server' = "replied"
      /\ posted' = Tail(posted) /\ timers' = timers \cup {k}
      /\ UNCHANGED <<alive, text, dialogs, request, asked, answer, dangled>>
  BY DEF handleTimer, Handling, application, pipe
<1>2. /\ posted' = <<>> /\ request \in ARequest /\ e \in Element /\ request.action \in Names
      /\ \A i \in DOMAIN dialogs : dialogs[i] = "call"
      /\ \A x \in Edit : x \in alive => expected[x] \in {0, text[x]}
  BY <1>1, Handled DEF ARequest, Names
<1>3. e \notin Edit /\ request.action # "GetValue"
  BY <1>1, Manners
<1>4. UNCHANGED expected
  BY <1>3 DEF handleTimer
<1>5. asked \in Text /\ boundTo(e) \in BOOLEAN
  BY DEF QInv, Types, boundTo
<1>6. k \in Calls /\ k.on = e /\ k.bound = boundTo(e)
  BY <1>2, <1>5, CallTypes
<1> HIDE DEF k, e
<1>7. posted' \in Seq(Calls \cup {TheRequest}) /\ Queue' /\ CommandsInOrder' /\ PostedAlive'
  BY <1>1, QueueAfter
<1>8. Types'
  BY <1>1, <1>2, <1>4, <1>6, <1>7 DEF QInv, Types
<1>9. Dialogs'
  BY <1>1, <1>2 DEF Dialogs
<1>10. Counted'
  BY <1>1, <1>2, <1>4 DEF Counted
<1>11. TimersBound'
  BY <1>1, <1>3, <1>6 DEF QInv, TimersBound, boundTo
<1>12. PutOffSafely' /\ ReadsOwnWrites'
  BY <1>1, <1>3 DEF QInv, PutOffSafely, ReadsOwnWrites, e
<1> QED BY <1>7, <1>8, <1>9, <1>10, <1>11, <1>12 DEF QInv

-----------------------------------------------------------------------------

(* What a call does when its turn comes.                                    *)
LEMMA CarriedOut ==
  ASSUME QInv, NEW k \in Calls, carryOut(k),
         k.on \in alive \/ k.on \notin (Edit \cup Button \cup View)
  PROVE  /\ text' \in [Edit \cup Item -> Text]
         /\ \A e \in Edit :
               text'[e] = IF e = k.on /\ e \in alive /\ setsText(k.action, e)
                          THEN k.from ELSE text[e]
         /\ dangled' \subseteq Element /\ PutOffSafely'
         /\ Dialogs' /\ dialogs' \in Seq({"request", "call"})
         /\ UNCHANGED <<alive, request, asked, server, code, answer, expected>>
<1>1. /\ text \in [Edit \cup Item -> Text] /\ dangled \subseteq Element
      /\ k.on \in Element /\ k.from \in Text /\ DOMAIN text = Edit \cup Item
  BY DEF QInv, Types, Calls
<1>2. /\ mayOpenDialog("call")
      /\ UNCHANGED <<alive, request, asked, server, code, answer, expected>>
  BY DEF carryOut, pipe, reply
<1>3. Dialogs' /\ dialogs' \in Seq({"request", "call"})
  BY <1>2, DialogsAfter DEF QInv
<1>4. CASE k.on \in alive
  <2>1. /\ text' = IF setsText(k.action, k.on) THEN [text EXCEPT ![k.on] = k.from] ELSE text
        /\ UNCHANGED dangled
    BY <1>4 DEF carryOut
  <2>2. setsText(k.action, k.on) => k.on \in DOMAIN text
    BY DEF setsText
  <2>3. PutOffSafely'
    BY <2>1 DEF QInv, PutOffSafely
  <2> QED BY <1>1, <1>2, <1>3, <1>4, <2>1, <2>2, <2>3
<1>5. CASE k.on \notin alive
  <2>1. dangled' = dangled \cup {k.on} /\ UNCHANGED text
    BY <1>5 DEF carryOut
  <2>2. PutOffSafely'
    BY <1>5, <2>1 DEF QInv, PutOffSafely
  <2> QED BY <1>1, <1>2, <1>3, <1>5, <2>1, <2>2
<1> QED BY <1>4, <1>5

(* The queue moves up, as far as the request.                               *)
LEMMA MovesUp ==
  ASSUME QInv, posted # <<>>, Head(posted) # TheRequest, posted' = Tail(posted),
         UNCHANGED <<alive, asked, server>>
  PROVE  /\ posted' \in Seq(Calls \cup {TheRequest})
         /\ Queue' /\ CommandsInOrder' /\ PostedAlive'
         /\ posted[1] \in Calls /\ (Live(posted[1]) => posted[1].on \in alive)
         /\ posted' # <<>> => posted'[1] = TheRequest
<1>1. /\ posted \in Seq(Calls \cup {TheRequest})
      /\ server \in {"idle", "posted", "handling", "replied"}
      /\ TheRequest \in Calls \cup {TheRequest}
  BY DEF QInv, Types
<1>2. /\ posted' \in Seq(Calls \cup {TheRequest}) /\ Len(posted') = Len(posted) - 1
      /\ Head(posted) = posted[1] /\ posted[1] \in Calls \cup {TheRequest}
      /\ DOMAIN posted' = 1..(Len(posted) - 1) /\ DOMAIN posted = 1..Len(posted)
      /\ Len(posted) \in Nat /\ Len(posted) # 0
      /\ \A i \in DOMAIN posted' : posted'[i] = posted[i + 1]
  BY <1>1, QueueEnds
<1>3. \A i \in DOMAIN posted' : i + 1 \in DOMAIN posted
  BY <1>2
<1>4. /\ Len(posted) <= IF server = "posted" THEN 2 ELSE 1
      /\ server = "posted" => posted[Len(posted)] = TheRequest
      /\ \A i \in DOMAIN posted : posted[i] = TheRequest => server = "posted" /\ i = Len(posted)
  BY DEF QInv, Queue
<1>5. posted[1] # TheRequest /\ posted[1] \in Calls /\ 1 \in DOMAIN posted
  BY <1>2
<1>6. server = "posted" => Len(posted) = 2 /\ posted'[1] = TheRequest
  BY <1>2, <1>4, <1>5
<1>7. server # "posted" => posted' = <<>> /\ Len(posted') = 0
  BY <1>2, <1>4
<1>8. Queue'
  <2>1. Len(posted') <= IF server' = "posted" THEN 2 ELSE 1
    BY <1>2, <1>4
  <2>2. server' = "posted" => posted' # <<>> /\ posted'[Len(posted')] = TheRequest
    <3>1. SUFFICES ASSUME server' = "posted"
                   PROVE  posted' # <<>> /\ posted'[Len(posted')] = TheRequest
      OBVIOUS
    <3>2. server = "posted"
      BY <3>1
    <3>3. Len(posted) = 2 /\ posted'[1] = TheRequest
      BY <1>6, <3>2
    <3>4. Len(posted') = 1
      BY <1>2, <3>3
    <3>5. posted'[Len(posted')] = TheRequest
      BY <3>3, <3>4
    <3>6. Len(<<>>) = 0 /\ 1 # 0
      OBVIOUS
    <3>7. posted' # <<>>
      BY <3>4, <3>6, Zenon
    <3> QED BY <3>5, <3>7
  <2>3. \A i \in DOMAIN posted' : posted'[i] = TheRequest => server' = "posted" /\ i = Len(posted')
    BY <1>2, <1>3, <1>4
  <2> QED BY <2>1, <2>2, <2>3 DEF Queue
<1>9. CommandsInOrder'
  BY <1>7 DEF CommandsInOrder
<1>10. PostedAlive'
  <2>1. \A i \in DOMAIN posted' : Live(posted'[i]) => posted'[i].on \in alive
    BY <1>2, <1>3 DEF QInv, PostedAlive
  <2> QED BY <2>1 DEF PostedAlive, Live
<1>11. Live(posted[1]) => posted[1].on \in alive
  BY <1>5 DEF QInv, PostedAlive
<1>12. posted' # <<>> => posted'[1] = TheRequest
  BY <1>1, <1>6, <1>7
<1> QED BY <1>2, <1>5, <1>8, <1>9, <1>10, <1>11, <1>12

(* The first call in the queue is carried out.                             *)
LEMMA CallInv ==
  ASSUME QInv, postedCall
  PROVE  QInv'
<1> DEFINE k == Head(posted)
<1>1. posted # <<>> /\ k # TheRequest /\ posted' = Tail(posted) /\ UNCHANGED timers
  BY DEF postedCall
<1>2. UNCHANGED <<alive, request, asked, server, code, answer, expected>>
  BY DEF postedCall, carryOut, application, pipe, reply, history
<1>3. /\ posted' \in Seq(Calls \cup {TheRequest}) /\ Queue' /\ CommandsInOrder' /\ PostedAlive'
      /\ posted[1] \in Calls /\ (Live(posted[1]) => posted[1].on \in alive)
      /\ posted' # <<>> => posted'[1] = TheRequest
  BY <1>1, <1>2, MovesUp
<1>4. k = posted[1]
  BY <1>1 DEF QInv, Types
<1>5. \A e \in Edit : ~(posted' # <<>> /\ Writes(posted[1], e)')
  BY <1>3 DEF Writes, Live
<1>6. /\ text \in [Edit \cup Item -> Text] /\ dangled \subseteq Element
      /\ dialogs \in Seq({"request", "call"})
  BY DEF QInv, Types
<1>7. /\ text' \in [Edit \cup Item -> Text] /\ dangled' \subseteq Element /\ PutOffSafely'
      /\ Dialogs' /\ dialogs' \in Seq({"request", "call"})
      /\ \A e \in Edit : e \in alive => expected[e] \in {0, text'[e]}
  <2>1. CASE k.action = "removed"
    <3>1. UNCHANGED <<text, dialogs, dangled>>
      BY <2>1 DEF postedCall, application, history
    <3>2. Dialogs' /\ PutOffSafely'
      BY <1>2, <3>1 DEF QInv, Dialogs, PutOffSafely
    <3>3. \A e \in Edit : ~Writes(posted[1], e)
      BY <1>4, <2>1 DEF Writes, Live
    <3>4. \A e \in Edit : e \in alive => expected[e] \in {0, text[e]}
      BY <3>3 DEF QInv, Counted
    <3> QED BY <1>6, <3>1, <3>2, <3>4
  <2>2. CASE k.action # "removed"
    <3>1. carryOut(k) /\ k.on \in alive /\ k \in Calls
      BY <1>1, <1>3, <1>4, <2>2 DEF postedCall, Live
    <3>2. /\ text' \in [Edit \cup Item -> Text]
          /\ \A e \in Edit :
                text'[e] = IF e = k.on /\ e \in alive /\ setsText(k.action, e)
                           THEN k.from ELSE text[e]
          /\ dangled' \subseteq Element /\ PutOffSafely'
          /\ Dialogs' /\ dialogs' \in Seq({"request", "call"})
      BY <3>1, CarriedOut
    <3>3. \A e \in Edit : Writes(posted[1], e) <=> e = k.on /\ setsText(k.action, e)
      BY <1>1, <1>4, <2>2 DEF Writes, Live
    <3>4. \A e \in Edit : e \in alive => expected[e] \in {0, text'[e]}
      BY <1>1, <1>4, <3>2, <3>3 DEF QInv, Counted
    <3> QED BY <3>2, <3>4
  <2> QED BY <2>1, <2>2
<1>8. Types'
  BY <1>1, <1>2, <1>3, <1>7 DEF QInv, Types
<1>9. Counted'
  BY <1>2, <1>5, <1>7 DEF Counted
<1>10. TimersBound' /\ ReadsOwnWrites'
  BY <1>1, <1>2 DEF QInv, TimersBound, ReadsOwnWrites
<1> QED BY <1>3, <1>7, <1>8, <1>9, <1>10 DEF QInv

(* A timer runs out.                                                       *)
LEMMA TimeoutInv ==
  ASSUME QInv, timeout
  PROVE  QInv'
<1>1. PICK k \in timers : timers' = timers \ {k} /\ carryOut(k)
  BY DEF timeout
<1>2. UNCHANGED posted
  BY DEF timeout
<1>3. /\ k \in Calls /\ k.on \notin Edit
      /\ k.on \in alive \/ k.on \notin (Edit \cup Button \cup View)
  BY DEF QInv, Types, TimersBound, boundTo
<1>4. /\ text' \in [Edit \cup Item -> Text]
      /\ \A e \in Edit : text'[e] = text[e]
      /\ dangled' \subseteq Element /\ PutOffSafely'
      /\ Dialogs' /\ dialogs' \in Seq({"request", "call"})
      /\ UNCHANGED <<alive, request, asked, server, code, answer, expected>>
  BY <1>1, <1>3, CarriedOut
<1>5. Types'
  BY <1>1, <1>2, <1>4 DEF QInv, Types
<1>6. Queue' /\ CommandsInOrder' /\ PostedAlive'
  BY <1>2, <1>4 DEF QInv, Queue, CommandsInOrder, PostedAlive, Live
<1>7. TimersBound'
  BY <1>1, <1>4 DEF QInv, TimersBound, boundTo
<1>8. Counted'
  <2>1. DOMAIN text' = DOMAIN text
    BY <1>4 DEF QInv, Types
  <2>2. \A e \in Edit : Writes(posted[1], e)' = Writes(posted[1], e)
    BY <1>2, <2>1 DEF Writes, Live, setsText
  <2> QED BY <1>2, <1>4, <2>2 DEF QInv, Counted
<1>9. ReadsOwnWrites'
  BY <1>4 DEF QInv, ReadsOwnWrites
<1> QED BY <1>4, <1>5, <1>6, <1>7, <1>8, <1>9 DEF QInv

-----------------------------------------------------------------------------

(* The user, the application's code and the pipe thread.                    *)
LEMMA EditsInv ==
  ASSUME QInv, NEW e \in Edit, EditsText(e)
  PROVE  QInv'
<1>1. /\ text' = [text EXCEPT ![e] = 0] /\ expected' = [expected EXCEPT ![e] = 0]
      /\ UNCHANGED <<alive, posted, timers, dialogs, request, asked, server, code, answer, dangled>>
  BY DEF EditsText, loop, pipe, reply
<1>2. /\ text \in [Edit \cup Item -> Text] /\ expected \in [Edit -> Text] /\ 0 \in Text
  BY QtActionsAssumption DEF QInv, Types, Text
<1>3. /\ text' \in [Edit \cup Item -> Text] /\ expected' \in [Edit -> Text]
      /\ \A x \in Edit :
             expected'[x] = 0 \/ (x # e /\ expected'[x] = expected[x] /\ text'[x] = text[x])
  BY <1>1, <1>2
<1>4. Types'
  BY <1>1, <1>3 DEF QInv, Types
<1>5. Queue' /\ CommandsInOrder' /\ PostedAlive' /\ TimersBound'
  BY <1>1 DEF QInv, Queue, CommandsInOrder, PostedAlive, Live, TimersBound, boundTo
<1>6. Dialogs' /\ PutOffSafely'
  BY <1>1 DEF QInv, Dialogs, PutOffSafely
<1>7. Counted'
  <2>1. DOMAIN text' = DOMAIN text
    BY <1>2, <1>3
  <2>2. \A x \in Edit : Writes(posted[1], x)' = Writes(posted[1], x)
    BY <1>1, <2>1 DEF Writes, Live, setsText
  <2> QED BY <1>1, <1>3, <2>2 DEF QInv, Counted
<1>8. ReadsOwnWrites'
  BY <1>1, <1>3 DEF QInv, ReadsOwnWrites
<1> QED BY <1>4, <1>5, <1>6, <1>7, <1>8 DEF QInv

(* What was posted to the object is taken back.                             *)
LEMMA EmptiedCalls ==
  ASSUME NEW k \in Calls
  PROVE  /\ Emptied(k) \in Calls /\ Emptied(k) # TheRequest /\ Emptied(k).from = k.from
         /\ Emptied(k).action = "removed"
<1>1. /\ Emptied(k) \in Calls /\ Emptied(k).from = k.from /\ Emptied(k).action = "removed"
  BY DEF Emptied, Calls, Names
<1> QED BY <1>1, CallsAreNot

(* The queue, and what is counted on, after posted calls were taken back.  *)
LEMMA TakenBack ==
  ASSUME QInv, NEW e \in Element, Destroys(e)
  PROVE  /\ posted' \in Seq(Calls \cup {TheRequest}) /\ Len(posted') = Len(posted)
         /\ DOMAIN posted' = DOMAIN posted
         /\ \A i \in DOMAIN posted :
               \/ posted'[i] = posted[i] /\ (Live(posted[i]) => posted[i].on # e)
               \/ /\ posted[i] \in Calls /\ posted'[i] \in Calls /\ posted[i].on = e
                  /\ posted'[i].from = posted[i].from /\ posted'[i].action = "removed"
<1>1. posted \in Seq(Calls \cup {TheRequest})
  BY DEF QInv, Types
<1>2. /\ DOMAIN posted' = DOMAIN posted
      /\ \A i \in DOMAIN posted : posted'[i] = IF posted[i] # TheRequest /\ posted[i].on = e
                                              THEN Emptied(posted[i]) ELSE posted[i]
  BY DEF Destroys
<1>3. Len(posted) \in Nat /\ DOMAIN posted = 1..Len(posted)
  BY <1>1
<1>4. \A i \in DOMAIN posted : posted[i] \in Calls \cup {TheRequest}
  BY <1>1
<1>5. \A i \in DOMAIN posted :
         \/ posted'[i] = posted[i] /\ (Live(posted[i]) => posted[i].on # e)
         \/ /\ posted[i] \in Calls /\ posted'[i] \in Calls /\ posted[i].on = e
            /\ posted'[i].from = posted[i].from /\ posted'[i].action = "removed"
  <2> SUFFICES ASSUME NEW i \in DOMAIN posted
               PROVE  \/ posted'[i] = posted[i] /\ (Live(posted[i]) => posted[i].on # e)
                      \/ /\ posted[i] \in Calls /\ posted'[i] \in Calls /\ posted[i].on = e
                         /\ posted'[i].from = posted[i].from /\ posted'[i].action = "removed"
    OBVIOUS
  <2>1. CASE posted[i] # TheRequest /\ posted[i].on = e
    <3>1. posted[i] \in Calls /\ posted'[i] = Emptied(posted[i])
      BY <1>2, <1>4, <2>1
    <3> QED BY <2>1, <3>1, EmptiedCalls
  <2>2. CASE ~(posted[i] # TheRequest /\ posted[i].on = e)
    BY <1>2, <2>2 DEF Live
  <2> QED BY <2>1, <2>2
<1>6. \A i \in 1..Len(posted) : posted'[i] \in Calls \cup {TheRequest}
  BY <1>3, <1>4, <1>5
<1>7. posted' = [i \in 1..Len(posted) |-> posted'[i]]
  BY <1>3 DEF Destroys
<1>8. posted' \in Seq(Calls \cup {TheRequest}) /\ Len(posted') = Len(posted)
  BY <1>3, <1>6, <1>7
<1> QED BY <1>2, <1>5, <1>8

(* The application destroys a widget.                                      *)
LEMMA DestroysInv ==
  ASSUME QInv, NEW e \in Element, Destroys(e)
  PROVE  QInv'
<1>1. /\ alive' = alive \ {e} /\ timers' = {k \in timers : ~(k.on = e /\ k.bound)}
      /\ UNCHANGED <<text, dialogs, request, asked, server, code, answer, expected, dangled>>
  BY DEF Destroys, pipe, reply, history
<1>2. /\ posted' \in Seq(Calls \cup {TheRequest}) /\ Len(posted') = Len(posted)
      /\ DOMAIN posted' = DOMAIN posted
      /\ \A i \in DOMAIN posted :
               \/ posted'[i] = posted[i] /\ (Live(posted[i]) => posted[i].on # e)
               \/ /\ posted[i] \in Calls /\ posted'[i] \in Calls /\ posted[i].on = e
                  /\ posted'[i].from = posted[i].from /\ posted'[i].action = "removed"
  BY TakenBack
<1>3. /\ posted \in Seq(Calls \cup {TheRequest})
      /\ Len(posted) \in Nat /\ DOMAIN posted = 1..Len(posted)
  BY DEF QInv, Types
<1>4. posted' # <<>> <=> posted # <<>>
  BY <1>2, <1>3
<1>5. \A i \in DOMAIN posted : posted'[i] = TheRequest <=> posted[i] = TheRequest
  BY <1>2, CallsAreNot
<1>6. Types'
  BY <1>1, <1>2 DEF QInv, Types
<1>7. Queue'
  <2>1. Len(posted) <= IF server = "posted" THEN 2 ELSE 1
    BY DEF QInv, Queue
  <2>2. server = "posted" => posted'[Len(posted)] = TheRequest
    <3>1. server = "posted" => posted[Len(posted)] = TheRequest /\ posted # <<>>
      BY DEF QInv, Queue
    <3>2. posted # <<>> => Len(posted) \in DOMAIN posted
      BY <1>3
    <3> QED BY <1>5, <3>1, <3>2
  <2>3. \A i \in DOMAIN posted' : posted'[i] = TheRequest => server = "posted" /\ i = Len(posted)
    BY <1>2, <1>5 DEF QInv, Queue
  <2>4. server = "posted" => posted # <<>>
    BY DEF QInv, Queue
  <2> QED BY <1>1, <1>2, <1>4, <2>1, <2>2, <2>3, <2>4 DEF Queue
<1>8. CommandsInOrder'
  <2>1. \A i \in DOMAIN posted : posted'[i].from = posted[i].from
    BY <1>2
  <2> QED BY <1>1, <1>2, <2>1 DEF QInv, CommandsInOrder
<1>9. PostedAlive'
  <2>1. \A i \in DOMAIN posted' : Live(posted'[i]) => posted'[i].on \in alive'
    BY <1>1, <1>2 DEF QInv, PostedAlive, Live
  <2> QED BY <2>1 DEF PostedAlive, Live
<1>10. TimersBound'
  BY <1>1 DEF QInv, TimersBound, boundTo
<1>11. Dialogs' /\ PutOffSafely' /\ ReadsOwnWrites'
  BY <1>1 DEF QInv, Dialogs, PutOffSafely, ReadsOwnWrites
<1>12. Counted'
  <2> SUFFICES ASSUME NEW x \in Edit
               PROVE  IF posted' # <<>> /\ Writes(posted[1], x)'
                      THEN expected'[x] \in {0, posted'[1].from}
                      ELSE x \in alive' => expected'[x] \in {0, text'[x]}
    BY DEF Counted
  <2>1. IF posted # <<>> /\ Writes(posted[1], x)
        THEN expected[x] \in {0, posted[1].from}
        ELSE x \in alive => expected[x] \in {0, text[x]}
    BY DEF QInv, Counted
  <2>2. CASE posted = <<>>
    BY <1>1, <1>4, <2>1, <2>2
  <2>3. CASE posted # <<>>
    <3>1. 1 \in DOMAIN posted
      BY <1>3, <2>3
    <3>2. CASE posted'[1] = posted[1] /\ (Live(posted[1]) => posted[1].on # e)
      <4>1. Writes(posted[1], x)' = Writes(posted[1], x)
        BY <1>1, <3>2 DEF Writes, Live, setsText
      <4> QED BY <1>1, <1>4, <2>1, <2>3, <3>2, <4>1
    <3>3. CASE posted'[1].action = "removed" /\ posted[1].on = e
      <4>1. ~Writes(posted[1], x)'
        BY <3>3 DEF Writes, Live
      <4>2. CASE x = e
        BY <1>1, <4>1, <4>2
      <4>3. CASE x # e
        <5>1. ~Writes(posted[1], x)
          BY <3>3, <4>3 DEF Writes
        <5> QED BY <1>1, <2>1, <4>1, <5>1
      <4> QED BY <4>2, <4>3
    <3> QED BY <1>2, <3>1, <3>2, <3>3
  <2> QED BY <2>2, <2>3
<1> QED BY <1>6, <1>7, <1>8, <1>9, <1>10, <1>11, <1>12 DEF QInv

(* The user closes the dialog that was opened last.                        *)
LEMMA DialogInv ==
  ASSUME QInv, ClosesDialog
  PROVE  QInv'
<1>1. /\ dialogs # <<>> /\ dialogs' = SubSeq(dialogs, 1, Len(dialogs) - 1)
      /\ server' = IF dialogs[Len(dialogs)] = "request" THEN "replied" ELSE server
      /\ UNCHANGED <<alive, text, posted, timers, request, asked, code, answer, expected, dangled>>
  BY DEF ClosesDialog, application, pipe, history
<1>2. dialogs \in Seq({"request", "call"})
  BY DEF QInv, Types
<1>3. /\ dialogs' \in Seq({"request", "call"}) /\ Len(dialogs) \in DOMAIN dialogs
      /\ \A i \in DOMAIN dialogs' :
             i \in DOMAIN dialogs /\ i # Len(dialogs) /\ dialogs'[i] = dialogs[i]
  BY <1>1, <1>2
<1>4. \/ UNCHANGED server
      \/ server = "handling" /\ server' = "replied" /\ dialogs[Len(dialogs)] = "request"
  BY <1>1, <1>3 DEF QInv, Dialogs
<1>5. Types'
  BY <1>1, <1>3, <1>4 DEF QInv, Types
<1>6. Queue' /\ CommandsInOrder'
  BY <1>1, <1>4 DEF QInv, Queue, CommandsInOrder
<1>7. PostedAlive' /\ TimersBound' /\ PutOffSafely'
  BY <1>1 DEF QInv, PostedAlive, Live, TimersBound, boundTo, PutOffSafely
<1>8. Dialogs'
  <2>1. \A i \in DOMAIN dialogs' : dialogs'[i] = "request" => server' = "handling"
    BY <1>3, <1>4 DEF QInv, Dialogs
  <2>2. \A i, j \in DOMAIN dialogs' : dialogs'[i] = "request" /\ dialogs'[j] = "request" => i = j
    BY <1>3 DEF QInv, Dialogs
  <2>3. server' = "handling" => request'.action # "GetValue"
    BY <1>1, <1>4 DEF QInv, Dialogs
  <2> QED BY <2>1, <2>2, <2>3 DEF Dialogs
<1>9. Counted'
  BY <1>1 DEF QInv, Counted, Writes, Live, setsText
<1>10. ReadsOwnWrites'
  BY <1>1, <1>4 DEF QInv, ReadsOwnWrites, Dialogs
<1> QED BY <1>5, <1>6, <1>7, <1>8, <1>9, <1>10 DEF QInv

(* The pipe thread posts a request.                                        *)
LEMMA RequestInv ==
  ASSUME QInv, processRequestThreadSafe
  PROVE  QInv'
<1>1. /\ server = "idle" /\ asked < MaxRequests /\ asked' = asked + 1 /\ request' \in ARequest
      /\ posted' = Append(posted, TheRequest) /\ server' = "posted"
      /\ UNCHANGED <<alive, text, timers, dialogs, code, answer, expected, dangled>>
  BY DEF processRequestThreadSafe, ARequest, queued, application, history
<1>2. posted \in Seq(Calls \cup {TheRequest})
  BY DEF QInv, Types
<1>3. /\ posted' \in Seq(Calls \cup {TheRequest}) /\ Len(posted') = Len(posted) + 1
      /\ posted' # <<>> /\ posted'[Len(posted) + 1] = TheRequest /\ Len(posted) \in Nat
      /\ DOMAIN posted' = 1..(Len(posted) + 1) /\ DOMAIN posted = 1..Len(posted)
      /\ \A i \in DOMAIN posted : posted'[i] = posted[i]
  BY <1>1, <1>2, QueueEnds
<1>4. /\ Len(posted) <= 1 /\ \A i \in DOMAIN posted : posted[i] # TheRequest
  BY <1>1 DEF QInv, Queue
<1>5. asked' \in Text
  BY <1>1, QtActionsAssumption DEF QInv, Types, Text
<1>6. Types'
  BY <1>1, <1>3, <1>5 DEF QInv, Types
<1>7. \A i \in DOMAIN posted' : i \in DOMAIN posted \/ i = Len(posted) + 1
  BY <1>3
<1>8. Queue'
  BY <1>1, <1>3, <1>4, <1>7 DEF Queue
<1>9. CommandsInOrder' /\ ReadsOwnWrites' /\ PutOffSafely'
  BY <1>1 DEF QInv, CommandsInOrder, ReadsOwnWrites, PutOffSafely
<1>10. PostedAlive'
  <2>1. \A i \in DOMAIN posted' : Live(posted'[i]) => posted'[i].on \in alive
    BY <1>3, <1>7 DEF QInv, PostedAlive, Live
  <2> QED BY <1>1, <2>1 DEF PostedAlive, Live
<1>11. TimersBound'
  BY <1>1 DEF QInv, TimersBound, boundTo
<1>12. Dialogs'
  BY <1>1 DEF QInv, Dialogs
<1>13. Counted'
  <2>1. CASE posted = <<>>
    <3>1. posted'[1] = TheRequest
      BY <1>1, <2>1
    <3>2. \A x \in Edit : ~Writes(posted[1], x)'
      BY <3>1 DEF Writes, Live
    <3> QED BY <1>1, <2>1, <3>2 DEF QInv, Counted
  <2>2. CASE posted # <<>>
    <3>1. posted'[1] = posted[1]
      <4>1. 1 \in DOMAIN posted
        BY <1>2, <2>2
      <4> QED BY <1>3, <4>1
    <3>2. \A x \in Edit : Writes(posted[1], x)' = Writes(posted[1], x)
      BY <1>1, <3>1 DEF Writes, Live, setsText
    <3> QED BY <1>1, <1>3, <2>2, <3>1, <3>2 DEF QInv, Counted
  <2> QED BY <2>1, <2>2
<1> QED BY <1>6, <1>8, <1>9, <1>10, <1>11, <1>12, <1>13 DEF QInv

(* The pipe thread writes the reply.                                       *)
LEMMA WriteInv ==
  ASSUME QInv, writeMessage
  PROVE  QInv'
<1>1. /\ server = "replied" /\ server' = "idle" /\ answer' = 0
      /\ UNCHANGED <<alive, text, posted, timers, dialogs, asked, expected, dangled>>
  BY DEF writeMessage, application, loop, history
<1>2. Types'
  BY <1>1, QtActionsAssumption DEF QInv, Types, Text
<1>3. Queue' /\ CommandsInOrder' /\ ReadsOwnWrites'
  BY <1>1 DEF QInv, Queue, CommandsInOrder, ReadsOwnWrites
<1>4. PostedAlive' /\ TimersBound' /\ PutOffSafely'
  BY <1>1 DEF QInv, PostedAlive, Live, TimersBound, boundTo, PutOffSafely
<1>5. Dialogs'
  BY <1>1 DEF QInv, Dialogs
<1>6. Counted'
  BY <1>1 DEF QInv, Counted, Writes, Live, setsText
<1> QED BY <1>2, <1>3, <1>4, <1>5, <1>6 DEF QInv

(* The pipe thread waits for the next request.                             *)
LEMMA IdleInv ==
  ASSUME QInv, UNCHANGED vars
  PROVE  QInv'
<1>1. UNCHANGED <<alive, text, posted, timers, dialogs, request, asked, server, code, answer,
                  expected, dangled>>
  BY DEF vars, application, loop, pipe, reply, history
<1>2. Types' /\ Queue' /\ CommandsInOrder'
  BY <1>1 DEF QInv, Types, Queue, CommandsInOrder
<1>3. PostedAlive' /\ TimersBound' /\ PutOffSafely' /\ Dialogs'
  BY <1>1 DEF QInv, PostedAlive, Live, TimersBound, boundTo, PutOffSafely, Dialogs
<1>4. Counted' /\ ReadsOwnWrites'
  BY <1>1 DEF QInv, Counted, Writes, Live, setsText, ReadsOwnWrites
<1> QED BY <1>2, <1>3, <1>4 DEF QInv

(* Every step keeps the invariant.                                         *)
LEMMA StepInv == QInv /\ [Next]_vars => QInv'
<1> SUFFICES ASSUME QInv, [Next]_vars PROVE QInv'
  OBVIOUS
<1>1. CASE handleUnknown \/ handleRefused \/ handleRead
  BY <1>1, UnknownOrRead
<1>2. CASE handleNow
  BY <1>2, NowInv
<1>3. CASE handlePosted
  BY <1>3, PostedInv
<1>4. CASE handleTimer
  BY <1>4, TimerInv
<1>5. CASE postedCall
  BY <1>5, CallInv
<1>6. CASE timeout
  BY <1>6, TimeoutInv
<1>7. CASE processRequestThreadSafe
  BY <1>7, RequestInv
<1>8. CASE writeMessage
  BY <1>8, WriteInv
<1>9. CASE ClosesDialog
  BY <1>9, DialogInv
<1>10. CASE \E e \in Edit : EditsText(e)
  BY <1>10, EditsInv
<1>11. CASE \E e \in Element : Destroys(e)
  BY <1>11, DestroysInv
<1>12. CASE UNCHANGED vars
  BY <1>12, IdleInv
<1> QED BY <1>1, <1>2, <1>3, <1>4, <1>5, <1>6, <1>7, <1>8, <1>9, <1>10, <1>11, <1>12
       DEF Next, EventLoop

(* At first nothing is put off and nothing is counted on.                  *)
LEMMA InitInv == Init => QInv
<1> SUFFICES ASSUME Init PROVE QInv
  OBVIOUS
<1>1. /\ alive = Element /\ text = [e \in Edit \cup Item |-> 0]
      /\ posted = <<>> /\ timers = {} /\ dialogs = <<>>
      /\ asked = 0 /\ server = "idle" /\ answer = 0
      /\ expected = [e \in Edit |-> 0] /\ dangled = {}
  BY DEF Init
<1>2. 0 \in Text
  BY QtActionsAssumption DEF Text
<1>3. /\ posted \in Seq(Calls \cup {TheRequest}) /\ dialogs \in Seq({"request", "call"})
      /\ Len(posted) = 0 /\ DOMAIN posted = {} /\ DOMAIN dialogs = {}
  BY <1>1
<1>4. Types
  BY <1>1, <1>2, <1>3 DEF Types
<1>5. Queue /\ CommandsInOrder /\ PostedAlive /\ TimersBound /\ Dialogs
  BY <1>1, <1>3 DEF Queue, CommandsInOrder, PostedAlive, TimersBound, Dialogs
<1>6. Counted /\ PutOffSafely /\ ReadsOwnWrites
  BY <1>1 DEF Counted, PutOffSafely, ReadsOwnWrites
<1> QED BY <1>4, <1>5, <1>6 DEF QInv

(* So it holds throughout.                                                  *)
LEMMA Invariance == Spec => []QInv
  BY InitInv, StepInv, PTL DEF Spec

(* A text that the client was told is set is what it reads next, unless the *)
(* application has changed it, for any widgets and any number of requests.  *)
THEOREM OwnWritesAreRead == Spec => []ReadsOwnWrites
<1>1. QInv => ReadsOwnWrites
  BY DEF QInv
<1> QED BY <1>1, Invariance, PTL

(* What earlier requests have posted happens before a later one is handled. *)
THEOREM InOrder == Spec => []CommandsInOrder
<1>1. QInv => CommandsInOrder
  BY DEF QInv
<1> QED BY <1>1, Invariance, PTL

(* Nothing is called on a widget that is gone, apart from tab bars.         *)
THEOREM SafelyPutOff == Spec => []PutOffSafely
<1>1. QInv => PutOffSafely
  BY DEF QInv
<1> QED BY <1>1, Invariance, PTL

(* The types, and a request is in the queue just while its thread waits.    *)
THEOREM TypeCorrect == Spec => []TypeOK
<1>1. QInv => TypeOK
  <2> SUFFICES ASSUME QInv PROVE TypeOK
    OBVIOUS
  <2>1. Types
    BY DEF QInv
  <2>2. \A i \in DOMAIN posted : posted[i].from \in Text
    <3>1. TheRequest.from \in Text
      BY QtActionsAssumption DEF TheRequest, Text
    <3>2. \A k \in Calls : k.from \in Text
      BY DEF Calls
    <3>3. \A i \in DOMAIN posted : posted[i] \in Calls \cup {TheRequest}
      BY <2>1 DEF Types
    <3> QED BY <3>1, <3>2, <3>3
  <2>3. \A k \in timers : k.on \in Element /\ k.from \in Text
    BY <2>1 DEF Types, Calls
  <2>4. \A i \in DOMAIN dialogs : dialogs[i] \in {"request", "call"}
    BY <2>1 DEF Types
  <2>5. server = "posted" <=> \E i \in DOMAIN posted : posted[i] = TheRequest
    <3>1. server = "posted" => posted # <<>> /\ posted[Len(posted)] = TheRequest
      BY DEF QInv, Queue
    <3>2. posted # <<>> => Len(posted) \in DOMAIN posted
      BY <2>1 DEF Types
    <3>3. \A i \in DOMAIN posted : posted[i] = TheRequest => server = "posted"
      BY DEF QInv, Queue
    <3> QED BY <3>1, <3>2, <3>3
  <2> QED BY <2>1, <2>2, <2>3, <2>4, <2>5 DEF TypeOK, Types
<1> QED BY <1>1, Invariance, PTL

-----------------------------------------------------------------------------
(***************************************************************************)
(* What AnsweredMeanwhile rests on, but for fairness: the request moves up *)
(* with every event, whatever dialogs are open, there is a handler for it  *)
(* when it comes first, and one that clicks, sets a text or reads replies  *)
(* before code of the application can open a dialog.                       *)
(***************************************************************************)
Unheld == {"Click", "SetText", "GetValue"}

(* At the head of the queue the request finds its element gone, or a        *)
(* handler that acts in one of the known manners.                           *)
HasHandler ==
    server = "posted" /\ nextEvent(TheRequest) =>
        \/ request.on \notin alive \/ (request.action \in ObjectActions /\ request.on \in Item)
        \/ \E how \in {"now", "posted", "timer", "read", "unsupported", "notFound"} :
               Handling({how}) /\ (how = "now" => request.action \notin Unheld)

(* A request that waits: the events before it become fewer with each event  *)
(* that is taken, nothing else changes their number, and none of the        *)
(* unheld is held back by a dialog.                                         *)
ComesNearer ==
    server = "posted" =>
        /\ EventLoop => server' # "posted" \/ Len(posted') < Len(posted)
        /\ ~EventLoop => server' = "posted" /\ request' = request /\ Len(posted') = Len(posted)
        /\ request.action \in Unheld => server' \in {"posted", "replied"}

LEMMA KnownManners ==
  ASSUME NEW a, NEW e
  PROVE  /\ manner(a, e) \in {"now", "posted", "timer", "read", "unsupported", "notFound"}
         /\ a \in Unheld => manner(a, e) # "now"
<1>1. a = "SetText" => manner(a, e) = setText(e)
  BY Zenon DEF manner
<1>2. a = "SetValue" => manner(a, e) = setValue(e)
  BY Zenon DEF manner
<1>3. a = "Click" => manner(a, e) = click(e)
  BY Zenon DEF manner
<1>4. a = "GetValue" => manner(a, e) = "read"
  BY Manners, Zenon
<1>5. /\ toggle(e) \in {"now", "unsupported"} /\ select(e) \in {"now", "unsupported"}
      /\ expand(e) \in {"now", "unsupported"} /\ cell(e, "now") \in {"now", "notFound"}
      /\ cell(e, "read") \in {"read", "notFound"} /\ items(e) \in {"read", "unsupported"}
      /\ treeItem(e) \in {"read", "unsupported"} /\ reads(e) = "read"
  BY DEF toggle, select, expand, cell, items, treeItem, reads
<1>6. a \notin {"SetText", "SetValue", "Click"} =>
        manner(a, e) \in {toggle(e), select(e), expand(e), cell(e, "now"), cell(e, "read"),
                          items(e), treeItem(e), "now", reads(e)}
  BY Zenon DEF manner
<1>7. setText(e) \in {"posted", "timer", "unsupported"}
  BY Zenon DEF setText
<1>8. setValue(e) \in {"posted", "now", "unsupported"}
  BY Zenon DEF setValue
<1>9. click(e) \in {"timer", "unsupported"}
  BY DEF click
<1> QED
  BY <1>1, <1>2, <1>3, <1>4, <1>5, <1>6, <1>7, <1>8, <1>9 DEF Unheld

(* Whatever is asked of whatever kind of element, some handler takes it.    *)
LEMMA AlwaysHandled == HasHandler
BY KnownManners DEF HasHandler, Handling

(* An event that is taken is not put back, and what a handler posts comes   *)
(* after its own request.                                                   *)
LEMMA EventsTaken ==
  ASSUME QInv, server = "posted", EventLoop
  PROVE  /\ server' # "posted" \/ Len(posted') < Len(posted)
         /\ request.action \in Unheld => server' \in {"posted", "replied"}
<1>1. CASE handleUnknown \/ handleRefused \/ handleRead \/ handlePosted \/ handleTimer
  BY <1>1 DEF handleUnknown, handleRefused, handleRead, handlePosted, handleTimer
<1>2. CASE handleNow
  <2>1. manner(request.action, request.on) = "now" /\ server' \in {"replied", "handling"}
    BY <1>2 DEF handleNow, Handling
  <2> QED
    BY <2>1, KnownManners
<1>3. CASE postedCall
  <2>1. posted \in Seq(Calls \cup {TheRequest}) /\ posted # <<>> /\ posted' = Tail(posted)
    BY <1>3 DEF postedCall, QInv, Types
  <2>2. Len(posted') < Len(posted)
    BY <2>1
  <2>3. server' = server
    BY <1>3 DEF postedCall, carryOut, reply
  <2> QED
    BY <2>2, <2>3
<1> QED
  BY <1>1, <1>2, <1>3 DEF EventLoop

(* Nothing else touches the request.                                        *)
LEMMA OthersPass ==
  ASSUME QInv, server = "posted", [Next]_vars, ~EventLoop
  PROVE  server' = "posted" /\ request' = request /\ Len(posted') = Len(posted)
<1>1. CASE timeout
  BY <1>1 DEF timeout, carryOut, reply, pipe
<1>2. CASE processRequestThreadSafe \/ writeMessage
  BY <1>2 DEF processRequestThreadSafe, writeMessage
<1>3. CASE ClosesDialog
  <2>1. dialogs \in Seq({"request", "call"}) /\ dialogs # <<>>
    BY <1>3 DEF ClosesDialog, QInv, Types
  <2>2. Len(dialogs) \in DOMAIN dialogs
    BY <2>1
  <2>3. dialogs[Len(dialogs)] # "request"
    BY <2>2 DEF QInv, Dialogs
  <2> QED
    BY <1>3, <2>3 DEF ClosesDialog, pipe
<1>4. ASSUME NEW e \in Edit, EditsText(e)
      PROVE  server' = "posted" /\ request' = request /\ Len(posted') = Len(posted)
  BY <1>4 DEF EditsText, loop, pipe, reply
<1>5. ASSUME NEW e \in Element, Destroys(e)
      PROVE  server' = "posted" /\ request' = request /\ Len(posted') = Len(posted)
  <2>1. posted \in Seq(Calls \cup {TheRequest})
    BY DEF QInv, Types
  <2>2. posted' = [i \in DOMAIN posted |->
                      IF posted[i] # TheRequest /\ posted[i].on = e
                      THEN Emptied(posted[i]) ELSE posted[i]]
    BY <1>5 DEF Destroys
  <2>3. Len(posted') = Len(posted)
    BY <2>1, <2>2
  <2> QED
    BY <1>5, <2>3 DEF Destroys, pipe, reply
<1>6. CASE UNCHANGED vars
  BY <1>6 DEF vars, loop, pipe, reply
<1> QED
  BY <1>1, <1>2, <1>3, <1>4, <1>5, <1>6 DEF Next

(* A request comes to its handler after two events at most, under any       *)
(* dialogs, and a click, a text or a read is answered there.                *)
THEOREM AlwaysComesNearer == Spec => [][ComesNearer]_vars
<1>1. QInv /\ [Next]_vars => ComesNearer
  <2> SUFFICES ASSUME QInv, [Next]_vars, server = "posted"
               PROVE  /\ EventLoop => server' # "posted" \/ Len(posted') < Len(posted)
                      /\ ~EventLoop => /\ server' = "posted" /\ request' = request
                                       /\ Len(posted') = Len(posted)
                      /\ request.action \in Unheld => server' \in {"posted", "replied"}
    BY DEF ComesNearer
  <2> QED
    BY EventsTaken, OthersPass
<1> QED
  BY <1>1, Invariance, PTL DEF Spec
=============================================================================
