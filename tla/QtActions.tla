------------------------------ MODULE QtActions ------------------------------
(***************************************************************************)
(* The commands of the Qt worker: QtHelloServer::processRequest and the    *)
(* handlers that change the application.  All of it runs on the GUI        *)
(* thread, whose event loop takes posted events in order and zero timers   *)
(* whenever they are due.  The pipe thread posts a request and waits for   *)
(* the reply; a handler acts at once, posts a call to the widget, or sets  *)
(* a timer, and what it put off happens after the reply.  The code of the  *)
(* application runs inside all of these and may open a modal dialog, whose *)
(* event loop goes on with the events until the user closes it.            *)
(*                                                                         *)
(* A widget stands for its class.  A request is numbered, and the text it  *)
(* sets is its number.                                                     *)
(***************************************************************************)
EXTENDS Naturals, Sequences, FiniteSets

CONSTANTS
    Edit,       \* QLineEdit and the other classes with a text or a value
    Button,     \* QAbstractButton
    TabBar,     \* QTabBar
    View,       \* QAbstractItemView
    Item,       \* QGraphicsSimpleTextItem
    Actions,    \* actions that are requested
    MaxRequests,\* bound: requests made
    MaxDialogs  \* bound: modal dialogs open at a time

Object == Edit \cup Button \cup TabBar \cup View
Element == Object \cup Item
Text == 0..MaxRequests

\* Handlers that look only among the QObjects, and those that also look among
\* the graphics items.
ObjectActions ==
    {"SetProperty", "InvokeMethod", "Toggle", "Select", "SetFocus", "Expand", "Collapse",
     "SelectCell", "ClickCell", "SetCellValue",
     "GetProperty", "GetItems", "IsExpanded", "GetItemText", "GetSelection", "GetCellInfo"}

ItemActions == {"SetText", "SetValue", "Click", "GetValue", "GetElementInfo", "GetParent"}

ASSUME QtActionsAssumption ==
    /\ MaxRequests \in Nat /\ MaxDialogs \in Nat
    /\ Edit \cap (Button \cup TabBar \cup View \cup Item) = {}
    /\ Button \cap (TabBar \cup View \cup Item) = {}
    /\ TabBar \cap (View \cup Item) = {} /\ View \cap Item = {}
    /\ Actions \subseteq ObjectActions \cup ItemActions

VARIABLES
    alive,      \* elements that exist
    text,       \* text of each Edit and Item; 0 is one of the application's own
    posted,     \* events posted to the GUI thread: the request, or calls
    timers,     \* zero timers: calls
    dialogs,    \* who opened each modal dialog, "request" or "call", outermost first
    request, asked, server, code, answer,
    expected,   \* history: the text the client may count on, 0 for none
    dangled     \* history: elements a call was made on after their destruction

application == <<alive, text>>
loop == <<posted, timers, dialogs>>
pipe == <<request, asked>>
reply == <<server, code, answer>>
history == <<expected, dangled>>
vars == <<application, loop, pipe, reply, history>>

NoRequest == [action |-> "none", on |-> {}]
Call(action, e, n, bound) == [action |-> action, on |-> e, from |-> n, bound |-> bound]
TheRequest == [action |-> "processRequest", on |-> 0, from |-> 0, bound |-> FALSE]

-----------------------------------------------------------------------------
(* How a handler carries out an action on an element: "now", by a call     *)
(* that is "posted" to it, by a "timer", not at all ("read"), or not       *)
(* supported.                                                              *)

\* Mutant: the text of an Edit is set by a timer, as an Item's is.
setTextByTimer(e) ==
    CASE e \in Edit \cup Item -> "timer"
      [] e \in Button         -> "posted"
      [] OTHER                -> "unsupported"

setText(e) ==
    CASE e \in Edit \cup Button -> "posted"
      [] e \in Item             -> "timer"
      [] OTHER                  -> "unsupported"

setValue(e) ==
    CASE e \in Edit            -> "posted"
      [] e \in Button \cup Item -> "now"
      [] OTHER                 -> "unsupported"

\* Mutant: the button is clicked before the reply.
clickNow(e) ==
    CASE e \in Button -> "now"
      [] e \in TabBar -> "timer"
      [] OTHER        -> "unsupported"

click(e) == IF e \in Button \cup TabBar THEN "timer" ELSE "unsupported"

toggle(e) == IF e \in Button THEN "now" ELSE "unsupported"

select(e) == IF e \in Edit THEN "unsupported" ELSE "now"

\* Combo boxes and trees, and what else is asked of a tree by a path.
expand(e) == IF e \in View THEN "now" ELSE "unsupported"

\* tableViewForId yields the view and the cell, or nothing.
cell(e, how) == IF e \in View THEN how ELSE "notFound"

items(e) == IF e \in TabBar \cup View THEN "read" ELSE "unsupported"

treeItem(e) == IF e \in View THEN "read" ELSE "unsupported"

\* Any other property of any object may be asked for.
reads(e) == "read"

manner(action, e) ==
    CASE action = "SetText"                  -> setText(e)
      [] action = "SetValue"                 -> setValue(e)
      [] action = "Click"                    -> click(e)
      [] action = "Toggle"                   -> toggle(e)
      [] action = "Select"                   -> select(e)
      [] action \in {"Expand", "Collapse"}   -> expand(e)
      [] action \in {"SelectCell", "ClickCell", "SetCellValue"} -> cell(e, "now")
      [] action = "GetCellInfo"              -> cell(e, "read")
      [] action = "GetItems"                 -> items(e)
      [] action \in {"IsExpanded", "GetItemText", "GetSelection"} -> treeItem(e)
      [] action \in {"SetProperty", "InvokeMethod", "SetFocus"} -> "now"
      [] OTHER                               -> reads(e)

\* Mutant: no context object for the timer of a button either.
boundToNone(e) == FALSE

\* Posted calls and the timers of QObjects have a context object: they go when
\* it is destroyed.  The lambdas for tab bars and graphics items have none.
boundTo(e) == e \in Edit \cup Button \cup View

-----------------------------------------------------------------------------
(* The application.                                                        *)

\* The user or the application's code changes a text: nobody may count on it.
EditsText(e) ==
    /\ e \in alive /\ text' = [text EXCEPT ![e] = 0]
    /\ expected' = [expected EXCEPT ![e] = 0]
    /\ UNCHANGED <<alive, loop, pipe, reply, dangled>>

\* Events that are removed leave an empty place in the queue.
Emptied(k) == [k EXCEPT !.action = "removed"]

\* ~QObject removes the events posted to it and the timers bound to it.
Destroys(e) ==
    /\ e \in alive /\ alive' = alive \ {e}
    /\ posted' = [i \in DOMAIN posted |->
                     IF posted[i] # TheRequest /\ posted[i].on = e
                     THEN Emptied(posted[i]) ELSE posted[i]]
    /\ timers' = {k \in timers : ~(k.on = e /\ k.bound)}
    /\ UNCHANGED <<text, dialogs, pipe, reply, history>>

\* The opener goes on when its dialog, the innermost, is closed.
ClosesDialog ==
    /\ dialogs # <<>>
    /\ dialogs' = SubSeq(dialogs, 1, Len(dialogs) - 1)
    /\ server' = IF dialogs[Len(dialogs)] = "request" THEN "replied" ELSE server
    /\ UNCHANGED <<application, posted, timers, pipe, code, answer, history>>

\* Code of the application that runs inside an effect may open a dialog.
mayOpenDialog(opener) ==
    \/ UNCHANGED dialogs
    \/ Len(dialogs) < MaxDialogs /\ dialogs' = Append(dialogs, opener)

-----------------------------------------------------------------------------
(* The pipe thread.                                                        *)

\* Mutant: the request is handled ahead of what was posted before it.
queuedFirst(k, events) == <<k>> \o events

\* postEvent().
queued(k, events) == Append(events, k)

\* BlockingQueuedConnection.
processRequestThreadSafe ==
    /\ server = "idle" /\ asked < MaxRequests
    /\ asked' = asked + 1
    /\ \E a \in Actions, e \in Element : request' = [action |-> a, on |-> e]
    /\ posted' = queued(TheRequest, posted)
    /\ server' = "posted"
    /\ UNCHANGED <<application, timers, dialogs, code, answer, history>>

writeMessage ==
    /\ server = "replied"
    /\ server' = "idle" /\ request' = NoRequest /\ code' = "none" /\ answer' = 0
    /\ UNCHANGED <<application, loop, asked, history>>

-----------------------------------------------------------------------------
(* The GUI thread: a request.                                              *)

nextEvent(k) == posted # <<>> /\ k = Head(posted)

Handling(manners) ==
    /\ server = "posted" /\ nextEvent(TheRequest)
    /\ request.on \in alive
    /\ ~(request.action \in ObjectActions /\ request.on \in Item)
    /\ manner(request.action, request.on) \in manners

\* objectForId and gitemForId: the ID of nothing, or not of a QObject.  What an
\* ID of a destroyed graphics item designates is the subject of ObjectStore.
handleUnknown ==
    /\ server = "posted" /\ nextEvent(TheRequest)
    /\ request.on \notin alive \/ (request.action \in ObjectActions /\ request.on \in Item)
    /\ posted' = Tail(posted)
    /\ code' = "NOT_FOUND" /\ server' = "replied"
    /\ UNCHANGED <<application, timers, dialogs, pipe, answer, history>>

\* An index, a cell or a path that is not there, a member that does not exist
\* or is read-only, a tab bar without tabs.
handleRefused ==
    /\ \/ Handling({"unsupported", "notFound", "now", "posted"})
       \/ Handling({"timer"}) /\ request.on \in TabBar
       \/ Handling({"read"}) /\ request.action \in ObjectActions
    /\ posted' = Tail(posted)
    /\ code' \in {"UNSUPPORTED_ACTION", "NOT_FOUND", "INVALID_VALUE"} /\ server' = "replied"
    /\ UNCHANGED <<application, timers, dialogs, pipe, answer, history>>

handleRead ==
    /\ Handling({"read"})
    /\ posted' = Tail(posted)
    /\ code' = "OK" /\ server' = "replied"
    /\ answer' = IF request.on \in DOMAIN text THEN text[request.on] ELSE 0
    /\ UNCHANGED <<application, timers, dialogs, pipe, history>>

\* The text a client may count on after it was told OK.
expects(e) == expected' = [x \in DOMAIN expected |-> IF x = e THEN asked ELSE expected[x]]

setsText(action, e) == action \in {"SetText", "SetValue", "SetProperty"} /\ e \in DOMAIN text

\* A handler that acts at once.  ClickCell selects the cell and posts the signal.
handleNow ==
    /\ Handling({"now"})
    /\ LET e == request.on
       IN  /\ IF setsText(request.action, e)
              THEN text' = [text EXCEPT ![e] = asked] /\ expects(e)
              ELSE UNCHANGED <<text, expected>>
           /\ posted' = IF request.action = "ClickCell"
                        THEN queued(Call("clicked", e, asked, TRUE), Tail(posted))
                        ELSE Tail(posted)
    /\ mayOpenDialog("request")
    /\ server' = IF dialogs' = dialogs THEN "replied" ELSE "handling"
    /\ code' = "OK"
    /\ UNCHANGED <<alive, timers, pipe, answer, dangled>>

\* setQObjectTextOrValue: QMetaObject::invokeMethod, Qt::QueuedConnection.
handlePosted ==
    /\ Handling({"posted"})
    /\ posted' = queued(Call(request.action, request.on, asked, TRUE), Tail(posted))
    /\ expects(request.on)
    /\ code' = "OK" /\ server' = "replied"
    /\ UNCHANGED <<application, timers, dialogs, pipe, answer, dangled>>

\* QTimer::singleShot(0, ...).
handleTimer ==
    /\ Handling({"timer"})
    /\ posted' = Tail(posted)
    /\ timers' = timers \cup {Call(request.action, request.on, asked, boundTo(request.on))}
    /\ IF setsText(request.action, request.on) /\ request.on \in Edit
       THEN expects(request.on) ELSE UNCHANGED expected
    /\ code' = "OK" /\ server' = "replied"
    /\ UNCHANGED <<application, dialogs, pipe, answer, dangled>>

-----------------------------------------------------------------------------
(* The GUI thread: what was put off.                                       *)

carryOut(k) ==
    /\ IF k.on \in alive
       THEN /\ text' = IF setsText(k.action, k.on) THEN [text EXCEPT ![k.on] = k.from] ELSE text
            /\ UNCHANGED dangled
       ELSE dangled' = dangled \cup {k.on} /\ UNCHANGED text
    /\ mayOpenDialog("call")
    /\ UNCHANGED <<alive, pipe, reply, expected>>

postedCall ==
    /\ posted # <<>> /\ Head(posted) # TheRequest
    /\ posted' = Tail(posted)
    /\ IF Head(posted).action = "removed"
       THEN UNCHANGED <<application, dialogs, pipe, reply, history>>
       ELSE carryOut(Head(posted))
    /\ UNCHANGED timers

timeout ==
    /\ \E k \in timers : timers' = timers \ {k} /\ carryOut(k)
    /\ UNCHANGED posted

Init ==
    /\ alive = Element /\ text = [e \in Edit \cup Item |-> 0]
    /\ posted = <<>> /\ timers = {} /\ dialogs = <<>>
    /\ request = NoRequest /\ asked = 0 /\ server = "idle" /\ code = "none" /\ answer = 0
    /\ expected = [e \in Edit |-> 0] /\ dangled = {}

EventLoop ==
    \/ handleUnknown \/ handleRefused \/ handleRead
    \/ handleNow \/ handlePosted \/ handleTimer \/ postedCall

Next ==
    \/ EventLoop \/ timeout
    \/ processRequestThreadSafe \/ writeMessage
    \/ ClosesDialog
    \/ \E e \in Edit : EditsText(e)
    \/ \E e \in Element : Destroys(e)

Spec == Init /\ [][Next]_vars

\* The event loop, a nested one included, goes on with its posted events.
\* Nobody has to close a dialog.
FairSpec == Spec /\ WF_vars(EventLoop)

-----------------------------------------------------------------------------
(* Properties.                                                             *)

\* The variables have the types of what they stand for.
TypeOK ==
    /\ alive \subseteq Element /\ text \in [Edit \cup Item -> Text]
    /\ \A i \in DOMAIN posted : posted[i].from \in Text
    /\ \A k \in timers : k.on \in Element /\ k.from \in Text
    /\ \A i \in DOMAIN dialogs : dialogs[i] \in {"request", "call"}
    /\ server \in {"idle", "posted", "handling", "replied"} /\ answer \in Text
    /\ asked \in Text /\ expected \in [Edit -> Text] /\ dangled \subseteq Element
    /\ server = "posted" <=> \E i \in DOMAIN posted : posted[i] = TheRequest

\* A client that was told OK for a text it gave an edit field reads that text
\* back, although the field is only changed after the reply: the call that
\* changes it is posted before the next request can be.
ReadsOwnWrites ==
    (server = "replied" /\ request.action = "GetValue" /\ code = "OK" /\ request.on \in Edit)
        => expected[request.on] \in {0, answer}

\* By the time a request is acted on, whatever earlier requests had posted has
\* happened: only what a timer puts off may be overtaken by a later command.
CommandsInOrder ==
    server \in {"replied", "handling"} =>
        \A i \in DOMAIN posted : posted[i].from = asked

\* No call that a handler put off is made on a widget that was destroyed
\* between the reply and the call, tab bars and graphics items apart.
PutOffSafely == dangled \cap (Edit \cup Button \cup View) = {}

\* A click is acknowledged although the application opens a modal dialog when
\* it is clicked, and so is every later request that calls no code of the
\* application: GetValue is answered while the dialog is up.
AnsweredMeanwhile ==
    (server = "posted" /\ request.action \in {"Click", "SetText", "GetValue"})
        ~> (server = "replied")
=============================================================================
