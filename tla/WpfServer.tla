------------------------------ MODULE WpfServer ------------------------------
(***************************************************************************)
(* The requests of the .NET worker: WPFControlsHandler.ProcessRequest and  *)
(* the actions it runs.  A request is checked on the thread that serves    *)
(* the pipe; the part of an action that touches controls is a delegate     *)
(* that Dispatcher.Invoke has the UI thread run between two things the     *)
(* application does; the reply is serialised on the server's thread again. *)
(* A delegate may run handlers and setters of the application: they change *)
(* what they like, throw, or open a modal dialog, and the application goes *)
(* on meanwhile.  Getters are taken to have no effect, but may throw.      *)
(*                                                                         *)
(* A control stands for its type, its members and its place in the tree; a *)
(* request for its action, its element_id and the kind of its arguments.   *)
(***************************************************************************)
EXTENDS WpfTree, Integers, FiniteSets

CONSTANTS
    Windows,    \* Windows of the application
    Editable,   \* those with the property a SetProperty request names
    Nobody,
    Owners      \* numbers of base types that own an event of the name given

ASSUME WpfAssumption ==
    /\ Visual \subseteq Element /\ Windows \subseteq Visual /\ Editable \subseteq Element
    /\ Holders \subseteq Visual \ Windows
    /\ Nobody \notin Element /\ "data" \notin Element
    /\ Owners \subseteq Nat /\ IsFiniteSet(Element)

VARIABLES
    focus, value,   \* with the trees, the user interface
    IdGenerator,    \* ObjectIDGenerator: control -> id, 0 before the first GetId
    KnownControls,  \* Dictionary<long, T>: id -> control
    server,         \* where the server's thread is
    request, reply,
    inputElem,      \* local of WPFGetFocusedElement.Run
    owners,         \* base types WPFRaiseEvent.Run has yet to look at
    modal           \* code of the application that the delegate runs is in a modal dialog

ui == <<parent, content, focus, value>>
storage == <<IdGenerator, KnownControls>>
locals == <<inputElem, owners, modal>>
vars == <<ui, storage, server, request, reply, locals>>

NoRequest == [action |-> "none", id |-> 0, arg |-> "none"]
NoReply == [code |-> "none", elements |-> {}, data |-> "none"]

Reply(code, elements, data) == [code |-> code, elements |-> elements, data |-> data]
Status(code) == Reply(code, {}, "none")

-----------------------------------------------------------------------------
(* The application, on its UI thread.                                      *)

\* A window is open or closed, another visual is in a window or a holder, or unloaded.
Places(e) ==
    {Nobody} \cup (IF e \in Windows THEN {"Application"}
                  ELSE IF e \in Visual THEN Windows \cup (Holders \ {e}) ELSE {})

Contents == SUBSET ((Element \ Windows) \cup {"data"})

\* One effect of a handler of the application: it loads or unloads a control, gives
\* a holder something else to show, moves the keyboard focus, or assigns the property.
handler ==
    \/ /\ \E e \in Element : \E p \in Places(e) : parent' = [parent EXCEPT ![e] = p]
       /\ UNCHANGED <<content, focus, value>>
    \/ /\ \E e \in Holders : \E shown \in Contents :
              e \notin shown /\ content' = [content EXCEPT ![e] = shown]
       /\ UNCHANGED <<parent, focus, value>>
    \/ focus' \in Visual \cup {Nobody} /\ UNCHANGED <<parent, content, value>>
    \/ /\ \E e \in Editable : value' = [value EXCEPT ![e] = "initial"]
       /\ UNCHANGED <<parent, content, focus>>

ApplicationActs == handler /\ UNCHANGED <<storage, server, request, reply, locals>>

-----------------------------------------------------------------------------
(* ControlsStorage.                                                        *)

GetControl(id) == IF id \in DOMAIN KnownControls THEN KnownControls[id] ELSE Nobody

Named == {e \in Element : IdGenerator[e] # 0}

\* The orders in which RegisterControl may number the controls of E.
Numberings(E) ==
    LET n == Cardinality(Named)
    IN  {f \in [E -> n + 1 .. n + Cardinality(E)] : \A d, e \in E : f[d] = f[e] => d = e}

\* Mutant: ControlsStorage.GetId in its place.
registerOnlyId(f) ==
    /\ IdGenerator' = [e \in Element |-> IF e \in DOMAIN f THEN f[e] ELSE IdGenerator[e]]
    /\ UNCHANGED KnownControls

addAll(f) ==
    /\ IdGenerator' = [e \in Element |-> IF e \in DOMAIN f THEN f[e] ELSE IdGenerator[e]]
    /\ KnownControls' =
        [id \in DOMAIN KnownControls \cup {f[e] : e \in DOMAIN f} |->
            IF id \in DOMAIN KnownControls THEN KnownControls[id]
            ELSE CHOOSE e \in DOMAIN f : f[e] = id]

\* RegisterControl of each control of E.
RegisterControls(E) == \E f \in Numberings(E \ Named) : addAll(f)

\* The reply after them.
ElementsReply(E) == reply' = Reply("OK", {IdGenerator'[e] : e \in E}, "none")

-----------------------------------------------------------------------------
(* The server's thread, up to Dispatcher.Invoke.                           *)

Ids == {-1} \cup 0..Cardinality(Element) + 1

Reads == {"GetParent", "GetTypeName", "GetName", "GetHandle", "GetRectangle",
          "GetControlType", "GetProperties"}
Members == {"GetProperty", "SetProperty", "InvokeMethod", "RaiseEvent"}

Arguments(action) ==
    CASE action = "GetChildren"  -> {"custom", "visual", "logical"}
      [] action = "GetProperty"  -> {"Text", "Items", "absent"}
      [] action = "SetProperty"  -> {"value", "null", "absent"}
      [] action = "InvokeMethod" -> {"existing", "absent"}
      [] action = "RaiseEvent"   -> {"event"}
      [] OTHER                   -> {"none"}

\* Requests that fail before an action runs, and those that reach one.
Request ==
    [action : {"notJson", "notAnObject", "noAction", "unknownAction", "missingParam", "wrongType"},
     id : {0}, arg : {"none"}]
    \cup [action : {"GetFocusedElement"}, id : {0}, arg : {"none"}]
    \cup UNION {[action : {a}, id : Ids, arg : Arguments(a)] :
                a \in {"GetChildren", "SetFocus"} \cup Reads \cup Members}

readRequest ==
    /\ server = "idle"
    /\ request' \in Request
    /\ server' = "checking"
    /\ UNCHANGED <<ui, storage, reply, locals>>

\* Mutant: the casts of SetFocus and RaiseEvent are not checked.
checkRequestNoCast ==
    CASE request.action = "notJson"       -> "PARSE_ERROR"
      [] request.action \in {"notAnObject", "wrongType"} -> "RUNTIME_ERROR"
      [] request.action \in {"noAction", "missingParam"} -> "MISSING_PARAM"
      [] request.action = "unknownAction" -> "UNSUPPORTED_ACTION"
      [] request.action = "GetFocusedElement" -> "OK"
      [] request.action = "GetChildren" /\ request.id = 0 -> "OK"
      [] request.id < 1                   -> "INVALID_VALUE"
      [] GetControl(request.id) = Nobody  -> "NOT_FOUND"
      [] OTHER                            -> "OK"

\* CheckParamExists, CheckValidControlId and the dispatch of ProcessRequest; the
\* binder throws when the action or the element_id is a JSON value of another type.
\* "OK" lets the action go on.
checkRequest ==
    CASE request.action = "notJson"       -> "PARSE_ERROR"
      [] request.action \in {"notAnObject", "wrongType"} -> "RUNTIME_ERROR"
      [] request.action \in {"noAction", "missingParam"} -> "MISSING_PARAM"
      [] request.action = "unknownAction" -> "UNSUPPORTED_ACTION"
      [] request.action = "GetFocusedElement" -> "OK"
      [] request.action = "GetChildren" /\ request.id = 0 -> "OK"
      [] request.id < 1                   -> "INVALID_VALUE"
      [] GetControl(request.id) = Nobody  -> "NOT_FOUND"
      [] request.action \in {"SetFocus", "RaiseEvent"} /\ GetControl(request.id) \notin Visual
                                          -> "UNSUPPORTED_ACTION"
      [] OTHER                            -> "OK"

\* Answers that take no delegate: the name of the type, and the handle and the
\* rectangle of what has none.
answersAlone ==
    \/ request.action = "GetTypeName"
    \/ request.action \in {"GetHandle", "GetRectangle"} /\ GetControl(request.id) \notin Visual

\* RaiseEvent looks through the base types for one that owns such an event.
ProcessRequest ==
    /\ server = "checking"
    /\ \/ /\ checkRequest # "OK"
          /\ reply' = Status(checkRequest) /\ server' = "replying" /\ UNCHANGED owners
       \/ /\ checkRequest = "OK" /\ answersAlone
          /\ reply' = Reply("OK", {}, "plain") /\ server' = "replying" /\ UNCHANGED owners
       \/ /\ checkRequest = "OK" /\ request.action = "RaiseEvent"
          /\ \E n \in Owners :
                /\ owners' = n
                /\ IF n = 0 THEN reply' = Status("NOT_FOUND") /\ server' = "replying"
                   ELSE server' = "invoking" /\ UNCHANGED reply
       \/ /\ checkRequest = "OK" /\ ~answersAlone /\ request.action # "RaiseEvent"
          /\ server' = "invoking" /\ UNCHANGED <<reply, owners>>
    /\ UNCHANGED <<ui, storage, request, inputElem, modal>>

-----------------------------------------------------------------------------
(* The delegates, on the UI thread.                                        *)

c == GetControl(request.id)

Invoked(action) == server = "invoking" /\ ~modal /\ request.action = action

found == IF request.id = 0 THEN OpenWindows ELSE Children(c, request.arg)

GetChildren ==
    /\ Invoked("GetChildren")
    /\ RegisterControls(found) /\ ElementsReply(found)
    /\ server' = "replying"
    /\ UNCHANGED <<ui, request, locals>>

GetParent ==
    /\ Invoked("GetParent")
    /\ RegisterControls(Parents(c)) /\ ElementsReply(Parents(c))
    /\ server' = "replying"
    /\ UNCHANGED <<ui, request, locals>>

GetFocusedElement ==
    /\ Invoked("GetFocusedElement")
    /\ inputElem' = focus
    /\ server' = "focused"
    /\ UNCHANGED <<ui, storage, request, reply, owners, modal>>

\* Mutant: the focus is asked for again on the server's thread.
RegisterFocusedAgain ==
    /\ server = "focused"
    /\ RegisterControls({focus} \ {Nobody}) /\ ElementsReply({focus} \ {Nobody})
    /\ inputElem' = Nobody
    /\ server' = "replying"
    /\ UNCHANGED <<ui, request, owners, modal>>

\* Mutant: there is only a reply when an element has the focus.
RegisterFocusedOnly ==
    /\ server = "focused" /\ inputElem # Nobody
    /\ RegisterControls({inputElem}) /\ ElementsReply({inputElem})
    /\ inputElem' = Nobody
    /\ server' = "replying"
    /\ UNCHANGED <<ui, request, owners, modal>>

\* Back on the server's thread: the focus may have moved since.
RegisterFocused ==
    /\ server = "focused"
    /\ RegisterControls({inputElem} \ {Nobody}) /\ ElementsReply({inputElem} \ {Nobody})
    /\ inputElem' = Nobody
    /\ server' = "replying"
    /\ UNCHANGED <<ui, request, owners, modal>>

\* A collection stays in the reply as a reference to the application's object.
GetProperty ==
    /\ Invoked("GetProperty")
    /\ reply' = CASE request.arg = "Items" -> Reply("OK", {}, "collection")
                  [] request.arg = "Text" /\ c \in Editable -> Reply("OK", {}, value[c])
                  [] OTHER -> Status("NOT_FOUND")
    /\ server' = "replying"
    /\ UNCHANGED <<ui, storage, request, locals>>

describes(action) ==
    /\ Invoked(action)
    /\ reply' = Reply("OK", {}, "plain") /\ server' = "replying"
    /\ UNCHANGED <<ui, storage, request, locals>>

GetHandle == describes("GetHandle")

GetRectangle == describes("GetRectangle")

GetControlType == describes("GetControlType")

GetName == describes("GetName")

GetProperties == describes("GetProperties")

assign(v) == value' = [value EXCEPT ![c] = v]

\* A value that could not be converted is assigned all the same, and its reply
\* UNSUPPORTED_TYPE overwritten; null is the default of a value type.  SetValue runs
\* code of the application, which goes on from here.
SetProperty ==
    /\ Invoked("SetProperty")
    /\ IF c \in Editable /\ request.arg # "absent"
       THEN /\ assign(IF request.arg = "null" THEN "default" ELSE "given")
            /\ server' = "setting" /\ UNCHANGED reply
       ELSE /\ reply' = Status("NOT_FOUND") /\ server' = "replying"
            /\ UNCHANGED value
    /\ UNCHANGED <<parent, content, focus, storage, request, locals>>

\* Coercion, setters and handlers of the change have had their effects, or have thrown.
SetterReturns ==
    /\ server = "setting" /\ ~modal
    /\ reply' \in {Status("OK"), Status("RUNTIME_ERROR")} /\ server' = "replying"
    /\ UNCHANGED <<ui, storage, request, locals>>

-----------------------------------------------------------------------------
(* Delegates that run code of the application.                             *)

Runs == \E a \in {"RaiseEvent", "InvokeMethod", "SetFocus"} : Invoked(a)

\* Keyboard.Focus may be refused, by the control or by a handler.
SetFocus ==
    /\ request.action = "SetFocus" /\ focus' = c
    /\ UNCHANGED <<parent, content, value>>

\* RaiseEvent goes on to the next base type.
delegateEnds ==
    \/ /\ owners > 1 /\ owners' = owners - 1
       /\ UNCHANGED <<reply, server>>
    \/ /\ owners <= 1 /\ owners' = 0
       /\ IF request.action = "InvokeMethod"
          THEN \E d \in {"plain", "collection"} : reply' = Reply("OK", {}, d)
          ELSE reply' = Status("OK")
       /\ server' = "replying"

RunHandlers ==
    /\ Runs /\ request.arg # "absent"
    /\ SetFocus \/ handler \/ UNCHANGED ui
    /\ delegateEnds
    /\ UNCHANGED <<storage, request, inputElem, modal>>

\* ShowDialog in the application's code: a nested message loop.
OpenDialog ==
    /\ ~modal /\ modal' = TRUE
    /\ (Runs /\ request.arg # "absent") \/ server = "setting"
    /\ UNCHANGED <<ui, storage, server, request, reply, inputElem, owners>>

CloseDialog ==
    /\ modal /\ modal' = FALSE
    /\ UNCHANGED <<ui, storage, server, request, reply, inputElem, owners>>

\* Invoke throws: there is no Application, its dispatcher shuts down, the control
\* belongs to another thread, the method does not exist, a property is there twice,
\* or code of the application throws.  GetChildren may have come half way.
DelegateFails ==
    /\ server = "invoking" /\ ~modal
    /\ \E E \in SUBSET (IF request.action = "GetChildren" THEN found ELSE {}) : RegisterControls(E)
    /\ reply' = Status("RUNTIME_ERROR") /\ server' = "replying" /\ owners' = 0
    /\ UNCHANGED <<ui, request, inputElem, modal>>

-----------------------------------------------------------------------------
(* The reply, on the server's thread.                                      *)

sendReply ==
    /\ server = "replying"
    /\ server' = "idle" /\ request' = NoRequest /\ reply' = NoReply
    /\ UNCHANGED <<ui, storage, locals>>

\* SerializeObject walks a collection of the application while the UI thread
\* may be changing it, and its elements may belong to that thread.  It is not
\* inside the try of ProcessRequest: the exception ends Server.Start.
serializeThrows ==
    /\ server = "replying" /\ reply.data = "collection"
    /\ server' = "ended"
    /\ UNCHANGED <<ui, storage, request, reply, locals>>

Init ==
    /\ parent = [e \in Element |-> Nobody] /\ content = [e \in Holders |-> {}]
    /\ focus = Nobody /\ value = [e \in Editable |-> "initial"]
    /\ IdGenerator = [e \in Element |-> 0]
    /\ KnownControls = [id \in {} |-> Nobody]
    /\ server = "idle" /\ request = NoRequest /\ reply = NoReply
    /\ inputElem = Nobody /\ owners = 0 /\ modal = FALSE

Delegates ==
    \/ GetChildren \/ GetParent \/ GetFocusedElement \/ GetProperty
    \/ GetHandle \/ GetRectangle \/ GetControlType \/ GetName \/ GetProperties
    \/ SetProperty \/ SetterReturns \/ RunHandlers \/ DelegateFails

ServerThread == ProcessRequest \/ RegisterFocused \/ sendReply \/ serializeThrows

Next ==
    \/ ApplicationActs \/ readRequest \/ ServerThread \/ Delegates
    \/ OpenDialog \/ CloseDialog

Spec == Init /\ [][Next]_vars

\* The server's thread is scheduled, and the application's message loop goes
\* on dispatching; nobody has to close a dialog.
Fairness == WF_vars(ServerThread) /\ WF_vars(Delegates)

FairSpec == Spec /\ Fairness

-----------------------------------------------------------------------------
(* Properties.                                                             *)

\* The variables have the types of the C# members and locals they stand for.
TypeOK ==
    /\ \A e \in Element : parent[e] \in Places(e)
    /\ content \in [Holders -> Contents]
    /\ focus \in Visual \cup {Nobody}
    /\ value \in [Editable -> {"initial", "given", "default"}]
    /\ IdGenerator \in [Element -> Nat]
    /\ DOMAIN KnownControls \subseteq Nat /\ KnownControls \in [DOMAIN KnownControls -> Element]
    /\ server \in {"idle", "checking", "invoking", "setting", "focused", "replying", "ended"}
    /\ request \in Request \cup {NoRequest}
    /\ reply.elements \subseteq Nat \ {0}
    /\ inputElem \in Visual \cup {Nobody} /\ owners \in Nat /\ modal \in BOOLEAN

\* An ID that a reply names, or has ever named, is found again by GetControl
\* and designates the control it was given for: ObjectIDGenerator and
\* KnownControls agree on every control, whichever thread registered it.
IdsResolve ==
    /\ \A e \in Element : IdGenerator[e] # 0 => GetControl(IdGenerator[e]) = e
    /\ \A id \in reply.elements : GetControl(id) # Nobody

\* A request gets its reply, whatever the application does meanwhile, unless
\* its code has opened a dialog, or the reply could not be serialised.
Replied == (server = "checking") ~> (server \in {"idle", "ended"} \/ modal)

\* Every delegate reads or assigns at the instant the UI thread runs it, and the
\* focused element is named as of the instant it was read: the calls are those of
\* UiCalls, although each is several steps on two threads, with code of the
\* application in between.
Focused == {inputElem} \ {Nobody}

pendingIds ==
    IF server = "focused" /\ ~(Focused \subseteq Named)
    THEN [IdGenerator EXCEPT ![inputElem] = Cardinality(Named) + 1]
    ELSE IdGenerator

UiCalls == INSTANCE UiCalls WITH
    names <- pendingIds, assigned <- server = "setting",
    answer <- IF server = "focused" THEN Reply("OK", {pendingIds[e] : e \in Focused}, "none")
              ELSE reply

ImplementsUiCalls == UiCalls!Spec
=============================================================================
