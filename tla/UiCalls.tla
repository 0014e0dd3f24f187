------------------------------- MODULE UiCalls -------------------------------
(***************************************************************************)
(* What a caller of the WPF worker may rely on while the application goes  *)
(* on running: a call reads the user interface at one instant, or changes  *)
(* it at one instant; an element keeps the ID it was first given, and no   *)
(* other element gets it; a call that is refused has changed nothing; OK   *)
(* after SetProperty means that the value was assigned, by this call and   *)
(* once.  What the application's own code does before, during and after    *)
(* that instant is free.                                                   *)
(***************************************************************************)
EXTENDS WpfTree, Naturals

CONSTANTS
    Nobody,     \* no element
    NoRequest, NoReply

VARIABLES
    focus, value,   \* with the trees, the user interface
    names,          \* the ID of each element, 0 before it has one
    request, answer,
    assigned        \* the call has assigned its value, and is not over

ui == <<parent, content, focus, value>>
vars == <<ui, names, request, answer, assigned>>

Init ==
    /\ names = [e \in Element |-> 0]
    /\ request = NoRequest /\ answer = NoReply /\ assigned = FALSE

Pending == request # NoRequest /\ answer = NoReply

Designates(e) == request.id # 0 /\ names[e] = request.id

\* Every element of E has a name afterwards, the others keep theirs or none.
Name(E) ==
    /\ \A e \in Element :
        IF e \in E /\ names[e] = 0 THEN names'[e] # 0 ELSE names'[e] = names[e]
    /\ \A d, e \in Element : names'[d] = names'[e] /\ d # e => names'[d] = 0

AnswerElements(E) ==
    /\ Name(E)
    /\ answer'.code = "OK" /\ answer'.elements = {names'[e] : e \in E}

ApplicationActs == UNCHANGED <<names, request, answer, assigned>>

Ask ==
    /\ request = NoRequest /\ request' # NoRequest
    /\ UNCHANGED <<ui, names, answer, assigned>>

Return ==
    /\ answer # NoReply /\ request' = NoRequest /\ answer' = NoReply
    /\ UNCHANGED <<ui, names, assigned>>

\* NOT_FOUND is only for IDs nobody was given and for members that do not exist.
Refuse ==
    /\ Pending /\ ~assigned /\ ~assigned' /\ answer'.code \notin {"OK", "RUNTIME_ERROR"}
    /\ answer'.code = "NOT_FOUND"
         => \/ \A e \in Element : Designates(e) => e \notin DOMAIN value
            \/ request.arg = "absent" \/ request.action = "RaiseEvent"
    /\ UNCHANGED <<ui, names, request>>

GetWindows ==
    /\ Pending /\ request.action = "GetChildren" /\ request.id = 0
    /\ AnswerElements(OpenWindows)
    /\ UNCHANGED <<ui, request, assigned>>

GetChildren(e) ==
    /\ Pending /\ request.action = "GetChildren" /\ Designates(e)
    /\ AnswerElements(Children(e, request.arg))
    /\ UNCHANGED <<ui, request, assigned>>

GetParent(e) ==
    /\ Pending /\ request.action = "GetParent" /\ Designates(e)
    /\ AnswerElements(Parents(e))
    /\ UNCHANGED <<ui, request, assigned>>

GetFocusedElement ==
    /\ Pending /\ request.action = "GetFocusedElement"
    /\ AnswerElements({focus} \ {Nobody})
    /\ UNCHANGED <<ui, request, assigned>>

GetProperty(e) ==
    /\ Pending /\ request.action = "GetProperty" /\ Designates(e) /\ answer'.code = "OK"
    /\ request.arg = "Text" => answer'.data = value[e]
    /\ UNCHANGED <<ui, names, request, assigned>>

\* The instant of the assignment, after which the application's code runs.
Assign(e) ==
    /\ Pending /\ request.action = "SetProperty" /\ Designates(e)
    /\ ~assigned /\ assigned' = TRUE
    /\ \E v \in {"given", "default"} : value' = [value EXCEPT ![e] = v]
    /\ UNCHANGED <<parent, content, focus, names, request, answer>>

SetProperty ==
    /\ Pending /\ request.action = "SetProperty" /\ answer'.code = "OK"
    /\ assigned /\ assigned' = FALSE
    /\ UNCHANGED <<ui, names, request>>

\* The application's code runs, and the answer comes with its last effect.
RunApplication ==
    /\ Pending /\ request.action \in {"SetFocus", "InvokeMethod", "RaiseEvent"}
    /\ answer'.code = "OK"
    /\ UNCHANGED <<names, request, assigned>>

Describe ==
    /\ Pending /\ request.action \in {"GetTypeName", "GetName", "GetHandle", "GetRectangle",
                                     "GetControlType", "GetProperties"}
    /\ answer'.code = "OK"
    /\ UNCHANGED <<ui, names, request, assigned>>

\* Any call may fail, half way: with elements named, or the value assigned.
Fail ==
    /\ Pending /\ answer'.code = "RUNTIME_ERROR" /\ assigned' = FALSE
    /\ \E E \in SUBSET Element : Name(E)
    /\ UNCHANGED <<ui, request>>

Next ==
    \/ ApplicationActs \/ Ask \/ Return \/ Refuse
    \/ GetWindows \/ GetFocusedElement \/ SetProperty \/ RunApplication \/ Describe \/ Fail
    \/ \E e \in Element : GetChildren(e) \/ GetParent(e) \/ GetProperty(e) \/ Assign(e)

Spec == Init /\ [][Next]_vars
=============================================================================
