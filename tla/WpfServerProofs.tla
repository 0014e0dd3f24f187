--------------------------- MODULE WpfServerProofs ----------------------------
(***************************************************************************)
(* Machine-checked facts about the IDs of the WPF worker, for any finite   *)
(* number of controls.                                                     *)
(***************************************************************************)
EXTENDS WpfServer, FiniteSetTheorems, TLAPS

USE DEF ui, storage, locals

-----------------------------------------------------------------------------
(***************************************************************************)
(* ObjectIDGenerator has given out the IDs from 1 on, and KnownControls    *)
(* has each of them for the control that got it.                           *)
(***************************************************************************)
Tables ==
    /\ IdGenerator \in [Element -> Nat]
    /\ \A e \in Named : IdGenerator[e] <= Cardinality(Named)
    /\ DOMAIN KnownControls = {IdGenerator[e] : e \in Named}
    /\ \A e \in Named : KnownControls[IdGenerator[e]] = e

\* What a reply names is known.
RepliesKnown == reply.elements \subseteq DOMAIN KnownControls

\* What has the focus, or had it, is a control.
FocusKnown == focus \in Element \cup {Nobody} /\ inputElem \in Element \cup {Nobody}

StorageInv == Tables /\ RepliesKnown

\* Nothing is lost, and nothing renamed.
Grown == \A e \in Named : e \in Named' /\ IdGenerator'[e] = IdGenerator[e]

LEMMA NamedFinite == IsFiniteSet(Named) /\ Cardinality(Named) \in Nat
<1>1. IsFiniteSet(Named)
  BY WpfAssumption, FS_Subset DEF Named
<1> QED
  BY <1>1, FS_CardinalityType

\* A new control gets an ID above all those given out.
LEMMA Registers == ASSUME Tables, NEW E \in SUBSET Element, RegisterControls(E)
                   PROVE  Tables' /\ Grown /\ Named' = Named \cup E
<1> DEFINE n == Cardinality(Named)
           New == E \ Named
<1>1. PICK f \in Numberings(New) : addAll(f)
  BY DEF RegisterControls
<1>2. n \in Nat /\ IsFiniteSet(New) /\ Cardinality(New) \in Nat /\ IsFiniteSet(Named)
  <2>1. IsFiniteSet(New)
    BY WpfAssumption, FS_Subset
  <2> QED
    BY <2>1, NamedFinite, FS_CardinalityType
<1>3. /\ f \in [New -> n + 1 .. n + Cardinality(New)]
      /\ \A d, e \in New : f[d] = f[e] => d = e
  BY <1>1 DEF Numberings
<1>4. \A e \in New : f[e] \in Nat /\ f[e] > n /\ f[e] <= n + Cardinality(New)
  <2> SUFFICES ASSUME NEW e \in New
               PROVE  f[e] \in Nat /\ f[e] > n /\ f[e] <= n + Cardinality(New)
    OBVIOUS
  <2>1. f[e] \in n + 1 .. n + Cardinality(New)
    BY <1>3
  <2> HIDE DEF n, New
  <2> QED
    BY <1>2, <2>1
<1> HIDE DEF n
<1>5. DOMAIN f = New
  BY <1>3
<1>6. IdGenerator' = [e \in Element |-> IF e \in New THEN f[e] ELSE IdGenerator[e]]
  BY <1>1, <1>5 DEF addAll
<1>7. IdGenerator' \in [Element -> Nat]
  BY <1>4, <1>6 DEF Tables
<1>8. \A e \in New : IdGenerator'[e] = f[e] /\ IdGenerator'[e] # 0
  BY <1>2, <1>4, <1>6
<1>9. \A e \in Element \ New : IdGenerator'[e] = IdGenerator[e]
  BY <1>6
<1>10. Named' = Named \cup New
  BY <1>8, <1>9 DEF Named
<1>11. Cardinality(Named') = n + Cardinality(New)
  <2>1. Named \cap New = {}
    OBVIOUS
  <2>2. Cardinality(Named \cup New) = Cardinality(Named) + Cardinality(New) - Cardinality({})
    BY <1>2, <2>1, FS_Union
  <2> QED
    BY <1>2, <1>10, <2>2, FS_EmptySet DEF n
<1>12. \A e \in Named : IdGenerator[e] \in Nat /\ IdGenerator[e] <= n
  BY DEF Tables, n, Named
<1>13. Grown
  BY <1>9, <1>10 DEF Grown, Named
<1>14. \A e \in Named' : IdGenerator'[e] <= Cardinality(Named')
  <2>1. ASSUME NEW e \in Named PROVE IdGenerator'[e] <= Cardinality(Named')
    BY <1>2, <1>11, <1>12, <1>13, <2>1 DEF Grown
  <2>2. ASSUME NEW e \in New PROVE IdGenerator'[e] <= Cardinality(Named')
    BY <1>4, <1>8, <1>11, <2>2
  <2> QED
    BY <1>10, <2>1, <2>2
<1>15. KnownControls' = [id \in DOMAIN KnownControls \cup {f[e] : e \in New} |->
                            IF id \in DOMAIN KnownControls THEN KnownControls[id]
                            ELSE CHOOSE e \in New : f[e] = id]
  BY <1>1, <1>5 DEF addAll
<1>16. DOMAIN KnownControls' = {IdGenerator'[e] : e \in Named'}
  <2>1. DOMAIN KnownControls = {IdGenerator'[e] : e \in Named}
    BY <1>13 DEF Tables, Grown
  <2>2. {f[e] : e \in New} = {IdGenerator'[e] : e \in New}
    BY <1>8
  <2> QED
    BY <1>10, <1>15, <2>1, <2>2
<1>17. ASSUME NEW e \in Named' PROVE KnownControls'[IdGenerator'[e]] = e
  <2>1. CASE e \in Named
    <3>1. IdGenerator'[e] = IdGenerator[e] /\ IdGenerator[e] \in DOMAIN KnownControls
      BY <1>13, <2>1 DEF Grown, Tables
    <3> QED
      BY <1>15, <2>1, <3>1 DEF Tables
  <2>2. CASE e \in New
    <3>1. IdGenerator'[e] = f[e] /\ f[e] \in {f[d] : d \in New}
      BY <1>8, <2>2
    <3>2. f[e] \notin DOMAIN KnownControls
      <4>1. \A d \in Named : IdGenerator[d] # f[e]
        BY <1>2, <1>4, <1>12, <2>2
      <4> QED
        BY <4>1 DEF Tables
    <3>3. (CHOOSE d \in New : f[d] = f[e]) = e
      BY <1>3, <2>2
    <3> QED
      BY <1>15, <3>1, <3>2, <3>3
  <2> QED
    BY <1>10, <2>1, <2>2
<1> QED
  BY <1>7, <1>10, <1>13, <1>14, <1>16, <1>17 DEF Tables

\* The reply of an action that registers names what it has registered.
LEMMA RegistersAndReplies ==
    ASSUME StorageInv, NEW E \in SUBSET Element, RegisterControls(E), ElementsReply(E)
    PROVE  StorageInv'
<1>1. Tables' /\ Named' = Named \cup E
  BY Registers DEF StorageInv
<1>2. reply'.elements = {IdGenerator'[e] : e \in E}
  BY DEF ElementsReply, Reply
<1> QED
  BY <1>1, <1>2 DEF StorageInv, RepliesKnown, Tables

\* Every other reply names nothing.
LEMMA NamesNothing == ASSUME StorageInv, UNCHANGED <<IdGenerator, KnownControls>>,
                             reply' = reply \/ reply'.elements = {}
                      PROVE  StorageInv'
BY DEF StorageInv, Tables, RepliesKnown, Named

LEMMA EmptyReplies == /\ \A code : Status(code).elements = {}
                      /\ \A code, data : Reply(code, {}, data).elements = {}
                      /\ NoReply.elements = {}
BY DEF Status, Reply, NoReply

LEMMA Found == ASSUME Tables, NEW id
               PROVE  GetControl(id) \in Element \cup {Nobody}
BY DEF Tables, GetControl, Named

\* What the UI thread finds in the trees is made of controls.
LEMMA FoundControls == found \subseteq Element /\ Parents(c) \subseteq Element
BY DEF found, OpenWindows, Parents, Children, visualChildren, customChildren, logicalChildren, held

LEMMA NextFocus == Tables /\ FocusKnown /\ [Next]_vars => FocusKnown'
<1> SUFFICES ASSUME Tables, FocusKnown, [Next]_vars PROVE FocusKnown'
  OBVIOUS
<1>1. Nobody \notin Element /\ Visual \subseteq Element
  BY WpfAssumption
<1> USE DEF FocusKnown
<1>2. CASE ApplicationActs
  BY <1>1, <1>2 DEF ApplicationActs, handler
<1>3. CASE readRequest \/ ProcessRequest \/ sendReply \/ serializeThrows \/ UNCHANGED vars
  BY <1>3 DEF readRequest, ProcessRequest, sendReply, serializeThrows, vars
<1>4. CASE GetChildren \/ GetParent \/ GetFocusedElement \/ RegisterFocused
  BY <1>4 DEF GetChildren, GetParent, GetFocusedElement, RegisterFocused
<1>5. CASE GetProperty \/ SetProperty \/ SetterReturns \/ DelegateFails
  BY <1>5 DEF GetProperty, SetProperty, SetterReturns, DelegateFails
<1>6. CASE GetHandle \/ GetRectangle \/ GetControlType \/ GetName \/ GetProperties
  BY <1>6 DEF GetHandle, GetRectangle, GetControlType, GetName, GetProperties, describes
<1>7. CASE RunHandlers
  BY <1>1, <1>7, Found DEF RunHandlers, SetFocus, handler, c
<1>8. CASE OpenDialog \/ CloseDialog
  BY <1>8 DEF OpenDialog, CloseDialog
<1> QED
  BY <1>2, <1>3, <1>4, <1>5, <1>6, <1>7, <1>8 DEF Next, ServerThread, Delegates

LEMMA NextStorage == StorageInv /\ FocusKnown /\ [Next]_vars => StorageInv'
<1> SUFFICES ASSUME StorageInv, FocusKnown, [Next]_vars PROVE StorageInv'
  OBVIOUS
<1>1. CASE ApplicationActs \/ readRequest \/ OpenDialog \/ CloseDialog \/ UNCHANGED vars
  BY <1>1, NamesNothing DEF ApplicationActs, readRequest, OpenDialog, CloseDialog, vars
<1>2. CASE ProcessRequest
  <2>1. reply' = reply \/ reply' = Reply("OK", {}, "plain") \/ \E code : reply' = Status(code)
    BY <1>2 DEF ProcessRequest
  <2> QED
    BY <1>2, <2>1, NamesNothing, EmptyReplies DEF ProcessRequest
<1>3. CASE GetChildren
  <2>1. found \in SUBSET Element /\ RegisterControls(found) /\ ElementsReply(found)
    BY <1>3, FoundControls DEF GetChildren
  <2> QED
    BY <2>1, RegistersAndReplies
<1>4. CASE GetParent
  <2>1. /\ Parents(c) \in SUBSET Element
        /\ RegisterControls(Parents(c)) /\ ElementsReply(Parents(c))
    BY <1>4, FoundControls DEF GetParent
  <2> QED
    BY <2>1, RegistersAndReplies
<1>5. CASE GetFocusedElement
  BY <1>5, NamesNothing DEF GetFocusedElement
<1>6. CASE RegisterFocused
  <2>1. {inputElem} \ {Nobody} \in SUBSET Element
    BY DEF FocusKnown
  <2>2. RegisterControls({inputElem} \ {Nobody}) /\ ElementsReply({inputElem} \ {Nobody})
    BY <1>6 DEF RegisterFocused
  <2> QED
    BY <2>1, <2>2, RegistersAndReplies
<1>7. CASE GetProperty
  <2>1. \/ reply' = Reply("OK", {}, "collection")
        \/ reply' = Reply("OK", {}, value[c]) \/ \E code : reply' = Status(code)
    BY <1>7 DEF GetProperty
  <2> QED
    BY <1>7, <2>1, NamesNothing, EmptyReplies DEF GetProperty
<1>8. CASE GetHandle \/ GetRectangle \/ GetControlType \/ GetName \/ GetProperties
  <2>1. PICK action : describes(action)
    BY <1>8 DEF GetHandle, GetRectangle, GetControlType, GetName, GetProperties
  <2> QED
    BY <2>1, NamesNothing, EmptyReplies DEF describes
<1>9. CASE SetProperty \/ SetterReturns
  <2>1. reply' = reply \/ \E code : reply' = Status(code)
    BY <1>9 DEF SetProperty, SetterReturns
  <2> QED
    BY <1>9, <2>1, NamesNothing, EmptyReplies DEF SetProperty, SetterReturns
<1>10. CASE DelegateFails
  <2>1. PICK E \in SUBSET Element : RegisterControls(E)
    BY <1>10, FoundControls DEF DelegateFails
  <2>2. Tables'
    BY <2>1, Registers DEF StorageInv
  <2>3. reply'.elements = {}
    BY <1>10, EmptyReplies DEF DelegateFails
  <2> QED
    BY <2>2, <2>3 DEF StorageInv, RepliesKnown
<1>11. CASE RunHandlers
  <2>1. \/ reply' = reply \/ \E d : reply' = Reply("OK", {}, d)
        \/ \E code : reply' = Status(code)
    BY <1>11 DEF RunHandlers, delegateEnds
  <2> QED
    BY <1>11, <2>1, NamesNothing, EmptyReplies DEF RunHandlers
<1>12. CASE sendReply \/ serializeThrows
  BY <1>12, NamesNothing, EmptyReplies DEF sendReply, serializeThrows
<1> QED
  BY <1>1, <1>2, <1>3, <1>4, <1>5, <1>6, <1>7, <1>8, <1>9, <1>10, <1>11, <1>12
  DEF Next, ServerThread, Delegates

LEMMA InitTables == Init => Tables
<1>1. Init => Named = {}
  BY DEF Init, Named
<1> QED
  BY <1>1 DEF Init, Tables

\* What is in a reply, or has ever been in one, names its control: for any
\* number of controls, and whichever thread registers them.
THEOREM IdsFindControls == Spec => []IdsResolve
<1>1. Init => RepliesKnown /\ FocusKnown
  BY EmptyReplies DEF Init, RepliesKnown, FocusKnown
<1>2. StorageInv => IdsResolve
  <2> SUFFICES ASSUME StorageInv PROVE IdsResolve
    OBVIOUS
  <2>1. ASSUME NEW e \in Element, IdGenerator[e] # 0
        PROVE  GetControl(IdGenerator[e]) = e
    BY <2>1 DEF StorageInv, Tables, GetControl, Named
  <2>2. ASSUME NEW id \in reply.elements
        PROVE  GetControl(id) # Nobody
    <3>1. PICK e \in Named : id = IdGenerator[e]
      BY <2>2 DEF StorageInv, RepliesKnown, Tables
    <3>2. GetControl(id) = e /\ e # Nobody
      BY <2>1, <3>1, WpfAssumption DEF Named
    <3> QED
      BY <3>2
  <2> QED
    BY <2>1, <2>2 DEF IdsResolve
<1> QED
  BY <1>1, <1>2, InitTables, NextStorage, NextFocus, PTL DEF Spec, StorageInv

-----------------------------------------------------------------------------
(***************************************************************************)
(* A request is being answered from readRequest to sendReply, and its      *)
(* reply is there when the action is over; a delegate runs only for a      *)
(* request that has passed its checks.                                     *)
(***************************************************************************)
Phases ==
    /\ server \in {"idle", "checking", "invoking", "setting", "focused", "replying", "ended"}
    /\ server = "idle" <=> request = NoRequest
    /\ request \in Request \cup {NoRequest}
    /\ server \in {"replying", "ended"} <=> reply # NoReply
    /\ server = "invoking" => checkRequest = "OK"
    /\ server = "focused" => request.action = "GetFocusedElement"
    /\ server = "setting" => request.action = "SetProperty"
    /\ modal => server \in {"invoking", "setting"}
    /\ DOMAIN value = Editable

LEMMA Replies == /\ \A code : code # "none" => Status(code) # NoReply
                 /\ \A code, E, data : code # "none" => Reply(code, E, data) # NoReply
                 /\ \A code, E, data : /\ Reply(code, E, data).code = code
                                       /\ Reply(code, E, data).elements = E
                                       /\ Reply(code, E, data).data = data
                 /\ \A code : Status(code).code = code
BY DEF Status, Reply, NoReply

\* What the checks of ProcessRequest tell apart.
LEMMA Checks == /\ checkRequest # "none"
                /\ checkRequest = "RUNTIME_ERROR" => request.action \in {"notAnObject", "wrongType"}
                /\ checkRequest = "NOT_FOUND" => c = Nobody
                /\ checkRequest = "OK" => \/ request.action = "GetFocusedElement"
                                          \/ request.action = "GetChildren" /\ request.id = 0
                                          \/ c # Nobody
BY DEF checkRequest, c

LEMMA Requests == \A r \in Request :
    r # NoRequest /\ (r.action = "GetProperty" => r.arg \in {"Text", "Items", "absent"})
BY DEF Request, NoRequest, Reads, Members, Arguments

LEMMA SameChecks == UNCHANGED <<IdGenerator, KnownControls, request>> =>
                        checkRequest' = checkRequest /\ c' = c
BY DEF checkRequest, c, GetControl

LEMMA NextPhases == Phases /\ [Next]_vars => Phases'
<1> SUFFICES ASSUME Phases, [Next]_vars PROVE Phases'
  OBVIOUS
<1> USE DEF Phases
<1>1. CASE ApplicationActs
  <2>1. DOMAIN value' = Editable /\ UNCHANGED <<storage, server, request, reply, modal>>
    BY <1>1 DEF ApplicationActs, handler
  <2> QED
    BY <2>1, SameChecks
<1>2. CASE readRequest
  BY <1>2, Requests DEF readRequest
<1>3. CASE ProcessRequest
  <2>1. /\ UNCHANGED <<storage, request, modal, value>> /\ server = "checking"
        /\ \/ server' = "invoking" /\ reply' = reply /\ checkRequest = "OK"
           \/ server' = "replying" /\ reply' = Status(checkRequest)
           \/ server' = "replying" /\ reply' = Reply("OK", {}, "plain")
           \/ server' = "replying" /\ reply' = Status("NOT_FOUND")
    BY <1>3 DEF ProcessRequest
  <2>2. Status(checkRequest) # NoReply
    BY Replies, Checks
  <2>3. \/ server' = "invoking" /\ reply' = reply /\ checkRequest = "OK"
        \/ server' = "replying" /\ reply' # NoReply
    BY <2>1, <2>2, Replies
  <2> QED
    BY <2>1, <2>3, SameChecks
<1>4. CASE GetChildren \/ GetParent
  BY <1>4, Replies DEF GetChildren, GetParent, Invoked, ElementsReply
<1>5. CASE GetFocusedElement
  BY <1>5 DEF GetFocusedElement, Invoked
<1>6. CASE RegisterFocused
  BY <1>6, Replies DEF RegisterFocused, ElementsReply
<1>7. CASE GetProperty
  <2>1. /\ UNCHANGED <<value, request, modal>> /\ server = "invoking" /\ ~modal
        /\ server' = "replying"
    BY <1>7 DEF GetProperty, Invoked
  <2>2. reply' # NoReply
    BY <1>7, Replies DEF GetProperty
  <2> QED
    BY <2>1, <2>2
<1>8. CASE GetHandle \/ GetRectangle \/ GetControlType \/ GetName \/ GetProperties
  BY <1>8, Replies
  DEF GetHandle, GetRectangle, GetControlType, GetName, GetProperties, describes, Invoked
<1>9. CASE SetProperty
  <2>1. /\ UNCHANGED <<request, modal>> /\ server = "invoking" /\ ~modal
        /\ request.action = "SetProperty" /\ DOMAIN value' = Editable
    BY <1>9 DEF SetProperty, Invoked, assign
  <2>2. \/ server' = "setting" /\ reply' = reply
        \/ server' = "replying" /\ reply' = Status("NOT_FOUND")
    BY <1>9 DEF SetProperty
  <2>3. Status("NOT_FOUND") # NoReply
    BY Replies
  <2> QED
    BY <2>1, <2>2, <2>3
<1>10. CASE SetterReturns \/ DelegateFails
  <2>1. /\ UNCHANGED <<request, modal, value>> /\ server \in {"invoking", "setting"} /\ ~modal
        /\ server' = "replying"
    BY <1>10 DEF SetterReturns, DelegateFails
  <2>2. reply' # NoReply
    BY <1>10, Replies DEF SetterReturns, DelegateFails
  <2> QED
    BY <2>1, <2>2
<1>12. CASE RunHandlers
  <2>1. server = "invoking" /\ modal' = modal /\ ~modal /\ DOMAIN value' = Editable
    BY <1>12 DEF RunHandlers, Runs, Invoked, SetFocus, handler
  <2>2. modal' = FALSE \/ ~modal'
    BY <2>1
  <2>3. delegateEnds /\ UNCHANGED <<storage, request>>
    BY <1>12 DEF RunHandlers
  <2>4. \/ server' = "replying" /\ reply' # NoReply
        \/ UNCHANGED <<server, reply>>
    BY <2>3, Replies DEF delegateEnds
  <2> QED
    BY <2>1, <2>3, <2>4, SameChecks
<1>14. CASE OpenDialog \/ CloseDialog
  <2>1. UNCHANGED <<storage, request, reply, server, value>>
    BY <1>14 DEF OpenDialog, CloseDialog
  <2>2. server \in {"invoking", "setting"}
    BY <1>14 DEF OpenDialog, CloseDialog, Runs, Invoked
  <2> QED
    BY <2>1, <2>2, SameChecks
<1>15. CASE sendReply \/ serializeThrows
  BY <1>15, Replies DEF sendReply, serializeThrows
<1>16. CASE UNCHANGED vars
  BY <1>16, SameChecks DEF vars
<1> QED
  BY <1>1, <1>2, <1>3, <1>4, <1>5, <1>6, <1>7, <1>8, <1>9, <1>10, <1>12, <1>14, <1>15, <1>16
  DEF Next, ServerThread, Delegates

-----------------------------------------------------------------------------
(***************************************************************************)
(* Types.  What a client may set the focus to has passed the check of the  *)
(* request, and stays the control of its ID until the delegate runs.       *)
(***************************************************************************)
UiTypes ==
    /\ DOMAIN parent = Element /\ \A e \in Element : parent[e] \in Places(e)
    /\ content \in [Holders -> Contents]
    /\ focus \in Visual \cup {Nobody}
    /\ value \in [Editable -> {"initial", "given", "default"}]

LocalTypes ==
    /\ inputElem \in Visual \cup {Nobody} /\ owners \in Nat /\ modal \in BOOLEAN
    /\ KnownControls = [id \in DOMAIN KnownControls |-> KnownControls[id]]

LEMMA HandlerTypes == ASSUME UiTypes, handler PROVE UiTypes'
<1>1. CASE (\E e \in Element : \E p \in Places(e) : parent' = [parent EXCEPT ![e] = p])
           /\ UNCHANGED <<content, focus, value>>
  <2>1. PICK e \in Element : \E p \in Places(e) : parent' = [parent EXCEPT ![e] = p]
    BY <1>1
  <2>2. PICK p \in Places(e) : parent' = [parent EXCEPT ![e] = p]
    BY <2>1
  <2>3. DOMAIN parent' = Element /\ \A d \in Element : parent'[d] = IF d = e THEN p ELSE parent[d]
    BY <2>2 DEF UiTypes
  <2>4. \A d \in Element : parent'[d] \in Places(d)
    BY <2>2, <2>3 DEF UiTypes
  <2> QED
    BY <1>1, <2>3, <2>4 DEF UiTypes, Places, Contents
<1>3. CASE (\E e \in Holders : \E shown \in Contents : content' = [content EXCEPT ![e] = shown])
           /\ UNCHANGED <<parent, focus, value>>
  <2>1. content' \in [Holders -> Contents]
    BY <1>3 DEF UiTypes
  <2> QED
    BY <1>3, <2>1 DEF UiTypes, Places, Contents
<1>4. CASE focus' \in Visual \cup {Nobody} /\ UNCHANGED <<parent, content, value>>
  BY <1>4 DEF UiTypes, Places, Contents
<1>5. CASE (\E e \in Editable : value' = [value EXCEPT ![e] = "initial"])
           /\ UNCHANGED <<parent, content, focus>>
  BY <1>5 DEF UiTypes, Places, Contents
<1> QED
  BY <1>1, <1>3, <1>4, <1>5 DEF handler

LEMMA NextUi == UiTypes /\ Phases /\ [Next]_vars => UiTypes'
<1> SUFFICES ASSUME UiTypes, Phases, [Next]_vars PROVE UiTypes'
  OBVIOUS
<1>1. ASSUME UNCHANGED ui PROVE UiTypes'
  BY <1>1 DEF UiTypes, Places, Contents
<1>2. CASE ApplicationActs
  BY <1>2, HandlerTypes DEF ApplicationActs
<1>3. CASE SetProperty
  <2>1. /\ UNCHANGED <<parent, content, focus>>
        /\ \/ UNCHANGED value
           \/ \E v \in {"given", "default"} : c \in Editable /\ value' = [value EXCEPT ![c] = v]
    BY <1>3 DEF SetProperty, assign
  <2>2. value' \in [Editable -> {"initial", "given", "default"}]
    BY <2>1 DEF UiTypes
  <2> QED
    BY <2>1, <2>2 DEF UiTypes, Places, Contents
<1>4. CASE RunHandlers
  <2>1. server = "invoking" /\ (SetFocus \/ handler \/ UNCHANGED ui)
    BY <1>4 DEF RunHandlers, Runs, Invoked
  <2>2. CASE SetFocus
    <3>1. checkRequest = "OK" /\ request.action = "SetFocus"
      BY <2>1, <2>2 DEF Phases, SetFocus
    <3>2. c \in Visual
      BY <3>1 DEF checkRequest, c
    <3> QED
      BY <2>2, <3>2 DEF SetFocus, UiTypes, Places, Contents
  <2> QED
    BY <1>1, <2>1, <2>2, HandlerTypes
<1>5. CASE ProcessRequest \/ RegisterFocused \/ sendReply \/ serializeThrows
  BY <1>1, <1>5 DEF ProcessRequest, RegisterFocused, sendReply, serializeThrows
<1>6. CASE \/ readRequest \/ OpenDialog \/ CloseDialog \/ SetterReturns \/ DelegateFails
           \/ UNCHANGED vars
  BY <1>1, <1>6 DEF readRequest, OpenDialog, CloseDialog, SetterReturns, DelegateFails, vars
<1>7. CASE GetChildren \/ GetParent \/ GetFocusedElement \/ GetProperty
  BY <1>1, <1>7 DEF GetChildren, GetParent, GetFocusedElement, GetProperty
<1>8. CASE GetHandle \/ GetRectangle \/ GetControlType \/ GetName \/ GetProperties
  BY <1>1, <1>8 DEF GetHandle, GetRectangle, GetControlType, GetName, GetProperties, describes
<1> QED
  BY <1>2, <1>3, <1>4, <1>5, <1>6, <1>7, <1>8 DEF Next, ServerThread, Delegates

\* RegisterControl keeps the dictionary a function.
LEMMA RegistersFunction ==
  ASSUME NEW E, RegisterControls(E)
  PROVE  KnownControls' = [id \in DOMAIN KnownControls' |-> KnownControls'[id]]
<1>1. PICK f \in Numberings(E \ Named) : addAll(f)
  BY DEF RegisterControls
<1> QED
  BY <1>1 DEF addAll

LEMMA NextLocals == LocalTypes /\ UiTypes /\ [Next]_vars => LocalTypes'
<1> SUFFICES ASSUME LocalTypes, UiTypes, [Next]_vars PROVE LocalTypes'
  OBVIOUS
<1> USE DEF LocalTypes
<1>1. CASE ApplicationActs \/ readRequest \/ OpenDialog \/ CloseDialog \/ UNCHANGED vars
  BY <1>1 DEF ApplicationActs, readRequest, OpenDialog, CloseDialog, vars
<1>2. CASE ProcessRequest
  BY <1>2, WpfAssumption DEF ProcessRequest
<1>3. CASE GetChildren \/ GetParent \/ RegisterFocused \/ DelegateFails
  BY <1>3, RegistersFunction DEF GetChildren, GetParent, RegisterFocused, DelegateFails
<1>4. CASE GetFocusedElement
  BY <1>4 DEF GetFocusedElement, UiTypes
<1>5. CASE GetHandle \/ GetRectangle \/ GetControlType \/ GetName \/ GetProperties
  BY <1>5 DEF GetHandle, GetRectangle, GetControlType, GetName, GetProperties, describes
<1>6. CASE GetProperty \/ SetProperty \/ SetterReturns
  BY <1>6 DEF GetProperty, SetProperty, SetterReturns
<1>7. CASE RunHandlers
  <2>1. owners' \in Nat
    BY <1>7 DEF RunHandlers, delegateEnds
  <2> QED
    BY <1>7, <2>1 DEF RunHandlers
<1>8. CASE sendReply \/ serializeThrows
  BY <1>8 DEF sendReply, serializeThrows
<1> QED
  BY <1>1, <1>2, <1>3, <1>4, <1>5, <1>6, <1>7, <1>8 DEF Next, ServerThread, Delegates

\* The variables keep the types of the members and locals they stand for, for
\* any finite number of controls.
THEOREM TypeCorrect == Spec => []TypeOK
<1>1. Init => RepliesKnown /\ FocusKnown /\ Phases
  BY EmptyReplies DEF Init, RepliesKnown, FocusKnown, Phases
<1>2. Init => UiTypes /\ LocalTypes
  <2> SUFFICES ASSUME Init PROVE UiTypes /\ LocalTypes
    OBVIOUS
  <2>1. UiTypes
    BY DEF Init, UiTypes, Places, Contents
  <2>2. KnownControls = [id \in DOMAIN KnownControls |-> KnownControls[id]]
    BY DEF Init
  <2> QED
    BY <2>1, <2>2 DEF Init, LocalTypes
<1>3. StorageInv /\ Phases /\ UiTypes /\ LocalTypes => TypeOK
  <2> SUFFICES ASSUME StorageInv, Phases, UiTypes, LocalTypes PROVE TypeOK
    OBVIOUS
  <2>1. \A e \in Named : IdGenerator[e] \in Nat \ {0}
    BY DEF StorageInv, Tables, Named
  <2>2. DOMAIN KnownControls \subseteq Nat \ {0}
    BY <2>1 DEF StorageInv, Tables
  <2>3. \A id \in DOMAIN KnownControls : KnownControls[id] \in Element
    BY DEF StorageInv, Tables, Named
  <2>4. KnownControls \in [DOMAIN KnownControls -> Element]
    BY <2>3 DEF LocalTypes
  <2>5. reply.elements \subseteq Nat \ {0}
    BY <2>2 DEF StorageInv, RepliesKnown
  <2>6. /\ server \in {"idle", "checking", "invoking", "setting", "focused", "replying", "ended"}
        /\ request \in Request \cup {NoRequest} /\ IdGenerator \in [Element -> Nat]
    BY DEF Phases, StorageInv, Tables
  <2> QED
    BY <2>2, <2>4, <2>5, <2>6 DEF TypeOK, UiTypes, LocalTypes
<1> QED
  BY <1>1, <1>2, <1>3, InitTables, NextStorage, NextFocus, NextPhases, NextUi, NextLocals, PTL
  DEF Spec, StorageInv

-----------------------------------------------------------------------------
(***************************************************************************)
(* The calls of UiCalls.  An element that had the focus has its ID from    *)
(* the instant it was read, although RegisterFocused gives it only later.  *)
(***************************************************************************)
LEMMA Unnamed == /\ server # "focused" => pendingIds = IdGenerator
                 /\ server' # "focused" => pendingIds' = IdGenerator'
BY DEF pendingIds

\* No two controls have the same ID.
LEMMA Distinct == ASSUME Tables, NEW d \in Element, NEW e \in Element,
                         IdGenerator[d] = IdGenerator[e], d # e
                  PROVE  IdGenerator[d] = 0
BY DEF Tables, Named

\* The ID of a request that was not refused designates the control found for it.
LEMMA Designated == ASSUME Tables, c # Nobody, server # "focused"
                    PROVE  c \in Element /\ UiCalls!Designates(c)
<1>1. request.id \in DOMAIN KnownControls /\ c = KnownControls[request.id]
  BY DEF c, GetControl
<1>2. PICK e \in Named : request.id = IdGenerator[e]
  BY <1>1 DEF Tables
<1>3. c = e
  BY <1>1, <1>2 DEF Tables
<1> QED
  BY <1>2, <1>3, Unnamed DEF UiCalls!Designates, Named

\* And no other.
LEMMA OnlyDesignated == ASSUME Tables, NEW e \in Element, UiCalls!Designates(e), server # "focused"
                        PROVE  c = e /\ c # Nobody
<1>1. e \in Named /\ IdGenerator[e] = request.id
  BY Unnamed DEF UiCalls!Designates, Named
<1>2. request.id \in DOMAIN KnownControls /\ KnownControls[request.id] = e
  BY <1>1 DEF Tables
<1> QED
  BY <1>2, WpfAssumption DEF c, GetControl

LEMMA Names == ASSUME Tables, NEW E \in SUBSET Element, RegisterControls(E),
                      server # "focused", server' # "focused"
               PROVE  UiCalls!Name(E)
<1>1. Tables' /\ Grown /\ Named' = Named \cup E
  BY Registers
<1>2. ASSUME NEW e \in Element
      PROVE  IF e \in E /\ IdGenerator[e] = 0 THEN IdGenerator'[e] # 0
             ELSE IdGenerator'[e] = IdGenerator[e]
  <2>1. CASE IdGenerator[e] # 0
    BY <1>1, <2>1 DEF Grown, Named
  <2>2. CASE IdGenerator[e] = 0
    <3>1. e \notin Named
      BY <2>2 DEF Named
    <3>2. e \in E <=> e \in Named'
      BY <1>1, <3>1
    <3>3. e \in Named' <=> IdGenerator'[e] # 0
      BY DEF Named
    <3> QED
      BY <2>2, <3>2, <3>3
  <2> QED
    BY <2>1, <2>2
<1>3. ASSUME NEW d \in Element, NEW e \in Element, IdGenerator'[d] = IdGenerator'[e], d # e
      PROVE  IdGenerator'[d] = 0
  BY <1>1, <1>3 DEF Tables, Named
<1> QED
  BY <1>2, <1>3, Unnamed DEF UiCalls!Name

\* A single control that is new gets the ID that pendingIds says.
LEMMA RegistersOne == ASSUME Tables, NEW e \in Element, RegisterControls({e})
                      PROVE  IdGenerator' = IF e \in Named THEN IdGenerator
                                 ELSE [IdGenerator EXCEPT ![e] = Cardinality(Named) + 1]
<1>1. PICK f \in Numberings({e} \ Named) : addAll(f)
  BY DEF RegisterControls
<1>2. DOMAIN f = {e} \ Named
  BY <1>1 DEF Numberings
<1>3. IdGenerator' = [d \in Element |-> IF d \in {e} \ Named THEN f[d] ELSE IdGenerator[d]]
  BY <1>1, <1>2 DEF addAll
<1>4. IdGenerator = [d \in Element |-> IdGenerator[d]]
  BY DEF Tables
<1>5. CASE e \in Named
  BY <1>3, <1>4, <1>5
<1>6. CASE e \notin Named
  <2>1. {e} \ Named = {e}
    BY <1>6
  <2>2. Cardinality({e}) = 1
    BY FS_Singleton
  <2>3. f[e] \in Cardinality(Named) + 1 .. Cardinality(Named) + 1
    BY <1>1, <2>1, <2>2 DEF Numberings
  <2>4. f[e] = Cardinality(Named) + 1
    BY <2>3, NamedFinite
  <2> QED
    BY <1>3, <1>4, <1>6, <2>1, <2>4
<1> QED
  BY <1>5, <1>6

LEMMA RegistersNone == ASSUME Tables, RegisterControls({})
                       PROVE  IdGenerator' = IdGenerator
<1>1. PICK f \in Numberings({}) : addAll(f)
  BY DEF RegisterControls
<1>2. DOMAIN f = {}
  BY <1>1 DEF Numberings
<1> QED
  BY <1>1, <1>2 DEF addAll, Tables

\* The element that has the focus is named at the instant the delegate reads it.
LEMMA FocusedIsNamed == ASSUME Tables, FocusKnown, GetFocusedElement
                        PROVE  UiCalls!AnswerElements({focus} \ {Nobody})
<1>1. /\ server = "invoking" /\ server' = "focused" /\ inputElem' = focus
      /\ UNCHANGED <<IdGenerator, KnownControls>>
  BY DEF GetFocusedElement, Invoked
<1>2. pendingIds = IdGenerator /\ Named' = Named /\ Focused' = {focus} \ {Nobody}
  BY <1>1, Unnamed DEF Named, Focused
<1>3. pendingIds' = IF ~({focus} \ {Nobody} \subseteq Named)
                    THEN [IdGenerator EXCEPT ![focus] = Cardinality(Named) + 1] ELSE IdGenerator
  BY <1>1, <1>2 DEF pendingIds
<1>4. UiCalls!Name({focus} \ {Nobody})
  <2>1. CASE {focus} \ {Nobody} \subseteq Named
    <3>1. pendingIds' = IdGenerator
      BY <1>3, <2>1
    <3>2. \A e \in {focus} \ {Nobody} : IdGenerator[e] # 0
      BY <2>1 DEF Named
    <3> QED
      BY <1>2, <3>1, <3>2, Distinct DEF UiCalls!Name
  <2>2. CASE ~({focus} \ {Nobody} \subseteq Named)
    <3>1. focus \in Element /\ focus \notin Named /\ focus # Nobody
      BY <2>2 DEF FocusKnown
    <3>2. pendingIds' = [IdGenerator EXCEPT ![focus] = Cardinality(Named) + 1]
      BY <1>3, <2>2
    <3>3. pendingIds'[focus] = Cardinality(Named) + 1 /\ IdGenerator[focus] = 0
          /\ \A e \in Element \ {focus} : pendingIds'[e] = IdGenerator[e]
      BY <3>1, <3>2 DEF Tables, Named
    <3>4. Cardinality(Named) + 1 # 0
      BY NamedFinite
    <3>5. \A e \in Element : IdGenerator[e] # Cardinality(Named) + 1
      <4>1. ASSUME NEW e \in Element, e \in Named
            PROVE  IdGenerator[e] # Cardinality(Named) + 1
        <5>1. IdGenerator[e] \in Nat /\ IdGenerator[e] <= Cardinality(Named)
          BY <4>1 DEF Tables
        <5> QED
          BY <5>1, NamedFinite
      <4> QED
        BY <3>4, <4>1 DEF Named
    <3>6. ASSUME NEW e \in Element
          PROVE  IF e \in {focus} \ {Nobody} /\ IdGenerator[e] = 0 THEN pendingIds'[e] # 0
                 ELSE pendingIds'[e] = IdGenerator[e]
      <4>1. CASE e = focus
        BY <3>1, <3>3, <3>4, <4>1
      <4>2. CASE e # focus
        BY <3>3, <4>2
      <4> QED
        BY <4>1, <4>2
    <3>7. ASSUME NEW d \in Element, NEW e \in Element, pendingIds'[d] = pendingIds'[e], d # e
          PROVE  pendingIds'[d] = 0
      <4>1. d # focus /\ e # focus
        BY <3>3, <3>5, <3>7
      <4> QED
        BY <3>3, <3>7, <4>1, Distinct
    <3> QED
      BY <1>2, <3>6, <3>7 DEF UiCalls!Name
  <2> QED
    BY <2>1, <2>2
<1> QED
  BY <1>1, <1>2, <1>4, Replies DEF UiCalls!AnswerElements

\* Registering it later changes nothing that a caller could see.
LEMMA FocusedStays == ASSUME Tables, FocusKnown, RegisterFocused
                      PROVE  UiCalls!ApplicationActs
<1>1. /\ server = "focused" /\ server' = "replying" /\ request' = request
      /\ RegisterControls({inputElem} \ {Nobody}) /\ ElementsReply({inputElem} \ {Nobody})
  BY DEF RegisterFocused
<1>2. IdGenerator' = pendingIds
  <2>1. CASE inputElem = Nobody
    BY <1>1, <2>1, RegistersNone DEF pendingIds, Focused
  <2>2. CASE inputElem # Nobody
    <3>1. inputElem \in Element /\ {inputElem} \ {Nobody} = {inputElem}
      BY <2>2 DEF FocusKnown
    <3> QED
      BY <1>1, <3>1, RegistersOne DEF pendingIds, Focused
  <2> QED
    BY <2>1, <2>2
<1>3. pendingIds' = IdGenerator'
  BY <1>1, Unnamed
<1>4. reply' = Reply("OK", {pendingIds[e] : e \in Focused}, "none")
  BY <1>1, <1>2 DEF ElementsReply, Focused
<1> QED
  BY <1>1, <1>2, <1>3, <1>4 DEF UiCalls!ApplicationActs

LEMMA SameTrees == \A e, mode : /\ UiCalls!Children(e, mode) = Children(e, mode)
                                /\ UiCalls!Parents(e) = Parents(e)
BY DEF Children, visualChildren, customChildren, logicalChildren, held, Parents,
       UiCalls!Children, UiCalls!visualChildren, UiCalls!customChildren,
       UiCalls!logicalChildren, UiCalls!held, UiCalls!Parents

LEMMA UiCallsStep == Tables /\ FocusKnown /\ Phases /\ [Next]_vars
                         => [UiCalls!Next]_UiCalls!vars
<1> SUFFICES ASSUME Tables, FocusKnown, Phases, [Next]_vars
             PROVE  [UiCalls!Next]_UiCalls!vars
  OBVIOUS
<1>a. UNCHANGED <<storage, server, request, reply, inputElem>> => UiCalls!ApplicationActs
  BY DEF UiCalls!ApplicationActs, pendingIds, Named, Focused
<1>b. ASSUME UNCHANGED <<storage, request, reply>>,
             server \notin {"focused", "setting"}, server' \notin {"focused", "setting"}
      PROVE  UiCalls!ApplicationActs
  <2>1. pendingIds' = pendingIds
    BY <1>b, Unnamed
  <2>2. (server' = "setting") = (server = "setting")
    BY <1>b
  <2> QED
    BY <1>b, <2>1, <2>2 DEF UiCalls!ApplicationActs
<1>c. UiCalls!ApplicationActs => [UiCalls!Next]_UiCalls!vars
  BY DEF UiCalls!Next
<1>d. server \in {"checking", "invoking", "setting"} => UiCalls!Pending
  BY DEF Phases, UiCalls!Pending
<1>1. CASE ApplicationActs \/ OpenDialog \/ CloseDialog \/ UNCHANGED vars
  <2>1. UNCHANGED <<storage, server, request, reply, inputElem>>
    BY <1>1 DEF ApplicationActs, OpenDialog, CloseDialog, vars
  <2> QED
    BY <1>a, <1>c, <2>1
<1>2. CASE readRequest
  <2>1. /\ server = "idle" /\ server' = "checking" /\ request' # NoRequest
        /\ UNCHANGED <<ui, storage, reply>>
    BY <1>2, Requests DEF readRequest
  <2>2. UiCalls!Ask
    BY <2>1, Unnamed DEF UiCalls!Ask, UiCalls!ui, Phases
  <2> QED
    BY <2>2 DEF UiCalls!Next
<1>3. CASE ProcessRequest
  <2>1. /\ UNCHANGED <<ui, storage, request>> /\ server = "checking"
        /\ server' \in {"replying", "invoking"}
    BY <1>3 DEF ProcessRequest
  <2>2. UNCHANGED <<parent, content, focus, value>> /\ pendingIds' = pendingIds
    BY <2>1, Unnamed
  <2>3. CASE reply' = reply
    BY <1>b, <1>c, <2>1, <2>3
  <2>4. CASE checkRequest # "OK" /\ reply' = Status(checkRequest)
    <3>1. CASE checkRequest = "RUNTIME_ERROR"
      <4>1. UiCalls!Name({})
        BY <2>1, <2>2, Unnamed, Distinct DEF UiCalls!Name
      <4>2. UiCalls!Fail
        BY <1>d, <2>1, <2>2, <2>4, <3>1, <4>1, Replies DEF UiCalls!Fail, UiCalls!ui
      <4> QED
        BY <4>2 DEF UiCalls!Next
    <3>2. CASE checkRequest # "RUNTIME_ERROR"
      <4>1. checkRequest = "NOT_FOUND" => \A e \in Element : ~UiCalls!Designates(e)
        BY <2>1, Checks, OnlyDesignated
      <4>2. UiCalls!Refuse
        BY <1>d, <2>1, <2>2, <2>4, <3>2, <4>1, Replies DEF UiCalls!Refuse, UiCalls!ui
      <4> QED
        BY <4>2 DEF UiCalls!Next
    <3> QED
      BY <3>1, <3>2
  <2>5. CASE answersAlone /\ reply' = Reply("OK", {}, "plain")
    <3>1. UiCalls!Describe
      BY <1>d, <2>1, <2>2, <2>5, Replies DEF answersAlone, UiCalls!Describe, UiCalls!ui
    <3> QED
      BY <3>1 DEF UiCalls!Next
  <2>6. CASE request.action = "RaiseEvent" /\ reply' = Status("NOT_FOUND")
    <3>1. UiCalls!Refuse
      BY <1>d, <2>1, <2>2, <2>6, Replies DEF UiCalls!Refuse, UiCalls!ui
    <3> QED
      BY <3>1 DEF UiCalls!Next
  <2> QED
    BY <1>3, <2>3, <2>4, <2>5, <2>6 DEF ProcessRequest
<1>4. CASE GetChildren
  <2>1. /\ server = "invoking" /\ server' = "replying" /\ request.action = "GetChildren"
        /\ UNCHANGED <<parent, content, focus, value, request>>
    BY <1>4 DEF GetChildren, Invoked
  <2>2. ASSUME NEW E \in SUBSET Element, RegisterControls(E), ElementsReply(E)
        PROVE  UiCalls!AnswerElements(E)
    BY <2>1, <2>2, Names, Unnamed, Replies DEF UiCalls!AnswerElements, ElementsReply
  <2>3. CASE request.id = 0
    <3>1. UiCalls!AnswerElements(UiCalls!OpenWindows)
      BY <1>4, <2>2, <2>3, FoundControls DEF GetChildren, found, OpenWindows, UiCalls!OpenWindows
    <3>2. UiCalls!GetWindows
      BY <1>d, <2>1, <2>3, <3>1 DEF UiCalls!GetWindows, UiCalls!ui
    <3> QED
      BY <3>2 DEF UiCalls!Next
  <2>4. CASE request.id # 0
    <3>1. UiCalls!AnswerElements(UiCalls!Children(c, request.arg))
      BY <1>4, <2>2, <2>4, FoundControls, SameTrees DEF GetChildren, found
    <3>2. c \in Element /\ UiCalls!Designates(c)
      BY <2>1, <2>4, Checks, Designated DEF Phases
    <3>3. UiCalls!GetChildren(c)
      BY <1>d, <2>1, <3>1, <3>2 DEF UiCalls!GetChildren, UiCalls!ui
    <3> QED
      BY <3>2, <3>3 DEF UiCalls!Next
  <2> QED
    BY <2>3, <2>4
<1>5. CASE GetParent
  <2> DEFINE E == Parents(c)
  <2>1. /\ server = "invoking" /\ server' = "replying" /\ request.action = "GetParent"
        /\ UNCHANGED <<parent, content, focus, value, request>>
        /\ RegisterControls(E) /\ ElementsReply(E)
    BY <1>5 DEF GetParent, Invoked
  <2>2. UiCalls!AnswerElements(E)
    BY <2>1, Names, Unnamed, Replies, FoundControls DEF UiCalls!AnswerElements, ElementsReply
  <2>3. c \in Element /\ UiCalls!Designates(c)
    BY <2>1, Checks, Designated DEF Phases
  <2>4. UiCalls!GetParent(c)
    BY <1>d, <2>1, <2>2, <2>3, SameTrees DEF UiCalls!GetParent, UiCalls!ui
  <2> QED
    BY <2>3, <2>4 DEF UiCalls!Next
<1>6. CASE GetFocusedElement
  <2>1. /\ server = "invoking" /\ server' = "focused" /\ request.action = "GetFocusedElement"
        /\ UNCHANGED <<parent, content, focus, value, request>>
    BY <1>6 DEF GetFocusedElement, Invoked
  <2>2. UiCalls!GetFocusedElement
    BY <1>6, <1>d, <2>1, FocusedIsNamed DEF UiCalls!GetFocusedElement, UiCalls!ui
  <2> QED
    BY <2>2 DEF UiCalls!Next
<1>7. CASE RegisterFocused
  BY <1>7, <1>c, FocusedStays
<1>8. CASE GetProperty
  <2>1. /\ server = "invoking" /\ server' = "replying" /\ request.action = "GetProperty"
        /\ UNCHANGED <<parent, content, focus, value, request, storage>>
    BY <1>8 DEF GetProperty, Invoked
  <2>2. c \in Element /\ UiCalls!Designates(c) /\ pendingIds' = pendingIds
    BY <2>1, Checks, Designated, Unnamed DEF Phases
  <2>3. CASE \/ request.arg = "Items" /\ reply' = Reply("OK", {}, "collection")
             \/ reply' = Reply("OK", {}, value[c])
    <3>1. reply'.code = "OK" /\ (request.arg = "Text" => reply'.data = value[c])
      BY <2>3, Replies
    <3>2. UiCalls!GetProperty(c)
      BY <1>d, <2>1, <2>2, <3>1 DEF UiCalls!GetProperty, UiCalls!ui
    <3> QED
      BY <2>2, <3>2 DEF UiCalls!Next
  <2>4. CASE reply' = Status("NOT_FOUND") /\ (request.arg = "absent" \/ c \notin Editable)
    <3>1. UiCalls!Refuse
      BY <1>d, <2>1, <2>2, <2>4, OnlyDesignated, Replies DEF UiCalls!Refuse, UiCalls!ui, Phases
    <3> QED
      BY <3>1 DEF UiCalls!Next
  <2>5. request.arg \in {"Text", "Items", "absent"}
    BY <2>1, Requests DEF Phases
  <2> QED
    BY <1>8, <2>3, <2>4, <2>5 DEF GetProperty
<1>9. CASE GetHandle \/ GetRectangle \/ GetControlType \/ GetName \/ GetProperties
  <2>1. /\ server = "invoking" /\ server' = "replying"
        /\ request.action \in {"GetHandle", "GetRectangle", "GetControlType", "GetName",
                              "GetProperties"}
        /\ UNCHANGED <<parent, content, focus, value, request, storage>>
        /\ reply' = Reply("OK", {}, "plain")
    BY <1>9 DEF GetHandle, GetRectangle, GetControlType, GetName, GetProperties, describes, Invoked
  <2>2. pendingIds' = pendingIds /\ reply'.code = "OK"
    BY <2>1, Unnamed, Replies
  <2>3. UiCalls!Describe
    BY <1>d, <2>1, <2>2 DEF UiCalls!Describe, UiCalls!ui
  <2> QED
    BY <2>3 DEF UiCalls!Next
<1>10. CASE SetProperty
  <2>1. /\ server = "invoking" /\ server' \in {"replying", "setting"}
        /\ request.action = "SetProperty"
        /\ UNCHANGED <<parent, content, focus, request, storage>>
    BY <1>10 DEF SetProperty, Invoked
  <2>2. c \in Element /\ UiCalls!Designates(c) /\ pendingIds' = pendingIds
    BY <2>1, Checks, Designated, Unnamed DEF Phases
  <2>3. CASE /\ server' = "setting" /\ reply' = reply
             /\ \E v \in {"given", "default"} : value' = [value EXCEPT ![c] = v]
    <3>1. UiCalls!Assign(c)
      BY <1>d, <2>1, <2>2, <2>3 DEF UiCalls!Assign
    <3> QED
      BY <2>2, <3>1 DEF UiCalls!Next
  <2>4. CASE /\ reply' = Status("NOT_FOUND") /\ value' = value /\ server' = "replying"
             /\ request.arg = "absent" \/ c \notin Editable
    <3>1. UiCalls!Refuse
      BY <1>d, <2>1, <2>2, <2>4, OnlyDesignated, Replies DEF UiCalls!Refuse, UiCalls!ui, Phases
    <3> QED
      BY <3>1 DEF UiCalls!Next
  <2> QED
    BY <1>10, <2>3, <2>4 DEF SetProperty, assign
<1>11. CASE SetterReturns
  <2>1. /\ server = "setting" /\ server' = "replying" /\ UNCHANGED <<ui, storage, request>>
        /\ request.action = "SetProperty" /\ pendingIds' = pendingIds
    BY <1>11, Unnamed DEF SetterReturns, Phases
  <2>2. CASE reply' = Status("OK")
    <3>1. UiCalls!SetProperty
      BY <1>d, <2>1, <2>2, Replies DEF UiCalls!SetProperty, UiCalls!ui
    <3> QED
      BY <3>1 DEF UiCalls!Next
  <2>3. CASE reply' = Status("RUNTIME_ERROR")
    <3>1. UiCalls!Name({})
      BY <2>1, Unnamed, Distinct DEF UiCalls!Name
    <3>2. UiCalls!Fail
      BY <1>d, <2>1, <2>3, <3>1, Replies DEF UiCalls!Fail, UiCalls!ui
    <3> QED
      BY <3>2 DEF UiCalls!Next
  <2> QED
    BY <1>11, <2>2, <2>3 DEF SetterReturns
<1>12. CASE RunHandlers
  <2>1. /\ server = "invoking" /\ UNCHANGED <<storage, request>>
        /\ request.action \in {"RaiseEvent", "InvokeMethod", "SetFocus"}
    BY <1>12 DEF RunHandlers, Runs, Invoked
  <2>2. \/ UNCHANGED <<reply, server>>
        \/ server' = "replying" /\ \E data : reply' \in {Status("OK"), Reply("OK", {}, data)}
    BY <1>12 DEF RunHandlers, delegateEnds
  <2>3. CASE UNCHANGED <<reply, server>>
    BY <1>b, <1>c, <2>1, <2>3
  <2>4. CASE server' = "replying" /\ reply'.code = "OK"
    <3>1. pendingIds' = pendingIds
      BY <2>1, <2>4, Unnamed
    <3>2. UiCalls!RunApplication
      BY <1>d, <2>1, <2>4, <3>1 DEF UiCalls!RunApplication
    <3> QED
      BY <3>2 DEF UiCalls!Next
  <2> QED
    BY <2>2, <2>3, <2>4, Replies
<1>13. CASE DelegateFails
  <2>1. /\ server = "invoking" /\ server' = "replying" /\ UNCHANGED <<ui, request>>
        /\ reply' = Status("RUNTIME_ERROR")
    BY <1>13 DEF DelegateFails
  <2>2. PICK E \in SUBSET Element : RegisterControls(E)
    BY <1>13, FoundControls DEF DelegateFails
  <2>3. UiCalls!Name(E)
    BY <2>1, <2>2, Names
  <2>4. UiCalls!Fail
    BY <1>d, <2>1, <2>3, Replies DEF UiCalls!Fail, UiCalls!ui
  <2> QED
    BY <2>4 DEF UiCalls!Next
<1>14. CASE sendReply
  <2>1. /\ server = "replying" /\ server' = "idle" /\ request' = NoRequest /\ reply' = NoReply
        /\ reply # NoReply /\ UNCHANGED <<ui, storage>>
    BY <1>14 DEF sendReply, Phases
  <2>2. UiCalls!Return
    BY <2>1, Unnamed DEF UiCalls!Return, UiCalls!ui
  <2> QED
    BY <2>2 DEF UiCalls!Next
<1>15. CASE serializeThrows
  BY <1>b, <1>c, <1>15 DEF serializeThrows
<1> QED
  BY <1>1, <1>2, <1>3, <1>4, <1>5, <1>6, <1>7, <1>8, <1>9, <1>10, <1>11, <1>12, <1>13, <1>14, <1>15
  DEF Next, ServerThread, Delegates

\* Although an action takes several steps on two threads, each call has its
\* effect at one instant, for any number of controls.
THEOREM Implementation == Spec => ImplementsUiCalls
<1>1. Init => UiCalls!Init
  BY Unnamed DEF Init, UiCalls!Init
<1>2. Init => FocusKnown /\ RepliesKnown /\ Phases
  BY EmptyReplies DEF Init, FocusKnown, RepliesKnown, Phases
<1> QED
  BY <1>1, <1>2, InitTables, NextStorage, NextFocus, NextPhases, UiCallsStep, PTL
  DEF Spec, StorageInv, UiCalls!Spec, ImplementsUiCalls
=============================================================================
