------------------------------- MODULE Discovery -------------------------------
(***************************************************************************)
(* qt_discovery_actions.cpp: the handlers that name the elements of the    *)
(* application.  A handler runs on the GUI thread, so the application does *)
(* not change while its loops register one element after the other; it     *)
(* does between two requests, and a client that walks down from the roots  *)
(* sees a tree that changes under it.                                      *)
(*                                                                         *)
(* An element is an address of the object table.  One graphics scene,      *)
(* which every view shows, holds the graphics items.                       *)
(***************************************************************************)
EXTENDS ObjectStore, ElementSummary, FiniteSets

CONSTANTS
    None,
    Classes,            \* classes of the objects of the application
    qtQuickAvailable    \* the application has loaded Qt Quick

ASSUME DiscoveryAssumption ==
    /\ None \notin Addr /\ Classes \subseteq Class /\ qtQuickAvailable \in BOOLEAN
    /\ "QQuickWindow" \in Classes => qtQuickAvailable

VARIABLES
    class,      \* of the object at each address
    owner,      \* QObject::parent()
    up,         \* parentWidget(), QWindow::parent(), or parentItem()
    inner,      \* windowHandle() of a widget, contentItem() of a Quick window
    half,       \* the Quick window that is made or destroyed
    request,    \* the request the GUI thread works on
    todo,       \* what each loop of its handler has still to go through
    seen,       \* the handler's set of objects
    reply,      \* addresses and summaries in the order of the reply
    walk,       \* "no", "on", "done", or "crashed" with the application
    frontier,   \* IDs whose children the client has still to ask for
    visited,    \* IDs it was told in this walk
    touched     \* history: addresses that changed since the walk began

treeVars == <<class, owner, up, inner, half>>
handlerVars == <<request, todo, seen, reply>>
walkVars == <<walk, frontier, visited, touched>>
storeVars == <<objVars, gitemVars>>
discoveryVars == <<vars, treeVars, handlerVars, walkVars>>

DiscoveryInit ==
    /\ Init
    /\ class = [a \in Addr |-> "none"] /\ half = None
    /\ owner = [a \in Addr |-> None] /\ up = owner /\ inner = owner
    /\ request = "none" /\ todo = <<>> /\ seen = {} /\ reply = <<>>
    /\ walk = "no" /\ frontier = {} /\ visited = {} /\ touched = {}

IsA(a, c) == objectAt[a] # 0 /\ castsTo(class[a], c)
Objects(c) == {a \in Addr : IsA(a, c)}
IsItem(a) == itemAt[a] # 0
Exists(a) == objectAt[a] # 0 \/ itemAt[a] # 0

\* The platform window of a top-level widget.
IsHandle(a) == IsA(a, "QWindow") /\ \E w \in Objects("QWidget") : inner[w] = a

IsContent(a) == IsA(a, "QQuickItem") /\ \E w \in Objects("QQuickWindow") : inner[w] = a

Popup(a) == IsA(a, "QMenu") \/ \E w \in Objects("QMenu") : inner[w] = a

\* isWindow(): a widget without a parent, and a dialog or a menu, which have a
\* window flag and so stay windows under a parent.
IsWindow(a) ==
    IsA(a, "QWidget") /\ (up[a] = None \/ IsA(a, "QDialog") \/ IsA(a, "QMenu"))

-----------------------------------------------------------------------------
(* The application, between two requests.                                  *)

\* Bound: the model ends with the walk.
Free == request = "none" /\ walk \in {"no", "on"}
Idle == Free /\ half = None

touches(S) == touched' = IF walk = "on" THEN touched \cup S ELSE touched

AppFrame == UNCHANGED <<handlerVars, walk, frontier, visited>>

\* A new object of class c, with an owner and what it appears under.
Born(a, c, o, u) ==
    /\ NewObject(a)
    /\ class' = [class EXCEPT ![a] = c]
    /\ owner' = [owner EXCEPT ![a] = o] /\ up' = [up EXCEPT ![a] = u]
    /\ touches({a}) /\ AppFrame

NewWidget(a, c, p) ==
    /\ Idle /\ castsTo(c, "QWidget") /\ p \in Objects("QWidget") \cup {None}
    /\ Born(a, c, p, p) /\ UNCHANGED <<inner, half>>

\* A window of the application, or in QML one that an item owns.
NewWindow(a, c, p) ==
    /\ Idle /\ castsTo(c, "QWindow")
    /\ \/ p \in {None} \cup {w \in Objects("QWindow") : ~IsHandle(w)} /\ Born(a, c, p, p)
       \/ p \in Objects("QQuickItem") /\ Born(a, c, p, None)
    /\ half' = IF c = "QQuickWindow" THEN a ELSE None
    /\ UNCHANGED inner

\* show() of a widget that is a window; the platform window of a dialog has no
\* parent either, that of its owner is a transient parent only.
NewHandle(a, w) ==
    /\ Idle /\ IsWindow(w) /\ inner[w] = None
    /\ Born(a, "QWindow", None, None) /\ inner' = [inner EXCEPT ![w] = a] /\ UNCHANGED half

\* The constructor of a Quick window makes its content item.
NewContent(a) ==
    /\ Free /\ half # None /\ inner[half] = None
    /\ Born(a, "QQuickItem", half, None)
    /\ inner' = [inner EXCEPT ![half] = a] /\ half' = None

\* An item of QML belongs to what it is declared in: to its parent item, or to
\* the window, whose content item is then its parent item.
NewQuickItem(a, p) ==
    /\ Idle /\ IsA(p, "QQuickItem")
    /\ \E o \in {p} \cup {w \in Objects("QQuickWindow") : inner[w] = p} :
           Born(a, "QQuickItem", o, p)
    /\ UNCHANGED <<inner, half>>

NewPlain(a, p) ==
    /\ Idle /\ "QTimer" \in Classes /\ IsA(p, "QObject")
    /\ Born(a, "QTimer", p, None) /\ UNCHANGED <<inner, half>>

NewGraphicsItem(a, p) ==
    /\ Idle /\ p \in {None} \cup {i \in Addr : IsItem(i)}
    /\ NewItem(a) /\ up' = [up EXCEPT ![a] = p]
    /\ touches({a}) /\ AppFrame /\ UNCHANGED <<class, owner, inner, half>>

above[n \in Nat, a \in Addr] ==
    IF n = 0 \/ up[a] = None THEN {a} ELSE {a} \cup above[n - 1, up[a]]

\* setParent() of a widget or a window, setParentItem() of an item: owner and
\* parent are one for the former, and two for a Quick item.  Bound: a widget
\* that has been shown stays where it is, and a dialog stays a window, as with
\* the flags that QDialog::setParent() passes on.
Moves(a, p) ==
    /\ Idle /\ a # p /\ up[a] # p /\ a \notin above[Cardinality(Addr), p]
    /\ \/ /\ IsItem(a) /\ IsItem(p) /\ UNCHANGED owner
       \/ /\ IsA(a, "QQuickItem") /\ IsA(p, "QQuickItem") /\ ~IsContent(a) /\ UNCHANGED owner
       \/ /\ \E k \in {"QWidget", "QWindow"} : IsA(a, k) /\ IsA(p, k)
          /\ ~IsHandle(a) /\ ~IsHandle(p) /\ (IsA(a, "QWindow") \/ inner[a] = None)
          /\ owner' = [owner EXCEPT ![a] = p]
    /\ up' = [up EXCEPT ![a] = p]
    /\ touches({a}) /\ AppFrame /\ UNCHANGED <<vars, class, inner, half>>

Gone(f, a) == [b \in Addr |-> IF b = a \/ f[b] = a THEN None ELSE f[b]]

\* delete: what it owns is destroyed before.
Destroys(a) ==
    /\ Free /\ (half = None \/ half = a) /\ \A b \in Addr : owner[b] # a
    /\ \/ DestroyObject(a) /\ inner[a] \notin Objects("QWindow")
       \/ DestroyItem(a) /\ \A b \in Addr : up[b] # a
    /\ half' = IF IsContent(a) THEN owner[a] ELSE None
    /\ class' = [class EXCEPT ![a] = "none"]
    /\ owner' = Gone(owner, a) /\ up' = Gone(up, a) /\ inner' = Gone(inner, a)
    /\ touches({a} \cup {b \in Addr : up[b] = a}) /\ AppFrame

\* Bound: one object is disconnected, before the walk.
Disconnects(a) ==
    /\ Idle /\ walk = "no" /\ ~severed /\ DisconnectAll(a)
    /\ UNCHANGED touched /\ AppFrame /\ UNCHANGED treeVars

Application == \E a \in Addr :
    \/ \E c \in Classes, p \in Addr \cup {None} : NewWidget(a, c, p) \/ NewWindow(a, c, p)
    \/ \E p \in Addr : NewHandle(a, p) \/ NewQuickItem(a, p) \/ NewPlain(a, p) \/ Moves(a, p)
    \/ \E p \in Addr \cup {None} : NewGraphicsItem(a, p)
    \/ NewContent(a) \/ Destroys(a) \/ Disconnects(a)

-----------------------------------------------------------------------------
(* What the handlers go through, loop by loop.                             *)

\* Mutant: windows without widgets are left out.
rootLoopsWidgets == <<{a \in Addr : IsWindow(a) /\ ~Popup(a)}>>

rootLoops ==
    <<{a \in Addr : IsWindow(a) /\ ~Popup(a)},
      {a \in Objects("QWindow") : up[a] = None /\ ~Popup(a)}>>

topLevelItems == {b \in Addr : IsItem(b) /\ up[b] = None}

childItems(a) == {b \in Addr : IsItem(b) /\ up[b] = a}

widgetLoops(a) ==
    IF ~IsA(a, "QWidget") THEN <<>>
    ELSE <<{b \in Objects("QWidget") : owner[b] = a}>>
         \o IF IsA(a, "QGraphicsView") THEN <<topLevelItems>> ELSE <<>>

windowLoops(a) ==
    IF ~(qtQuickAvailable /\ IsA(a, "QWindow")) THEN <<>>
    ELSE (IF IsA(a, "QQuickWindow") THEN <<{inner[a]}>> ELSE <<>>)
         \o <<{b \in Objects("QObject") : owner[b] = a}>>

quickLoops(a) ==
    IF ~(qtQuickAvailable /\ IsA(a, "QQuickItem")) THEN <<>>
    ELSE <<{b \in Objects("QQuickItem") : up[b] = a}>>

childLoops(a) ==
    IF IsItem(a) THEN <<childItems(a)>> ELSE widgetLoops(a) \o windowLoops(a) \o quickLoops(a)

\* Mutant: the QObject parent is asked for first.
parentOfOwner(a) == IF owner[a] # None THEN owner[a] ELSE up[a]

\* handleElementParent: the content item has no parent item but a window.
parentOf(a) ==
    IF up[a] # None THEN up[a]
    ELSE IF IsContent(a) THEN CHOOSE w \in Objects("QQuickWindow") : inner[w] = a
    ELSE owner[a]

-----------------------------------------------------------------------------
(* A request.                                                              *)

asks(what, loops) ==
    /\ Idle /\ request' = what /\ todo' = loops
    /\ UNCHANGED <<vars, treeVars, seen, reply>>

handleElementsRoots ==
    /\ walk = "no" /\ asks("roots", rootLoops)
    /\ walk' = "on" /\ UNCHANGED <<frontier, visited, touched>>

addressOf(n) == CHOOSE a \in Addr : objectAt[a] = n

\* The element of an ID, where the items come first.  What follows a pointer to
\* an item that is gone is up to the memory; here it ends the application.
handleElementsChildren(id) ==
    /\ walk = "on" /\ id \in frontier /\ frontier' = frontier \ {id}
    /\ IF ResolvesToItem(id) /\ gitemForId(id) = 0
       THEN /\ Idle /\ walk' = "crashed"
            /\ UNCHANGED <<vars, treeVars, handlerVars>>
       ELSE /\ UNCHANGED walk
            /\ asks("children",
                    CASE ResolvesToItem(id)   -> childLoops(m_id2gitem[id])
                      [] ~ResolvesToItem(id) /\ objectForId(id) # 0
                                              -> childLoops(addressOf(objectForId(id)))
                      [] OTHER                -> <<>>)
    /\ UNCHANGED <<visited, touched>>

registers(a) == IF IsItem(a) THEN ensureIdForGItem(a) ELSE ensureIdFor(a)

\* The element of an ID, its parent, or a widget or a window that has the focus.
oneElements ==
    LET asked == {addressOf(n) : n \in {objectForId(p[1]) : p \in issued} \ {0}}
                 \cup {a \in Addr : IsItem(a) /\ m_gitem2id[a] # 0}
    IN  asked \cup ({parentOf(a) : a \in asked} \ {None}) \cup Objects("QWidget") \cup Objects("QWindow")

\* handleElementInfo, handleElementParent and handleFocusedElement.  Bound: they
\* are not called during the walk, where they change nothing it sees.
handleOne(a) ==
    /\ Idle /\ walk = "no" /\ a \in oneElements /\ registers(a)
    /\ UNCHANGED <<treeVars, handlerVars, walkVars>>

Summary(a) ==
    IF IsItem(a) THEN summarizeGraphicsItem
    ELSE IF request = "roots" THEN summarizeTopLevel(class[a])
    ELSE summarizeObject(class[a])

\* Mutant: what an earlier loop has listed is listed again.
skipsNone(a) == FALSE

skips(a) == a \in seen

\* The handle of a widget counts as seen with it.
sees(a) == seen' = seen \cup {a} \cup (IF request = "roots" THEN {inner[a]} \ {None} ELSE {})

\* Loops go through their elements in the order of creation.
instance(a) == objectAt[a] + itemAt[a]
eldest(a, S) == a \in S /\ \A b \in S : instance(a) <= instance(b)

\* The turn of loop i for element a, when the loops before it are over.
turn(i, a) ==
    /\ \A j \in 1..(i - 1) : todo[j] = {}
    /\ eldest(a, todo[i])
    /\ todo' = [todo EXCEPT ![i] = @ \ {a}]

handles(a) ==
    /\ \E i \in DOMAIN todo : turn(i, a)
    /\ IF skips(a)
       THEN UNCHANGED <<vars, seen, reply>>
       ELSE /\ registers(a)
            /\ reply' = Append(reply, [of |-> a, is |-> Summary(a)])
            /\ sees(a)
    /\ UNCHANGED <<treeVars, request, walkVars>>

idOf(a) == IF IsItem(a) THEN m_gitem2id[a] ELSE m_obj2id[a]

\* The client goes on with the IDs it had not been told before.
replies ==
    /\ request # "none" /\ \A i \in DOMAIN todo : todo[i] = {}
    /\ request' = "none" /\ todo' = <<>> /\ seen' = {} /\ reply' = <<>>
    /\ LET told == {idOf(reply[i].of) : i \in DOMAIN reply}
       IN  /\ frontier' = frontier \cup (told \ visited)
           /\ visited' = visited \cup told
           /\ walk' = IF frontier' = {} THEN "done" ELSE walk
           /\ UNCHANGED touched
    /\ UNCHANGED <<vars, treeVars>>

Requests ==
    \/ handleElementsRoots
    \/ \E id \in frontier : handleElementsChildren(id)
    \/ \E a \in Addr : handleOne(a) \/ handles(a)
    \/ replies

DiscoveryNext == Application \/ Requests

DiscoverySpec == DiscoveryInit /\ [][DiscoveryNext]_discoveryVars

-----------------------------------------------------------------------------
(* Properties.                                                             *)

\* The variables of the handlers and of the walk have their types.
DiscoveryTypeOK ==
    /\ class \in [Addr -> Classes \cup {"none", "QWindow", "QQuickItem", "QTimer"}]
    /\ owner \in [Addr -> Addr \cup {None}] /\ up \in [Addr -> Addr \cup {None}]
    /\ inner \in [Addr -> Addr \cup {None}] /\ half \in Addr \cup {None}
    /\ request \in {"none", "roots", "children"} /\ seen \subseteq Addr
    /\ \A i \in DOMAIN todo : todo[i] \subseteq Addr
    /\ \A i \in DOMAIN reply : reply[i].of \in Addr
    /\ walk \in {"no", "on", "done", "crashed"}
    /\ frontier \subseteq visited /\ touched \subseteq Addr

\* "Avoid duplicates when an object appears through multiple paths": no reply
\* names an element twice, nor a widget and the window that shows it.
NamedOnce ==
    \A i, j \in DOMAIN reply : i # j =>
        /\ reply[i].of # reply[j].of
        /\ request = "roots" => inner[reply[i].of] # reply[j].of

\* The parent of an element is what lists it: two handlers that search the tree
\* in opposite directions agree, though Qt has three notions of a parent.  Not
\* so for a Quick item that a window owns, which the window lists too, and for
\* a top-level graphics item, which has no parent.
ParentListsIt ==
    half = None => \A a \in Addr : Exists(a) =>
        \A i \in DOMAIN childLoops(a) : \A b \in childLoops(a)[i] :
            \/ parentOf(b) = a
            \/ IsA(b, "QQuickItem") /\ ~IsContent(b) /\ owner[b] = a
            \/ IsItem(b) /\ up[b] = None

\* An item taken out of the scene is listed by nothing, though its owner passes
\* for its parent; so is a window that another one owns, without Qt Quick.
Unlisted(a) ==
    \/ IsA(a, "QQuickItem") /\ up[a] = None /\ owner[a] \in Objects("QQuickItem")
    \/ IsA(a, "QWindow") /\ ~qtQuickAvailable

\* What lists an element: its parent, or any view for the top of the scene.
Listing(a) ==
    IF IsItem(a) /\ up[a] = None THEN Objects("QGraphicsView")
    ELSE IF Unlisted(a) THEN {} ELSE {parentOf(a)} \ {None}

\* A root is listed by itself.
Root(a) ==
    /\ IsWindow(a) \/ (IsA(a, "QWindow") /\ up[a] = None)
    /\ ~Popup(a) /\ ~IsHandle(a)

\* Qt objects other than these are listed under windows only.
Listed(a) == IsItem(a) \/ IsA(a, "QWidget") \/ IsA(a, "QQuickItem") \/ IsA(a, "QWindow")

Calm == {a \in Addr : Exists(a) /\ Listed(a) /\ a \notin touched}

Closed(S) == \A a \in Calm : Root(a) \/ Listing(a) \cap S # {} => a \in S

\* The calm roots, and what hangs from them by calm elements only.
Hanging == {a \in Calm : \A S \in SUBSET Calm : Closed(S) => a \in S}

\* A walk from the roots reaches every element that was there before it began,
\* if neither it nor what it hangs from has moved meanwhile, whatever else the
\* application has created, moved and destroyed between two requests, addresses
\* used again included.  A disconnected object may be out of reach,
\* and so may everything once the IDs of objects have reached those of items.
WalkReaches ==
    (walk = "done" /\ request = "none" /\ ~severed /\ m_nextId <= GItemBase) =>
        \A a \in Hanging : idOf(a) \in visited
=============================================================================
