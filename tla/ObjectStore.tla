----------------------------- MODULE ObjectStore -----------------------------
(***************************************************************************)
(* QtBackend::QtObjectStore: the table of runtime IDs through which the    *)
(* Python client names the QObjects and QGraphicsItems of the application. *)
(* All calls happen on the GUI thread, so every operation is one step; the *)
(* environment is the application, which creates and destroys objects and  *)
(* reuses their addresses.                                                 *)
(*                                                                         *)
(* A pointer is an address of Addr.  An instance is a serial number: the   *)
(* objects of the heap are numbered in the order of their creation, so two *)
(* instances that live one after the other at the same address differ.     *)
(***************************************************************************)
EXTENDS Naturals

CONSTANTS
    Addr,           \* heap addresses
    GItemBase,      \* first ID of the graphics items (1000000 in the source)
    MaxBorn         \* bound: number of instances the application creates

ASSUME StoreAssumption ==
    /\ GItemBase \in Nat \ {0}
    /\ MaxBorn \in Nat

VARIABLES
    objectAt,       \* the live QObject at each address, 0 when there is none
    itemAt,         \* the live QGraphicsItem at each address, 0 when none
    born,           \* serial number of the next instance
    connected,      \* the destroyed -> dropIdFor connection of each address
    m_obj2id,       \* QHash<QObject*, int>, 0 for a missing key
    m_id2obj,       \* QHash<int, QPointer<QObject>>: ID -> tracked instance
    m_nextId,
    m_gitem2id,     \* QHash<QGraphicsItem*, int>, 0 for a missing key
    m_id2gitem,     \* QHash<int, QGraphicsItem*>: ID -> address
    m_nextGItemId,
    severed,        \* history: the application has called QObject::disconnect()
    issued,         \* history: <<id, instance>> replied for QObjects
    issuedItems     \* history: <<id, instance>> replied for QGraphicsItems

heapVars  == <<objectAt, itemAt, born>>
objVars   == <<connected, m_obj2id, m_id2obj, m_nextId, severed, issued>>
gitemVars == <<m_gitem2id, m_id2gitem, m_nextGItemId, issuedItems>>
vars      == <<heapVars, objVars, gitemVars>>

Put(f, k, v) == [x \in DOMAIN f \cup {k} |-> IF x = k THEN v ELSE f[x]]
Remove(f, k) == [x \in DOMAIN f \ {k} |-> f[x]]

Nobody == [a \in Addr |-> 0]

Init ==
    /\ objectAt = Nobody /\ itemAt = Nobody /\ born = 1
    /\ connected = [a \in Addr |-> FALSE]
    /\ m_obj2id = Nobody /\ m_id2obj = [id \in {} |-> 0] /\ m_nextId = 1
    /\ m_gitem2id = Nobody /\ m_id2gitem = [id \in {} |-> 0]
    /\ m_nextGItemId = GItemBase
    /\ severed = FALSE /\ issued = {} /\ issuedItems = {}

-----------------------------------------------------------------------------
(* Lookups of the request handlers.                                        *)

LiveObject(n) == n # 0 /\ \E a \in Addr : objectAt[a] = n

\* The instance a QPointer yields, 0 for nullptr: it follows its instance and
\* becomes null when that instance is destroyed.
objectForId(id) ==
    IF id \in DOMAIN m_id2obj /\ LiveObject(m_id2obj[id]) THEN m_id2obj[id] ELSE 0

\* The item the raw pointer of m_id2gitem designates: whatever now lives at
\* the address, or 0 when nothing does (the handler then follows a pointer to
\* freed memory).
gitemForId(id) == itemAt[m_id2gitem[id]]

\* handleElementInfo and its siblings look among the graphics items first.
ResolvesToItem(id) == id \in DOMAIN m_id2gitem

-----------------------------------------------------------------------------
(* The application.                                                        *)

NewObject(a) ==
    /\ objectAt[a] = 0 /\ itemAt[a] = 0 /\ born <= MaxBorn
    /\ objectAt' = [objectAt EXCEPT ![a] = born]
    /\ born' = born + 1
    /\ UNCHANGED <<itemAt, objVars, gitemVars>>

NewItem(a) ==
    /\ objectAt[a] = 0 /\ itemAt[a] = 0 /\ born <= MaxBorn
    /\ itemAt' = [itemAt EXCEPT ![a] = born]
    /\ born' = born + 1
    /\ UNCHANGED <<objectAt, objVars, gitemVars>>

\* The application severs every connection of one of its objects.
DisconnectAll(a) ==
    /\ connected[a] /\ severed' = TRUE
    /\ connected' = [connected EXCEPT ![a] = FALSE]
    /\ UNCHANGED <<heapVars, m_obj2id, m_id2obj, m_nextId, issued, gitemVars>>

dropIdFor(a) ==
    IF m_obj2id[a] = 0 THEN UNCHANGED <<m_obj2id, m_id2obj>>
    ELSE /\ m_id2obj' = Remove(m_id2obj, m_obj2id[a])
         /\ m_obj2id' = [m_obj2id EXCEPT ![a] = 0]

\* Mutant: the highest ID is handed out again after its object is gone.
DestroyObjectRecycling(a) ==
    /\ objectAt[a] # 0
    /\ objectAt' = [objectAt EXCEPT ![a] = 0]
    /\ connected' = [connected EXCEPT ![a] = FALSE]
    /\ dropIdFor(a)
    /\ m_nextId' = IF m_obj2id[a] # 0 /\ m_obj2id[a] = m_nextId - 1 THEN m_nextId - 1 ELSE m_nextId
    /\ UNCHANGED <<itemAt, born, severed, issued, gitemVars>>

\* ~QObject clears the QPointers and emits destroyed, whose lambda drops the ID.
DestroyObject(a) ==
    /\ objectAt[a] # 0
    /\ objectAt' = [objectAt EXCEPT ![a] = 0]
    /\ connected' = [connected EXCEPT ![a] = FALSE]
    /\ IF connected[a] THEN dropIdFor(a) ELSE UNCHANGED <<m_obj2id, m_id2obj>>
    /\ UNCHANGED <<itemAt, born, m_nextId, severed, issued, gitemVars>>

\* A QGraphicsItem is not a QObject: nothing tells the store.
DestroyItem(a) ==
    /\ itemAt[a] # 0
    /\ itemAt' = [itemAt EXCEPT ![a] = 0]
    /\ UNCHANGED <<objectAt, born, objVars, gitemVars>>

-----------------------------------------------------------------------------
(* Replies that mention an element.                                        *)

registerNew(a) ==
    /\ m_obj2id[a] = 0
    /\ m_nextId' = m_nextId + 1
    /\ m_obj2id' = [m_obj2id EXCEPT ![a] = m_nextId]
    /\ m_id2obj' = Put(m_id2obj, m_nextId, objectAt[a])
    /\ connected' = [connected EXCEPT ![a] = TRUE]
    /\ issued' = issued \cup {<<m_nextId, objectAt[a]>>}

ensureIdFor(a) ==
    /\ objectAt[a] # 0
    /\ \/ /\ m_obj2id[a] # 0
          /\ issued' = issued \cup {<<m_obj2id[a], objectAt[a]>>}
          /\ UNCHANGED <<connected, m_obj2id, m_id2obj, m_nextId>>
       \/ registerNew(a)
    /\ UNCHANGED <<heapVars, severed, gitemVars>>

nextGItemId == m_nextGItemId + 1

ensureIdForGItem(a) ==
    /\ itemAt[a] # 0
    /\ \/ /\ m_gitem2id[a] # 0
          /\ issuedItems' = issuedItems \cup {<<m_gitem2id[a], itemAt[a]>>}
          /\ UNCHANGED <<m_gitem2id, m_id2gitem, m_nextGItemId>>
       \/ /\ m_gitem2id[a] = 0
          /\ m_nextGItemId' = nextGItemId
          /\ m_gitem2id' = [m_gitem2id EXCEPT ![a] = m_nextGItemId]
          /\ m_id2gitem' = Put(m_id2gitem, m_nextGItemId, a)
          /\ issuedItems' = issuedItems \cup {<<m_nextGItemId, itemAt[a]>>}
    /\ UNCHANGED <<heapVars, objVars>>

Next == \E a \in Addr :
    \/ NewObject(a) \/ NewItem(a) \/ DisconnectAll(a)
    \/ DestroyObject(a) \/ DestroyItem(a)
    \/ ensureIdFor(a) \/ ensureIdForGItem(a)

Spec == Init /\ [][Next]_vars

-----------------------------------------------------------------------------
(* Properties.                                                             *)

\* The variables have the types of the C++ members they stand for.
TypeOK ==
    /\ objectAt \in [Addr -> Nat] /\ itemAt \in [Addr -> Nat] /\ born \in Nat \ {0}
    /\ connected \in [Addr -> BOOLEAN] /\ severed \in BOOLEAN
    /\ m_obj2id \in [Addr -> Nat] /\ m_nextId \in Nat \ {0}
    /\ DOMAIN m_id2obj \subseteq Nat /\ m_id2obj \in [DOMAIN m_id2obj -> Nat]
    /\ m_gitem2id \in [Addr -> Nat] /\ m_nextGItemId \in Nat \ {0}
    /\ DOMAIN m_id2gitem \subseteq Nat /\ m_id2gitem \in [DOMAIN m_id2gitem -> Addr]
    /\ issued \subseteq Nat \X Nat /\ issuedItems \subseteq Nat \X Nat

\* An ID the client was given for a QObject never comes to designate another
\* QObject, whatever the application destroys, creates at the same address or
\* disconnects (QPointer, and m_nextId that only grows).
ObjectIdsStable ==
    \A p \in issued : objectForId(p[1]) \in {0, p[2]}

\* The ID the client was given for a QObject designates it as long as it lives:
\* ensureIdFor and dropIdFor keep the two hashes inverse of each other.  This
\* needs the destroyed connection, hence an application that leaves it alone.
LiveObjectsResolve ==
    ~severed => \A p \in issued : LiveObject(p[2]) => objectForId(p[1]) = p[2]

\* "Auto-drop when the QObject is destroyed": neither hash keeps an entry of a
\* destroyed object, so an ID replied for a new object is never an old one.  An
\* application that disconnects its object also cuts the connection that drops.
AutoDropped ==
    ~severed =>
    /\ \A a \in Addr : m_obj2id[a] # 0 => objectAt[a] # 0
    /\ \A id \in DOMAIN m_id2obj : LiveObject(m_id2obj[id])

\* The handlers search the graphics items first: an ID replied for a QObject is
\* not taken for an item, as long as the QObject IDs have not reached GItemBase.
ObjectIdsReachObjects ==
    m_nextId <= GItemBase => \A p \in issued : ~ResolvesToItem(p[1])

\* "Stable runtime IDs for QObject and QGraphicsItem instances": an ID the
\* client was given for a graphics item never comes to designate another item.
ItemIdsStable ==
    \A p \in issuedItems : gitemForId(p[1]) \in {0, p[2]}
=============================================================================
