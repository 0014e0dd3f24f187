---------------------------- MODULE DiscoveryProofs ----------------------------
(* Machine-checked facts about ObjectStore, for any heap and any GItemBase, and *)
(* about Discovery.  Discovery only changes the object table as ObjectStore     *)
(* allows, so that what the first part shows of the table holds for any         *)
(* application, any requests and any walk.  The second part is about the tree   *)
(* of the application, which two handlers search in opposite directions, and    *)
(* about the loops of a handler, which come to an element on several paths.     *)
(* The third is about a walk from the roots, of a tree that changes under it.   *)
(* The last is about the chains of casts, and what a reply says of an object.   *)
EXTENDS Discovery, WellFoundedInduction, TLAPS

(***************************************************************************)
(* The strengthening: serial numbers in use are below born and distinct,   *)
(* object IDs in use are below m_nextId, and whatever an ID or an address  *)
(* was bound to is what m_id2obj still tracks, unless that instance died.  *)
(***************************************************************************)
SerialsBelowBorn ==
    /\ \A a \in Addr : objectAt[a] < born
    /\ \A id \in DOMAIN m_id2obj : 0 < m_id2obj[id] /\ m_id2obj[id] < born

SerialsDistinct ==
    \A a, b \in Addr : a # b /\ objectAt[a] # 0 => objectAt[a] # objectAt[b]

IdsBelowNext ==
    /\ \A a \in Addr : m_obj2id[a] < m_nextId
    /\ \A id \in DOMAIN m_id2obj : 0 < id /\ id < m_nextId
    /\ \A p \in issued : 0 < p[1] /\ p[1] < m_nextId

Dead(n) == \A a \in Addr : objectAt[a] # n

IssuedTracked ==
    \A p \in issued : p[1] \in DOMAIN m_id2obj
        => m_id2obj[p[1]] = p[2] \/ Dead(m_id2obj[p[1]])

MappedTracked ==
    \A a \in Addr : m_obj2id[a] \in DOMAIN m_id2obj
        => m_id2obj[m_obj2id[a]] = objectAt[a] \/ Dead(m_id2obj[m_obj2id[a]])

StoreInv ==
    /\ TypeOK /\ SerialsBelowBorn /\ SerialsDistinct
    /\ IdsBelowNext /\ IssuedTracked /\ MappedTracked

(* Initially both hashes are empty. *)
LEMMA InitInv == Init => StoreInv
<1> SUFFICES ASSUME Init PROVE StoreInv
  OBVIOUS
<1>1. TypeOK
  <2>1. /\ objectAt \in [Addr -> Nat] /\ itemAt \in [Addr -> Nat] /\ born \in Nat \ {0}
        /\ connected \in [Addr -> BOOLEAN]
        /\ m_obj2id \in [Addr -> Nat] /\ m_nextId \in Nat \ {0}
        /\ m_gitem2id \in [Addr -> Nat] /\ m_nextGItemId \in Nat \ {0}
        /\ issued \subseteq Nat \X Nat /\ issuedItems \subseteq Nat \X Nat
    BY StoreAssumption DEF Init, Nobody
  <2>2. severed \in BOOLEAN
    BY Zenon DEF Init
  <2>3. /\ DOMAIN m_id2obj \subseteq Nat /\ m_id2obj \in [DOMAIN m_id2obj -> Nat]
        /\ DOMAIN m_id2gitem \subseteq Nat /\ m_id2gitem \in [DOMAIN m_id2gitem -> Addr]
    BY DEF Init
  <2> QED BY <2>1, <2>2, <2>3 DEF TypeOK
<1>2. SerialsBelowBorn /\ SerialsDistinct
  BY DEF Init, Nobody, SerialsBelowBorn, SerialsDistinct
<1>3. IdsBelowNext /\ IssuedTracked /\ MappedTracked
  BY DEF Init, Nobody, IdsBelowNext, IssuedTracked, MappedTracked
<1> QED BY <1>1, <1>2, <1>3 DEF StoreInv

(* The strengthening mentions neither graphics items nor connections beyond *)
(* their types, so a step that leaves the object side alone preserves it.   *)
LEMMA ItemStep ==
  ASSUME StoreInv, TypeOK', born' \in {born, born + 1},
         UNCHANGED <<objectAt, m_obj2id, m_id2obj, m_nextId, issued>>
  PROVE  StoreInv'
  BY DEF StoreInv, TypeOK, SerialsBelowBorn, SerialsDistinct, IdsBelowNext,
     IssuedTracked, MappedTracked, Dead

(* Every action respects the types of the members. *)
LEMMA TypeStep ==
  ASSUME StoreInv, [Next]_vars
  PROVE  TypeOK'
<1> USE DEF StoreInv, TypeOK, heapVars, objVars, gitemVars
<1>1. ASSUME NEW a \in Addr, NewObject(a) PROVE TypeOK'
  BY <1>1 DEF NewObject
<1>2. ASSUME NEW a \in Addr, NewItem(a) PROVE TypeOK'
  BY <1>2 DEF NewItem
<1>3. ASSUME NEW a \in Addr, DisconnectAll(a) PROVE TypeOK'
  BY <1>3 DEF DisconnectAll
<1>4. ASSUME NEW a \in Addr, DestroyObject(a) PROVE TypeOK'
  BY <1>4 DEF DestroyObject, dropIdFor, Remove
<1>5. ASSUME NEW a \in Addr, DestroyItem(a) PROVE TypeOK'
  BY <1>5 DEF DestroyItem
<1>6. ASSUME NEW a \in Addr, ensureIdFor(a) PROVE TypeOK'
  <2>1. CASE registerNew(a)
    BY <1>6, <2>1 DEF ensureIdFor, registerNew, Put
  <2>2. CASE ~registerNew(a)
    BY <1>6, <2>2 DEF ensureIdFor
  <2> QED BY <2>1, <2>2
<1>7. ASSUME NEW a \in Addr, ensureIdForGItem(a) PROVE TypeOK'
  BY <1>7 DEF ensureIdForGItem, nextGItemId, Put
<1>8. ASSUME UNCHANGED vars PROVE TypeOK'
  BY <1>8 DEF vars
<1> QED BY <1>1, <1>2, <1>3, <1>4, <1>5, <1>6, <1>7, <1>8 DEF Next

(* The application creates an object. *)
LEMMA NewObjectInv ==
  ASSUME StoreInv, TypeOK', NEW a \in Addr, NewObject(a)
  PROVE  StoreInv'
<1> USE DEF NewObject, StoreInv, TypeOK, heapVars, objVars, gitemVars
<1>1. SerialsBelowBorn' /\ SerialsDistinct'
  BY DEF SerialsBelowBorn, SerialsDistinct
<1>2. IdsBelowNext'
  BY DEF IdsBelowNext
<1>3. \A id \in DOMAIN m_id2obj :
         Dead(m_id2obj[id]) => \A b \in Addr : objectAt'[b] # m_id2obj[id]
  BY DEF Dead, SerialsBelowBorn
<1>4. IssuedTracked'
  BY <1>3 DEF IssuedTracked, Dead
<1>5. MappedTracked'
  <2> SUFFICES ASSUME NEW b \in Addr, m_obj2id[b] \in DOMAIN m_id2obj
               PROVE  \/ m_id2obj[m_obj2id[b]] = objectAt'[b]
                      \/ \A c \in Addr : objectAt'[c] # m_id2obj[m_obj2id[b]]
    BY DEF MappedTracked, Dead
  <2>1. CASE Dead(m_id2obj[m_obj2id[b]])
    BY <2>1, <1>3
  <2>2. CASE m_id2obj[m_obj2id[b]] = objectAt[b]
    BY <2>2 DEF SerialsBelowBorn
  <2> QED BY <2>1, <2>2 DEF MappedTracked
<1> QED BY <1>1, <1>2, <1>4, <1>5

(* The application destroys an object; its ID is dropped at once when connected. *)
LEMMA DestroyObjectInv ==
  ASSUME StoreInv, TypeOK', NEW a \in Addr, DestroyObject(a)
  PROVE  StoreInv'
<1> USE DEF DestroyObject, StoreInv, TypeOK, heapVars, objVars, gitemVars
<1>1. /\ DOMAIN m_id2obj' \subseteq DOMAIN m_id2obj
      /\ \A id \in DOMAIN m_id2obj' : m_id2obj'[id] = m_id2obj[id]
      /\ \A b \in Addr : m_obj2id'[b] = m_obj2id[b] \/ m_obj2id'[b] = 0
  BY DEF dropIdFor, Remove
<1>2. SerialsBelowBorn' /\ SerialsDistinct'
  BY <1>1 DEF SerialsBelowBorn, SerialsDistinct
<1>3. IdsBelowNext'
  BY <1>1 DEF IdsBelowNext
<1>4. \A id \in DOMAIN m_id2obj :
         Dead(m_id2obj[id]) => \A b \in Addr : objectAt'[b] # m_id2obj[id]
  BY DEF Dead, SerialsBelowBorn
<1>5. IssuedTracked'
  BY <1>1, <1>4 DEF IssuedTracked, Dead
<1>6. MappedTracked'
  <2> SUFFICES ASSUME NEW b \in Addr, m_obj2id'[b] \in DOMAIN m_id2obj'
               PROVE  \/ m_id2obj'[m_obj2id'[b]] = objectAt'[b]
                      \/ \A c \in Addr : objectAt'[c] # m_id2obj'[m_obj2id'[b]]
    BY DEF MappedTracked, Dead
  <2>1. m_obj2id'[b] = m_obj2id[b]
    BY <1>1, <1>3 DEF IdsBelowNext
  <2>2. m_obj2id[b] \in DOMAIN m_id2obj /\ m_id2obj'[m_obj2id'[b]] = m_id2obj[m_obj2id[b]]
    BY <1>1, <2>1
  <2>3. CASE Dead(m_id2obj[m_obj2id[b]])
    BY <2>2, <2>3, <1>4 DEF Dead
  <2>4. CASE m_id2obj[m_obj2id[b]] = objectAt[b] /\ b # a
    BY <2>2, <2>4
  <2>5. CASE m_id2obj[m_obj2id[b]] = objectAt[b] /\ b = a
    BY <2>2, <2>5 DEF SerialsDistinct, Dead
  <2> QED BY <2>2, <2>3, <2>4, <2>5 DEF MappedTracked
<1> QED BY <1>2, <1>3, <1>5, <1>6

(* An object that has no ID gets one. *)
LEMMA RegisterInv ==
  ASSUME StoreInv, TypeOK', NEW a \in Addr, ensureIdFor(a), registerNew(a)
  PROVE  StoreInv'
<1> USE DEF registerNew, StoreInv, TypeOK, heapVars, objVars, gitemVars
<1>1. /\ objectAt[a] # 0 /\ m_nextId \notin DOMAIN m_id2obj
      /\ UNCHANGED <<objectAt, born>>
  BY DEF ensureIdFor, IdsBelowNext
<1>2. /\ DOMAIN m_id2obj' = DOMAIN m_id2obj \cup {m_nextId}
      /\ m_id2obj'[m_nextId] = objectAt[a]
      /\ \A id \in DOMAIN m_id2obj : m_id2obj'[id] = m_id2obj[id]
  BY <1>1 DEF Put
<1>3. SerialsBelowBorn' /\ SerialsDistinct'
  BY <1>1, <1>2 DEF SerialsBelowBorn, SerialsDistinct
<1>4. IdsBelowNext'
  BY <1>2 DEF IdsBelowNext
<1>5. IssuedTracked'
  <2> SUFFICES ASSUME NEW p \in issued', p[1] \in DOMAIN m_id2obj'
               PROVE  \/ m_id2obj'[p[1]] = p[2]
                      \/ \A c \in Addr : objectAt'[c] # m_id2obj'[p[1]]
    BY DEF IssuedTracked, Dead
  <2>1. CASE p \in issued
    BY <1>1, <1>2, <2>1 DEF IssuedTracked, IdsBelowNext, Dead
  <2>2. CASE p = <<m_nextId, objectAt[a]>>
    BY <1>2, <2>2
  <2> QED BY <2>1, <2>2
<1>6. MappedTracked'
  <2> SUFFICES ASSUME NEW b \in Addr, m_obj2id'[b] \in DOMAIN m_id2obj'
               PROVE  \/ m_id2obj'[m_obj2id'[b]] = objectAt'[b]
                      \/ \A c \in Addr : objectAt'[c] # m_id2obj'[m_obj2id'[b]]
    BY DEF MappedTracked, Dead
  <2>1. CASE b = a
    BY <1>1, <1>2, <2>1
  <2>2. CASE b # a
    BY <1>1, <1>2, <2>2 DEF MappedTracked, IdsBelowNext, Dead
  <2> QED BY <2>1, <2>2
<1> QED BY <1>3, <1>4, <1>5, <1>6

(* ensureIdFor, whether the object has an ID already or not. *)
LEMMA EnsureIdForInv ==
  ASSUME StoreInv, TypeOK', NEW a \in Addr, ensureIdFor(a)
  PROVE  StoreInv'
<1>1. CASE registerNew(a)
  BY <1>1, RegisterInv
<1>2. CASE ~registerNew(a)
  <2> USE DEF StoreInv, TypeOK, heapVars, objVars, gitemVars
  <2>1. /\ m_obj2id[a] # 0 /\ issued' = issued \cup {<<m_obj2id[a], objectAt[a]>>}
        /\ UNCHANGED <<objectAt, born, m_obj2id, m_id2obj, m_nextId>>
    BY <1>2 DEF ensureIdFor
  <2>2. SerialsBelowBorn' /\ SerialsDistinct' /\ MappedTracked'
    BY <2>1 DEF SerialsBelowBorn, SerialsDistinct, MappedTracked, Dead
  <2>3. IdsBelowNext'
    BY <2>1 DEF IdsBelowNext
  <2>4. IssuedTracked'
    BY <2>1 DEF IssuedTracked, MappedTracked, Dead
  <2> QED BY <2>2, <2>3, <2>4
<1> QED BY <1>1, <1>2

(* Every operation of the store and every step of the application keeps the invariant. *)
LEMMA NextInv == StoreInv /\ [Next]_vars => StoreInv'
<1> SUFFICES ASSUME StoreInv, [Next]_vars PROVE StoreInv'
  OBVIOUS
<1>0. TypeOK'
  BY TypeStep
<1> USE DEF heapVars, objVars, gitemVars
<1>1. ASSUME NEW a \in Addr, NewObject(a) PROVE StoreInv'
  BY <1>0, <1>1, NewObjectInv
<1>2. ASSUME NEW a \in Addr, NewItem(a) PROVE StoreInv'
  BY <1>0, <1>2, ItemStep DEF NewItem
<1>3. ASSUME NEW a \in Addr, DisconnectAll(a) PROVE StoreInv'
  BY <1>0, <1>3, ItemStep DEF DisconnectAll
<1>4. ASSUME NEW a \in Addr, DestroyObject(a) PROVE StoreInv'
  BY <1>0, <1>4, DestroyObjectInv
<1>5. ASSUME NEW a \in Addr, DestroyItem(a) PROVE StoreInv'
  BY <1>0, <1>5, ItemStep DEF DestroyItem
<1>6. ASSUME NEW a \in Addr, ensureIdFor(a) PROVE StoreInv'
  BY <1>0, <1>6, EnsureIdForInv
<1>7. ASSUME NEW a \in Addr, ensureIdForGItem(a) PROVE StoreInv'
  BY <1>0, <1>7, ItemStep DEF ensureIdForGItem
<1>8. ASSUME UNCHANGED vars PROVE StoreInv'
  BY <1>0, <1>8, ItemStep DEF vars
<1> QED BY <1>1, <1>2, <1>3, <1>4, <1>5, <1>6, <1>7, <1>8 DEF Next

(* The two maps of the store are inverse to one another throughout. *)
LEMMA StoreInvariant == Spec => []StoreInv
  BY InitInv, NextInv, PTL DEF Spec

(* The members of QtObjectStore keep their types. *)
THEOREM TypeCorrect == Spec => []TypeOK
<1>1. StoreInv => TypeOK
  BY DEF StoreInv
<1> QED BY <1>1, StoreInvariant, PTL

(* An ID replied for a QObject never resolves to another QObject, whatever the *)
(* application destroys, creates at the same address or disconnects.           *)
THEOREM ObjectIdsAreStable == Spec => []ObjectIdsStable
<1>1. StoreInv => ObjectIdsStable
  BY DEF StoreInv, IssuedTracked, Dead, ObjectIdsStable, objectForId, LiveObject
<1> QED BY <1>1, StoreInvariant, PTL

-----------------------------------------------------------------------------
(***************************************************************************)
(* With the destroyed connections left alone the two hashes are inverse of *)
(* each other and hold the live instances only.                            *)
(***************************************************************************)
HashesInverse ==
    /\ \A a \in Addr : m_obj2id[a] # 0 =>
          /\ objectAt[a] # 0 /\ connected[a]
          /\ m_obj2id[a] \in DOMAIN m_id2obj /\ m_id2obj[m_obj2id[a]] = objectAt[a]
    /\ \A id \in DOMAIN m_id2obj : \E a \in Addr : m_obj2id[a] = id

IssuedResolve ==
    \A p \in issued : /\ p[2] < born
                      /\ LiveObject(p[2]) => p[1] \in DOMAIN m_id2obj /\ m_id2obj[p[1]] = p[2]

LinkInv == StoreInv /\ HashesInverse /\ IssuedResolve

(* A new instance is unknown to the store. *)
LEMMA NewObjectLink ==
  ASSUME LinkInv, NEW a \in Addr, NewObject(a)
  PROVE  HashesInverse' /\ IssuedResolve'
<1> USE DEF NewObject, LinkInv, StoreInv, TypeOK, objVars, gitemVars
<1>1. HashesInverse'
  BY DEF HashesInverse
<1>2. IssuedResolve'
  BY DEF IssuedResolve, LiveObject
<1> QED BY <1>1, <1>2

(* The destroyed signal removes both entries of the instance. *)
LEMMA DestroyObjectLink ==
  ASSUME LinkInv, NEW a \in Addr, DestroyObject(a)
  PROVE  HashesInverse' /\ IssuedResolve'
<1> USE DEF DestroyObject, LinkInv, StoreInv, TypeOK, gitemVars
<1>1. CASE m_obj2id[a] = 0
  <2>1. UNCHANGED <<m_obj2id, m_id2obj>>
    BY <1>1 DEF dropIdFor
  <2>2. HashesInverse'
    BY <1>1, <2>1 DEF HashesInverse
  <2>3. IssuedResolve'
    BY <1>1, <2>1 DEF IssuedResolve, LiveObject
  <2> QED BY <2>2, <2>3
<1>2. CASE m_obj2id[a] # 0
  <2>0. connected[a] /\ m_obj2id[a] \in DOMAIN m_id2obj
        /\ m_id2obj[m_obj2id[a]] = objectAt[a]
    BY <1>2 DEF HashesInverse
  <2>1. /\ DOMAIN m_id2obj' = DOMAIN m_id2obj \ {m_obj2id[a]}
        /\ \A id \in DOMAIN m_id2obj' : m_id2obj'[id] = m_id2obj[id]
        /\ m_obj2id' = [m_obj2id EXCEPT ![a] = 0]
    BY <1>2, <2>0 DEF dropIdFor, Remove
  <2>2. \A b \in Addr : b # a /\ m_obj2id[b] # 0 => m_obj2id[b] # m_obj2id[a]
    BY <2>0 DEF HashesInverse, SerialsDistinct
  <2>3. HashesInverse'
    <3>1. \A b \in Addr : m_obj2id'[b] # 0 =>
            /\ objectAt'[b] # 0 /\ connected'[b]
            /\ m_obj2id'[b] \in DOMAIN m_id2obj' /\ m_id2obj'[m_obj2id'[b]] = objectAt'[b]
      BY <2>1, <2>2 DEF HashesInverse
    <3>2. \A id \in DOMAIN m_id2obj' : \E b \in Addr : m_obj2id'[b] = id
      BY <2>1 DEF HashesInverse
    <3> QED BY <3>1, <3>2 DEF HashesInverse
  <2>4. IssuedResolve'
    <3> SUFFICES ASSUME NEW p \in issued, NEW b \in Addr, objectAt'[b] = p[2], p[2] # 0
                 PROVE  p[1] \in DOMAIN m_id2obj' /\ m_id2obj'[p[1]] = p[2]
      BY DEF IssuedResolve, LiveObject
    <3>1. b # a /\ objectAt[b] = p[2]
      OBVIOUS
    <3>2. p[1] \in DOMAIN m_id2obj /\ m_id2obj[p[1]] = p[2]
      BY <3>1 DEF IssuedResolve, LiveObject
    <3>3. p[1] # m_obj2id[a]
      BY <2>0, <3>1, <3>2 DEF SerialsDistinct
    <3> QED BY <2>1, <3>2, <3>3
  <2> QED BY <2>3, <2>4
<1> QED BY <1>1, <1>2

(* ensureIdFor enters a live instance under a fresh ID, or finds its ID. *)
LEMMA EnsureIdForLink ==
  ASSUME LinkInv, NEW a \in Addr, ensureIdFor(a)
  PROVE  HashesInverse' /\ IssuedResolve'
<1> USE DEF LinkInv, StoreInv, TypeOK, heapVars, gitemVars
<1>1. CASE registerNew(a)
  <2> USE <1>1 DEF registerNew
  <2>1. /\ objectAt[a] # 0 /\ m_obj2id[a] = 0 /\ m_nextId \notin DOMAIN m_id2obj
        /\ UNCHANGED <<objectAt, born>>
    BY DEF ensureIdFor, IdsBelowNext
  <2>2. /\ DOMAIN m_id2obj' = DOMAIN m_id2obj \cup {m_nextId}
        /\ m_id2obj'[m_nextId] = objectAt[a]
        /\ \A id \in DOMAIN m_id2obj : m_id2obj'[id] = m_id2obj[id]
    BY <2>1 DEF Put
  <2>3. HashesInverse'
    <3>1. \A b \in Addr : m_obj2id'[b] # 0 =>
            /\ objectAt'[b] # 0 /\ connected'[b]
            /\ m_obj2id'[b] \in DOMAIN m_id2obj' /\ m_id2obj'[m_obj2id'[b]] = objectAt'[b]
      BY <2>1, <2>2 DEF HashesInverse
    <3>2. \A id \in DOMAIN m_id2obj' : \E b \in Addr : m_obj2id'[b] = id
      <4> TAKE id \in DOMAIN m_id2obj'
      <4>1. CASE id = m_nextId
        BY <4>1
      <4>2. CASE id \in DOMAIN m_id2obj
        <5>1. PICK b \in Addr : m_obj2id[b] = id
          BY <4>2 DEF HashesInverse
        <5>2. b # a
          BY <2>1, <4>2, <5>1 DEF IdsBelowNext
        <5> QED BY <5>1, <5>2
      <4> QED BY <2>2, <4>1, <4>2
    <3> QED BY <3>1, <3>2 DEF HashesInverse
  <2>4. IssuedResolve'
    BY <2>1, <2>2 DEF IssuedResolve, LiveObject, SerialsBelowBorn
  <2> QED BY <2>3, <2>4
<1>2. CASE ~registerNew(a)
  <2>1. /\ m_obj2id[a] # 0 /\ issued' = issued \cup {<<m_obj2id[a], objectAt[a]>>}
        /\ UNCHANGED <<objectAt, born, connected, m_obj2id, m_id2obj, m_nextId>>
    BY <1>2 DEF ensureIdFor
  <2>2. HashesInverse'
    BY <2>1 DEF HashesInverse
  <2>3. IssuedResolve'
    BY <2>1 DEF IssuedResolve, LiveObject, HashesInverse, SerialsBelowBorn
  <2> QED BY <2>2, <2>3
<1> QED BY <1>1, <1>2

(* As long as the application has severed no connection. *)
LinkedInv == StoreInv /\ (~severed => LinkInv)

(* Every step keeps the link between an object and the slot that drops it. *)
LEMMA LinkNext == LinkedInv /\ [Next]_vars => LinkedInv'
<1> SUFFICES ASSUME LinkedInv, [Next]_vars, ~severed' PROVE LinkInv'
  BY NextInv DEF LinkedInv
<1>0. StoreInv'
  BY NextInv DEF LinkedInv
<1>1. ~severed /\ LinkInv
  BY DEF LinkedInv, Next, NewObject, NewItem, DisconnectAll, DestroyObject, DestroyItem,
     ensureIdFor, ensureIdForGItem, objVars, vars
<1>2. ASSUME NEW a \in Addr, NewObject(a) PROVE LinkInv'
  BY <1>0, <1>1, <1>2, NewObjectLink DEF LinkInv
<1>3. ASSUME NEW a \in Addr, DestroyObject(a) PROVE LinkInv'
  BY <1>0, <1>1, <1>3, DestroyObjectLink DEF LinkInv
<1>4. ASSUME NEW a \in Addr, ensureIdFor(a) PROVE LinkInv'
  BY <1>0, <1>1, <1>4, EnsureIdForLink DEF LinkInv
<1>5. ASSUME UNCHANGED <<objectAt, born, objVars>> PROVE LinkInv'
  BY <1>0, <1>1, <1>5 DEF LinkInv, HashesInverse, IssuedResolve, LiveObject, objVars
<1>6. ASSUME NEW a \in Addr, NewItem(a) PROVE LinkInv'
  BY <1>0, <1>1, <1>6 DEF NewItem, objVars, LinkInv, StoreInv, TypeOK, HashesInverse,
     IssuedResolve, LiveObject
<1>7. ASSUME NEW a \in Addr, DisconnectAll(a) PROVE FALSE
  BY <1>7 DEF DisconnectAll
<1> QED BY <1>2, <1>3, <1>4, <1>5, <1>6, <1>7 DEF Next, DestroyItem, ensureIdForGItem,
     vars, heapVars

(* Registered objects stay linked as long as the application does not disconnect them. *)
LEMMA LinkInvariant == Spec => []LinkedInv
<1>1. Init => LinkedInv
  BY InitInv DEF LinkedInv, LinkInv, HashesInverse, IssuedResolve, Init, Nobody
<1> QED BY <1>1, LinkNext, PTL DEF Spec

(* An ID replied for a QObject designates it as long as it lives, provided the *)
(* application has not severed the destroyed connection.                       *)
THEOREM LiveObjectsAlwaysResolve == Spec => []LiveObjectsResolve
<1>1. LinkedInv => LiveObjectsResolve
  BY DEF LinkedInv, LinkInv, IssuedResolve, LiveObjectsResolve, objectForId
<1> QED BY <1>1, LinkInvariant, PTL

(* Under the same proviso neither hash keeps an entry of a destroyed object. *)
THEOREM DestroyedAreDropped == Spec => []AutoDropped
<1>1. LinkedInv => AutoDropped
  BY DEF LinkedInv, LinkInv, StoreInv, IdsBelowNext, HashesInverse, AutoDropped, LiveObject
<1> QED BY <1>1, LinkInvariant, PTL

-----------------------------------------------------------------------------
ItemIdsAbove ==
    /\ m_nextGItemId >= GItemBase
    /\ \A id \in DOMAIN m_id2gitem : id >= GItemBase

ReachInv == StoreInv /\ ItemIdsAbove

(* Every step keeps object IDs below the base of the graphics IDs or dead. *)
LEMMA ReachNext == ReachInv /\ [Next]_vars => ReachInv'
<1> SUFFICES ASSUME ReachInv, [Next]_vars PROVE ReachInv'
  OBVIOUS
<1>0. StoreInv'
  BY NextInv DEF ReachInv
<1>1. ASSUME NEW a \in Addr, ensureIdForGItem(a) PROVE ItemIdsAbove'
  BY <1>1, StoreAssumption
  DEF ensureIdForGItem, nextGItemId, Put, ReachInv, StoreInv, TypeOK, ItemIdsAbove
<1>2. ASSUME UNCHANGED gitemVars PROVE ItemIdsAbove'
  BY <1>2 DEF gitemVars, ReachInv, ItemIdsAbove
<1> QED BY <1>0, <1>1, <1>2 DEF ReachInv, Next, NewObject, NewItem, DisconnectAll, DestroyObject,
     DestroyItem, ensureIdFor, vars

(* While the object IDs stay below GItemBase, no ID replied for a QObject is *)
(* looked up as a graphics item, whatever GItemBase is.                      *)
THEOREM ObjectIdsAlwaysReachObjects == Spec => []ObjectIdsReachObjects
<1>1. Init => ReachInv
  BY InitInv, StoreAssumption DEF ReachInv, ItemIdsAbove, Init
<1>2. ReachInv => ObjectIdsReachObjects
  BY StoreAssumption DEF ReachInv, StoreInv, TypeOK, IdsBelowNext, ItemIdsAbove,
     ObjectIdsReachObjects, ResolvesToItem
<1> QED BY <1>1, <1>2, ReachNext, PTL DEF Spec

-----------------------------------------------------------------------------
\* A change of the tree, with the object or item it creates or destroys.
LEMMA ApplicationStep == Application => [Next]_vars
<1> SUFFICES ASSUME Application PROVE [Next]_vars
  OBVIOUS
<1>1. PICK a \in Addr :
        \/ \E c \in Classes, p \in Addr \cup {None} : NewWidget(a, c, p) \/ NewWindow(a, c, p)
        \/ \E p \in Addr : NewHandle(a, p) \/ NewQuickItem(a, p) \/ NewPlain(a, p) \/ Moves(a, p)
        \/ \E p \in Addr \cup {None} : NewGraphicsItem(a, p)
        \/ NewContent(a) \/ Destroys(a) \/ Disconnects(a)
  BY DEF Application
<1>2. CASE \E c \in Classes, p \in Addr \cup {None} : NewWidget(a, c, p) \/ NewWindow(a, c, p)
  BY <1>2 DEF NewWidget, NewWindow, Born, Next
<1>3. CASE \E p \in Addr : NewHandle(a, p) \/ NewQuickItem(a, p) \/ NewPlain(a, p)
  BY <1>3 DEF NewHandle, NewQuickItem, NewPlain, Born, Next
<1>4. CASE \E p \in Addr : Moves(a, p)
  BY <1>4 DEF Moves
<1>5. CASE \E p \in Addr \cup {None} : NewGraphicsItem(a, p)
  BY <1>5 DEF NewGraphicsItem, Next
<1>6. CASE NewContent(a)
  BY <1>6 DEF NewContent, Born, Next
<1>7. CASE Destroys(a)
  BY <1>7 DEF Destroys, Next
<1>8. CASE Disconnects(a)
  BY <1>8 DEF Disconnects, Next
<1> QED BY <1>1, <1>2, <1>3, <1>4, <1>5, <1>6, <1>7, <1>8

\* One turn of a loop gives at most one element its ID.
LEMMA RequestStep == Requests => [Next]_vars
<1> SUFFICES ASSUME Requests PROVE [Next]_vars
  OBVIOUS
<1>1. CASE handleElementsRoots
  BY <1>1 DEF handleElementsRoots, asks
<1>2. CASE \E id \in frontier : handleElementsChildren(id)
  BY <1>2 DEF handleElementsChildren, asks
<1>3. CASE \E a \in Addr : handleOne(a)
  BY <1>3 DEF handleOne, registers, Next
<1>4. ASSUME NEW a \in Addr, handles(a) PROVE [Next]_vars
  <2>1. CASE skips(a)
    BY <1>4, <2>1 DEF handles
  <2>2. CASE ~skips(a)
    BY <1>4, <2>2 DEF handles, registers, Next
  <2> QED BY <2>1, <2>2
<1>5. CASE replies
  BY <1>5 DEF replies
<1> QED BY <1>1, <1>2, <1>3, <1>4, <1>5 DEF Requests

\* Discovery implements the object table: its initial states are the table's,
\* and every step of the application or of a handler is one of its steps or none.
THEOREM ImplementsObjectStore == DiscoverySpec => Spec
<1>1. DiscoveryInit => Init
  BY DEF DiscoveryInit
<1>2. [DiscoveryNext]_discoveryVars => [Next]_vars
  BY ApplicationStep, RequestStep DEF DiscoveryNext, discoveryVars
<1> QED BY <1>1, <1>2, PTL DEF DiscoverySpec, Spec

\* Hence an ID that a client got from any handler never comes to designate
\* another object, for any tree and any number of elements.
THEOREM IdsOfClientsAreStable == DiscoverySpec => []ObjectIdsStable
BY ImplementsObjectStore, ObjectIdsAreStable, PTL

\* It designates its object as long as that lives, unless one was disconnected.
THEOREM IdsOfClientsResolve == DiscoverySpec => []LiveObjectsResolve
BY ImplementsObjectStore, LiveObjectsAlwaysResolve, PTL

-----------------------------------------------------------------------------
(***************************************************************************)
(* Widgets, windows and Qt Quick items: three families of classes, none of *)
(* which derives from another.                                             *)
(***************************************************************************)
WidgetClasses ==
    {"QWidget", "QMenu", "QDialog", "QGraphicsView", "QAbstractButton", "QPushButton", "QCheckBox",
     "QRadioButton", "QLineEdit", "QPlainTextEdit", "QTextEdit", "QTextBrowser", "QComboBox",
     "QFontComboBox", "QTabWidget", "QTabBar", "QListView", "QListWidget", "QTreeView",
     "QTreeWidget", "QTableView", "QTableWidget", "QAbstractSlider", "QDial",
     "QAbstractSpinBox", "QSpinBox", "QDoubleSpinBox", "QDateTimeEdit", "QDateEdit",
     "QTimeEdit", "QProgressBar", "QLabel", "QGroupBox"}

WindowClasses == {"QWindow", "QQuickWindow"}

ItemClasses ==
    {"QQuickItem", "QQuickText", "QQuickTextInput", "QQuickTextEdit", "QQuickTextField",
     "QQuickAbstractButton", "QQuickCheckBox", "QQuickRadioButton", "QQuickSlider",
     "QQuickListView", "QQuickTableView"}

\* The classes of ElementSummary, and what each family derives from.
LEMMA Families ==
    /\ Class = WidgetClasses \cup WindowClasses \cup ItemClasses \cup {"QTimer", "QObject"}
    /\ \A c \in WidgetClasses : Base[c] \in WidgetClasses \cup {"QObject"}
    /\ \A c \in ItemClasses : Base[c] \in ItemClasses \cup {"QObject"}
    /\ Base["QWindow"] = "QObject" /\ Base["QQuickWindow"] = "QWindow" /\ Base["QTimer"] = "QObject"
<1>1. Class = WidgetClasses \cup WindowClasses \cup ItemClasses \cup {"QTimer", "QObject"}
  BY DEF Class, Base, WidgetClasses, WindowClasses, ItemClasses
<1>2. \A c \in WidgetClasses : Base[c] \in WidgetClasses \cup {"QObject"}
  BY DEF Base, WidgetClasses
<1>3. \A c \in ItemClasses : Base[c] \in ItemClasses \cup {"QObject"}
  BY DEF Base, ItemClasses
<1>4. Base["QWindow"] = "QObject" /\ Base["QQuickWindow"] = "QWindow" /\ Base["QTimer"] = "QObject"
  BY DEF Base
<1> QED BY <1>1, <1>2, <1>3, <1>4

(* A set of classes that all derive from classes of the set or from QObject    *)
(* holds every class but QObject that one of them derives from.               *)
LEMMA Lineage ==
  ASSUME NEW F, \A c \in F : Base[c] \in F \cup {"QObject"}, NEW c \in Class, c \in F
  PROVE  lineage[c] \subseteq F \cup {"QObject"}
<1>1. ASSUME NEW S, S \subseteq F \cup {"QObject"} PROVE bases(S) \subseteq F \cup {"QObject"}
  BY <1>1 DEF bases
<1>2. bases(bases(bases(bases({c})))) \subseteq F \cup {"QObject"}
  BY <1>1
<1> QED BY <1>2 DEF lineage

\* A qobject_cast that succeeds tells the family.
LEMMA CastsTo ==
  ASSUME NEW c \in Class
  PROVE  /\ castsTo(c, "QWidget") => c \in WidgetClasses
         /\ castsTo(c, "QWindow") => c \in WindowClasses
         /\ castsTo(c, "QQuickItem") => c \in ItemClasses
         /\ castsTo(c, "QQuickWindow") => c = "QQuickWindow"
<1>1. CASE c \in WidgetClasses
  <2>1. lineage[c] \subseteq WidgetClasses \cup {"QObject"}
    BY <1>1, Families, Lineage
  <2> QED BY <1>1, <2>1 DEF castsTo, WidgetClasses
<1>2. CASE c \in ItemClasses
  <2>1. lineage[c] \subseteq ItemClasses \cup {"QObject"}
    BY <1>2, Families, Lineage
  <2> QED BY <1>2, <2>1 DEF castsTo, ItemClasses
<1>3. CASE c = "QTimer" \/ c = "QWindow" \/ c = "QObject"
  <2>1. \A d \in {c} : d # "QObject" => Base[d] \in {c} \cup {"QObject"}
    BY <1>3, Families
  <2>2. lineage[c] \subseteq {c} \cup {"QObject"}
    <3>1. CASE c # "QObject"
      BY <2>1, <3>1, Lineage
    <3>2. CASE c = "QObject"
      <4>1. bases({c}) = {c}
        BY <3>2 DEF bases
      <4> QED BY <4>1 DEF lineage
    <3> QED BY <3>1, <3>2
  <2> QED BY <1>3, <2>2 DEF castsTo, WindowClasses
<1>4. CASE c = "QQuickWindow"
  <2>1. lineage[c] \subseteq WindowClasses \cup {"QObject"}
    BY <1>4, Families, Lineage DEF WindowClasses
  <2> QED BY <1>4, <2>1 DEF castsTo, WindowClasses
<1> QED BY <1>1, <1>2, <1>3, <1>4, Families DEF WindowClasses

\* An object casts to its own class.
LEMMA CastsToSelf ==
    /\ \A c \in Class : castsTo(c, c)
    /\ castsTo("QQuickWindow", "QWindow")
    /\ {"QWindow", "QQuickWindow", "QQuickItem", "QTimer"} \subseteq Class
<1>1. \A S : S \subseteq bases(S)
  BY DEF bases
<1>2. \A c \in Class : lineage[c] = bases(bases(bases(bases({c}))))
  BY DEF lineage
<1>3. \A c \in Class : bases({c}) \subseteq lineage[c] /\ c \in bases({c})
  BY <1>1, <1>2
<1>4. {"QWindow", "QQuickWindow", "QQuickItem", "QTimer"} \subseteq Class
  BY Families DEF WindowClasses, ItemClasses
<1>5. "QWindow" \in bases({"QQuickWindow"})
  BY Families DEF bases
<1> QED BY <1>3, <1>4, <1>5 DEF castsTo

\* The casts of the discovery handlers exclude one another.
LEMMA Kinds ==
  ASSUME NEW c \in Class
  PROVE  /\ castsTo(c, "QWidget") => ~castsTo(c, "QWindow") /\ ~castsTo(c, "QQuickItem")
         /\ castsTo(c, "QWindow") => ~castsTo(c, "QQuickItem")
         /\ castsTo(c, "QQuickWindow") <=> c = "QQuickWindow"
         /\ c = "QQuickWindow" => castsTo(c, "QWindow")
<1>1. /\ WidgetClasses \cap WindowClasses = {} /\ WidgetClasses \cap ItemClasses = {}
      /\ WindowClasses \cap ItemClasses = {}
  BY DEF WidgetClasses, WindowClasses, ItemClasses
<1> QED BY <1>1, CastsTo, CastsToSelf

\* The classes that the application makes besides those of Classes.
LEMMA KnownKinds ==
    /\ castsTo("QWindow", "QWindow") /\ castsTo("QQuickItem", "QQuickItem")
    /\ ~castsTo("QTimer", "QWidget") /\ ~castsTo("QTimer", "QWindow")
    /\ ~castsTo("QTimer", "QQuickItem")
    /\ {"QWindow", "QQuickItem", "QTimer"} \subseteq Class
<1>1. "QTimer" \notin WidgetClasses \cup WindowClasses \cup ItemClasses
  BY DEF WidgetClasses, WindowClasses, ItemClasses
<1> QED BY <1>1, CastsTo, CastsToSelf

\* Nothing derives from a menu or a graphics view.
LEMMA Leaves ==
  ASSUME NEW k \in {"QMenu", "QGraphicsView"}, NEW c \in Class, castsTo(c, k)
  PROVE  c = k
<1> DEFINE F == Class \ {k}
<1>1. \A d \in DOMAIN Base : Base[d] # k
  BY DEF Base
<1>2. \A d \in DOMAIN Base : Base[d] \in Class
  <2>1. \A d \in WidgetClasses \cup WindowClasses \cup ItemClasses \cup {"QTimer"} : Base[d] \in Class
    BY Families DEF WindowClasses
  <2>2. DOMAIN Base \subseteq WidgetClasses \cup WindowClasses \cup ItemClasses \cup {"QTimer"}
    BY DEF Base, WidgetClasses, WindowClasses, ItemClasses
  <2> QED BY <2>1, <2>2
<1>3. ASSUME NEW S, S \subseteq F PROVE bases(S) \subseteq F
  BY <1>1, <1>2, <1>3 DEF bases, Class
<1>4. ASSUME c # k PROVE FALSE
  <2>1. bases(bases(bases(bases({c})))) \subseteq F
    BY <1>3, <1>4
  <2> QED BY <2>1 DEF castsTo, lineage
<1> QED BY <1>4

\* They are widgets.
LEMMA MenusAndViews ==
  ASSUME NEW c \in Class, castsTo(c, "QMenu") \/ castsTo(c, "QGraphicsView")
  PROVE  castsTo(c, "QWidget")
<1>1. c \in {"QMenu", "QGraphicsView"}
  BY Leaves
<1>2. Base[c] = "QWidget"
  BY <1>1 DEF Base
<1>3. \A S : S \subseteq bases(S)
  BY DEF bases
<1>4. "QWidget" \in bases({c})
  BY <1>1, <1>2 DEF bases
<1>5. "QWidget" \in bases(bases(bases(bases({c}))))
  BY <1>3, <1>4
<1> QED BY <1>5 DEF castsTo, lineage

\* Four steps lead from every class to QObject.
LEMMA EveryObject ==
  ASSUME NEW c \in Class
  PROVE  castsTo(c, "QObject")
<1> DEFINE M1 == {"QObject", "QWidget", "QWindow", "QQuickItem"}
           M2 == M1 \cup {"QAbstractButton", "QTextEdit", "QComboBox", "QListView",
                          "QTreeView", "QTableView", "QAbstractSlider", "QAbstractSpinBox",
                          "QQuickTextInput", "QQuickAbstractButton"}
           M3 == M2 \cup {"QDateTimeEdit"}
<1>1. \A d \in DOMAIN Base : Base[d] \in M3
  BY DEF Base
<1>2. \A d \in M3 \ {"QObject"} : Base[d] \in M2
  BY DEF Base
<1>3. \A d \in M2 \ {"QObject"} : Base[d] \in M1
  BY DEF Base
<1>4. \A d \in M1 \ {"QObject"} : Base[d] = "QObject"
  BY DEF Base
<1>5. "QObject" \in M1 /\ "QObject" \in M2 /\ "QObject" \in M3
  OBVIOUS
<1> HIDE DEF M1, M2, M3
<1>6. PICK d3 \in M3 : d3 \in bases({c})
  BY <1>1, <1>5 DEF bases, Class
<1>7. PICK d2 \in M2 : d2 \in bases(bases({c}))
  BY <1>2, <1>5, <1>6 DEF bases
<1>8. PICK d1 \in M1 : d1 \in bases(bases(bases({c})))
  BY <1>3, <1>5, <1>7 DEF bases
<1>9. "QObject" \in bases(bases(bases(bases({c}))))
  BY <1>4, <1>8 DEF bases
<1> QED BY <1>9 DEF castsTo, lineage

-----------------------------------------------------------------------------
(***************************************************************************)
(* The tree of the application.  What is linked is alive, what a widget or *)
(* a window is under owns it, and the item inside a Quick window is owned  *)
(* by it and has no parent item.                                           *)
(***************************************************************************)
Widget(a) == IsA(a, "QWidget")
Window(a) == IsA(a, "QWindow")
QuickWindow(a) == objectAt[a] # 0 /\ class[a] = "QQuickWindow"
QuickItem(a) == IsA(a, "QQuickItem")

TreeTypes ==
    /\ owner \in [Addr -> Addr \cup {None}] /\ up \in [Addr -> Addr \cup {None}]
    /\ inner \in [Addr -> Addr \cup {None}] /\ half \in Addr \cup {None}
    /\ class \in [Addr -> Class \cup {"none"}]
    /\ \A a \in Addr : objectAt[a] # 0 => class[a] \in Class /\ itemAt[a] = 0

Living ==
    \A a \in Addr :
        /\ owner[a] # None => objectAt[a] # 0 /\ objectAt[owner[a]] # 0
        /\ up[a] # None => Exists(a) /\ Exists(up[a])
        /\ inner[a] # None => objectAt[a] # 0 /\ objectAt[inner[a]] # 0

Widgets ==
    \A a \in Addr : Widget(a) => up[a] = owner[a] /\ (inner[a] # None => Window(inner[a]))

WindowsUnder ==
    \A a \in Addr : Window(a) =>
        /\ up[a] # None => up[a] = owner[a]
        /\ up[a] = None /\ owner[a] # None => QuickItem(owner[a])

Contents ==
    \A a \in Addr :
        /\ Window(a) /\ inner[a] # None =>
              QuickWindow(a) /\ QuickItem(inner[a]) /\ up[inner[a]] = None /\ owner[inner[a]] = a
        /\ QuickWindow(a) /\ half # a => inner[a] # None

Halves == half # None => QuickWindow(half)

Others ==
    \A a \in Addr : ~Widget(a) /\ ~Window(a) =>
        /\ inner[a] = None
        /\ ~QuickItem(a) /\ ~IsItem(a) => up[a] = None

OneHolder == \A a, b \in Addr : inner[a] = inner[b] /\ inner[a] # None => a = b

TreeInv ==
    /\ TreeTypes /\ Living /\ Widgets /\ WindowsUnder /\ Contents /\ Halves /\ Others
    /\ OneHolder

(* An object is of one family at most. *)
LEMMA OneFamily ==
  ASSUME TreeTypes, NEW a \in Addr
  PROVE  /\ Widget(a) => ~Window(a) /\ ~QuickItem(a) /\ ~QuickWindow(a)
         /\ Window(a) => ~QuickItem(a)
         /\ QuickWindow(a) => Window(a)
         /\ Widget(a) \/ Window(a) \/ QuickItem(a) => ~IsItem(a)
BY Kinds DEF TreeTypes, Widget, Window, QuickItem, QuickWindow, IsA, IsItem

(* Nothing is under, inside or owned by what does not exist. *)
LEMMA NotLinked ==
  ASSUME TreeTypes, Living, NEW a \in Addr, objectAt[a] = 0, itemAt[a] = 0
  PROVE  /\ owner[a] = None /\ up[a] = None /\ inner[a] = None
         /\ \A b \in Addr : owner[b] # a /\ up[b] # a /\ inner[b] # a
<1>1. None \notin Addr
  BY DiscoveryAssumption
<1> QED BY <1>1 DEF Living, Exists

\* The invariant is about the heap and the links alone.
LEMMA TreeSame ==
  ASSUME TreeInv, UNCHANGED <<objectAt, itemAt, class, owner, up, inner, half>>
  PROVE  TreeInv'
BY DEF TreeInv, TreeTypes, Living, Widgets, WindowsUnder, Contents, Halves, Others, OneHolder,
   Exists, Widget, Window, QuickItem, QuickWindow, IsA, IsItem

(* A new object: the others are what they were. *)
NewObjectAt(a, c, o, u) ==
    /\ objectAt[a] = 0 /\ itemAt[a] = 0 /\ itemAt' = itemAt
    /\ objectAt' = [objectAt EXCEPT ![a] = born]
    /\ class' = [class EXCEPT ![a] = c]
    /\ owner' = [owner EXCEPT ![a] = o] /\ up' = [up EXCEPT ![a] = u]

\* The heap after a constructor.
LEMMA BornIsNew ==
  ASSUME NEW a, NEW c, NEW o, NEW u, Born(a, c, o, u)
  PROVE  NewObjectAt(a, c, o, u)
BY DEF Born, NewObject, NewObjectAt

\* What is new of a new object, and what is not.
LEMMA BornFacts ==
  ASSUME TypeOK, TreeInv, NEW a \in Addr, NEW c \in Class, NEW o \in Addr \cup {None},
         NEW u \in Addr \cup {None}, NewObjectAt(a, c, o, u)
  PROVE  /\ objectAt'[a] # 0 /\ itemAt'[a] = 0 /\ class'[a] = c /\ owner'[a] = o /\ up'[a] = u
         /\ \A b \in Addr : b # a =>
               /\ objectAt'[b] = objectAt[b] /\ itemAt'[b] = itemAt[b] /\ class'[b] = class[b]
               /\ owner'[b] = owner[b] /\ up'[b] = up[b]
               /\ Widget(b)' = Widget(b) /\ Window(b)' = Window(b)
               /\ QuickItem(b)' = QuickItem(b) /\ QuickWindow(b)' = QuickWindow(b)
               /\ Exists(b)' = Exists(b) /\ IsItem(b)' = IsItem(b)
         /\ Exists(a)' /\ ~IsItem(a)' /\ (Widget(a)' <=> castsTo(c, "QWidget"))
         /\ Window(a)' <=> castsTo(c, "QWindow")
         /\ QuickItem(a)' <=> castsTo(c, "QQuickItem")
         /\ QuickWindow(a)' <=> c = "QQuickWindow"
         /\ TreeTypes /\ Living
         /\ objectAt[a] = 0 /\ itemAt[a] = 0 /\ ~Exists(a)
         /\ ~Widget(a) /\ ~Window(a) /\ ~QuickItem(a) /\ ~QuickWindow(a)
<1>1. born # 0 /\ objectAt \in [Addr -> Nat] /\ itemAt \in [Addr -> Nat]
  BY DEF TypeOK
<1>2. /\ objectAt'[a] = born /\ itemAt'[a] = 0 /\ class'[a] = c /\ owner'[a] = o /\ up'[a] = u
      /\ \A b \in Addr : b # a =>
               /\ objectAt'[b] = objectAt[b] /\ itemAt'[b] = itemAt[b] /\ class'[b] = class[b]
               /\ owner'[b] = owner[b] /\ up'[b] = up[b]
  BY <1>1 DEF TreeInv, TreeTypes, NewObjectAt
<1>3. objectAt[a] = 0 /\ itemAt[a] = 0
  BY DEF NewObjectAt
<1> QED BY <1>1, <1>2, <1>3 DEF TreeInv, Widget, Window, QuickItem, QuickWindow, IsA, IsItem, Exists

(* What a new object leaves of the links of the others. *)
LEMMA BornLiving ==
  ASSUME TypeOK, TreeInv, NEW a \in Addr, NEW c \in Class, NEW o \in Addr \cup {None},
         NEW u \in Addr \cup {None}, NewObjectAt(a, c, o, u),
         o # None => objectAt[o] # 0, u # None => objectAt[u] # 0,
         UNCHANGED inner
         \/ \E w \in Addr : objectAt[w] # 0 /\ inner' = [inner EXCEPT ![w] = a]
  PROVE  Living'
<1>0. a # None /\ o # a /\ u # a
  BY DiscoveryAssumption DEF NewObjectAt
<1>1. \A b \in Addr : objectAt'[b] # 0 \/ objectAt[b] = 0
  BY BornFacts
<1>2. \A b \in Addr : Exists(b) => objectAt'[b] # 0 \/ itemAt'[b] # 0
  <2> SUFFICES ASSUME NEW b \in Addr, Exists(b) PROVE objectAt'[b] # 0 \/ itemAt'[b] # 0
    OBVIOUS
  <2>1. b # a
    BY DEF Exists, NewObjectAt
  <2>2. objectAt'[b] = objectAt[b] /\ itemAt'[b] = itemAt[b]
    BY <2>1, BornFacts
  <2> QED BY <2>2 DEF Exists
<1>3. ASSUME NEW b \in Addr
      PROVE  /\ owner'[b] # None => objectAt'[b] # 0 /\ objectAt'[owner'[b]] # 0
             /\ up'[b] # None => Exists(b)' /\ Exists(up[b])'
  <2>1. CASE b = a
    BY <1>0, <1>1, <2>1, BornFacts DEF Exists
  <2>2. CASE b # a
    <3>1. owner'[b] = owner[b] /\ up'[b] = up[b] /\ Exists(b)' = Exists(b)
      BY <2>2, BornFacts
    <3>2. owner[b] \in Addr \cup {None} /\ up[b] \in Addr \cup {None}
      BY DEF TreeInv, TreeTypes
    <3>3. up[b] # None => Exists(up[b])'
      BY <1>2, <3>1, <3>2 DEF TreeInv, Living, Exists
    <3> QED BY <1>1, <2>2, <3>1, <3>2, <3>3 DEF TreeInv, Living
  <2> QED BY <2>1, <2>2
<1>4. \A b \in Addr : inner'[b] # None => objectAt'[b] # 0 /\ objectAt'[inner'[b]] # 0
  <2>1. CASE UNCHANGED inner
    BY <1>1, <2>1 DEF TreeInv, TreeTypes, Living
  <2>2. CASE \E w \in Addr : objectAt[w] # 0 /\ inner' = [inner EXCEPT ![w] = a]
    <3>1. PICK w \in Addr : objectAt[w] # 0 /\ inner' = [inner EXCEPT ![w] = a]
      BY <2>2
    <3>2. \A b \in Addr : inner'[b] = IF b = w THEN a ELSE inner[b]
      BY <3>1 DEF TreeInv, TreeTypes
    <3>3. objectAt'[a] # 0
      BY BornFacts
    <3> QED BY <1>1, <3>1, <3>2, <3>3 DEF TreeInv, TreeTypes, Living
  <2> QED BY <2>1, <2>2
<1> QED BY <1>3, <1>4 DEF Living

(* A new object without a handle or a content item. *)
LEMMA BornTree ==
  ASSUME TypeOK, TreeInv, NEW a \in Addr, NEW c \in Class, NEW o \in Addr \cup {None},
         NEW u \in Addr \cup {None}, NewObjectAt(a, c, o, u),
         o # None => objectAt[o] # 0, u # None => objectAt[u] # 0,
         castsTo(c, "QWidget") => u = o,
         castsTo(c, "QWindow") => (u # None => u = o) /\ (u = None /\ o # None => QuickItem(o)),
         castsTo(c, "QWidget") \/ castsTo(c, "QWindow") \/ castsTo(c, "QQuickItem") \/ u = None,
         UNCHANGED inner, half = None, half' = IF c = "QQuickWindow" THEN a ELSE None
  PROVE  TreeInv'
<1>0. a # None /\ o # a /\ u # a
  BY DiscoveryAssumption DEF NewObjectAt
<1>1. /\ objectAt'[a] # 0 /\ itemAt'[a] = 0 /\ class'[a] = c /\ owner'[a] = o /\ up'[a] = u
      /\ \A b \in Addr : b # a =>
               /\ objectAt'[b] = objectAt[b] /\ itemAt'[b] = itemAt[b] /\ class'[b] = class[b]
               /\ owner'[b] = owner[b] /\ up'[b] = up[b]
      /\ objectAt[a] = 0 /\ itemAt[a] = 0
  BY BornFacts
<1>2. \A b \in Addr : b # a =>
        /\ Widget(b)' = Widget(b) /\ Window(b)' = Window(b)
        /\ QuickItem(b)' = QuickItem(b) /\ QuickWindow(b)' = QuickWindow(b)
        /\ IsItem(b)' = IsItem(b)
  BY BornFacts
<1>3. /\ ~IsItem(a)' /\ (Widget(a)' <=> castsTo(c, "QWidget"))
      /\ Window(a)' <=> castsTo(c, "QWindow")
      /\ QuickItem(a)' <=> castsTo(c, "QQuickItem")
      /\ QuickWindow(a)' <=> c = "QQuickWindow"
  BY BornFacts
<1>4. inner'[a] = None /\ \A b \in Addr : owner[b] # a /\ up[b] # a /\ inner[b] # a
  BY <1>1, NotLinked DEF TreeInv
<1>5. TreeTypes'
  <2>1. /\ owner' \in [Addr -> Addr \cup {None}] /\ up' \in [Addr -> Addr \cup {None}]
        /\ class' \in [Addr -> Class \cup {"none"}] /\ inner' \in [Addr -> Addr \cup {None}]
        /\ half' \in Addr \cup {None}
    BY DEF TreeInv, TreeTypes, NewObjectAt
  <2>2. \A b \in Addr : objectAt'[b] # 0 => class'[b] \in Class /\ itemAt'[b] = 0
    BY <1>1 DEF TreeInv, TreeTypes
  <2> QED BY <2>1, <2>2 DEF TreeTypes
<1>6. Living'
  BY BornLiving
<1>7. Widgets'
  <2> SUFFICES ASSUME NEW b \in Addr, Widget(b)'
               PROVE  up'[b] = owner'[b] /\ (inner'[b] # None => Window(inner[b])')
    BY DEF Widgets
  <2>1. CASE b = a
    BY <1>1, <1>3, <1>4, <2>1
  <2>2. CASE b # a
    <3>1. Widget(b) /\ inner[b] \in Addr \cup {None} /\ inner[b] # a /\ inner'[b] = inner[b]
      BY <1>2, <1>4, <2>2 DEF TreeInv, TreeTypes
    <3>2. up[b] = owner[b] /\ (inner[b] # None => Window(inner[b]))
      BY <3>1 DEF TreeInv, Widgets
    <3>3. inner[b] # None => Window(inner[b])'
      BY <1>2, <3>1, <3>2
    <3> QED BY <1>1, <2>2, <3>1, <3>2, <3>3
  <2> QED BY <2>1, <2>2
<1>8. WindowsUnder'
  <2> SUFFICES ASSUME NEW b \in Addr, Window(b)'
               PROVE  /\ up'[b] # None => up'[b] = owner'[b]
                      /\ up'[b] = None /\ owner'[b] # None => QuickItem(owner[b])'
    BY DEF WindowsUnder
  <2>1. CASE b = a
    BY <1>0, <1>1, <1>2, <1>3, <2>1
  <2>2. CASE b # a
    <3>1. Window(b) /\ owner[b] \in Addr \cup {None} /\ owner[b] # a /\ owner'[b] = owner[b]
      BY <1>1, <1>2, <1>4, <2>2 DEF TreeInv, TreeTypes
    <3>2. /\ up[b] # None => up[b] = owner[b]
          /\ up[b] = None /\ owner[b] # None => QuickItem(owner[b])
      BY <3>1 DEF TreeInv, WindowsUnder
    <3>3. up[b] = None /\ owner[b] # None => QuickItem(owner[b])'
      BY <1>2, <3>1, <3>2
    <3> QED BY <1>1, <2>2, <3>1, <3>2, <3>3
  <2> QED BY <2>1, <2>2
<1>9. Contents'
  <2> SUFFICES ASSUME NEW b \in Addr
               PROVE  /\ Window(b)' /\ inner'[b] # None =>
                           /\ QuickWindow(b)' /\ QuickItem(inner[b])'
                           /\ up'[inner'[b]] = None /\ owner'[inner'[b]] = b
                      /\ QuickWindow(b)' /\ half' # b => inner'[b] # None
    BY DEF Contents
  <2>1. CASE b = a
    BY <1>1, <1>3, <1>4, <2>1
  <2>2. CASE b # a
    <3>1. inner[b] \in Addr \cup {None} /\ inner[b] # a /\ inner'[b] = inner[b]
      BY <1>4 DEF TreeInv, TreeTypes
    <3>2. /\ Window(b) /\ inner[b] # None =>
               /\ QuickWindow(b) /\ QuickItem(inner[b]) /\ up[inner[b]] = None
               /\ owner[inner[b]] = b
          /\ QuickWindow(b) => inner[b] # None
      BY DiscoveryAssumption DEF TreeInv, Contents
    <3> QED BY <1>1, <1>2, <2>2, <3>1, <3>2
  <2> QED BY <2>1, <2>2
<1>10. Halves' /\ OneHolder'
  BY <1>3 DEF TreeInv, Halves, OneHolder
<1>11. Others'
  BY <1>1, <1>2, <1>3, <1>4 DEF TreeInv, Others
<1> QED BY <1>5, <1>6, <1>7, <1>8, <1>9, <1>10, <1>11 DEF TreeInv

\* A new widget, or a new window that is not inside anything.
LEMMA NewTree ==
  ASSUME TypeOK, TreeInv, NEW a \in Addr, NEW c \in Classes, NEW p \in Addr \cup {None},
         NewWidget(a, c, p) \/ NewWindow(a, c, p)
  PROVE  TreeInv'
<1>0. c \in Class /\ Classes \subseteq Class /\ None \notin Addr
  BY DiscoveryAssumption
<1>1. CASE NewWidget(a, c, p)
  <2>1. /\ castsTo(c, "QWidget") /\ half = None /\ half' = None /\ UNCHANGED inner
        /\ NewObjectAt(a, c, p, p) /\ (p # None => objectAt[p] # 0)
    BY <1>1, BornIsNew DEF NewWidget, Idle, Objects, IsA
  <2>2. c # "QQuickWindow" /\ ~castsTo(c, "QWindow")
    BY <1>0, <2>1, Kinds
  <2> QED BY <1>0, <2>1, <2>2, BornTree
<1>2. CASE NewWindow(a, c, p)
  <2>1. /\ castsTo(c, "QWindow") /\ half = None /\ half' = IF c = "QQuickWindow" THEN a ELSE None
        /\ UNCHANGED inner /\ (p # None => objectAt[p] # 0)
    BY <1>2 DEF NewWindow, Idle, Objects, IsA
  <2>2. \/ NewObjectAt(a, c, p, p)
        \/ NewObjectAt(a, c, p, None) /\ QuickItem(p)
    <3>1. \/ Born(a, c, p, p)
          \/ p \in Objects("QQuickItem") /\ Born(a, c, p, None)
      BY <1>2 DEF NewWindow
    <3>2. p \in Objects("QQuickItem") => QuickItem(p)
      BY DEF Objects, QuickItem
    <3>3. Born(a, c, p, p) => NewObjectAt(a, c, p, p)
      BY BornIsNew
    <3>4. Born(a, c, p, None) => NewObjectAt(a, c, p, None)
      BY BornIsNew
    <3> QED BY <3>1, <3>2, <3>3, <3>4
  <2>3. ~castsTo(c, "QWidget")
    BY <1>0, <2>1, Kinds
  <2>4. CASE NewObjectAt(a, c, p, p)
    BY <1>0, <2>1, <2>3, <2>4, BornTree
  <2>5. CASE NewObjectAt(a, c, p, None) /\ QuickItem(p)
    BY <1>0, <2>1, <2>3, <2>5, BornTree
  <2> QED BY <2>2, <2>4, <2>5
<1> QED BY <1>1, <1>2

\* A new Quick item, or an object without a place of its own.
LEMMA NewItemTree ==
  ASSUME TypeOK, TreeInv, NEW a \in Addr, NEW p \in Addr, NewQuickItem(a, p) \/ NewPlain(a, p)
  PROVE  TreeInv'
<1>0. None \in Addr \cup {None} /\ None \notin Addr
  BY DiscoveryAssumption
<1>1. CASE NewQuickItem(a, p)
  <2>1. PICK o \in {p} \cup {w \in Objects("QQuickWindow") : inner[w] = p} :
           Born(a, "QQuickItem", o, p)
    BY <1>1 DEF NewQuickItem
  <2>2. o \in Addr /\ objectAt[o] # 0 /\ objectAt[p] # 0
    BY <1>1, <2>1 DEF NewQuickItem, Objects, IsA
  <2>3. half = None /\ half' = None /\ UNCHANGED inner
    BY <1>1 DEF NewQuickItem, Idle
  <2>4. ~castsTo("QQuickItem", "QWidget") /\ ~castsTo("QQuickItem", "QWindow")
    BY Kinds, KnownKinds
  <2> QED BY <1>0, <2>1, <2>2, <2>3, <2>4, BornIsNew, KnownKinds, BornTree
<1>2. CASE NewPlain(a, p)
  <2>1. /\ Born(a, "QTimer", p, None) /\ objectAt[p] # 0 /\ half = None /\ half' = None
        /\ UNCHANGED inner
    BY <1>2 DEF NewPlain, Idle, IsA
  <2> QED BY <1>0, <2>1, BornIsNew, KnownKinds, BornTree
<1> QED BY <1>1, <1>2

(* show() of a top-level widget, and the constructor of a Quick window: the   *)
(* new object is inside an older one.                                         *)
LEMMA InnerTree ==
  ASSUME TypeOK, TreeInv, NEW a \in Addr, NEW w \in Addr, objectAt[w] # 0, inner[w] = None,
         inner' = [inner EXCEPT ![w] = a], half' = None,
         \/ /\ Widget(w) /\ half = None /\ NewObjectAt(a, "QWindow", None, None)
         \/ /\ half = w /\ NewObjectAt(a, "QQuickItem", w, None)
  PROVE  TreeInv'
<1> DEFINE c == IF Widget(w) THEN "QWindow" ELSE "QQuickItem"
           o == IF Widget(w) THEN None ELSE w
<1>0. /\ a # None /\ a # w /\ None \in Addr \cup {None} /\ w # None
      /\ c \in Class /\ o \in Addr \cup {None}
  BY DiscoveryAssumption, KnownKinds DEF NewObjectAt
<1>1. half = w => Window(w) /\ QuickWindow(w) /\ ~Widget(w)
  BY <1>0, OneFamily DEF TreeInv, Halves
<1>2. /\ NewObjectAt(a, c, o, None)
      /\ Widget(w) => half = None /\ c = "QWindow" /\ o = None
      /\ ~Widget(w) => half = w /\ c = "QQuickItem" /\ o = w /\ Window(w) /\ QuickWindow(w)
  BY <1>1
<1> HIDE DEF c, o
<1>3. /\ objectAt'[a] # 0 /\ itemAt'[a] = 0 /\ class'[a] = c /\ owner'[a] = o /\ up'[a] = None
      /\ \A b \in Addr : b # a =>
               /\ objectAt'[b] = objectAt[b] /\ itemAt'[b] = itemAt[b] /\ class'[b] = class[b]
               /\ owner'[b] = owner[b] /\ up'[b] = up[b]
      /\ objectAt[a] = 0 /\ itemAt[a] = 0
  BY <1>0, <1>2, BornFacts
<1>4. \A b \in Addr : b # a =>
        /\ Widget(b)' = Widget(b) /\ Window(b)' = Window(b)
        /\ QuickItem(b)' = QuickItem(b) /\ QuickWindow(b)' = QuickWindow(b)
        /\ IsItem(b)' = IsItem(b)
  BY <1>0, <1>2, BornFacts
<1>5. /\ ~IsItem(a)' /\ (Widget(a)' <=> castsTo(c, "QWidget"))
      /\ Window(a)' <=> castsTo(c, "QWindow")
      /\ QuickItem(a)' <=> castsTo(c, "QQuickItem")
      /\ QuickWindow(a)' <=> c = "QQuickWindow"
  BY <1>0, <1>2, BornFacts
<1>6. /\ ~Widget(a)' /\ ~QuickWindow(a)'
      /\ Widget(w) => Window(a)' /\ ~QuickItem(a)'
      /\ ~Widget(w) => QuickItem(a)' /\ ~Window(a)'
  BY <1>2, <1>5, Kinds, KnownKinds
<1>7. /\ \A b \in Addr : owner[b] # a /\ up[b] # a /\ inner[b] # a
      /\ \A b \in Addr : inner'[b] = IF b = w THEN a ELSE inner[b]
      /\ inner[a] = None
  BY <1>3, NotLinked DEF TreeInv, TreeTypes
<1>8. TreeTypes'
  <2>1. /\ owner' \in [Addr -> Addr \cup {None}] /\ up' \in [Addr -> Addr \cup {None}]
        /\ class' \in [Addr -> Class \cup {"none"}] /\ inner' \in [Addr -> Addr \cup {None}]
        /\ half' \in Addr \cup {None}
    BY <1>0, <1>2 DEF TreeInv, TreeTypes, NewObjectAt
  <2>2. \A b \in Addr : objectAt'[b] # 0 => class'[b] \in Class /\ itemAt'[b] = 0
    BY <1>0, <1>3 DEF TreeInv, TreeTypes
  <2> QED BY <2>1, <2>2 DEF TreeTypes
<1>9. Living'
  BY <1>0, <1>2, BornLiving
<1>10. Widgets'
  <2> SUFFICES ASSUME NEW b \in Addr, Widget(b)'
               PROVE  up'[b] = owner'[b] /\ (inner'[b] # None => Window(inner[b])')
    BY DEF Widgets
  <2>1. b # a /\ Widget(b) /\ inner[b] \in Addr \cup {None} /\ inner[b] # a
    BY <1>4, <1>6, <1>7 DEF TreeInv, TreeTypes
  <2>2. up[b] = owner[b] /\ (inner[b] # None => Window(inner[b]))
    BY <2>1 DEF TreeInv, Widgets
  <2>3. CASE b = w
    BY <1>3, <1>6, <1>7, <2>1, <2>2, <2>3
  <2>4. CASE b # w
    BY <1>3, <1>4, <1>7, <2>1, <2>2, <2>4
  <2> QED BY <2>3, <2>4
<1>11. WindowsUnder'
  <2> SUFFICES ASSUME NEW b \in Addr, Window(b)'
               PROVE  /\ up'[b] # None => up'[b] = owner'[b]
                      /\ up'[b] = None /\ owner'[b] # None => QuickItem(owner[b])'
    BY DEF WindowsUnder
  <2>1. CASE b = a
    BY <1>2, <1>3, <1>6, <2>1
  <2>2. CASE b # a
    <3>1. Window(b) /\ owner[b] \in Addr \cup {None} /\ owner[b] # a /\ owner'[b] = owner[b]
      BY <1>3, <1>4, <1>7, <2>2 DEF TreeInv, TreeTypes
    <3>2. /\ up[b] # None => up[b] = owner[b]
          /\ up[b] = None /\ owner[b] # None => QuickItem(owner[b])
      BY <3>1 DEF TreeInv, WindowsUnder
    <3>3. up[b] = None /\ owner[b] # None => QuickItem(owner[b])'
      BY <1>4, <3>1, <3>2
    <3> QED BY <1>3, <2>2, <3>1, <3>2, <3>3
  <2> QED BY <2>1, <2>2
<1>12. Contents'
  <2> SUFFICES ASSUME NEW b \in Addr
               PROVE  /\ Window(b)' /\ inner'[b] # None =>
                           /\ QuickWindow(b)' /\ QuickItem(inner[b])'
                           /\ up'[inner'[b]] = None /\ owner'[inner'[b]] = b
                      /\ QuickWindow(b)' /\ half' # b => inner'[b] # None
    BY DEF Contents
  <2>1. CASE b = a
    BY <1>0, <1>6, <1>7, <2>1
  <2>2. CASE b # a /\ b # w
    <3>0. half # b
      BY <1>2, <2>2, DiscoveryAssumption
    <3>1. inner[b] \in Addr \cup {None} /\ inner[b] # a /\ inner'[b] = inner[b] /\ half # b
      BY <1>7, <2>2, <3>0 DEF TreeInv, TreeTypes
    <3>2. /\ Window(b) /\ inner[b] # None =>
               /\ QuickWindow(b) /\ QuickItem(inner[b]) /\ up[inner[b]] = None
               /\ owner[inner[b]] = b
          /\ QuickWindow(b) => inner[b] # None
      BY <3>1 DEF TreeInv, Contents
    <3> QED BY <1>3, <1>4, <2>2, <3>1, <3>2
  <2>3. CASE b = w
    <3>1. inner'[b] = a /\ b # a
      BY <1>0, <1>7, <2>3
    <3>2. CASE Widget(w)
      <4>1. ~Window(b)' /\ ~QuickWindow(b)'
        BY <1>4, <2>3, <3>1, <3>2, OneFamily DEF TreeInv
      <4> QED BY <4>1
    <3>3. CASE ~Widget(w)
      BY <1>0, <1>2, <1>3, <1>4, <1>6, <2>3, <3>1, <3>3
    <3> QED BY <3>2, <3>3
  <2> QED BY <2>1, <2>2, <2>3
<1>13. Halves' /\ OneHolder'
  BY <1>7 DEF TreeInv, Halves, OneHolder
<1>14. Others'
  BY <1>2, <1>3, <1>4, <1>6, <1>7 DEF TreeInv, Others
<1> QED BY <1>8, <1>9, <1>10, <1>11, <1>12, <1>13, <1>14 DEF TreeInv

\* A handle is inside its widget, a content item inside its window.
LEMMA NewInnerTree ==
  ASSUME TypeOK, TreeInv, NEW a \in Addr, NewContent(a) \/ \E w \in Addr : NewHandle(a, w)
  PROVE  TreeInv'
<1>1. CASE NewContent(a)
  <2>1. /\ half \in Addr /\ inner[half] = None /\ Born(a, "QQuickItem", half, None)
        /\ inner' = [inner EXCEPT ![half] = a] /\ half' = None
    BY <1>1 DEF NewContent, TreeInv, TreeTypes
  <2>2. objectAt[half] # 0
    BY <2>1, DiscoveryAssumption DEF TreeInv, Halves, QuickWindow
  <2>3. NewObjectAt(a, "QQuickItem", half, None)
    BY <2>1, BornIsNew
  <2> QED BY <2>1, <2>2, <2>3, InnerTree
<1>2. CASE \E w \in Addr : NewHandle(a, w)
  <2>1. PICK w \in Addr : NewHandle(a, w)
    BY <1>2
  <2>2. /\ Widget(w) /\ objectAt[w] # 0 /\ inner[w] = None /\ half = None /\ half' = None
        /\ inner' = [inner EXCEPT ![w] = a] /\ Born(a, "QWindow", None, None)
    BY <2>1 DEF NewHandle, IsWindow, Idle, IsA, Widget
  <2>3. NewObjectAt(a, "QWindow", None, None)
    BY <2>2, BornIsNew
  <2> QED BY <2>2, <2>3, InnerTree
<1> QED BY <1>1, <1>2

\* A new graphics item is under another one, or at the top of the scene.
LEMMA NewGraphicsTree ==
  ASSUME TypeOK, TreeInv, NEW a \in Addr, NEW p \in Addr \cup {None}, NewGraphicsItem(a, p)
  PROVE  TreeInv'
<1>0. a # None /\ None \notin Addr /\ born # 0 /\ itemAt \in [Addr -> Nat]
  BY DiscoveryAssumption DEF TypeOK
<1>1. /\ objectAt[a] = 0 /\ itemAt[a] = 0 /\ itemAt' = [itemAt EXCEPT ![a] = born]
      /\ up' = [up EXCEPT ![a] = p] /\ UNCHANGED <<objectAt, class, owner, inner, half>>
      /\ p # None => IsItem(p) /\ p # a
  BY DEF NewGraphicsItem, NewItem, IsItem
<1>2. /\ up'[a] = p /\ itemAt'[a] # 0
      /\ \A b \in Addr : b # a => up'[b] = up[b] /\ itemAt'[b] = itemAt[b]
  BY <1>0, <1>1 DEF TreeInv, TreeTypes
<1>3. \A b \in Addr : owner[b] # a /\ up[b] # a /\ inner[b] # a
  BY <1>1, NotLinked DEF TreeInv
<1>4. TreeTypes'
  <2>1. up' \in [Addr -> Addr \cup {None}]
    BY <1>1 DEF TreeInv, TreeTypes
  <2>2. \A b \in Addr : objectAt'[b] # 0 => class'[b] \in Class /\ itemAt'[b] = 0
    BY <1>1, <1>2 DEF TreeInv, TreeTypes
  <2> QED BY <1>1, <2>1, <2>2 DEF TreeInv, TreeTypes
<1>5. Living'
  <2>1. \A b \in Addr : Exists(b) => Exists(b)'
    BY <1>1, <1>2 DEF Exists
  <2>2. \A b \in Addr : up'[b] # None =>
           Exists(b)' /\ (objectAt'[up'[b]] # 0 \/ itemAt'[up'[b]] # 0)
    <3> SUFFICES ASSUME NEW b \in Addr, up'[b] # None
                 PROVE  Exists(b)' /\ (objectAt'[up'[b]] # 0 \/ itemAt'[up'[b]] # 0)
      OBVIOUS
    <3>1. CASE b = a
      BY <1>1, <1>2, <3>1 DEF Exists, IsItem
    <3>2. CASE b # a
      <4>1. up'[b] = up[b] /\ up[b] \in Addr /\ up[b] # a /\ Exists(b) /\ Exists(up[b])
        BY <1>2, <1>3, <3>2 DEF TreeInv, TreeTypes, Living
      <4> QED BY <1>1, <1>2, <2>1, <4>1 DEF Exists
    <3> QED BY <3>1, <3>2
  <2>3. \A b \in Addr : owner'[b] # None => objectAt'[b] # 0 /\ objectAt'[owner'[b]] # 0
    BY <1>1 DEF TreeInv, Living
  <2>4. \A b \in Addr : inner'[b] # None => objectAt'[b] # 0 /\ objectAt'[inner'[b]] # 0
    BY <1>1 DEF TreeInv, Living
  <2> QED BY <2>2, <2>3, <2>4 DEF Living, Exists
<1>6. ~Widget(a) /\ ~Window(a) /\ ~QuickItem(a)
  BY <1>1 DEF Widget, Window, QuickItem, IsA
<1>7. Widgets' /\ WindowsUnder'
  BY <1>1, <1>2, <1>6 DEF TreeInv, Widgets, WindowsUnder, Widget, Window, QuickItem, IsA
<1>8. Contents'
  <2>1. \A b \in Addr : Window(b) /\ inner[b] # None => inner[b] \in Addr /\ inner[b] # a
    BY <1>3 DEF TreeInv, TreeTypes
  <2> QED BY <1>1, <1>2, <2>1 DEF TreeInv, Contents, Window, QuickItem, QuickWindow, IsA
<1>9. Halves' /\ OneHolder'
  BY <1>1 DEF TreeInv, Halves, OneHolder, QuickWindow
<1>10. Others'
  BY <1>1, <1>2 DEF TreeInv, Others, Widget, Window, QuickItem, IsA, IsItem
<1> QED BY <1>4, <1>5, <1>7, <1>8, <1>9, <1>10 DEF TreeInv

(* A widget, a window or an item goes under another one. *)
LEMMA MovesTree ==
  ASSUME TypeOK, TreeInv, NEW a \in Addr, NEW p \in Addr, Moves(a, p)
  PROVE  TreeInv'
<1>0. a # None /\ p # None /\ a # p
  BY DiscoveryAssumption DEF Moves
<1>1. /\ UNCHANGED <<objectAt, itemAt, class, inner, half>> /\ up' = [up EXCEPT ![a] = p]
      /\ half = None
  BY DEF Moves, Idle, vars, heapVars
<1>2. /\ up'[a] = p /\ \A b \in Addr : b # a => up'[b] = up[b]
      /\ up' \in [Addr -> Addr \cup {None}]
  BY <1>1 DEF TreeInv, TreeTypes
<1>3. \/ IsItem(a) /\ IsItem(p) /\ UNCHANGED owner
      \/ QuickItem(a) /\ QuickItem(p) /\ ~IsContent(a) /\ UNCHANGED owner
      \/ /\ (Widget(a) /\ Widget(p)) \/ (Window(a) /\ Window(p))
         /\ owner' = [owner EXCEPT ![a] = p]
  <2>1. \/ /\ IsItem(a) /\ IsItem(p) /\ UNCHANGED owner
        \/ /\ IsA(a, "QQuickItem") /\ IsA(p, "QQuickItem") /\ ~IsContent(a) /\ UNCHANGED owner
        \/ /\ \E k \in {"QWidget", "QWindow"} : IsA(a, k) /\ IsA(p, k)
           /\ owner' = [owner EXCEPT ![a] = p]
    BY Zenon DEF Moves
  <2>2. (\E k \in {"QWidget", "QWindow"} : IsA(a, k) /\ IsA(p, k)) =>
          (Widget(a) /\ Widget(p)) \/ (Window(a) /\ Window(p))
    BY Zenon DEF Widget, Window
  <2> QED BY Zenon, <2>1, <2>2 DEF QuickItem
<1>4. \A b \in Addr :
        /\ Widget(b)' = Widget(b) /\ Window(b)' = Window(b)
        /\ QuickItem(b)' = QuickItem(b) /\ QuickWindow(b)' = QuickWindow(b)
        /\ IsItem(b)' = IsItem(b) /\ Exists(b)' = Exists(b)
  BY <1>1 DEF Widget, Window, QuickItem, QuickWindow, IsA, IsItem, Exists
<1>5. /\ owner' \in [Addr -> Addr \cup {None}]
      /\ \A b \in Addr : b # a => owner'[b] = owner[b]
      /\ owner'[a] # owner[a] =>
            owner'[a] = p /\ ((Widget(a) /\ Widget(p)) \/ (Window(a) /\ Window(p)))
      /\ Widget(a) \/ Window(a) => owner'[a] = p
  <2>1. owner \in [Addr -> Addr \cup {None}]
    BY DEF TreeInv, TreeTypes
  <2>2. Widget(a) => ~Window(a) /\ ~QuickItem(a)
    BY OneFamily DEF TreeInv
  <2>3. Window(a) => ~QuickItem(a)
    BY OneFamily DEF TreeInv
  <2>4. Widget(a) \/ Window(a) => ~IsItem(a)
    BY OneFamily DEF TreeInv
  <2> QED BY <1>3, <2>1, <2>2, <2>3, <2>4
<1>6. /\ Exists(a) /\ Exists(p)
      /\ Widget(a) \/ Window(a) => objectAt[a] # 0 /\ objectAt[p] # 0
      /\ Widget(a) \/ Window(a) \/ QuickItem(a) \/ IsItem(a)
  BY <1>3 DEF Exists, Widget, Window, QuickItem, IsItem, IsA, TreeInv, TreeTypes
<1>7. TreeTypes'
  BY <1>1, <1>2, <1>5 DEF TreeInv, TreeTypes
<1>8. Living'
  <2> SUFFICES ASSUME NEW b \in Addr
               PROVE  /\ owner'[b] # None => objectAt[b] # 0 /\ objectAt[owner'[b]] # 0
                      /\ up'[b] # None => Exists(b)' /\ Exists(up[b])'
                      /\ inner[b] # None => objectAt[b] # 0 /\ objectAt[inner[b]] # 0
    BY <1>1 DEF Living
  <2>1. /\ owner[b] # None => objectAt[b] # 0 /\ objectAt[owner[b]] # 0
        /\ up[b] # None => Exists(b) /\ Exists(up[b])
        /\ inner[b] # None => objectAt[b] # 0 /\ objectAt[inner[b]] # 0
    BY DEF TreeInv, Living
  <2>2. owner'[b] # None => objectAt[b] # 0 /\ objectAt[owner'[b]] # 0
    BY <1>5, <1>6, <2>1
  <2>3. up'[b] # None => Exists(b)' /\ Exists(up[b])'
    <3>1. CASE b = a
      BY <1>2, <1>4, <1>6, <3>1
    <3>2. CASE b # a
      <4>1. up'[b] = up[b] /\ up[b] \in Addr \cup {None}
        BY <1>2, <3>2 DEF TreeInv, TreeTypes
      <4> QED BY <1>4, <2>1, <4>1
    <3> QED BY <3>1, <3>2
  <2> QED BY <2>1, <2>2, <2>3
<1>9. Widgets'
  <2> SUFFICES ASSUME NEW b \in Addr, Widget(b)
               PROVE  up'[b] = owner'[b] /\ (inner[b] # None => Window(inner[b])')
    BY <1>1, <1>4 DEF Widgets
  <2>1. up[b] = owner[b] /\ (inner[b] # None => Window(inner[b])) /\ inner[b] \in Addr \cup {None}
    BY DEF TreeInv, TreeTypes, Widgets
  <2>2. inner[b] # None => Window(inner[b])'
    BY <1>1, <1>4, <2>1
  <2>3. CASE b = a
    BY <1>2, <1>5, <2>2, <2>3
  <2>4. CASE b # a
    <3>1. up'[b] = up[b] /\ owner'[b] = owner[b]
      BY <1>2, <1>5, <2>4
    <3> QED BY <2>1, <2>2, <3>1
  <2> QED BY <2>3, <2>4
<1>10. WindowsUnder'
  <2> SUFFICES ASSUME NEW b \in Addr, Window(b)
               PROVE  /\ up'[b] # None => up'[b] = owner'[b]
                      /\ up'[b] = None /\ owner'[b] # None => QuickItem(owner[b])'
    BY <1>4 DEF WindowsUnder
  <2>1. /\ up[b] # None => up[b] = owner[b]
        /\ up[b] = None /\ owner[b] # None => QuickItem(owner[b])
        /\ owner[b] \in Addr \cup {None}
    BY DEF TreeInv, TreeTypes, WindowsUnder
  <2>2. CASE b = a
    BY <1>0, <1>2, <1>5, <2>2
  <2>3. CASE b # a
    <3>1. up'[b] = up[b] /\ owner'[b] = owner[b]
      BY <1>2, <1>5, <2>3
    <3>2. up[b] = None /\ owner[b] # None => QuickItem(owner[b])'
      BY <1>4, <2>1, <3>1
    <3> QED BY <2>1, <3>1, <3>2
  <2> QED BY <2>2, <2>3
<1>11. Contents'
  <2> SUFFICES ASSUME NEW b \in Addr, Window(b), inner[b] # None
               PROVE  /\ QuickWindow(b)' /\ QuickItem(inner[b])'
                      /\ up'[inner[b]] = None /\ owner'[inner[b]] = b
    <3>1. \A b \in Addr : QuickWindow(b)' /\ half' # b => inner'[b] # None
      BY <1>1, <1>4 DEF TreeInv, Contents
    <3>2. \A b \in Addr : Window(b)' => Window(b)
      BY <1>4
    <3> QED BY <1>1, <3>1, <3>2 DEF Contents
  <2>1. inner[b] \in Addr
    BY DEF TreeInv, TreeTypes
  <2>2. /\ QuickWindow(b) /\ QuickItem(inner[b]) /\ up[inner[b]] = None /\ owner[inner[b]] = b
    BY DEF TreeInv, Contents
  <2>3. inner[b] # a
    <3> SUFFICES ASSUME inner[b] = a PROVE FALSE
      OBVIOUS
    <3>1. QuickItem(a) /\ ~Widget(a) /\ ~Window(a) /\ ~IsItem(a)
      BY <2>2, OneFamily DEF TreeInv
    <3>2. ~IsContent(a)
      BY <1>3, <3>1
    <3>3. b \in Objects("QQuickWindow")
      <4>1. objectAt[b] # 0 /\ class[b] \in Class /\ class[b] = "QQuickWindow"
        BY <2>2 DEF QuickWindow, TreeInv, TreeTypes
      <4> QED BY <4>1, Kinds DEF Objects, IsA
    <3> QED BY <3>1, <3>2, <3>3 DEF IsContent, QuickItem
  <2>4. up'[inner[b]] = up[inner[b]] /\ owner'[inner[b]] = owner[inner[b]]
    <3>1. \A c \in Addr : c # a => up'[c] = up[c] /\ owner'[c] = owner[c]
      BY <1>2, <1>5
    <3> QED BY <2>1, <2>3, <3>1
  <2>5. QuickWindow(b)' /\ QuickItem(inner[b])'
    <3>1. QuickItem(inner[b])' = QuickItem(inner[b])
      BY <1>1, <1>4, <2>1
    <3> QED BY <1>4, <2>2, <3>1
  <2> QED BY <2>2, <2>4, <2>5
<1>12. Halves' /\ OneHolder'
  BY <1>1 DEF TreeInv, Halves, OneHolder
<1>13. Others'
  <2> SUFFICES ASSUME NEW b \in Addr, ~Widget(b), ~Window(b)
               PROVE  inner[b] = None /\ (~QuickItem(b) /\ ~IsItem(b) => up'[b] = None)
    BY <1>1, <1>4 DEF Others
  <2>1. inner[b] = None /\ (~QuickItem(b) /\ ~IsItem(b) => up[b] = None)
    BY DEF TreeInv, Others
  <2> QED BY <1>2, <1>6, <2>1
<1> QED BY <1>7, <1>8, <1>9, <1>10, <1>11, <1>12, <1>13 DEF TreeInv

(* What is destroyed owns nothing, and what was linked to it is free of it. *)
LEMMA DestroysTree ==
  ASSUME TypeOK, TreeInv, NEW a \in Addr, Destroys(a)
  PROVE  TreeInv'
<1>0. a # None /\ None \notin Addr /\ objectAt \in [Addr -> Nat] /\ itemAt \in [Addr -> Nat]
  BY DiscoveryAssumption DEF TypeOK
<1>1. /\ half = None \/ half = a
      /\ \A b \in Addr : owner[b] # a
      /\ half' = IF IsContent(a) THEN owner[a] ELSE None
      /\ class' = [class EXCEPT ![a] = "none"]
  BY DEF Destroys
<1>2. \A b \in Addr : /\ owner'[b] = IF b = a \/ owner[b] = a THEN None ELSE owner[b]
                      /\ up'[b] = IF b = a \/ up[b] = a THEN None ELSE up[b]
                      /\ inner'[b] = IF b = a \/ inner[b] = a THEN None ELSE inner[b]
  BY DEF Destroys, Gone
<1>3. /\ owner' \in [Addr -> Addr \cup {None}] /\ up' \in [Addr -> Addr \cup {None}]
      /\ inner' \in [Addr -> Addr \cup {None}]
  BY DEF Destroys, Gone, TreeInv, TreeTypes
<1>4. /\ objectAt'[a] = 0
      /\ \A b \in Addr : b # a => objectAt'[b] = objectAt[b] /\ itemAt'[b] = itemAt[b]
  <2>1. CASE DestroyObject(a)
    BY <1>0, <2>1 DEF DestroyObject
  <2>2. CASE DestroyItem(a)
    BY <1>0, <2>2 DEF DestroyItem, TreeInv, TreeTypes
  <2> QED BY <2>1, <2>2 DEF Destroys
<1>5. class'[a] = "none" /\ \A b \in Addr : b # a => class'[b] = class[b]
  BY <1>1 DEF TreeInv, TreeTypes
<1>6. \A b \in Addr : b # a =>
        /\ Widget(b)' = Widget(b) /\ Window(b)' = Window(b)
        /\ QuickItem(b)' = QuickItem(b) /\ QuickWindow(b)' = QuickWindow(b)
        /\ IsItem(b)' = IsItem(b) /\ Exists(b)' = Exists(b)
  BY <1>4, <1>5 DEF Widget, Window, QuickItem, QuickWindow, IsA, IsItem, Exists
<1>7. ~Widget(a)' /\ ~Window(a)' /\ ~QuickItem(a)' /\ ~QuickWindow(a)'
  BY <1>4 DEF Widget, Window, QuickItem, QuickWindow, IsA
<1>8. ASSUME NEW b \in Addr, Window(b), inner[b] = a
      PROVE  IsContent(a) /\ owner[a] = b
  <2>1. QuickWindow(b) /\ QuickItem(a) /\ owner[a] = b
    BY <1>0, <1>8 DEF TreeInv, Contents
  <2>2. objectAt[b] # 0 /\ class[b] \in Class /\ class[b] = "QQuickWindow"
    BY <2>1 DEF QuickWindow, TreeInv, TreeTypes
  <2>3. b \in Objects("QQuickWindow")
    BY <2>2, Kinds DEF Objects, IsA
  <2> QED BY <1>8, <2>1, <2>3 DEF IsContent, QuickItem
<1>9. half' # None => half' \in Addr /\ half' # a /\ QuickWindow(half')
  <2> SUFFICES ASSUME IsContent(a), owner[a] # None
               PROVE  owner[a] \in Addr /\ owner[a] # a /\ QuickWindow(owner[a])
    BY <1>1
  <2>1. PICK w \in Objects("QQuickWindow") : inner[w] = a
    BY DEF IsContent
  <2>2. w \in Addr /\ objectAt[w] # 0 /\ castsTo(class[w], "QQuickWindow") /\ class[w] \in Class
    BY DEF Objects, IsA, TreeInv, TreeTypes
  <2>3. QuickWindow(w)
    BY <2>2, Kinds DEF QuickWindow
  <2>4. Window(w)
    BY <2>2, <2>3, OneFamily DEF TreeInv
  <2>5. owner[a] = w
    BY <1>0, <2>1, <2>2, <2>4 DEF TreeInv, Contents
  <2> QED BY <1>1, <2>2, <2>3, <2>5
<1>10. TreeTypes'
  <2>1. class' \in [Addr -> Class \cup {"none"}]
    BY <1>1 DEF TreeInv, TreeTypes
  <2>2. half' \in Addr \cup {None}
    BY <1>9
  <2>3. \A b \in Addr : objectAt'[b] # 0 => class'[b] \in Class /\ itemAt'[b] = 0
    BY <1>4, <1>5 DEF TreeInv, TreeTypes
  <2> QED BY <1>3, <2>1, <2>2, <2>3 DEF TreeTypes
<1>11. Living'
  <2> SUFFICES ASSUME NEW b \in Addr
               PROVE  /\ owner'[b] # None => objectAt'[b] # 0 /\ objectAt'[owner'[b]] # 0
                      /\ up'[b] # None => Exists(b)' /\ Exists(up[b])'
                      /\ inner'[b] # None => objectAt'[b] # 0 /\ objectAt'[inner'[b]] # 0
    BY DEF Living
  <2>1. /\ owner[b] # None => objectAt[b] # 0 /\ objectAt[owner[b]] # 0
        /\ up[b] # None => Exists(b) /\ Exists(up[b])
        /\ inner[b] # None => objectAt[b] # 0 /\ objectAt[inner[b]] # 0
        /\ owner[b] \in Addr \cup {None} /\ up[b] \in Addr \cup {None}
        /\ inner[b] \in Addr \cup {None}
    BY DEF TreeInv, TreeTypes, Living
  <2>2. owner'[b] # None => objectAt'[b] # 0 /\ objectAt'[owner'[b]] # 0
    BY <1>2, <1>4, <2>1
  <2>3. inner'[b] # None => objectAt'[b] # 0 /\ objectAt'[inner'[b]] # 0
    BY <1>2, <1>4, <2>1
  <2>4. up'[b] # None => Exists(b)' /\ Exists(up[b])'
    <3> SUFFICES ASSUME up'[b] # None PROVE Exists(b)' /\ Exists(up[b])'
      OBVIOUS
    <3>1. b # a /\ up'[b] = up[b] /\ up[b] # a /\ up[b] \in Addr /\ Exists(b) /\ Exists(up[b])
      BY <1>2, <2>1
    <3> QED BY <1>6, <3>1
  <2> QED BY <2>2, <2>3, <2>4
<1>12. Widgets'
  <2> SUFFICES ASSUME NEW b \in Addr, Widget(b)'
               PROVE  up'[b] = owner'[b] /\ (inner'[b] # None => Window(inner[b])')
    BY DEF Widgets
  <2>1. b # a /\ Widget(b) /\ inner[b] \in Addr \cup {None}
    BY <1>6, <1>7 DEF TreeInv, TreeTypes
  <2>2. up[b] = owner[b] /\ (inner[b] # None => Window(inner[b]))
    BY <2>1 DEF TreeInv, Widgets
  <2>3. up'[b] = owner'[b]
    BY <1>1, <1>2, <2>1, <2>2
  <2>4. inner'[b] # None => Window(inner[b])'
    <3> SUFFICES ASSUME inner'[b] # None PROVE Window(inner[b])'
      OBVIOUS
    <3>1. inner'[b] = inner[b] /\ inner[b] # a /\ inner[b] \in Addr /\ Window(inner[b])
      BY <1>2, <2>1, <2>2
    <3> QED BY <1>6, <3>1
  <2> QED BY <2>3, <2>4
<1>13. WindowsUnder'
  <2> SUFFICES ASSUME NEW b \in Addr, Window(b)'
               PROVE  /\ up'[b] # None => up'[b] = owner'[b]
                      /\ up'[b] = None /\ owner'[b] # None => QuickItem(owner[b])'
    BY DEF WindowsUnder
  <2>1. b # a /\ Window(b) /\ owner[b] \in Addr \cup {None} /\ owner[b] # a /\ owner'[b] = owner[b]
    BY <1>1, <1>2, <1>6, <1>7 DEF TreeInv, TreeTypes
  <2>2. /\ up[b] # None => up[b] = owner[b]
        /\ up[b] = None /\ owner[b] # None => QuickItem(owner[b])
    BY <2>1 DEF TreeInv, WindowsUnder
  <2>3. up'[b] = up[b]
    BY <1>0, <1>2, <2>1, <2>2
  <2>4. up[b] = None /\ owner[b] # None => QuickItem(owner[b])'
    BY <1>6, <2>1, <2>2
  <2> QED BY <2>1, <2>2, <2>3, <2>4
<1>14. Contents'
  <2> SUFFICES ASSUME NEW b \in Addr, b # a
               PROVE  /\ Window(b)' /\ inner'[b] # None =>
                           /\ QuickWindow(b)' /\ QuickItem(inner[b])'
                           /\ up'[inner'[b]] = None /\ owner'[inner'[b]] = b
                      /\ QuickWindow(b)' /\ half' # b => inner'[b] # None
    BY <1>7 DEF Contents
  <2>1. Window(b)' = Window(b) /\ QuickWindow(b)' = QuickWindow(b)
    BY <1>6
  <2>2. inner[b] \in Addr \cup {None} /\ half # b
    BY <1>1, DiscoveryAssumption DEF TreeInv, TreeTypes
  <2>3. ASSUME Window(b), inner'[b] # None
        PROVE  /\ QuickWindow(b) /\ QuickItem(inner[b])'
               /\ up'[inner'[b]] = None /\ owner'[inner'[b]] = b
    <3>1. inner'[b] = inner[b] /\ inner[b] # a /\ inner[b] \in Addr
      BY <1>2, <2>2, <2>3
    <3>2. /\ QuickWindow(b) /\ QuickItem(inner[b]) /\ up[inner[b]] = None /\ owner[inner[b]] = b
      BY <1>0, <2>3, <3>1 DEF TreeInv, Contents
    <3>3. QuickItem(inner[b])'
      BY <1>6, <3>1, <3>2
    <3> QED BY <1>2, <3>1, <3>2, <3>3
  <2>4. ASSUME QuickWindow(b), half' # b
        PROVE  inner'[b] # None
    <3>1. inner[b] # None
      BY <2>2, <2>4 DEF TreeInv, Contents
    <3>2. inner[b] # a
      <4> SUFFICES ASSUME inner[b] = a PROVE FALSE
        OBVIOUS
      <4>1. Window(b)
        BY <2>4, OneFamily DEF TreeInv
      <4>2. IsContent(a) /\ owner[a] = b
        BY <1>8, <4>1
      <4> QED BY <1>1, <2>4, <4>2
    <3> QED BY <1>2, <3>1, <3>2
  <2> QED BY <2>1, <2>3, <2>4
<1>15. Halves'
  <2> SUFFICES ASSUME half' # None PROVE QuickWindow(half)'
    BY DEF Halves
  <2> QED BY <1>6, <1>9
<1>16. OneHolder'
  BY <1>2 DEF TreeInv, OneHolder
<1>17. Others'
  <2> SUFFICES ASSUME NEW b \in Addr, ~Widget(b)', ~Window(b)'
               PROVE  inner'[b] = None /\ (~QuickItem(b)' /\ ~IsItem(b)' => up'[b] = None)
    BY DEF Others
  <2>1. CASE b = a
    BY <1>2, <2>1
  <2>2. CASE b # a
    BY <1>2, <1>6, <2>2 DEF TreeInv, Others
  <2> QED BY <2>1, <2>2
<1> QED BY <1>10, <1>11, <1>12, <1>13, <1>14, <1>15, <1>16, <1>17 DEF TreeInv

\* Nothing that the application does breaks the tree.
LEMMA ApplicationTree ==
  ASSUME TypeOK, TreeInv, Application
  PROVE  TreeInv'
<1>1. PICK a \in Addr :
        \/ \E c \in Classes, p \in Addr \cup {None} : NewWidget(a, c, p) \/ NewWindow(a, c, p)
        \/ \E p \in Addr : NewHandle(a, p) \/ NewQuickItem(a, p) \/ NewPlain(a, p) \/ Moves(a, p)
        \/ \E p \in Addr \cup {None} : NewGraphicsItem(a, p)
        \/ NewContent(a) \/ Destroys(a) \/ Disconnects(a)
  BY DEF Application
<1>2. CASE \E c \in Classes, p \in Addr \cup {None} : NewWidget(a, c, p) \/ NewWindow(a, c, p)
  BY <1>2, NewTree
<1>3. CASE \E p \in Addr : NewQuickItem(a, p) \/ NewPlain(a, p)
  BY <1>3, NewItemTree
<1>4. CASE NewContent(a) \/ \E p \in Addr : NewHandle(a, p)
  BY <1>4, NewInnerTree
<1>5. CASE \E p \in Addr : Moves(a, p)
  BY <1>5, MovesTree
<1>6. CASE \E p \in Addr \cup {None} : NewGraphicsItem(a, p)
  BY <1>6, NewGraphicsTree
<1>7. CASE Destroys(a)
  BY <1>7, DestroysTree
<1>8. CASE Disconnects(a)
  BY <1>8, TreeSame DEF Disconnects, DisconnectAll, heapVars, treeVars
<1> QED BY <1>1, <1>2, <1>3, <1>4, <1>5, <1>6, <1>7, <1>8

(* The handlers look at the tree and give out IDs. *)
LEMMA RequestsKeep ==
  ASSUME Requests
  PROVE  UNCHANGED <<heapVars, treeVars>>
<1>1. \A a \in Addr : registers(a) => UNCHANGED heapVars
  BY DEF registers, ensureIdFor, ensureIdForGItem
<1>2. CASE handleElementsRoots
  BY <1>2 DEF handleElementsRoots, asks, vars
<1>3. CASE \E id \in frontier : handleElementsChildren(id)
  BY <1>3 DEF handleElementsChildren, asks, vars
<1>4. CASE \E a \in Addr : handleOne(a)
  BY <1>1, <1>4 DEF handleOne
<1>5. ASSUME NEW a \in Addr, handles(a) PROVE UNCHANGED <<heapVars, treeVars>>
  <2>1. CASE skips(a)
    BY <1>5, <2>1 DEF handles, vars
  <2>2. CASE ~skips(a)
    BY <1>1, <1>5, <2>2 DEF handles
  <2> QED BY <2>1, <2>2
<1>6. CASE replies
  BY <1>6 DEF replies, vars
<1> QED BY <1>2, <1>3, <1>4, <1>5, <1>6 DEF Requests

\* At first there is nothing.
LEMMA TreeInit == DiscoveryInit => TreeInv
<1> SUFFICES ASSUME DiscoveryInit PROVE TreeInv
  OBVIOUS
<1>1. /\ class = [a \in Addr |-> "none"] /\ half = None /\ objectAt = Nobody /\ itemAt = Nobody
      /\ owner = [a \in Addr |-> None] /\ up = owner /\ inner = owner
  BY DEF DiscoveryInit, Init
<1>2. TreeTypes
  BY <1>1 DEF TreeTypes, Nobody
<1>3. \A a \in Addr : /\ ~Widget(a) /\ ~Window(a) /\ ~QuickWindow(a)
                      /\ owner[a] = None /\ up[a] = None /\ inner[a] = None
  BY <1>1 DEF Nobody, Widget, Window, QuickWindow, IsA
<1> QED BY <1>1, <1>2, <1>3 DEF TreeInv, Living, Widgets, WindowsUnder, Contents, Halves, Others,
       OneHolder

\* The tree invariant is inductive, given the types of the store.
LEMMA TreeStep == TypeOK /\ TreeInv /\ [DiscoveryNext]_discoveryVars => TreeInv'
<1> SUFFICES ASSUME TypeOK, TreeInv, [DiscoveryNext]_discoveryVars PROVE TreeInv'
  OBVIOUS
<1>1. CASE Application
  BY <1>1, ApplicationTree
<1>2. CASE Requests
  BY <1>2, RequestsKeep, TreeSame DEF heapVars, treeVars
<1>3. CASE UNCHANGED discoveryVars
  BY <1>3, TreeSame DEF discoveryVars, vars, heapVars, treeVars
<1> QED BY <1>1, <1>2, <1>3 DEF DiscoveryNext

-----------------------------------------------------------------------------
(***************************************************************************)
(* A loop that lists under a only what has a as its parent, apart from a   *)
(* Quick item that a owns and a top-level graphics item.                   *)
(***************************************************************************)
FitsUnder(a, b) ==
    \/ parentOf(b) = a
    \/ IsA(b, "QQuickItem") /\ ~IsContent(b) /\ owner[b] = a
    \/ IsItem(b) /\ up[b] = None

Fitting(a) == {L \in SUBSET Addr : \A b \in L : FitsUnder(a, b)}

\* What appears under something has that as its parent.
LEMMA ParentUp ==
  ASSUME NEW b, up[b] # None
  PROVE  parentOf(b) = up[b]
BY Zenon DEF parentOf

\* What appears under nothing has its owner.
LEMMA ParentOwner ==
  ASSUME NEW b, up[b] = None, ~IsContent(b)
  PROVE  parentOf(b) = owner[b]
BY Zenon DEF parentOf

\* A content item has its window as parent, which is its owner too.
LEMMA ParentHolder ==
  ASSUME TreeInv, NEW a \in Addr, NEW b \in Addr, IsA(a, "QQuickWindow"), inner[a] = b
  PROVE  IsContent(b) /\ up[b] = None /\ owner[b] = a /\ parentOf(b) = a
<1>1. objectAt[a] # 0 /\ class[a] \in Class /\ castsTo(class[a], "QQuickWindow") /\ b # None
  BY DiscoveryAssumption DEF IsA, TreeInv, TreeTypes
<1>2. QuickWindow(a) /\ Window(a)
  <2>1. class[a] = "QQuickWindow"
    BY <1>1, Kinds
  <2> QED BY <1>1, <2>1, OneFamily DEF QuickWindow, TreeInv
<1>3. QuickItem(b) /\ up[b] = None /\ owner[b] = a
  BY <1>1, <1>2 DEF TreeInv, Contents
<1>4. a \in Objects("QQuickWindow")
  BY DEF Objects
<1>5. IsContent(b)
  BY <1>3, <1>4 DEF IsContent, QuickItem
<1>6. \A w \in Objects("QQuickWindow") : inner[w] = b => w = a
  BY <1>1 DEF TreeInv, OneHolder, Objects
<1>7. (CHOOSE w \in Objects("QQuickWindow") : inner[w] = b) = a
  BY <1>4, <1>6
<1>8. parentOf(b) = CHOOSE w \in Objects("QQuickWindow") : inner[w] = b
  BY Zenon, <1>3, <1>5 DEF parentOf
<1> QED BY <1>3, <1>5, <1>7, <1>8

(* Any two sequences of loops one after the other. *)
LEMMA LoopsInTurn ==
  ASSUME NEW S, NEW s \in Seq(S), NEW t \in Seq(S)
  PROVE  s \o t \in Seq(S)
OBVIOUS

\* Graphics items are listed under their parent item, or under the view.
LEMMA ItemLoops ==
  ASSUME NEW a \in Addr, TreeInv
  PROVE  childItems(a) \in Fitting(a) /\ topLevelItems \in Fitting(a)
<1>1. \A b \in childItems(a) : b \in Addr /\ up[b] = a /\ up[b] # None
  BY DiscoveryAssumption DEF childItems
<1>2. \A b \in childItems(a) : FitsUnder(a, b)
  BY <1>1, ParentUp DEF FitsUnder
<1>3. \A b \in topLevelItems : b \in Addr /\ FitsUnder(a, b)
  BY DEF topLevelItems, FitsUnder
<1> QED BY <1>1, <1>2, <1>3 DEF Fitting

\* A widget lists its child widgets, and a view the top of the scene.
LEMMA WidgetLoops ==
  ASSUME NEW a \in Addr, TreeInv
  PROVE  widgetLoops(a) \in Seq(Fitting(a))
<1> DEFINE L == {b \in Objects("QWidget") : owner[b] = a}
<1>1. L \in Fitting(a)
  <2>1. ASSUME NEW b \in L PROVE b \in Addr /\ FitsUnder(a, b)
    <3>1. b \in Addr /\ Widget(b) /\ owner[b] = a /\ a # None
      BY DiscoveryAssumption DEF Objects, Widget
    <3>2. up[b] = a
      BY <3>1 DEF TreeInv, Widgets
    <3> QED BY <3>1, <3>2, ParentUp DEF FitsUnder
  <2> QED BY <2>1 DEF Fitting
<1>2. topLevelItems \in Fitting(a)
  BY ItemLoops
<1>3. /\ <<L>> \in Seq(Fitting(a)) /\ <<topLevelItems>> \in Seq(Fitting(a))
      /\ <<>> \in Seq(Fitting(a))
  BY <1>1, <1>2
<1> HIDE DEF L
<1>4. /\ <<L>> \o <<topLevelItems>> \in Seq(Fitting(a))
      /\ <<L>> \o <<>> \in Seq(Fitting(a))
  BY <1>3, LoopsInTurn
<1>5. \/ widgetLoops(a) = <<>>
      \/ widgetLoops(a) = <<L>> \o <<topLevelItems>>
      \/ widgetLoops(a) = <<L>> \o <<>>
  BY Zenon DEF widgetLoops, L
<1> QED BY <1>3, <1>4, <1>5

\* A window lists its content item and what it owns.
LEMMA WindowLoops ==
  ASSUME NEW a \in Addr, TreeInv, half = None
  PROVE  windowLoops(a) \in Seq(Fitting(a))
<1> DEFINE L == {b \in Objects("QObject") : owner[b] = a}
<1>1. IsA(a, "QWindow") => L \in Fitting(a)
  <2>1. ASSUME IsA(a, "QWindow"), NEW b \in L PROVE b \in Addr /\ FitsUnder(a, b)
    <3>1. b \in Addr /\ owner[b] = a /\ a # None /\ Window(a) /\ ~IsItem(b)
      BY <2>1, DiscoveryAssumption DEF Objects, Window, IsA, IsItem, TreeInv, TreeTypes
    <3>2. CASE up[b] # None
      <4>1. up[b] = a \/ QuickItem(b)
        BY <3>1, <3>2 DEF TreeInv, Widgets, WindowsUnder, Others
      <4>2. QuickItem(b) /\ IsContent(b) => FALSE
        BY <3>2, ParentHolder DEF IsContent, Objects
      <4>3. CASE up[b] = a
        BY <3>1, <3>2, <4>3, ParentUp DEF FitsUnder
      <4>4. CASE QuickItem(b)
        BY <3>1, <4>2, <4>4 DEF FitsUnder, QuickItem
      <4> QED BY <3>1, <4>1, <4>3, <4>4
    <3>3. CASE up[b] = None
      <4>1. CASE IsContent(b)
        <5>1. PICK w \in Addr : IsA(w, "QQuickWindow") /\ inner[w] = b
          BY <4>1 DEF IsContent, Objects
        <5>2. parentOf(b) = w /\ owner[b] = w
          BY <3>1, <5>1, ParentHolder
        <5> QED BY <3>1, <5>2 DEF FitsUnder
      <4>2. CASE ~IsContent(b)
        BY <3>1, <3>3, <4>2, ParentOwner DEF FitsUnder
      <4> QED BY <4>1, <4>2
    <3> QED BY <3>2, <3>3
  <2> QED BY <2>1 DEF Fitting
<1>2. IsA(a, "QQuickWindow") => {inner[a]} \in Fitting(a)
  <2> SUFFICES ASSUME IsA(a, "QQuickWindow") PROVE {inner[a]} \in Fitting(a)
    OBVIOUS
  <2>1. objectAt[a] # 0 /\ class[a] \in Class /\ castsTo(class[a], "QQuickWindow")
    BY DEF IsA, TreeInv, TreeTypes
  <2>2. QuickWindow(a)
    BY <2>1, Kinds DEF QuickWindow
  <2>3. inner[a] # None /\ inner[a] \in Addr
    BY <2>2, DiscoveryAssumption DEF TreeInv, TreeTypes, Contents
  <2>4. parentOf(inner[a]) = a
    BY <2>3, ParentHolder
  <2> QED BY <2>3, <2>4 DEF Fitting, FitsUnder
<1> HIDE DEF L
<1>3. CASE IsA(a, "QWindow")
  <2>1. <<L>> \in Seq(Fitting(a)) /\ <<>> \in Seq(Fitting(a))
    BY <1>1, <1>3
  <2>2. IsA(a, "QQuickWindow") => <<{inner[a]}>> \in Seq(Fitting(a))
    BY <1>2
  <2>3. <<>> \o <<L>> \in Seq(Fitting(a))
    BY <2>1, LoopsInTurn
  <2>4. IsA(a, "QQuickWindow") => <<{inner[a]}>> \o <<L>> \in Seq(Fitting(a))
    BY <2>1, <2>2, LoopsInTurn
  <2>5. \/ windowLoops(a) = <<>>
        \/ windowLoops(a) = <<>> \o <<L>>
        \/ IsA(a, "QQuickWindow") /\ windowLoops(a) = <<{inner[a]}>> \o <<L>>
    BY Zenon DEF windowLoops, L
  <2> QED BY <2>1, <2>3, <2>4, <2>5
<1>4. CASE ~IsA(a, "QWindow")
  BY <1>4 DEF windowLoops
<1> QED BY <1>3, <1>4

\* A Quick item lists its child items.
LEMMA QuickLoops ==
  ASSUME NEW a \in Addr, TreeInv
  PROVE  quickLoops(a) \in Seq(Fitting(a))
<1> DEFINE L == {b \in Objects("QQuickItem") : up[b] = a}
<1>1. L \in Fitting(a)
  <2>1. \A b \in L : b \in Addr /\ up[b] = a /\ up[b] # None
    BY DiscoveryAssumption DEF Objects
  <2> QED BY <2>1, ParentUp DEF Fitting, FitsUnder
<1> HIDE DEF L
<1>2. <<L>> \in Seq(Fitting(a)) /\ <<>> \in Seq(Fitting(a))
  BY <1>1
<1>3. quickLoops(a) = <<>> \/ quickLoops(a) = <<L>>
  BY Zenon DEF quickLoops, L
<1> QED BY <1>2, <1>3

\* So every loop of the handler is fitting.
LEMMA ChildLoops ==
  ASSUME NEW a \in Addr, TreeInv, half = None
  PROVE  childLoops(a) \in Seq(Fitting(a))
<1>1. CASE IsItem(a)
  <2>1. childItems(a) \in Fitting(a)
    BY ItemLoops
  <2>2. childLoops(a) = <<childItems(a)>>
    BY <1>1 DEF childLoops
  <2> QED BY <2>1, <2>2
<1>2. CASE ~IsItem(a)
  <2>1. /\ widgetLoops(a) \in Seq(Fitting(a)) /\ windowLoops(a) \in Seq(Fitting(a))
        /\ quickLoops(a) \in Seq(Fitting(a))
    BY WidgetLoops, WindowLoops, QuickLoops
  <2>2. widgetLoops(a) \o windowLoops(a) \in Seq(Fitting(a))
    BY <2>1, LoopsInTurn
  <2>3. widgetLoops(a) \o windowLoops(a) \o quickLoops(a) \in Seq(Fitting(a))
    BY <2>1, <2>2, LoopsInTurn
  <2> QED BY <1>2, <2>3 DEF childLoops
<1> QED BY <1>1, <1>2

(* The tree invariant makes the two handlers agree. *)
LEMMA TreeAgrees == TreeInv => ParentListsIt
<1> SUFFICES ASSUME TreeInv, half = None, NEW a \in Addr, NEW i \in DOMAIN childLoops(a),
                    NEW b \in childLoops(a)[i]
             PROVE  FitsUnder(a, b)
  BY DEF ParentListsIt, FitsUnder
<1>1. childLoops(a) \in Seq(Fitting(a))
  BY ChildLoops
<1>2. childLoops(a)[i] \in Fitting(a)
  BY <1>1
<1> QED BY <1>2 DEF Fitting

-----------------------------------------------------------------------------
(***************************************************************************)
(* A handler at work.  It has seen what it replies; for the roots it comes *)
(* to the windows after the widgets, and has seen their handles with them. *)
(***************************************************************************)
Answer ==
    [of : Addr, is : {summarizeGraphicsItem}
                     \cup {summarizeTopLevel(c) : c \in Class \cup {"none"}}
                     \cup {summarizeObject(c) : c \in Class \cup {"none"}}]

Answers ==
    /\ reply \in Seq(Answer)
    /\ \A i \in DOMAIN reply : reply[i].of \in seen
    /\ request = "none" => reply = <<>> /\ seen = {} /\ todo = <<>>
    /\ request # "none" => half = None

RootsOrder ==
    request = "roots" =>
        /\ todo \in [{1, 2} -> SUBSET Addr]
        /\ todo[1] \subseteq Objects("QWidget") /\ todo[2] \subseteq Objects("QWindow")
        /\ \A i \in DOMAIN reply :
              /\ Widget(reply[i].of) \/ (Window(reply[i].of) /\ todo[1] = {})
              /\ inner[reply[i].of] \in seen \cup {None}

HandlerInv == Answers /\ RootsOrder /\ NamedOnce

(* A reply with one more element. *)
LEMMA OneMore ==
  ASSUME NEW S, NEW s \in Seq(S), NEW e \in S
  PROVE  /\ Append(s, e) \in Seq(S) /\ Append(s, e)[Len(s) + 1] = e
         /\ \A i \in DOMAIN Append(s, e) :
               i # Len(s) + 1 => i \in DOMAIN s /\ Append(s, e)[i] = s[i]
OBVIOUS

(* Between two requests there is no reply. *)
LEMMA ApplicationQuiet ==
  ASSUME Application
  PROVE  request = "none" /\ walk \in {"no", "on"} /\ UNCHANGED handlerVars
<1>1. PICK a \in Addr :
        \/ \E c \in Classes, p \in Addr \cup {None} : NewWidget(a, c, p) \/ NewWindow(a, c, p)
        \/ \E p \in Addr : NewHandle(a, p) \/ NewQuickItem(a, p) \/ NewPlain(a, p) \/ Moves(a, p)
        \/ \E p \in Addr \cup {None} : NewGraphicsItem(a, p)
        \/ NewContent(a) \/ Destroys(a) \/ Disconnects(a)
  BY DEF Application
<1>2. CASE \E c \in Classes, p \in Addr \cup {None} : NewWidget(a, c, p) \/ NewWindow(a, c, p)
  BY <1>2 DEF NewWidget, NewWindow, Born, Idle, Free, AppFrame
<1>3. CASE \E p \in Addr : NewHandle(a, p) \/ NewQuickItem(a, p) \/ NewPlain(a, p)
  BY <1>3 DEF NewHandle, NewQuickItem, NewPlain, Born, Idle, Free, AppFrame
<1>4. CASE \E p \in Addr : Moves(a, p)
  BY <1>4 DEF Moves, Idle, Free, AppFrame
<1>5. CASE \E p \in Addr \cup {None} : NewGraphicsItem(a, p)
  BY <1>5 DEF NewGraphicsItem, Idle, Free, AppFrame
<1>6. CASE NewContent(a) \/ Destroys(a) \/ Disconnects(a)
  BY <1>6 DEF NewContent, Born, Destroys, Disconnects, Idle, Free, AppFrame
<1> QED BY <1>1, <1>2, <1>3, <1>4, <1>5, <1>6

(* Nothing is replied of a request that has ended or just begun. *)
LEMMA NothingReplied ==
  ASSUME reply' = <<>>, seen' = {}, request' = "none" => todo' = <<>>,
         request' # "none" => half' = None,
         request' = "roots" => todo' \in [{1, 2} -> SUBSET Addr]
                               /\ todo'[1] \subseteq Objects("QWidget")'
                               /\ todo'[2] \subseteq Objects("QWindow")'
  PROVE  HandlerInv'
<1>1. Answers'
  BY DEF Answers
<1>2. DOMAIN reply' = {}
  OBVIOUS
<1>3. RootsOrder' /\ NamedOnce'
  BY <1>2 DEF RootsOrder, NamedOnce
<1> QED BY <1>1, <1>3 DEF HandlerInv

(* The same handler goes on with the same tree. *)
LEMMA HandlerSame ==
  ASSUME HandlerInv, UNCHANGED <<objectAt, treeVars, handlerVars>>
  PROVE  HandlerInv'
BY DEF HandlerInv, Answers, RootsOrder, NamedOnce, treeVars, handlerVars,
   Objects, Widget, Window, IsA

\* The handler of the roots begins with two loops.
LEMMA RootsKept ==
  ASSUME HandlerInv, handleElementsRoots
  PROVE  HandlerInv'
<1>1. /\ request = "none" /\ half = None /\ request' = "roots" /\ todo' = rootLoops
      /\ UNCHANGED <<objectAt, class, half, seen, reply>>
  BY DEF handleElementsRoots, asks, Idle, Free, vars, heapVars, treeVars
<1>2. reply' = <<>> /\ seen' = {}
  BY <1>1 DEF HandlerInv, Answers
<1>3. Objects("QWidget")' = Objects("QWidget") /\ Objects("QWindow")' = Objects("QWindow")
  BY <1>1 DEF Objects, IsA
<1>4. /\ rootLoops \in [{1, 2} -> SUBSET Addr]
      /\ rootLoops[1] \subseteq Objects("QWidget") /\ rootLoops[2] \subseteq Objects("QWindow")
  <2> DEFINE F == {a \in Addr : IsWindow(a) /\ ~Popup(a)}
             G == {a \in Objects("QWindow") : up[a] = None /\ ~Popup(a)}
  <2>1. F \subseteq Objects("QWidget") /\ G \subseteq Objects("QWindow")
    BY DEF IsWindow, Objects
  <2>2. F \in SUBSET Addr /\ G \in SUBSET Addr
    BY DEF Objects
  <2>3. rootLoops = <<F, G>>
    BY Zenon DEF rootLoops
  <2> HIDE DEF F, G
  <2> QED BY <2>1, <2>2, <2>3
<1> QED BY <1>1, <1>2, <1>3, <1>4, NothingReplied

\* The handler of the children begins, or the application is gone.
LEMMA ChildrenKept ==
  ASSUME HandlerInv, NEW id \in frontier, handleElementsChildren(id)
  PROVE  HandlerInv'
<1>1. CASE UNCHANGED <<vars, treeVars, handlerVars>>
  BY <1>1, HandlerSame DEF vars, heapVars
<1>2. CASE ~UNCHANGED <<vars, treeVars, handlerVars>>
  <2>1. /\ request = "none" /\ half = None /\ request' = "children"
        /\ UNCHANGED <<half, seen, reply>>
    BY <1>2 DEF handleElementsChildren, asks, Idle, Free, treeVars
  <2>2. reply' = <<>> /\ seen' = {}
    BY <2>1 DEF HandlerInv, Answers
  <2> QED BY <2>1, <2>2, NothingReplied
<1> QED BY <1>1, <1>2

(* A loop passes over what has been seen, or replies one more element. *)
LEMMA HandlesKept ==
  ASSUME TypeOK, TreeInv, HandlerInv, NEW a \in Addr, handles(a)
  PROVE  HandlerInv'
<1>0. None \notin Addr
  BY DiscoveryAssumption
<1>1. /\ UNCHANGED <<objectAt, class, inner, half, request>>
      /\ \A b : Widget(b)' = Widget(b) /\ Window(b)' = Window(b)
      /\ Objects("QWidget")' = Objects("QWidget") /\ Objects("QWindow")' = Objects("QWindow")
  <2>1. UNCHANGED <<objectAt, class, inner, half, request>>
    <3>1. UNCHANGED heapVars
      BY DEF handles, vars, registers, ensureIdFor, ensureIdForGItem
    <3> QED BY <3>1 DEF handles, treeVars, heapVars
  <2> QED BY <2>1 DEF Widget, Window, Objects, IsA
<1>2. PICK i \in DOMAIN todo : turn(i, a)
  BY DEF handles
<1>3. /\ \A j \in 1..(i - 1) : todo[j] = {}
      /\ a \in todo[i] /\ todo' = [todo EXCEPT ![i] = @ \ {a}]
  BY <1>2 DEF turn, eldest
<1>4. request # "none"
  BY <1>2 DEF HandlerInv, Answers
<1>5. ASSUME request = "roots"
      PROVE  /\ todo' \in [{1, 2} -> SUBSET Addr]
             /\ todo'[1] \subseteq todo[1] /\ todo'[2] \subseteq todo[2]
             /\ (i = 1 /\ Widget(a)) \/ (i = 2 /\ Window(a) /\ todo[1] = {})
  <2>1. /\ todo \in [{1, 2} -> SUBSET Addr]
        /\ todo[1] \subseteq Objects("QWidget") /\ todo[2] \subseteq Objects("QWindow")
    BY <1>5 DEF HandlerInv, RootsOrder
  <2>2. i \in {1, 2}
    BY <2>1
  <2>3. i = 2 => 1 \in 1..(i - 1)
    OBVIOUS
  <2>4. a \in Objects("QWidget") => Widget(a)
    BY DEF Objects, Widget
  <2>5. a \in Objects("QWindow") => Window(a)
    BY DEF Objects, Window
  <2>6. /\ todo' \in [{1, 2} -> SUBSET Addr]
        /\ todo'[1] \subseteq todo[1] /\ todo'[2] \subseteq todo[2]
    BY <1>3, <2>1, <2>2
  <2> QED BY <1>3, <2>1, <2>2, <2>3, <2>4, <2>5, <2>6
<1>6. ASSUME request = "roots"
      PROVE  /\ todo' \in [{1, 2} -> SUBSET Addr]
             /\ todo'[1] \subseteq Objects("QWidget") /\ todo'[2] \subseteq Objects("QWindow")
             /\ \A j \in DOMAIN reply :
                  /\ Widget(reply[j].of) \/ (Window(reply[j].of) /\ todo'[1] = {})
                  /\ inner[reply[j].of] \in seen \cup {None}
  BY <1>5, <1>6 DEF HandlerInv, RootsOrder
<1>7. CASE skips(a)
  <2>1. UNCHANGED <<seen, reply>>
    BY <1>7 DEF handles
  <2>2. Answers'
    BY <1>1, <1>4, <2>1 DEF HandlerInv, Answers
  <2>3. RootsOrder'
    BY <1>1, <1>6, <2>1 DEF RootsOrder
  <2>4. NamedOnce'
    BY <1>1, <2>1 DEF HandlerInv, NamedOnce
  <2> QED BY <2>2, <2>3, <2>4 DEF HandlerInv
<1>8. CASE ~skips(a)
  <2> DEFINE e == [of |-> a, is |-> Summary(a)]
             n == Len(reply) + 1
  <2>1. /\ a \notin seen /\ reply' = Append(reply, e)
        /\ seen' = seen \cup {a} \cup (IF request = "roots" THEN {inner[a]} \ {None} ELSE {})
    BY <1>8 DEF handles, skips, sees
  <2>2. e \in Answer
    <3>1. class[a] \in Class \cup {"none"}
      BY DEF TreeInv, TreeTypes
    <3>2. \/ Summary(a) = summarizeGraphicsItem \/ Summary(a) = summarizeTopLevel(class[a])
          \/ Summary(a) = summarizeObject(class[a])
      BY Zenon DEF Summary
    <3> QED BY <3>1, <3>2 DEF Answer
  <2>3. reply \in Seq(Answer)
    BY DEF HandlerInv, Answers
  <2>4. /\ reply' \in Seq(Answer) /\ reply'[n] = e
        /\ \A j \in DOMAIN reply' : j # n => j \in DOMAIN reply /\ reply'[j] = reply[j]
    BY <2>1, <2>2, <2>3, OneMore
  <2>5. e.of = a
    OBVIOUS
  <2> HIDE DEF e, n
  <2>6. \A j \in DOMAIN reply : reply[j].of \in seen /\ reply[j].of \in Addr
    <3>1. \A j \in DOMAIN reply : reply[j] \in Answer
      BY <2>3
    <3>2. \A r \in Answer : r.of \in Addr
      BY DEF Answer
    <3> QED BY <3>1, <3>2 DEF HandlerInv, Answers
  <2>7. Answers'
    BY <1>1, <1>4, <2>1, <2>4, <2>5, <2>6 DEF HandlerInv, Answers
  <2>8. RootsOrder'
    <3> SUFFICES ASSUME request = "roots", NEW j \in DOMAIN reply'
                 PROVE  /\ Widget(reply'[j].of) \/ (Window(reply'[j].of) /\ todo'[1] = {})
                        /\ inner[reply'[j].of] \in seen' \cup {None}
      <4>1. request = "roots" =>
              /\ todo' \in [{1, 2} -> SUBSET Addr]
              /\ todo'[1] \subseteq Objects("QWidget") /\ todo'[2] \subseteq Objects("QWindow")
        BY <1>6
      <4>2. \A b : Widget(b)' = Widget(b) /\ Window(b)' = Window(b)
        BY <1>1
      <4>3. \A j \in DOMAIN reply' :
               /\ Widget(reply[j].of)' = Widget(reply'[j].of)
               /\ Window(reply[j].of)' = Window(reply'[j].of)
        BY <1>1 DEF Widget, Window, IsA
      <4> QED BY <1>1, <4>1, <4>3 DEF RootsOrder
    <3>1. CASE j = n
      <4>1. Widget(a) \/ (Window(a) /\ todo'[1] = {})
        BY <1>5
      <4>2. inner[a] \in seen' \cup {None}
        BY <2>1
      <4> QED BY <2>4, <2>5, <3>1, <4>1, <4>2
    <3>2. CASE j # n
      <4>1. j \in DOMAIN reply /\ reply'[j] = reply[j]
        BY <2>4, <3>2
      <4>2. seen \subseteq seen'
        BY <2>1
      <4> QED BY <1>6, <4>1, <4>2
    <3> QED BY <3>1, <3>2
  <2>9. NamedOnce'
    <3>1. ASSUME NEW j \in DOMAIN reply
          PROVE  /\ reply[j].of # a
                 /\ request = "roots" => inner[reply[j].of] # a /\ inner[a] # reply[j].of
      <4>1. reply[j].of # a
        BY <2>1, <2>6, <3>1
      <4>2. ASSUME request = "roots" PROVE inner[reply[j].of] # a /\ inner[a] # reply[j].of
        <5>1. inner[reply[j].of] # a
          BY <1>0, <1>6, <2>1, <3>1, <4>2
        <5>2. inner[a] # reply[j].of
          <6> DEFINE b == reply[j].of
          <6>1. b \in Addr /\ b # None
            BY <1>0, <2>6, <3>1
          <6>2. Widget(b) \/ (Window(b) /\ todo[1] = {})
            BY <3>1, <4>2 DEF HandlerInv, RootsOrder
          <6> HIDE DEF b
          <6>3. ~Widget(b) \/ ~Window(b)
            BY <6>1, OneFamily DEF TreeInv
          <6>4. Widget(b) \/ Window(b) => ~QuickItem(b)
            BY <6>1, OneFamily DEF TreeInv
          <6>5. CASE i = 1 /\ Widget(a)
            <7>1. inner[a] # None => Window(inner[a])
              BY <6>5 DEF TreeInv, Widgets
            <7>2. todo[1] # {}
              BY <1>3, <6>5
            <7> QED BY <6>1, <6>2, <6>3, <7>1, <7>2 DEF b
          <6>6. CASE i = 2 /\ Window(a)
            <7>1. inner[a] # None => QuickItem(inner[a])
              BY <6>6 DEF TreeInv, Contents
            <7> QED BY <6>1, <6>2, <6>4, <7>1 DEF b
          <6> QED BY <1>5, <4>2, <6>5, <6>6
        <5> QED BY <5>1, <5>2
      <4> QED BY <4>1, <4>2
    <3> SUFFICES ASSUME NEW j \in DOMAIN reply', NEW k \in DOMAIN reply', j # k
                 PROVE  /\ reply'[j].of # reply'[k].of
                        /\ request = "roots" => inner[reply'[j].of] # reply'[k].of
      BY <1>1 DEF NamedOnce
    <3>2. CASE j = n
      <4>1. k \in DOMAIN reply /\ reply'[k] = reply[k] /\ reply'[j].of = a
        BY <2>4, <2>5, <3>2
      <4> QED BY <3>1, <4>1
    <3>3. CASE k = n
      <4>1. j \in DOMAIN reply /\ reply'[j] = reply[j] /\ reply'[k].of = a
        BY <2>4, <2>5, <3>3
      <4> QED BY <3>1, <4>1
    <3>4. CASE j # n /\ k # n
      <4>1. /\ k \in DOMAIN reply /\ reply'[k] = reply[k]
            /\ j \in DOMAIN reply /\ reply'[j] = reply[j]
        BY <2>4, <3>4
      <4> QED BY <4>1 DEF HandlerInv, NamedOnce
    <3> QED BY <3>2, <3>3, <3>4
  <2> QED BY <2>7, <2>8, <2>9 DEF HandlerInv
<1> QED BY <1>7, <1>8

\* At first no handler is at work.
LEMMA HandlerInit == DiscoveryInit => HandlerInv
<1> SUFFICES ASSUME DiscoveryInit PROVE HandlerInv
  OBVIOUS
<1>1. request = "none" /\ todo = <<>> /\ seen = {} /\ reply = <<>> /\ half = None
  BY DEF DiscoveryInit
<1>2. DOMAIN reply = {} /\ reply \in Seq(Answer)
  BY <1>1
<1> QED BY <1>1, <1>2 DEF HandlerInv, Answers, RootsOrder, NamedOnce

\* The handler invariant is inductive, given the tree invariant.
LEMMA HandlerStep == TypeOK /\ TreeInv /\ HandlerInv /\ [DiscoveryNext]_discoveryVars => HandlerInv'
<1> SUFFICES ASSUME TypeOK, TreeInv, HandlerInv, [DiscoveryNext]_discoveryVars
             PROVE  HandlerInv'
  OBVIOUS
<1>1. CASE Application
  <2>1. request' = "none" /\ reply' = <<>> /\ seen' = {} /\ todo' = <<>>
    BY <1>1, ApplicationQuiet DEF handlerVars, HandlerInv, Answers
  <2> QED BY <2>1, NothingReplied
<1>2. CASE handleElementsRoots
  BY <1>2, RootsKept
<1>3. CASE \E id \in frontier : handleElementsChildren(id)
  BY <1>3, ChildrenKept
<1>4. CASE \E a \in Addr : handles(a)
  BY <1>4, HandlesKept
<1>5. CASE \E a \in Addr : handleOne(a)
  <2>1. UNCHANGED objectAt
    BY <1>5 DEF handleOne, registers, ensureIdFor, ensureIdForGItem, heapVars
  <2>2. UNCHANGED <<treeVars, handlerVars>>
    BY <1>5 DEF handleOne
  <2> QED BY <2>1, <2>2, HandlerSame
<1>6. CASE replies
  BY <1>6, NothingReplied DEF replies
<1>7. CASE UNCHANGED discoveryVars
  BY <1>7, HandlerSame DEF discoveryVars, vars, heapVars
<1> QED BY <1>1, <1>2, <1>3, <1>4, <1>5, <1>6, <1>7 DEF DiscoveryNext, Requests

-----------------------------------------------------------------------------
(***************************************************************************)
(* The types of what the application does not share with the handlers.     *)
(***************************************************************************)
ClassNames == Classes \cup {"none", "QWindow", "QQuickItem", "QTimer"}

AppTypes == class \in [Addr -> ClassNames] /\ touched \subseteq Addr

WalkTypes ==
    /\ request \in {"none", "roots", "children"} /\ seen \subseteq Addr
    /\ \A i \in DOMAIN todo : todo[i] \subseteq Addr
    /\ walk \in {"no", "on", "done", "crashed"} /\ frontier \subseteq visited

DiscoveryInv == TypeOK /\ TreeInv /\ HandlerInv /\ AppTypes /\ WalkTypes

\* A new object is of a known class.
LEMMA BornTypes ==
  ASSUME AppTypes, NEW a \in Addr, NEW c \in ClassNames, NEW o, NEW u, Born(a, c, o, u)
  PROVE  AppTypes'
BY DEF Born, touches, AppTypes

\* The application leaves the variables of the handlers alone.
LEMMA ApplicationTypes ==
  ASSUME AppTypes, Application
  PROVE  AppTypes' /\ UNCHANGED <<handlerVars, walk, frontier, visited>>
<1>1. PICK a \in Addr :
        \/ \E c \in Classes, p \in Addr \cup {None} : NewWidget(a, c, p) \/ NewWindow(a, c, p)
        \/ \E p \in Addr : NewHandle(a, p) \/ NewQuickItem(a, p) \/ NewPlain(a, p) \/ Moves(a, p)
        \/ \E p \in Addr \cup {None} : NewGraphicsItem(a, p)
        \/ NewContent(a) \/ Destroys(a) \/ Disconnects(a)
  BY DEF Application
<1>2. ASSUME NEW c \in ClassNames, NEW o, NEW u, Born(a, c, o, u)
      PROVE  AppTypes' /\ UNCHANGED <<handlerVars, walk, frontier, visited>>
  BY <1>2, BornTypes DEF Born, AppFrame
<1>3. /\ Classes \subseteq ClassNames
      /\ "QWindow" \in ClassNames /\ "QQuickItem" \in ClassNames /\ "QTimer" \in ClassNames
  BY DEF ClassNames
<1>4. ASSUME NEW c \in Classes, NEW p \in Addr \cup {None}, NewWidget(a, c, p) \/ NewWindow(a, c, p)
      PROVE  AppTypes' /\ UNCHANGED <<handlerVars, walk, frontier, visited>>
  <2>1. Born(a, c, p, p) \/ Born(a, c, p, None)
    BY <1>4 DEF NewWidget, NewWindow
  <2> QED BY <1>2, <1>3, <2>1
<1>5. ASSUME NEW p \in Addr, NewHandle(a, p) \/ NewQuickItem(a, p) \/ NewPlain(a, p)
      PROVE  AppTypes' /\ UNCHANGED <<handlerVars, walk, frontier, visited>>
  <2>1. \/ Born(a, "QWindow", None, None) \/ Born(a, "QTimer", p, None)
        \/ \E o \in {p} \cup {w \in Objects("QQuickWindow") : inner[w] = p} :
              Born(a, "QQuickItem", o, p)
    BY <1>5 DEF NewHandle, NewQuickItem, NewPlain
  <2> QED BY <1>2, <1>3, <2>1
<1>6. ASSUME NEW p \in Addr, Moves(a, p)
      PROVE  AppTypes' /\ UNCHANGED <<handlerVars, walk, frontier, visited>>
  <2>1. touches({a}) /\ AppFrame /\ UNCHANGED class
    BY <1>6 DEF Moves
  <2> QED BY <2>1 DEF touches, AppFrame, AppTypes
<1>7. ASSUME NEW p \in Addr \cup {None}, NewGraphicsItem(a, p)
      PROVE  AppTypes' /\ UNCHANGED <<handlerVars, walk, frontier, visited>>
  <2>1. touches({a}) /\ AppFrame /\ UNCHANGED class
    BY <1>7 DEF NewGraphicsItem
  <2> QED BY <2>1 DEF touches, AppFrame, AppTypes
<1>8. CASE NewContent(a)
  <2>1. Born(a, "QQuickItem", half, None)
    BY <1>8 DEF NewContent
  <2> QED BY <1>2, <1>3, <2>1
<1>9. CASE Destroys(a)
  <2>1. /\ class' = [class EXCEPT ![a] = "none"] /\ AppFrame
        /\ touches({a} \cup {b \in Addr : up[b] = a})
    BY <1>9 DEF Destroys
  <2>2. class' \in [Addr -> ClassNames]
    BY <2>1 DEF AppTypes, ClassNames
  <2>3. touched' \subseteq Addr
    BY <2>1 DEF AppTypes, touches
  <2> QED BY <2>1, <2>2, <2>3 DEF AppTypes, AppFrame
<1>10. CASE Disconnects(a)
  BY <1>10 DEF Disconnects, AppFrame, treeVars, AppTypes
<1> QED BY <1>1, <1>4, <1>5, <1>6, <1>7, <1>8, <1>9, <1>10

(* The element of an ID is at an address, and so is what its loops go through. *)
LEMMA AskedTypes ==
  ASSUME TypeOK, TreeInv, WalkTypes, NEW id \in frontier, handleElementsChildren(id)
  PROVE  WalkTypes'
<1>0. frontier' \subseteq visited' /\ UNCHANGED seen
  BY DEF handleElementsChildren, WalkTypes, asks, handlerVars
<1>1. \A a \in Addr : half = None =>
         \A i \in DOMAIN childLoops(a) : childLoops(a)[i] \subseteq Addr
  <2> SUFFICES ASSUME NEW a \in Addr, half = None, NEW i \in DOMAIN childLoops(a)
               PROVE  childLoops(a)[i] \subseteq Addr
    OBVIOUS
  <2>1. childLoops(a) \in Seq(Fitting(a))
    BY ChildLoops
  <2>2. childLoops(a)[i] \in Fitting(a)
    BY <2>1
  <2> QED BY <2>2 DEF Fitting
<1>2. CASE UNCHANGED handlerVars
  <2>1. walk' \in {"no", "on", "done", "crashed"}
    BY DEF handleElementsChildren, WalkTypes
  <2> QED BY <1>0, <1>2, <2>1 DEF WalkTypes, handlerVars
<1>3. CASE ~UNCHANGED handlerVars
  <2> DEFINE loops == CASE ResolvesToItem(id)   -> childLoops(m_id2gitem[id])
                        [] ~ResolvesToItem(id) /\ objectForId(id) # 0
                                                -> childLoops(addressOf(objectForId(id)))
                        [] OTHER                -> <<>>
  <2>1. UNCHANGED walk /\ asks("children", loops)
    BY <1>3, Zenon DEF handleElementsChildren
  <2>2. half = None /\ request' = "children" /\ todo' = loops
    BY <2>1 DEF asks, Idle
  <2>3. ResolvesToItem(id) => m_id2gitem[id] \in Addr
    BY DEF ResolvesToItem, TypeOK
  <2>4. objectForId(id) # 0 => addressOf(objectForId(id)) \in Addr
    BY DEF objectForId, addressOf, LiveObject
  <2>5. \/ loops = <<>>
        \/ ResolvesToItem(id) /\ loops = childLoops(m_id2gitem[id])
        \/ objectForId(id) # 0 /\ loops = childLoops(addressOf(objectForId(id)))
    BY Zenon
  <2> HIDE DEF loops
  <2>6. \A i \in DOMAIN loops : loops[i] \subseteq Addr
    BY <1>1, <2>2, <2>3, <2>4, <2>5
  <2>7. \A i \in DOMAIN todo' : todo'[i] \subseteq Addr
    BY <2>2, <2>6
  <2> QED BY <1>0, <2>1, <2>2, <2>7 DEF WalkTypes
<1> QED BY <1>2, <1>3

\* The roots are addresses.
LEMMA RootsTypes ==
  ASSUME WalkTypes, handleElementsRoots
  PROVE  WalkTypes'
<1>1. /\ request' = "roots" /\ walk' = "on" /\ todo' = rootLoops
      /\ UNCHANGED <<seen, frontier, visited>>
  BY DEF handleElementsRoots, asks
<1>2. \A i \in DOMAIN rootLoops : rootLoops[i] \subseteq Addr
  <2> DEFINE F == {a \in Addr : IsWindow(a) /\ ~Popup(a)}
             G == {a \in Objects("QWindow") : up[a] = None /\ ~Popup(a)}
  <2>1. F \subseteq Addr /\ G \subseteq Addr
    BY DEF Objects
  <2>2. rootLoops = <<F, G>>
    BY Zenon DEF rootLoops
  <2> HIDE DEF F, G
  <2> QED BY <2>1, <2>2
<1> QED BY <1>1, <1>2 DEF WalkTypes

\* What has been handled is an address, like what is inside it.
LEMMA HandlesTypes ==
  ASSUME TreeInv, WalkTypes, NEW a \in Addr, handles(a)
  PROVE  WalkTypes'
<1>1. seen' \subseteq Addr
  <2>1. inner[a] \in Addr \cup {None}
    BY DEF TreeInv, TreeTypes
  <2> QED BY <2>1 DEF handles, sees, WalkTypes
<1>2. \A i \in DOMAIN todo' : todo'[i] \subseteq Addr
  BY DEF handles, turn, WalkTypes
<1>3. UNCHANGED <<request, walk, frontier, visited>>
  BY DEF handles, walkVars
<1> QED BY <1>1, <1>2, <1>3 DEF WalkTypes

\* A client that goes on was told what it goes on with.
LEMMA RepliesTypes ==
  ASSUME WalkTypes, replies
  PROVE  WalkTypes'
<1>1. walk' \in {"no", "on", "done", "crashed"}
  BY DEF replies, WalkTypes
<1>2. frontier' \subseteq visited'
  BY DEF replies, WalkTypes
<1>3. request' = "none" /\ todo' = <<>> /\ seen' = {}
  BY DEF replies
<1> QED BY <1>1, <1>2, <1>3 DEF WalkTypes

\* The types of the walk depend on its own variables.
LEMMA WalkSame ==
  ASSUME WalkTypes, UNCHANGED <<request, todo, seen, walk, frontier, visited>>
  PROVE  WalkTypes'
BY DEF WalkTypes

\* The whole invariant is inductive.
LEMMA DiscoveryStep == TypeOK' /\ DiscoveryInv /\ [DiscoveryNext]_discoveryVars => DiscoveryInv'
<1> SUFFICES ASSUME TypeOK', DiscoveryInv, [DiscoveryNext]_discoveryVars
             PROVE  AppTypes' /\ WalkTypes'
  BY TreeStep, HandlerStep DEF DiscoveryInv
<1> USE DEF DiscoveryInv
<1>1. CASE Application
  <2>1. AppTypes' /\ UNCHANGED <<handlerVars, walk, frontier, visited>>
    BY <1>1, ApplicationTypes
  <2> QED BY <2>1 DEF WalkTypes, handlerVars
<1>2. CASE Requests
  <2>1. UNCHANGED <<class, touched>>
    <3>1. UNCHANGED class
      BY <1>2, RequestsKeep DEF treeVars
    <3>2. UNCHANGED touched
      BY <1>2 DEF Requests, handleElementsRoots, handleElementsChildren, handleOne, handles,
                  replies, walkVars
    <3> QED BY <3>1, <3>2
  <2>2. ASSUME NEW a \in Addr, handleOne(a) PROVE WalkTypes'
    <3>1. UNCHANGED <<handlerVars, walkVars>>
      BY <2>2 DEF handleOne
    <3>2. UNCHANGED <<request, todo, seen, walk, frontier, visited>>
      BY <3>1 DEF handlerVars, walkVars
    <3> QED BY <3>2, WalkSame
  <2>3. WalkTypes'
    BY <1>2, <2>2, RootsTypes, AskedTypes, HandlesTypes, RepliesTypes DEF Requests
  <2> QED BY <2>1, <2>3 DEF AppTypes
<1>3. CASE UNCHANGED discoveryVars
  BY <1>3 DEF discoveryVars, treeVars, handlerVars, walkVars, AppTypes, WalkTypes
<1> QED BY <1>1, <1>2, <1>3 DEF DiscoveryNext

\* It holds at first.
LEMMA DiscoveryStart == DiscoveryInit => AppTypes /\ WalkTypes
<1> SUFFICES ASSUME DiscoveryInit PROVE AppTypes /\ WalkTypes
  OBVIOUS
<1>1. class \in [Addr -> ClassNames]
  BY DEF DiscoveryInit, ClassNames
<1> QED BY <1>1 DEF DiscoveryInit, AppTypes, WalkTypes

\* It contains the types.
LEMMA TypesFollow == DiscoveryInv => DiscoveryTypeOK
<1> SUFFICES ASSUME DiscoveryInv PROVE DiscoveryTypeOK
  OBVIOUS
<1>1. \A i \in DOMAIN reply : reply[i].of \in Addr
  <2>1. reply \in Seq(Answer)
    BY DEF DiscoveryInv, HandlerInv, Answers
  <2>2. \A i \in DOMAIN reply : reply[i] \in Answer
    BY <2>1
  <2>3. \A r \in Answer : r.of \in Addr
    BY DEF Answer
  <2> QED BY <2>2, <2>3
<1>2. TreeTypes /\ AppTypes /\ WalkTypes
  BY DEF DiscoveryInv, TreeInv
<1> QED BY <1>1, <1>2 DEF DiscoveryTypeOK, TreeTypes, AppTypes, WalkTypes, ClassNames

-----------------------------------------------------------------------------
(***************************************************************************)
(* Kin: everything is under its own kind.  The window of a widget is under *)
(* nothing, and a Quick item is owned by another one or by a window.       *)
(***************************************************************************)
UnderKin ==
    \A a \in Addr : up[a] # None =>
        /\ Widget(a) => Widget(up[a])
        /\ Window(a) => Window(up[a])
        /\ QuickItem(a) => QuickItem(up[a])
        /\ IsItem(a) => IsItem(up[a])

HandlesFree ==
    \A w \in Addr : Widget(w) /\ inner[w] # None => up[inner[w]] = None /\ owner[inner[w]] = None

OwnedByKin ==
    \A a \in Addr : QuickItem(a) /\ owner[a] # None => QuickItem(owner[a]) \/ Window(owner[a])

QuickOnly == ~qtQuickAvailable => \A a \in Addr : ~QuickItem(a) /\ ~QuickWindow(a)

Kin == UnderKin /\ HandlesFree /\ OwnedByKin /\ QuickOnly

\* A new object, whose place is among its kin.
LEMMA BornKin ==
  ASSUME TypeOK, TreeInv, Kin, NEW a \in Addr, NEW c \in Class, NEW o \in Addr \cup {None},
         NEW u \in Addr \cup {None}, NewObjectAt(a, c, o, u),
         u # None /\ castsTo(c, "QWidget") => Widget(u),
         u # None /\ castsTo(c, "QWindow") => Window(u),
         u # None /\ castsTo(c, "QQuickItem") => QuickItem(u),
         o # None /\ castsTo(c, "QQuickItem") => QuickItem(o) \/ Window(o),
         castsTo(c, "QQuickItem") \/ c = "QQuickWindow" => qtQuickAvailable,
         \/ inner' = inner
         \/ \E w \in Addr : inner' = [inner EXCEPT ![w] = a] /\ objectAt[w] # 0
                            /\ u = None /\ (Widget(w) => o = None)
  PROVE  Kin'
<1>0. None \notin Addr
  BY DiscoveryAssumption
<1>1. /\ objectAt'[a] # 0 /\ itemAt'[a] = 0 /\ class'[a] = c /\ owner'[a] = o /\ up'[a] = u
      /\ \A b \in Addr : b # a =>
            /\ objectAt'[b] = objectAt[b] /\ itemAt'[b] = itemAt[b] /\ class'[b] = class[b]
            /\ owner'[b] = owner[b] /\ up'[b] = up[b]
            /\ Widget(b)' = Widget(b) /\ Window(b)' = Window(b)
            /\ QuickItem(b)' = QuickItem(b) /\ IsItem(b)' = IsItem(b)
            /\ QuickWindow(b)' = QuickWindow(b)
      /\ QuickWindow(a)' <=> c = "QQuickWindow"
      /\ ~IsItem(a)' /\ (Widget(a)' <=> castsTo(c, "QWidget"))
      /\ Window(a)' <=> castsTo(c, "QWindow")
      /\ QuickItem(a)' <=> castsTo(c, "QQuickItem")
      /\ ~Widget(a) /\ ~Window(a) /\ ~QuickItem(a)
  BY BornFacts
<1>2. \A b \in Addr : owner[b] # a /\ up[b] # a /\ inner[b] # a
  BY NotLinked DEF TreeInv, NewObjectAt
<1>3. \A b \in Addr : owner[b] \in Addr \cup {None} /\ up[b] \in Addr \cup {None}
                      /\ inner[b] \in Addr \cup {None}
  BY DEF TreeInv, TreeTypes
<1>4. /\ u # None /\ Widget(a)' => u # a /\ Widget(u)'
      /\ u # None /\ Window(a)' => u # a /\ Window(u)'
      /\ u # None /\ QuickItem(a)' => u # a /\ QuickItem(u)'
      /\ o # None /\ QuickItem(a)' => o # a /\ (QuickItem(o)' \/ Window(o)')
  BY <1>1
<1>5. UnderKin'
  <2> SUFFICES ASSUME NEW b \in Addr, up'[b] # None
               PROVE  /\ Widget(b)' => Widget(up[b])'
                      /\ Window(b)' => Window(up[b])'
                      /\ QuickItem(b)' => QuickItem(up[b])'
                      /\ IsItem(b)' => IsItem(up[b])'
    BY DEF UnderKin
  <2>1. CASE b = a
    BY <1>1, <1>4, <2>1 DEF Widget, Window, QuickItem, IsItem, IsA
  <2>2. CASE b # a
    <3>1. up'[b] = up[b] /\ up[b] \in Addr /\ up[b] # a
      BY <1>1, <1>2, <1>3, <2>2
    <3> QED BY <1>1, <2>2, <3>1 DEF Kin, UnderKin, Widget, Window, QuickItem, IsItem, IsA
  <2> QED BY <2>1, <2>2
<1>6. OwnedByKin'
  <2> SUFFICES ASSUME NEW b \in Addr, QuickItem(b)', owner'[b] # None
               PROVE  QuickItem(owner[b])' \/ Window(owner[b])'
    BY DEF OwnedByKin
  <2>1. CASE b = a
    BY <1>1, <1>4, <2>1 DEF Widget, Window, QuickItem, IsItem, IsA
  <2>2. CASE b # a
    <3>1. owner'[b] = owner[b] /\ owner[b] \in Addr /\ owner[b] # a
      BY <1>1, <1>2, <1>3, <2>2
    <3> QED BY <1>1, <2>2, <3>1 DEF Kin, OwnedByKin, Window, QuickItem, IsA
  <2> QED BY <2>1, <2>2
<1>7. HandlesFree'
  <2> SUFFICES ASSUME NEW b \in Addr, Widget(b)', inner'[b] # None
               PROVE  up'[inner'[b]] = None /\ owner'[inner'[b]] = None
    BY DEF HandlesFree
  <2>0. inner[a] = None
    BY NotLinked DEF TreeInv, NewObjectAt
  <2>1. CASE inner'[b] = inner[b]
    <3>1. b # a /\ inner[b] \in Addr /\ inner[b] # a /\ Widget(b)
      BY <1>1, <1>2, <1>3, <2>0, <2>1
    <3> QED BY <1>1, <2>1, <3>1 DEF Kin, HandlesFree
  <2>2. CASE inner'[b] # inner[b]
    <3>1. PICK w \in Addr : inner' = [inner EXCEPT ![w] = a] /\ objectAt[w] # 0
                            /\ u = None /\ (Widget(w) => o = None)
      BY <2>2
    <3>2. b = w /\ inner'[b] = a
      BY <2>2, <3>1 DEF TreeInv, TreeTypes
    <3>3. b # a
      BY <3>1, <3>2 DEF NewObjectAt
    <3> QED BY <1>1, <3>1, <3>2, <3>3
  <2> QED BY <2>1, <2>2
<1>8. QuickOnly'
  BY <1>1 DEF Kin, QuickOnly
<1> QED BY <1>5, <1>6, <1>7, <1>8 DEF Kin

\* New objects of the application.
LEMMA NewKin ==
  ASSUME TypeOK, TreeInv, Kin, NEW a \in Addr,
         \/ \E c \in Classes, p \in Addr \cup {None} : NewWidget(a, c, p) \/ NewWindow(a, c, p)
         \/ \E p \in Addr : NewHandle(a, p) \/ NewQuickItem(a, p) \/ NewPlain(a, p)
         \/ NewContent(a)
  PROVE  Kin'
<1>0. Classes \subseteq Class /\ None \notin Addr /\ None \in Addr \cup {None}
  BY DiscoveryAssumption
<1>1. ASSUME NEW c \in Classes, NEW p \in Addr \cup {None}, NewWidget(a, c, p) PROVE Kin'
  <2>1. /\ castsTo(c, "QWidget") /\ UNCHANGED inner /\ c \in Class
        /\ NewObjectAt(a, c, p, p) /\ (p # None => Widget(p))
    BY <1>0, <1>1, BornIsNew DEF NewWidget, Objects, Widget
  <2>2. ~castsTo(c, "QWindow") /\ ~castsTo(c, "QQuickItem") /\ c # "QQuickWindow"
    BY <2>1, Kinds
  <2> QED BY <2>1, <2>2, BornKin
<1>2. ASSUME NEW c \in Classes, NEW p \in Addr \cup {None}, NewWindow(a, c, p) PROVE Kin'
  <2>1. castsTo(c, "QWindow") /\ UNCHANGED inner /\ c \in Class
        /\ (c = "QQuickWindow" => qtQuickAvailable)
    BY <1>0, <1>2, DiscoveryAssumption DEF NewWindow
  <2>2. ~castsTo(c, "QWidget") /\ ~castsTo(c, "QQuickItem")
    BY <2>1, Kinds
  <2>3. \/ Born(a, c, p, p) /\ (p # None => Window(p))
        \/ Born(a, c, p, None)
    <3>1. \/ p \in {None} \cup {w \in Objects("QWindow") : ~IsHandle(w)} /\ Born(a, c, p, p)
          \/ Born(a, c, p, None)
      BY <1>2 DEF NewWindow
    <3>2. p \in {None} \cup {w \in Objects("QWindow") : ~IsHandle(w)} /\ p # None => Window(p)
      BY DEF Objects, Window
    <3> QED BY <3>1, <3>2
  <2>4. CASE Born(a, c, p, p) /\ (p # None => Window(p))
    <3>1. NewObjectAt(a, c, p, p)
      BY <2>4, BornIsNew
    <3> QED BY <2>1, <2>2, <2>4, <3>1, BornKin
  <2>5. CASE Born(a, c, p, None)
    <3>1. NewObjectAt(a, c, p, None)
      BY <2>5, BornIsNew
    <3> QED BY <1>0, <2>1, <2>2, <3>1, BornKin
  <2> QED BY <2>3, <2>4, <2>5
<1>3. ASSUME NEW w \in Addr, NewHandle(a, w) PROVE Kin'
  <2>1. /\ objectAt[w] # 0 /\ inner' = [inner EXCEPT ![w] = a] /\ Born(a, "QWindow", None, None)
    BY <1>3 DEF NewHandle, IsWindow, IsA
  <2>2. NewObjectAt(a, "QWindow", None, None)
    BY <2>1, BornIsNew
  <2>3. "QWindow" \in Class /\ ~castsTo("QWindow", "QQuickItem") /\ ~castsTo("QWindow", "QWidget")
    BY Kinds, KnownKinds
  <2> QED BY <1>0, <2>1, <2>2, <2>3, KnownKinds, BornKin
<1>4. ASSUME NEW p \in Addr, NewQuickItem(a, p) PROVE Kin'
  <2>1. PICK o \in {p} \cup {w \in Objects("QQuickWindow") : inner[w] = p} :
           Born(a, "QQuickItem", o, p)
    BY <1>4 DEF NewQuickItem
  <2>2. QuickItem(p) /\ UNCHANGED inner
    BY <1>4 DEF NewQuickItem, QuickItem
  <2>3. o \in Addr /\ (QuickItem(o) \/ IsA(o, "QQuickWindow"))
    BY <2>1, <2>2 DEF Objects
  <2>4. IsA(o, "QQuickWindow") => Window(o)
    BY <2>3, Kinds DEF IsA, Window, TreeInv, TreeTypes
  <2>5. NewObjectAt(a, "QQuickItem", o, p)
    BY <2>1, BornIsNew
  <2>6. ~castsTo("QQuickItem", "QWidget") /\ ~castsTo("QQuickItem", "QWindow")
        /\ "QQuickItem" \in Class
    BY Kinds, KnownKinds
  <2>7. qtQuickAvailable
    BY <2>2 DEF Kin, QuickOnly
  <2> QED BY <2>2, <2>3, <2>4, <2>5, <2>6, <2>7, BornKin
<1>5. ASSUME NEW p \in Addr, NewPlain(a, p) PROVE Kin'
  <2>1. Born(a, "QTimer", p, None) /\ UNCHANGED inner
    BY <1>5 DEF NewPlain
  <2>2. NewObjectAt(a, "QTimer", p, None)
    BY <2>1, BornIsNew
  <2> QED BY <1>0, <2>1, <2>2, KnownKinds, BornKin
<1>6. ASSUME NewContent(a) PROVE Kin'
  <2>1. /\ half \in Addr /\ Born(a, "QQuickItem", half, None)
        /\ inner' = [inner EXCEPT ![half] = a] /\ half # None
    BY <1>6 DEF NewContent, TreeInv, TreeTypes
  <2>2. QuickWindow(half)
    BY <2>1 DEF TreeInv, Halves
  <2>3. Window(half) /\ ~Widget(half) /\ objectAt[half] # 0
    BY <2>1, <2>2, OneFamily DEF TreeInv, QuickWindow
  <2>4. NewObjectAt(a, "QQuickItem", half, None)
    BY <2>1, BornIsNew
  <2>5. qtQuickAvailable
    BY <2>1, <2>2 DEF Kin, QuickOnly
  <2> QED BY <1>0, <2>1, <2>3, <2>4, <2>5, KnownKinds, BornKin
<1> QED BY <1>1, <1>2, <1>3, <1>4, <1>5, <1>6

\* An element moves among its kin, or a graphics item is made.
LEMMA MovesKin ==
  ASSUME TypeOK, TreeInv, Kin, NEW a \in Addr, NEW p \in Addr, Moves(a, p)
  PROVE  Kin'
<1>0. None \notin Addr
  BY DiscoveryAssumption
<1>1. /\ UNCHANGED <<objectAt, itemAt, class, inner>> /\ up' = [up EXCEPT ![a] = p]
  BY DEF Moves, vars, heapVars
<1>2. /\ up'[a] = p /\ \A b \in Addr : b # a => up'[b] = up[b]
      /\ \A b \in Addr : inner[b] \in Addr \cup {None}
      /\ \A b \in Addr : owner'[b] = owner[b] \/ (b = a /\ owner' = [owner EXCEPT ![a] = p])
  BY <1>1 DEF TreeInv, TreeTypes, Moves
<1>3. \/ IsItem(a) /\ IsItem(p) /\ UNCHANGED owner
      \/ QuickItem(a) /\ QuickItem(p) /\ UNCHANGED owner
      \/ /\ (Widget(a) /\ Widget(p)) \/ (Window(a) /\ Window(p))
         /\ owner' = [owner EXCEPT ![a] = p] /\ ~IsHandle(a)
  <2>1. \/ /\ IsItem(a) /\ IsItem(p) /\ UNCHANGED owner
        \/ /\ IsA(a, "QQuickItem") /\ IsA(p, "QQuickItem") /\ UNCHANGED owner
        \/ /\ \E k \in {"QWidget", "QWindow"} : IsA(a, k) /\ IsA(p, k)
           /\ owner' = [owner EXCEPT ![a] = p] /\ ~IsHandle(a)
    BY Zenon DEF Moves
  <2>2. (\E k \in {"QWidget", "QWindow"} : IsA(a, k) /\ IsA(p, k)) =>
          (Widget(a) /\ Widget(p)) \/ (Window(a) /\ Window(p))
    BY Zenon DEF Widget, Window
  <2> QED BY Zenon, <2>1, <2>2 DEF QuickItem
<1>4. \A b \in Addr :
        /\ Widget(b)' = Widget(b) /\ Window(b)' = Window(b)
        /\ QuickItem(b)' = QuickItem(b) /\ IsItem(b)' = IsItem(b)
  BY <1>1 DEF Widget, Window, QuickItem, IsA, IsItem
<1>5. /\ Widget(a) => ~Window(a) /\ ~QuickItem(a)
      /\ Window(a) => ~QuickItem(a)
      /\ Widget(a) \/ Window(a) \/ QuickItem(a) => ~IsItem(a)
  BY OneFamily DEF TreeInv
<1>6. UnderKin'
  <2> SUFFICES ASSUME NEW b \in Addr, up'[b] # None
               PROVE  /\ Widget(b)' => Widget(up[b])'
                      /\ Window(b)' => Window(up[b])'
                      /\ QuickItem(b)' => QuickItem(up[b])'
                      /\ IsItem(b)' => IsItem(up[b])'
    BY DEF UnderKin
  <2>1. CASE b = a
    BY <1>1, <1>2, <1>3, <1>5, <2>1 DEF Widget, Window, QuickItem, IsItem, IsA
  <2>2. CASE b # a
    <3>1. up'[b] = up[b] /\ up[b] \in Addr
      BY <1>2, <2>2 DEF TreeInv, TreeTypes
    <3> QED BY <1>1, <2>2, <3>1 DEF Kin, UnderKin, Widget, Window, QuickItem, IsItem, IsA
  <2> QED BY <2>1, <2>2
<1>7. OwnedByKin'
  <2>1. QuickItem(a) => owner' = owner
    BY <1>3, <1>5
  <2> SUFFICES ASSUME NEW b \in Addr, QuickItem(b)', owner'[b] # None
               PROVE  QuickItem(owner[b])' \/ Window(owner[b])'
    BY DEF OwnedByKin
  <2>2. QuickItem(b) /\ owner'[b] = owner[b]
    BY <1>2, <1>4, <2>1
  <2>3. owner[b] \in Addr
    BY <2>2 DEF TreeInv, TreeTypes
  <2> QED BY <1>1, <2>2, <2>3 DEF Kin, OwnedByKin, Window, QuickItem, IsA
<1>8. HandlesFree'
  <2> SUFFICES ASSUME NEW w \in Addr, Widget(w)', inner'[w] # None
               PROVE  up'[inner'[w]] = None /\ owner'[inner'[w]] = None
    BY DEF HandlesFree
  <2>1. /\ Widget(w) /\ inner'[w] = inner[w] /\ inner[w] \in Addr
        /\ up[inner[w]] = None /\ owner[inner[w]] = None
    BY <1>1, <1>2, <1>4 DEF Kin, HandlesFree
  <2>2. Window(inner[w])
    BY <1>0, <2>1 DEF TreeInv, Widgets
  <2>3. IsHandle(inner[w])
    BY <2>1, <2>2 DEF IsHandle, Objects, Widget, Window
  <2>4. inner[w] # a
    BY <1>3, <1>5, <2>2, <2>3
  <2> QED BY <1>2, <2>1, <2>4
<1>9. QuickOnly'
  BY <1>1 DEF Kin, QuickOnly, QuickItem, QuickWindow, IsA
<1> QED BY <1>6, <1>7, <1>8, <1>9 DEF Kin

\* A new graphics item is under another one.
LEMMA NewGraphicsKin ==
  ASSUME TypeOK, TreeInv, Kin, NEW a \in Addr, NEW p \in Addr \cup {None}, NewGraphicsItem(a, p)
  PROVE  Kin'
<1>0. None \notin Addr /\ born # 0 /\ itemAt \in [Addr -> Nat]
  BY DiscoveryAssumption DEF TypeOK
<1>1. /\ objectAt[a] = 0 /\ itemAt[a] = 0 /\ itemAt' = [itemAt EXCEPT ![a] = born]
      /\ up' = [up EXCEPT ![a] = p] /\ UNCHANGED <<objectAt, class, owner, inner>>
      /\ p # None => IsItem(p) /\ p # a
  BY DEF NewGraphicsItem, NewItem, IsItem
<1>2. /\ up'[a] = p /\ itemAt'[a] # 0
      /\ \A b \in Addr : b # a => up'[b] = up[b] /\ itemAt'[b] = itemAt[b]
  BY <1>0, <1>1 DEF TreeInv, TreeTypes
<1>3. \A b \in Addr : owner[b] # a /\ up[b] # a /\ inner[b] # a
  BY <1>1, NotLinked DEF TreeInv
<1>4. ~Widget(a)' /\ ~Window(a)' /\ ~QuickItem(a)'
  BY <1>1 DEF Widget, Window, QuickItem, IsA
<1>5. \A b \in Addr : up[b] \in Addr \cup {None} /\ inner[b] \in Addr \cup {None}
                      /\ owner[b] \in Addr \cup {None}
  BY DEF TreeInv, TreeTypes
<1>6. UnderKin'
  <2> SUFFICES ASSUME NEW b \in Addr, up'[b] # None
               PROVE  /\ Widget(b)' => Widget(up[b])'
                      /\ Window(b)' => Window(up[b])'
                      /\ QuickItem(b)' => QuickItem(up[b])'
                      /\ IsItem(b)' => IsItem(up[b])'
    BY DEF UnderKin
  <2>1. CASE b = a
    BY <1>1, <1>2, <1>4, <2>1 DEF IsItem
  <2>2. CASE b # a
    <3>1. up'[b] = up[b] /\ up[b] \in Addr /\ up[b] # a
      BY <1>2, <1>3, <1>5, <2>2
    <3> QED BY <1>1, <1>2, <2>2, <3>1 DEF Kin, UnderKin, Widget, Window, QuickItem, IsItem, IsA
  <2> QED BY <2>1, <2>2
<1>7. OwnedByKin'
  BY <1>1, <1>5 DEF Kin, OwnedByKin, Window, QuickItem, IsA
<1>8. HandlesFree'
  <2> SUFFICES ASSUME NEW w \in Addr, Widget(w)', inner'[w] # None
               PROVE  up'[inner'[w]] = None /\ owner'[inner'[w]] = None
    BY DEF HandlesFree
  <2>1. Widget(w) /\ inner'[w] = inner[w] /\ inner[w] \in Addr /\ inner[w] # a
    BY <1>1, <1>3, <1>5 DEF Widget, IsA
  <2> QED BY <1>1, <1>2, <2>1 DEF Kin, HandlesFree
<1>9. QuickOnly'
  BY <1>1 DEF Kin, QuickOnly, QuickItem, QuickWindow, IsA
<1> QED BY <1>6, <1>7, <1>8, <1>9 DEF Kin

\* What is destroyed owns nothing, and what was under it is under nothing.
LEMMA DestroysKin ==
  ASSUME TypeOK, TreeInv, Kin, NEW a \in Addr, Destroys(a)
  PROVE  Kin'
<1>0. None \notin Addr /\ objectAt \in [Addr -> Nat] /\ itemAt \in [Addr -> Nat]
  BY DiscoveryAssumption DEF TypeOK
<1>1. /\ \A b \in Addr : owner[b] # a
      /\ class' = [class EXCEPT ![a] = "none"]
  BY DEF Destroys
<1>2. \A b \in Addr : /\ owner'[b] = IF b = a \/ owner[b] = a THEN None ELSE owner[b]
                      /\ up'[b] = IF b = a \/ up[b] = a THEN None ELSE up[b]
                      /\ inner'[b] = IF b = a \/ inner[b] = a THEN None ELSE inner[b]
  BY DEF Destroys, Gone
<1>3. /\ objectAt'[a] = 0
      /\ \A b \in Addr : b # a => objectAt'[b] = objectAt[b] /\ itemAt'[b] = itemAt[b]
  <2>1. CASE DestroyObject(a)
    BY <1>0, <2>1 DEF DestroyObject
  <2>2. CASE DestroyItem(a)
    BY <1>0, <2>2 DEF DestroyItem, TreeInv, TreeTypes
  <2> QED BY <2>1, <2>2 DEF Destroys
<1>4. class'[a] = "none" /\ \A b \in Addr : b # a => class'[b] = class[b]
  BY <1>1 DEF TreeInv, TreeTypes
<1>5. ~Widget(a)' /\ ~Window(a)' /\ ~QuickItem(a)'
  BY <1>3 DEF Widget, Window, QuickItem, IsA
<1>6. \A b \in Addr : up[b] \in Addr \cup {None} /\ inner[b] \in Addr \cup {None}
                      /\ owner[b] \in Addr \cup {None}
  BY DEF TreeInv, TreeTypes
<1>7. UnderKin'
  <2> SUFFICES ASSUME NEW b \in Addr, up'[b] # None
               PROVE  /\ Widget(b)' => Widget(up[b])'
                      /\ Window(b)' => Window(up[b])'
                      /\ QuickItem(b)' => QuickItem(up[b])'
                      /\ IsItem(b)' => IsItem(up[b])'
    BY DEF UnderKin
  <2>1. b # a /\ up'[b] = up[b] /\ up[b] \in Addr /\ up[b] # a
    BY <1>2, <1>6
  <2> QED BY <1>3, <1>4, <2>1 DEF Kin, UnderKin, Widget, Window, QuickItem, IsItem, IsA
<1>8. OwnedByKin'
  <2> SUFFICES ASSUME NEW b \in Addr, QuickItem(b)', owner'[b] # None
               PROVE  QuickItem(owner[b])' \/ Window(owner[b])'
    BY DEF OwnedByKin
  <2>1. b # a /\ owner'[b] = owner[b] /\ owner[b] \in Addr /\ owner[b] # a
    BY <1>2, <1>5, <1>6
  <2> QED BY <1>3, <1>4, <2>1 DEF Kin, OwnedByKin, Window, QuickItem, IsA
<1>9. HandlesFree'
  <2> SUFFICES ASSUME NEW w \in Addr, Widget(w)', inner'[w] # None
               PROVE  up'[inner'[w]] = None /\ owner'[inner'[w]] = None
    BY DEF HandlesFree
  <2>1. w # a /\ inner'[w] = inner[w] /\ inner[w] \in Addr /\ inner[w] # a
    BY <1>2, <1>5, <1>6
  <2>2. Widget(w)
    BY <1>3, <1>4, <2>1 DEF Widget, IsA
  <2>3. up[inner[w]] = None /\ owner[inner[w]] = None
    BY <2>1, <2>2 DEF Kin, HandlesFree
  <2> QED BY <1>2, <2>1, <2>3
<1>10. QuickOnly'
  BY <1>3, <1>4 DEF Kin, QuickOnly, QuickItem, QuickWindow, IsA
<1> QED BY <1>7, <1>8, <1>9, <1>10 DEF Kin

\* It is about the heap and the links alone.
LEMMA KinSame ==
  ASSUME Kin, UNCHANGED <<objectAt, itemAt, class, owner, up, inner>>
  PROVE  Kin'
BY DEF Kin, UnderKin, HandlesFree, OwnedByKin, QuickOnly, Widget, Window, QuickItem, QuickWindow,
   IsA, IsItem

\* At first nothing is under anything.
LEMMA KinInit == DiscoveryInit => Kin
<1> SUFFICES ASSUME DiscoveryInit PROVE Kin
  OBVIOUS
<1>1. \A a \in Addr : owner[a] = None /\ up[a] = None /\ inner[a] = None
  BY DEF DiscoveryInit
<1>2. \A a \in Addr : ~QuickItem(a) /\ ~QuickWindow(a)
  BY DEF DiscoveryInit, Init, Nobody, QuickItem, QuickWindow, IsA
<1> QED BY <1>1, <1>2 DEF Kin, UnderKin, HandlesFree, OwnedByKin, QuickOnly

\* Kin is inductive, given the tree invariant.
LEMMA KinStep == TypeOK /\ TreeInv /\ Kin /\ [DiscoveryNext]_discoveryVars => Kin'
<1> SUFFICES ASSUME TypeOK, TreeInv, Kin, [DiscoveryNext]_discoveryVars PROVE Kin'
  OBVIOUS
<1>1. CASE Application
  <2>1. PICK a \in Addr :
          \/ \E c \in Classes, p \in Addr \cup {None} : NewWidget(a, c, p) \/ NewWindow(a, c, p)
          \/ \E p \in Addr : NewHandle(a, p) \/ NewQuickItem(a, p) \/ NewPlain(a, p) \/ Moves(a, p)
          \/ \E p \in Addr \cup {None} : NewGraphicsItem(a, p)
          \/ NewContent(a) \/ Destroys(a) \/ Disconnects(a)
    BY <1>1 DEF Application
  <2>2. CASE \/ \E c \in Classes, p \in Addr \cup {None} : NewWidget(a, c, p) \/ NewWindow(a, c, p)
             \/ \E p \in Addr : NewHandle(a, p) \/ NewQuickItem(a, p) \/ NewPlain(a, p)
             \/ NewContent(a)
    BY <2>2, NewKin
  <2>3. CASE \E p \in Addr : Moves(a, p)
    BY <2>3, MovesKin
  <2>4. CASE \E p \in Addr \cup {None} : NewGraphicsItem(a, p)
    BY <2>4, NewGraphicsKin
  <2>5. CASE Destroys(a)
    BY <2>5, DestroysKin
  <2>6. CASE Disconnects(a)
    BY <2>6, KinSame DEF Disconnects, DisconnectAll, heapVars, treeVars
  <2> QED BY <2>1, <2>2, <2>3, <2>4, <2>5, <2>6
<1>2. CASE Requests
  BY <1>2, RequestsKeep, KinSame DEF heapVars, treeVars
<1>3. CASE UNCHANGED discoveryVars
  BY <1>3, KinSame DEF discoveryVars, vars, heapVars, treeVars
<1> QED BY <1>1, <1>2, <1>3 DEF DiscoveryNext

-----------------------------------------------------------------------------
(***************************************************************************)
(* The other direction: what has a parent is in a loop of its handler.     *)
(***************************************************************************)
InLoops(p, b) == \E i \in DOMAIN childLoops(p) : b \in childLoops(p)[i]

\* The elements of two sequences, one after the other.
LEMMA OneAfterTheOther ==
  ASSUME NEW S, NEW s \in Seq(S), NEW t \in Seq(S)
  PROVE  /\ DOMAIN s = 1..Len(s) /\ DOMAIN t = 1..Len(t) /\ Len(s) \in Nat /\ Len(t) \in Nat
         /\ DOMAIN (s \o t) = 1..(Len(s) + Len(t))
         /\ \A i \in 1..(Len(s) + Len(t)) : (s \o t)[i] = IF i <= Len(s) THEN s[i] ELSE t[i - Len(s)]
OBVIOUS

\* What is in one of the loops of two groups is in a loop of both together.
LEMMA LaterLoops ==
  ASSUME NEW s \in Seq(SUBSET Addr), NEW t \in Seq(SUBSET Addr), NEW b
  PROVE  (\E i \in DOMAIN (s \o t) : b \in (s \o t)[i])
            <=> (\E i \in DOMAIN s : b \in s[i]) \/ (\E i \in DOMAIN t : b \in t[i])
<1>1. /\ DOMAIN s = 1..Len(s) /\ DOMAIN t = 1..Len(t) /\ Len(s) \in Nat /\ Len(t) \in Nat
      /\ DOMAIN (s \o t) = 1..(Len(s) + Len(t))
      /\ \A i \in 1..(Len(s) + Len(t)) : (s \o t)[i] = IF i <= Len(s) THEN s[i] ELSE t[i - Len(s)]
  BY OneAfterTheOther
<1>2. ASSUME NEW i \in DOMAIN s, b \in s[i] PROVE \E j \in DOMAIN (s \o t) : b \in (s \o t)[j]
  <2>1. i \in DOMAIN (s \o t) /\ (s \o t)[i] = s[i]
    BY <1>1
  <2> QED BY <1>2, <2>1
<1>3. ASSUME NEW i \in DOMAIN t, b \in t[i] PROVE \E j \in DOMAIN (s \o t) : b \in (s \o t)[j]
  <2>1. i + Len(s) \in DOMAIN (s \o t) /\ (s \o t)[i + Len(s)] = t[i]
    BY <1>1
  <2> QED BY <1>3, <2>1
<1>4. ASSUME NEW i \in DOMAIN (s \o t), b \in (s \o t)[i]
      PROVE  (\E j \in DOMAIN s : b \in s[j]) \/ (\E j \in DOMAIN t : b \in t[j])
  <2>1. CASE i <= Len(s)
    <3>1. i \in DOMAIN s /\ (s \o t)[i] = s[i]
      BY <1>1, <2>1
    <3> QED BY <1>4, <3>1
  <2>2. CASE ~(i <= Len(s))
    <3>1. i - Len(s) \in DOMAIN t /\ (s \o t)[i] = t[i - Len(s)]
      BY <1>1, <2>2
    <3> QED BY <1>4, <3>1
  <2> QED BY <2>1, <2>2
<1> QED BY <1>2, <1>3, <1>4

\* The three groups of loops of an object.
LEMMA LoopsTypes ==
  ASSUME NEW p \in Addr, TreeInv, half = None
  PROVE  /\ widgetLoops(p) \in Seq(SUBSET Addr) /\ windowLoops(p) \in Seq(SUBSET Addr)
         /\ quickLoops(p) \in Seq(SUBSET Addr)
<1>1. Fitting(p) \subseteq SUBSET Addr
  BY DEF Fitting
<1>2. \A s \in Seq(Fitting(p)) : s \in Seq(SUBSET Addr)
  BY <1>1
<1> QED BY <1>2, WidgetLoops, WindowLoops, QuickLoops

\* The three groups of loops one after the other.
LEMMA ThreeLoops ==
  ASSUME NEW s \in Seq(SUBSET Addr), NEW t \in Seq(SUBSET Addr), NEW r \in Seq(SUBSET Addr), NEW b,
         (\E i \in DOMAIN s : b \in s[i]) \/ (\E i \in DOMAIN t : b \in t[i])
            \/ (\E i \in DOMAIN r : b \in r[i])
  PROVE  \E i \in DOMAIN ((s \o t) \o r) : b \in ((s \o t) \o r)[i]
<1>1. (\E i \in DOMAIN (s \o t) : b \in (s \o t)[i])
         <=> (\E i \in DOMAIN s : b \in s[i]) \/ (\E i \in DOMAIN t : b \in t[i])
  BY LaterLoops
<1>2. PICK q \in Seq(SUBSET Addr) : q = s \o t
  BY LoopsInTurn
<1>3. (\E i \in DOMAIN (q \o r) : b \in (q \o r)[i])
         <=> (\E i \in DOMAIN q : b \in q[i]) \/ (\E i \in DOMAIN r : b \in r[i])
  BY LaterLoops
<1> QED BY <1>1, <1>2, <1>3

\* What is in one of the groups is in a loop of the handler.
LEMMA ObjectLoops ==
  ASSUME NEW p \in Addr, TreeInv, half = None, ~IsItem(p), NEW b,
         \/ \E i \in DOMAIN widgetLoops(p) : b \in widgetLoops(p)[i]
         \/ \E i \in DOMAIN windowLoops(p) : b \in windowLoops(p)[i]
         \/ \E i \in DOMAIN quickLoops(p) : b \in quickLoops(p)[i]
  PROVE  InLoops(p, b)
<1>1. /\ widgetLoops(p) \in Seq(SUBSET Addr) /\ windowLoops(p) \in Seq(SUBSET Addr)
      /\ quickLoops(p) \in Seq(SUBSET Addr)
  BY LoopsTypes
<1>2. childLoops(p) = (widgetLoops(p) \o windowLoops(p)) \o quickLoops(p)
  BY DEF childLoops
<1> DEFINE q == (widgetLoops(p) \o windowLoops(p)) \o quickLoops(p)
<1>3. \E i \in DOMAIN q : b \in q[i]
  BY <1>1, ThreeLoops
<1> QED BY <1>2, <1>3 DEF InLoops

\* A group of two loops.
LEMMA TwoLoops ==
  ASSUME NEW x, NEW y
  PROVE  /\ DOMAIN (<<x>> \o <<y>>) = {1, 2}
         /\ (<<x>> \o <<y>>)[1] = x /\ (<<x>> \o <<y>>)[2] = y
<1> DEFINE s == <<x>>
           t == <<y>>
<1>1. /\ s \in Seq({x, y}) /\ Len(s) = 1 /\ s[1] = x
      /\ t \in Seq({x, y}) /\ Len(t) = 1 /\ t[1] = y
  OBVIOUS
<1> HIDE DEF s, t
<1>2. DOMAIN (s \o t) = 1..(Len(s) + Len(t))
      /\ \A i \in 1..(Len(s) + Len(t)) : (s \o t)[i] = IF i <= Len(s) THEN s[i] ELSE t[i - Len(s)]
  BY <1>1, OneAfterTheOther
<1>3. DOMAIN (s \o t) = 1..2 /\ (s \o t)[1] = x /\ (s \o t)[2] = y
  BY <1>1, <1>2
<1> QED BY <1>3 DEF s, t

\* The loops of a widget, a window and a Quick item.
LEMMA ListedByWidget ==
  ASSUME NEW p \in Addr, Widget(p), NEW b \in Addr,
         \/ Widget(b) /\ owner[b] = p
         \/ IsA(p, "QGraphicsView") /\ IsItem(b) /\ up[b] = None
  PROVE  \E i \in DOMAIN widgetLoops(p) : b \in widgetLoops(p)[i]
<1> DEFINE L == {x \in Objects("QWidget") : owner[x] = p}
<1>1. IsA(p, "QWidget")
  BY DEF Widget
<1>2. CASE IsA(p, "QGraphicsView")
  <2>1. widgetLoops(p) = <<L>> \o <<topLevelItems>>
    BY <1>1, <1>2 DEF widgetLoops
  <2>3. DOMAIN widgetLoops(p) = {1, 2} /\ widgetLoops(p)[1] = L /\ widgetLoops(p)[2] = topLevelItems
    BY <2>1, TwoLoops
  <2>4. b \in L \/ b \in topLevelItems
    BY DEF Objects, Widget, topLevelItems
  <2> QED BY <2>3, <2>4
<1>3. CASE ~IsA(p, "QGraphicsView")
  <2>1. widgetLoops(p) = <<L>> \o <<>>
    BY <1>1, <1>3 DEF widgetLoops
  <2>2. widgetLoops(p) = <<L>>
    BY <2>1
  <2>3. DOMAIN widgetLoops(p) = {1} /\ widgetLoops(p)[1] = L
    BY <2>2
  <2>4. b \in L
    BY <1>3 DEF Objects, Widget
  <2> QED BY <2>3, <2>4
<1> QED BY <1>2, <1>3

\* A window has in its loops what it owns, and the item inside it.
LEMMA ListedByWindow ==
  ASSUME NEW p \in Addr, Window(p), qtQuickAvailable, NEW b \in Addr,
         \/ IsA(b, "QObject") /\ owner[b] = p
         \/ IsA(p, "QQuickWindow") /\ inner[p] = b
  PROVE  \E i \in DOMAIN windowLoops(p) : b \in windowLoops(p)[i]
<1> DEFINE L == {x \in Objects("QObject") : owner[x] = p}
<1>1. IsA(p, "QWindow")
  BY DEF Window
<1>2. CASE IsA(p, "QQuickWindow")
  <2>1. windowLoops(p) = <<{inner[p]}>> \o <<L>>
    BY <1>1, <1>2 DEF windowLoops
  <2>3. DOMAIN windowLoops(p) = {1, 2} /\ windowLoops(p)[1] = {inner[p]} /\ windowLoops(p)[2] = L
    BY <2>1, TwoLoops
  <2>4. b \in L \/ b \in {inner[p]}
    BY DEF Objects
  <2> QED BY <2>3, <2>4
<1>3. CASE ~IsA(p, "QQuickWindow")
  <2>1. windowLoops(p) = <<>> \o <<L>>
    BY <1>1, <1>3 DEF windowLoops
  <2>2. windowLoops(p) = <<L>>
    BY <2>1
  <2>3. DOMAIN windowLoops(p) = {1} /\ windowLoops(p)[1] = L
    BY <2>2
  <2>4. b \in L
    BY <1>3 DEF Objects
  <2> QED BY <2>3, <2>4
<1> QED BY <1>2, <1>3

\* A Quick item has its child items in its loop.
LEMMA ListedByQuick ==
  ASSUME NEW p \in Addr, QuickItem(p), qtQuickAvailable, NEW b \in Addr, QuickItem(b), up[b] = p
  PROVE  \E i \in DOMAIN quickLoops(p) : b \in quickLoops(p)[i]
<1> DEFINE L == {x \in Objects("QQuickItem") : up[x] = p}
<1>1. quickLoops(p) = <<L>>
  BY DEF quickLoops, QuickItem
<1>2. DOMAIN quickLoops(p) = {1} /\ quickLoops(p)[1] = L
  BY <1>1
<1>3. b \in L
  BY DEF Objects, QuickItem
<1> QED BY <1>2, <1>3

\* What an element that is no root is listed by has it in one of its loops.
LEMMA ListsIt ==
  ASSUME TreeInv, Kin, half = None, NEW a \in Addr, NEW p \in Addr, p \in Listing(a),
         Exists(a), Listed(a), ~Root(a)
  PROVE  InLoops(p, a)
<1>0. None \notin Addr
  BY DiscoveryAssumption
<1>1. /\ Widget(a) => ~Window(a) /\ ~QuickItem(a) /\ ~QuickWindow(a)
      /\ Window(a) => ~QuickItem(a)
      /\ Widget(a) \/ Window(a) \/ QuickItem(a) => ~IsItem(a)
      /\ Widget(p) => ~Window(p) /\ ~QuickItem(p)
      /\ Widget(p) \/ Window(p) \/ QuickItem(p) => ~IsItem(p)
  BY OneFamily DEF TreeInv
<1>2. Widget(a) \/ Window(a) \/ QuickItem(a) \/ IsItem(a)
  BY DEF Listed, Widget, Window, QuickItem
<1>3. owner[a] \in Addr \cup {None} /\ up[a] \in Addr \cup {None}
  BY DEF TreeInv, TreeTypes
<1>4. CASE IsItem(a) /\ up[a] = None
  <2>1. IsA(p, "QGraphicsView")
    BY <1>4 DEF Listing, Objects
  <2>2. Widget(p)
    BY <2>1, MenusAndViews DEF IsA, Widget, TreeInv, TreeTypes
  <2>3. \E i \in DOMAIN widgetLoops(p) : a \in widgetLoops(p)[i]
    BY <1>4, <2>1, <2>2, ListedByWidget
  <2> QED BY <1>1, <2>2, <2>3, ObjectLoops
<1>5. ~(IsItem(a) /\ up[a] = None) => p = parentOf(a) /\ ~Unlisted(a)
  BY DEF Listing
<1>6. CASE up[a] # None
  <2>1. p = up[a]
    BY <1>5, <1>6, ParentUp
  <2>2. CASE IsItem(a)
    <3>1. IsItem(p)
      BY <1>6, <2>1, <2>2 DEF Kin, UnderKin
    <3>2. childLoops(p) = <<childItems(p)>> /\ a \in childItems(p)
      BY <2>1, <2>2, <3>1 DEF childLoops, childItems
    <3>3. DOMAIN childLoops(p) = {1} /\ childLoops(p)[1] = childItems(p)
      BY <3>2
    <3> QED BY <3>2, <3>3 DEF InLoops
  <2>3. CASE Widget(a)
    <3>1. Widget(p) /\ owner[a] = p
      BY <1>6, <2>1, <2>3 DEF Kin, UnderKin, TreeInv, Widgets
    <3> QED BY <1>1, <2>3, <3>1, ListedByWidget, ObjectLoops
  <2>4. CASE Window(a)
    <3>1. Window(p) /\ owner[a] = p
      BY <1>6, <2>1, <2>4 DEF Kin, UnderKin, TreeInv, WindowsUnder
    <3>2. qtQuickAvailable
      BY <1>5, <1>6, <2>4 DEF Unlisted, Window
    <3>3. IsA(a, "QObject")
      BY <2>4, EveryObject DEF Window, IsA, TreeInv, TreeTypes
    <3>4. \E i \in DOMAIN windowLoops(p) : a \in windowLoops(p)[i]
      BY <3>1, <3>2, <3>3, ListedByWindow
    <3> QED BY <1>1, <3>1, <3>4, ObjectLoops
  <2>5. CASE QuickItem(a)
    <3>1. QuickItem(p)
      BY <1>6, <2>1, <2>5 DEF Kin, UnderKin
    <3>2. qtQuickAvailable
      BY <2>5 DEF Kin, QuickOnly
    <3>3. \E i \in DOMAIN quickLoops(p) : a \in quickLoops(p)[i]
      BY <2>1, <2>5, <3>1, <3>2, ListedByQuick
    <3> QED BY <1>1, <3>1, <3>3, ObjectLoops
  <2> QED BY <1>2, <2>2, <2>3, <2>4, <2>5
<1>7. CASE up[a] = None /\ ~IsItem(a)
  <2>1. CASE Widget(a)
    <3>1. owner[a] = None /\ ~IsContent(a)
      BY <1>1, <1>7, <2>1 DEF TreeInv, Widgets, IsContent, QuickItem
    <3> QED BY <1>0, <1>5, <1>7, <3>1, ParentOwner
  <2>2. CASE Window(a)
    <3>1. ~IsContent(a) /\ ~IsA(a, "QQuickItem")
      BY <1>1, <2>2 DEF IsContent, QuickItem
    <3>2. p = owner[a]
      BY <1>5, <1>7, <3>1, ParentOwner
    <3>3. Popup(a) \/ IsHandle(a)
      BY <1>7, <2>2 DEF Root, Window
    <3>4. IsHandle(a) => owner[a] = None
      <4>1. ASSUME NEW w \in Addr, IsA(w, "QWidget"), inner[w] = a PROVE owner[a] = None
        BY <1>0, <4>1 DEF Kin, HandlesFree, Widget
      <4> QED BY <4>1 DEF IsHandle, Objects
    <3>5. Popup(a) => IsHandle(a)
      BY <1>1, <2>2, MenusAndViews
      DEF Popup, IsHandle, Objects, IsA, Window, Widget, TreeInv, TreeTypes
    <3> QED BY <1>0, <3>2, <3>3, <3>4, <3>5
  <2>3. CASE QuickItem(a)
    <3>0. qtQuickAvailable
      BY <2>3 DEF Kin, QuickOnly
    <3>1. CASE IsContent(a)
      <4>1. PICK w \in Addr : IsA(w, "QQuickWindow") /\ inner[w] = a
        BY <3>1 DEF IsContent, Objects
      <4>2. parentOf(a) = w
        BY <4>1, ParentHolder
      <4>3. p = w /\ Window(p)
        BY <1>5, <1>7, <4>1, <4>2, Kinds DEF Window, IsA, TreeInv, TreeTypes
      <4>4. \E i \in DOMAIN windowLoops(p) : a \in windowLoops(p)[i]
        BY <3>0, <4>1, <4>3, ListedByWindow
      <4> QED BY <1>1, <4>3, <4>4, ObjectLoops
    <3>2. CASE ~IsContent(a)
      <4>1. p = owner[a]
        BY <1>5, <1>7, <3>2, ParentOwner
      <4>2. Window(p)
        BY <1>0, <1>5, <1>7, <2>3, <4>1
        DEF Kin, OwnedByKin, Unlisted, Objects, QuickItem, Window
      <4>3. IsA(a, "QObject")
        BY <2>3, EveryObject DEF QuickItem, IsA, TreeInv, TreeTypes
      <4>4. \E i \in DOMAIN windowLoops(p) : a \in windowLoops(p)[i]
        BY <3>0, <4>1, <4>2, <4>3, ListedByWindow
      <4> QED BY <1>1, <4>2, <4>4, ObjectLoops
    <3> QED BY <3>1, <3>2
  <2> QED BY <1>2, <1>7, <2>1, <2>2, <2>3
<1> QED BY <1>4, <1>6, <1>7

-----------------------------------------------------------------------------
(***************************************************************************)
(* What the application touches in one step, and what it leaves alone.     *)
(***************************************************************************)
Spares(T) ==
    /\ touches(T)
    /\ \A x \in Addr \ T :
          /\ objectAt'[x] = objectAt[x] /\ itemAt'[x] = itemAt[x] /\ class'[x] = class[x]
          /\ owner'[x] = owner[x] /\ up'[x] = up[x]
          /\ m_obj2id'[x] = m_obj2id[x] /\ m_gitem2id'[x] = m_gitem2id[x]
          /\ \A w \in Addr : inner'[w] = x <=> inner[w] = x
    /\ \A x \in Addr : objectAt[x] # 0 /\ objectAt'[x] # 0 => class'[x] = class[x]
    /\ UNCHANGED <<m_nextId, m_nextGItemId>> /\ (severed => severed')

\* A new object touches its own address only, even inside a widget or a window.
LEMMA BornSpares ==
  ASSUME TypeOK, TreeInv, NEW a \in Addr, NEW c, NEW o, NEW u, Born(a, c, o, u),
         \/ inner' = inner
         \/ \E w \in Addr : inner[w] = None /\ inner' = [inner EXCEPT ![w] = a]
  PROVE  Spares({a})
<1>0. None \notin Addr
  BY DiscoveryAssumption
<1>1. /\ objectAt[a] = 0 /\ itemAt[a] = 0
      /\ objectAt' = [objectAt EXCEPT ![a] = born] /\ itemAt' = itemAt
      /\ UNCHANGED <<objVars, gitemVars>>
      /\ class' = [class EXCEPT ![a] = c]
      /\ owner' = [owner EXCEPT ![a] = o] /\ up' = [up EXCEPT ![a] = u] /\ touches({a})
  BY DEF Born, NewObject
<1>2. UNCHANGED <<m_obj2id, m_gitem2id, m_nextId, m_nextGItemId, severed>>
  BY <1>1 DEF objVars, gitemVars
<1>3. /\ objectAt \in [Addr -> Nat] /\ class \in [Addr -> Class \cup {"none"}]
      /\ owner \in [Addr -> Addr \cup {None}] /\ up \in [Addr -> Addr \cup {None}]
      /\ inner \in [Addr -> Addr \cup {None}]
  BY DEF TypeOK, TreeInv, TreeTypes
<1>4. \A w \in Addr : inner[w] # a
  BY <1>1, NotLinked DEF TreeInv
<1>5. \A x \in Addr \ {a}, w \in Addr : inner'[w] = x <=> inner[w] = x
  <2>1. CASE inner' = inner
    BY <2>1
  <2>2. ASSUME NEW v \in Addr, inner[v] = None, inner' = [inner EXCEPT ![v] = a]
        PROVE  \A x \in Addr \ {a}, w \in Addr : inner'[w] = x <=> inner[w] = x
    BY <1>0, <1>3, <2>2
  <2> QED BY <2>1, <2>2
<1>6. \A x \in Addr \ {a} :
          /\ objectAt'[x] = objectAt[x] /\ itemAt'[x] = itemAt[x] /\ class'[x] = class[x]
          /\ owner'[x] = owner[x] /\ up'[x] = up[x]
  BY <1>1, <1>3
<1>7. \A x \in Addr : objectAt[x] # 0 /\ objectAt'[x] # 0 => class'[x] = class[x]
  BY <1>1, <1>6
<1> QED BY <1>1, <1>2, <1>5, <1>6, <1>7 DEF Spares

\* A destroyed object was inside nothing; what was under it is touched.
LEMMA DestroysSpares ==
  ASSUME TypeOK, TreeInv, NEW a \in Addr, Destroys(a)
  PROVE  Spares({a} \cup {b \in Addr : up[b] = a})
<1> DEFINE T == {a} \cup {b \in Addr : up[b] = a}
<1>0. None \notin Addr
  BY DiscoveryAssumption
<1>1. /\ \A b \in Addr : owner[b] # a
      /\ \/ DestroyObject(a) /\ inner[a] \notin Objects("QWindow")
         \/ DestroyItem(a)
      /\ class' = [class EXCEPT ![a] = "none"]
      /\ owner' = Gone(owner, a) /\ up' = Gone(up, a) /\ inner' = Gone(inner, a)
      /\ touches(T)
  BY DEF Destroys
<1>2. /\ objectAt \in [Addr -> Nat] /\ class \in [Addr -> Class \cup {"none"}]
      /\ itemAt \in [Addr -> Nat] /\ m_obj2id \in [Addr -> Nat]
      /\ inner[a] \in Addr \cup {None}
  BY DEF TypeOK, TreeInv, TreeTypes
<1>3. /\ \A x \in Addr \ {a} : objectAt'[x] = objectAt[x] /\ itemAt'[x] = itemAt[x]
                               /\ m_obj2id'[x] = m_obj2id[x]
      /\ UNCHANGED <<m_gitem2id, m_nextId, m_nextGItemId, severed>>
      /\ objectAt[a] = 0 \/ objectAt'[a] = 0
  <2>1. CASE DestroyObject(a)
    BY <1>2, <2>1 DEF DestroyObject, dropIdFor, gitemVars
  <2>2. CASE DestroyItem(a)
    <3>1. itemAt[a] # 0 /\ objectAt[a] = 0
      BY <1>2, <2>2 DEF DestroyItem, TreeInv, TreeTypes
    <3> QED BY <1>2, <2>2, <3>1 DEF DestroyItem, objVars, gitemVars
  <2> QED BY <1>1, <2>1, <2>2
<1>4. \A x \in Addr \ T : class'[x] = class[x] /\ owner'[x] = owner[x] /\ up'[x] = up[x]
  BY <1>1, <1>2 DEF Gone
<1>5. inner[a] = None
  <2>1. CASE DestroyObject(a) /\ inner[a] \notin Objects("QWindow")
    <3>1. inner[a] # None => Widget(a) \/ Window(a)
      BY DEF TreeInv, Others
    <3>2. inner[a] # None => inner[a] \in Addr /\ ~Window(inner[a])
      BY <1>2, <2>1 DEF Objects, Window
    <3>3. Widget(a) => inner[a] = None
      BY <3>2 DEF TreeInv, Widgets
    <3>4. Window(a) => inner[a] = None
      BY <1>1, <3>2 DEF TreeInv, Contents
    <3> QED BY <3>1, <3>3, <3>4
  <2>2. CASE DestroyItem(a)
    <3>1. objectAt[a] = 0
      BY <2>2 DEF DestroyItem, TreeInv, TreeTypes
    <3> QED BY <3>1 DEF TreeInv, Living
  <2> QED BY <1>1, <2>1, <2>2
<1>6. \A x \in Addr \ T, w \in Addr : inner'[w] = x <=> inner[w] = x
  BY <1>0, <1>1, <1>5 DEF Gone
<1>7. \A x \in Addr : objectAt[x] # 0 /\ objectAt'[x] # 0 => class'[x] = class[x]
  BY <1>1, <1>2, <1>3
<1> QED BY <1>1, <1>3, <1>4, <1>6, <1>7 DEF Spares

\* So each step of the application touches a set of addresses.
LEMMA ApplicationSpares ==
  ASSUME TypeOK, TreeInv, Application
  PROVE  \E T \in SUBSET Addr : Spares(T)
<1>1. PICK a \in Addr :
        \/ \E c \in Classes, p \in Addr \cup {None} : NewWidget(a, c, p) \/ NewWindow(a, c, p)
        \/ \E p \in Addr : NewHandle(a, p) \/ NewQuickItem(a, p) \/ NewPlain(a, p) \/ Moves(a, p)
        \/ \E p \in Addr \cup {None} : NewGraphicsItem(a, p)
        \/ NewContent(a) \/ Destroys(a) \/ Disconnects(a)
  BY DEF Application
<1>2. {a} \in SUBSET Addr /\ ({a} \cup {b \in Addr : up[b] = a}) \in SUBSET Addr /\ {} \in SUBSET Addr
  OBVIOUS
<1>3. ASSUME NEW c, NEW o, NEW u, Born(a, c, o, u),
             \/ inner' = inner
             \/ \E w \in Addr : inner[w] = None /\ inner' = [inner EXCEPT ![w] = a]
      PROVE  \E T \in SUBSET Addr : Spares(T)
  BY <1>2, <1>3, BornSpares
<1>4. ASSUME NEW c, NEW p, NewWidget(a, c, p) \/ NewWindow(a, c, p)
      PROVE  \E T \in SUBSET Addr : Spares(T)
  <2>1. inner' = inner /\ (Born(a, c, p, p) \/ Born(a, c, p, None))
    BY <1>4 DEF NewWidget, NewWindow
  <2> QED BY <1>3, <2>1
<1>5. ASSUME NEW p \in Addr, NewHandle(a, p)
      PROVE  \E T \in SUBSET Addr : Spares(T)
  <2>1. inner[p] = None /\ inner' = [inner EXCEPT ![p] = a] /\ Born(a, "QWindow", None, None)
    BY <1>5 DEF NewHandle
  <2> QED BY <1>3, <2>1
<1>6. ASSUME NEW p \in Addr, NewQuickItem(a, p) \/ NewPlain(a, p)
      PROVE  \E T \in SUBSET Addr : Spares(T)
  <2>1. inner' = inner /\ \E o : Born(a, "QQuickItem", o, p) \/ Born(a, "QTimer", o, None)
    BY <1>6 DEF NewQuickItem, NewPlain
  <2> QED BY <1>3, <2>1
<1>7. ASSUME NEW p \in Addr, Moves(a, p)
      PROVE  \E T \in SUBSET Addr : Spares(T)
  <2>1. /\ touches({a}) /\ UNCHANGED <<vars, class, inner>>
        /\ owner' = owner \/ owner' = [owner EXCEPT ![a] = p]
        /\ up' = [up EXCEPT ![a] = p]
    BY <1>7 DEF Moves
  <2>2. UNCHANGED <<objectAt, itemAt, m_obj2id, m_gitem2id, m_nextId, m_nextGItemId, severed>>
    BY <2>1 DEF vars, heapVars, objVars, gitemVars
  <2>3. owner \in [Addr -> Addr \cup {None}] /\ up \in [Addr -> Addr \cup {None}]
    BY DEF TreeInv, TreeTypes
  <2>4. \A x \in Addr \ {a} : owner'[x] = owner[x] /\ up'[x] = up[x]
    BY <2>1, <2>3
  <2>5. Spares({a})
    BY <2>1, <2>2, <2>4 DEF Spares
  <2> QED BY <1>2, <2>5
<1>8. ASSUME NEW p, NewGraphicsItem(a, p)
      PROVE  \E T \in SUBSET Addr : Spares(T)
  <2>1. /\ touches({a}) /\ NewItem(a) /\ UNCHANGED <<class, owner, inner>>
        /\ up' = [up EXCEPT ![a] = p]
    BY <1>8 DEF NewGraphicsItem
  <2>2. /\ UNCHANGED <<objectAt, m_obj2id, m_gitem2id, m_nextId, m_nextGItemId, severed>>
        /\ itemAt' = [itemAt EXCEPT ![a] = born]
    BY <2>1 DEF NewItem, objVars, gitemVars
  <2>3. up \in [Addr -> Addr \cup {None}] /\ itemAt \in [Addr -> Nat]
    BY DEF TreeInv, TreeTypes, TypeOK
  <2>4. \A x \in Addr \ {a} : itemAt'[x] = itemAt[x] /\ up'[x] = up[x]
    BY <2>1, <2>2, <2>3
  <2>5. Spares({a})
    BY <2>1, <2>2, <2>4 DEF Spares
  <2> QED BY <1>2, <2>5
<1>9. CASE NewContent(a)
  <2>1. /\ half # None /\ inner[half] = None /\ inner' = [inner EXCEPT ![half] = a]
        /\ Born(a, "QQuickItem", half, None)
    BY <1>9 DEF NewContent
  <2>2. half \in Addr
    BY <2>1 DEF TreeInv, TreeTypes
  <2> QED BY <1>3, <2>1, <2>2
<1>10. CASE Destroys(a)
  BY <1>2, <1>10, DestroysSpares
<1>11. CASE Disconnects(a)
  <2>1. /\ walk = "no" /\ UNCHANGED <<treeVars, touched>> /\ severed' = TRUE
        /\ UNCHANGED <<objectAt, itemAt, m_obj2id, m_gitem2id, m_nextId, m_nextGItemId>>
    BY <1>11 DEF Disconnects, DisconnectAll, heapVars, gitemVars
  <2>2. Spares({})
    BY <2>1 DEF Spares, touches, treeVars
  <2> QED BY <1>2, <2>2
<1> QED BY <1>1, <1>4, <1>5, <1>6, <1>7, <1>8, <1>9, <1>10, <1>11

-----------------------------------------------------------------------------
(***************************************************************************)
(* A step of the application adds no calm element, no calm root and        *)
(* nothing calm that lists one.                                            *)
(***************************************************************************)
place(a) == IF up[a] # None THEN up[a] ELSE owner[a]

PlaceOfParents == \A a \in Addr : parentOf(a) = place(a)

\* The parent of an element is what it is under, or else its owner.
LEMMA ParentPlace == TreeInv => PlaceOfParents
<1> SUFFICES ASSUME TreeInv, NEW a \in Addr PROVE parentOf(a) = place(a)
  BY DEF PlaceOfParents
<1>1. CASE up[a] # None
  BY <1>1, ParentUp DEF place
<1>2. CASE up[a] = None /\ ~IsContent(a)
  BY <1>2, ParentOwner DEF place
<1>3. CASE up[a] = None /\ IsContent(a)
  <2>1. PICK w \in Addr : IsA(w, "QQuickWindow") /\ inner[w] = a
    BY <1>3 DEF IsContent, Objects
  <2> QED BY <1>3, <2>1, ParentHolder DEF place
<1> QED BY <1>1, <1>2, <1>3

\* The same after a step.
LEMMA ParentPlaceNext == TreeInv' => PlaceOfParents'
BY ParentPlace, PTL

\* What is calm after a step of the application was calm before it.
LEMMA CalmBefore ==
  ASSUME TreeInv', NEW T \in SUBSET Addr, Spares(T), walk = "on", NEW a \in Addr, a \in Calm'
  PROVE  /\ a \in Calm /\ a \notin T /\ idOf(a)' = idOf(a)
         /\ IsItem(a)' = IsItem(a) /\ \A c : IsA(a, c)' = IsA(a, c)
<1>1. /\ Exists(a)' /\ Listed(a)' /\ a \notin touched'
  BY DEF Calm
<1>2. touched' = touched \cup T
  BY DEF Spares, touches
<1>3. a \notin T /\ a \notin touched
  BY <1>1, <1>2
<1>4. /\ objectAt'[a] = objectAt[a] /\ itemAt'[a] = itemAt[a] /\ class'[a] = class[a]
      /\ m_obj2id'[a] = m_obj2id[a] /\ m_gitem2id'[a] = m_gitem2id[a]
  BY <1>3 DEF Spares
<1>5. IsItem(a)' = IsItem(a) /\ \A c : IsA(a, c)' = IsA(a, c)
  BY <1>4 DEF IsItem, IsA
<1>6. Exists(a) /\ Listed(a) /\ idOf(a)' = idOf(a)
  BY <1>1, <1>4, <1>5 DEF Exists, Listed, idOf, IsItem
<1> QED BY <1>3, <1>5, <1>6 DEF Calm

\* So was a root a root: a handle stays one, and so does a popup.
LEMMA RootBefore ==
  ASSUME TreeInv', NEW T \in SUBSET Addr, Spares(T), walk = "on", NEW a \in Addr, a \in Calm',
         Root(a)'
  PROVE  Root(a)
<1>0. None \notin Addr
  BY DiscoveryAssumption
<1>1. a \notin T /\ \A c : IsA(a, c)' = IsA(a, c)
  BY CalmBefore
<1>2. up'[a] = up[a] /\ \A w \in Addr : inner'[w] = a <=> inner[w] = a
  BY <1>1 DEF Spares
<1>3. ASSUME NEW c, NEW w \in Addr, IsA(w, c), inner[w] = a PROVE IsA(w, c)' /\ inner'[w] = a
  <2>1. inner'[w] = a
    BY <1>2, <1>3
  <2>2. objectAt'[w] # 0
    BY <1>0, <2>1 DEF TreeInv, Living
  <2>3. objectAt[w] # 0 /\ class'[w] = class[w]
    BY <1>3, <2>2 DEF IsA, Spares
  <2> QED BY <1>3, <2>1, <2>2, <2>3 DEF IsA
<1>4. IsHandle(a) => IsHandle(a)'
  BY <1>1, <1>3 DEF IsHandle, Objects
<1>5. Popup(a) => Popup(a)'
  BY <1>1, <1>3 DEF Popup, Objects
<1> QED BY <1>1, <1>2, <1>4, <1>5 DEF Root, IsWindow

\* And what lists it listed it before.
LEMMA ListedBefore ==
  ASSUME TreeInv, TreeInv', NEW T \in SUBSET Addr, Spares(T), walk = "on",
         NEW a \in Addr, a \in Calm', NEW p \in Addr, p \in Calm', p \in Listing(a)'
  PROVE  p \in Listing(a)
<1>0. None \notin Addr
  BY DiscoveryAssumption
<1>1. a \notin T /\ IsItem(a)' = IsItem(a) /\ \A c : IsA(a, c)' = IsA(a, c)
  BY CalmBefore
<1>2. up'[a] = up[a] /\ owner'[a] = owner[a]
  BY <1>1 DEF Spares
<1>3. CASE IsItem(a) /\ up[a] = None
  <2>1. IsA(p, "QGraphicsView")'
    BY <1>1, <1>2, <1>3 DEF Listing, Objects
  <2>2. IsA(p, "QGraphicsView")
    BY <2>1, CalmBefore
  <2> QED BY <1>3, <2>2 DEF Listing, Objects
<1>4. CASE ~(IsItem(a) /\ up[a] = None)
  <2>1. ~Unlisted(a)' /\ p = parentOf(a)'
    BY <1>1, <1>2, <1>4 DEF Listing
  <2>2. parentOf(a)' = place(a)' /\ parentOf(a) = place(a)
    BY ParentPlace, ParentPlaceNext DEF PlaceOfParents
  <2>3. p = parentOf(a)
    BY <1>2, <2>1, <2>2 DEF place
  <2>4. ASSUME Unlisted(a) PROVE Unlisted(a)'
    <3>1. CASE IsA(a, "QWindow") /\ ~qtQuickAvailable
      BY <1>1, <3>1 DEF Unlisted
    <3>2. CASE IsA(a, "QQuickItem") /\ up[a] = None /\ owner[a] \in Objects("QQuickItem")
      <4>1. owner[a] \in Addr /\ IsA(owner[a], "QQuickItem")
        BY <3>2 DEF Objects
      <4>2. objectAt'[owner[a]] # 0
        BY <1>0, <1>2, <4>1 DEF TreeInv, Living
      <4>3. class'[owner[a]] = class[owner[a]]
        BY <4>1, <4>2 DEF IsA, Spares
      <4>4. castsTo(class'[owner'[a]], "QQuickItem") /\ objectAt'[owner'[a]] # 0
        BY <1>2, <4>1, <4>2, <4>3 DEF IsA
      <4>5. owner'[a] \in Objects("QQuickItem")'
        BY <1>2, <4>1, <4>4 DEF Objects, IsA
      <4> QED BY <1>1, <1>2, <3>2, <4>5 DEF Unlisted
    <3> QED BY <2>4, <3>1, <3>2 DEF Unlisted
  <2> QED BY <1>0, <1>4, <2>1, <2>3, <2>4 DEF Listing
<1> QED BY <1>3, <1>4

-----------------------------------------------------------------------------
(***************************************************************************)
(* The IDs that a client of the walk was told.                             *)
(***************************************************************************)
ItemHashes ==
    /\ \A a \in Addr : m_gitem2id[a] # 0 =>
          m_gitem2id[a] \in DOMAIN m_id2gitem /\ m_id2gitem[m_gitem2id[a]] = a
    /\ \A id \in DOMAIN m_id2gitem : id < m_nextGItemId

IdsInv == ReachInv /\ ItemHashes

\* The two hashes of the graphics items agree, with IDs below the next one.
LEMMA ItemHashesNext == IdsInv /\ [Next]_vars => IdsInv'
<1> SUFFICES ASSUME IdsInv, [Next]_vars PROVE ItemHashes'
  BY ReachNext DEF IdsInv
<1>1. ASSUME NEW a \in Addr, ensureIdForGItem(a) PROVE ItemHashes'
  <2>1. /\ m_gitem2id \in [Addr -> Nat] /\ DOMAIN m_id2gitem \subseteq Nat /\ m_nextGItemId \in Nat
    BY DEF IdsInv, ReachInv, StoreInv, TypeOK
  <2>2. CASE m_gitem2id[a] # 0
    BY <1>1, <2>2 DEF ensureIdForGItem, IdsInv, ItemHashes
  <2>3. CASE m_gitem2id[a] = 0
    <3>1. /\ m_nextGItemId' = m_nextGItemId + 1
          /\ m_gitem2id' = [m_gitem2id EXCEPT ![a] = m_nextGItemId]
          /\ m_id2gitem' = Put(m_id2gitem, m_nextGItemId, a)
      BY <1>1, <2>3 DEF ensureIdForGItem, nextGItemId
    <3>2. /\ DOMAIN m_id2gitem' = DOMAIN m_id2gitem \cup {m_nextGItemId}
          /\ m_id2gitem'[m_nextGItemId] = a
          /\ \A id \in DOMAIN m_id2gitem : id # m_nextGItemId => m_id2gitem'[id] = m_id2gitem[id]
      BY <3>1 DEF Put
    <3>3. \A id \in DOMAIN m_id2gitem : id < m_nextGItemId /\ id \in Nat
      BY <2>1 DEF IdsInv, ItemHashes
    <3>4. m_gitem2id'[a] = m_nextGItemId /\ \A b \in Addr \ {a} : m_gitem2id'[b] = m_gitem2id[b]
      BY <2>1, <3>1
    <3>5. \A id \in DOMAIN m_id2gitem' : id < m_nextGItemId'
      BY <2>1, <3>1, <3>2, <3>3
    <3>6. ASSUME NEW b \in Addr, m_gitem2id'[b] # 0
          PROVE  m_gitem2id'[b] \in DOMAIN m_id2gitem' /\ m_id2gitem'[m_gitem2id'[b]] = b
      <4>1. CASE b = a
        BY <3>2, <3>4, <4>1
      <4>2. CASE b # a
        <5>1. m_gitem2id'[b] = m_gitem2id[b] /\ m_gitem2id[b] \in DOMAIN m_id2gitem
              /\ m_id2gitem[m_gitem2id[b]] = b
          BY <3>4, <3>6, <4>2 DEF IdsInv, ItemHashes
        <5>2. m_gitem2id[b] # m_nextGItemId
          BY <2>1, <3>3, <5>1
        <5> QED BY <3>2, <5>1, <5>2
      <4> QED BY <4>1, <4>2
    <3> QED BY <3>5, <3>6 DEF ItemHashes
  <2> QED BY <2>2, <2>3
<1>2. ASSUME UNCHANGED gitemVars PROVE ItemHashes'
  BY <1>2 DEF gitemVars, IdsInv, ItemHashes
<1> QED BY <1>1, <1>2 DEF Next, NewObject, NewItem, DisconnectAll, DestroyObject,
     DestroyItem, ensureIdFor, vars

\* At first there is no ID.
LEMMA IdsStart == Init => IdsInv
<1> SUFFICES ASSUME Init PROVE IdsInv
  OBVIOUS
<1>1. StoreInv
  BY InitInv
<1> QED BY <1>1, StoreAssumption DEF IdsInv, ReachInv, ItemIdsAbove, ItemHashes, Init, Nobody

\* So it is always.
LEMMA IdsInvariant == Spec => []IdsInv
BY IdsStart, ItemHashesNext, PTL DEF Spec

\* An ID in use.
InUse(id) ==
    /\ id \in Nat \ {0}
    /\ id < m_nextId \/ (GItemBase <= id /\ id < m_nextGItemId)

\* The ID of an element is in use.
LEMMA IdsInUse ==
  ASSUME IdsInv, NEW a \in Addr, idOf(a) # 0
  PROVE  InUse(idOf(a))
<1>1. TypeOK /\ IdsBelowNext /\ ItemIdsAbove /\ ItemHashes
  BY DEF IdsInv, ReachInv, StoreInv
<1>2. CASE IsItem(a)
  <2>1. idOf(a) = m_gitem2id[a] /\ m_gitem2id[a] \in Nat /\ m_gitem2id[a] # 0
    BY <1>1, <1>2 DEF idOf, TypeOK
  <2>2. m_gitem2id[a] \in DOMAIN m_id2gitem
    BY <1>1, <2>1 DEF ItemHashes
  <2> QED BY <1>1, <2>1, <2>2 DEF InUse, ItemHashes, ItemIdsAbove
<1>3. CASE ~IsItem(a)
  BY <1>1, <1>3 DEF idOf, IdsBelowNext, TypeOK, InUse
<1> QED BY <1>2, <1>3

\* An element that is mentioned keeps its ID or gets one that is not in use.
LEMMA Registers ==
  ASSUME IdsInv, NEW a \in Addr, registers(a), m_nextId' <= GItemBase
  PROVE  /\ UNCHANGED <<heapVars, severed>> /\ m_nextId <= m_nextId' /\ m_nextId <= GItemBase
         /\ \A b \in Addr : idOf(b)' = idOf(b) \/ (idOf(b) = 0 /\ b = a /\ ~InUse(idOf(b)'))
         /\ idOf(a)' # 0 /\ \A id : InUse(id) => InUse(id)'
<1>1. /\ TypeOK /\ ItemIdsAbove /\ m_nextId \in Nat \ {0} /\ m_nextGItemId \in Nat \ {0}
      /\ m_obj2id \in [Addr -> Nat] /\ m_gitem2id \in [Addr -> Nat] /\ GItemBase \in Nat
      /\ m_nextGItemId >= GItemBase
  BY StoreAssumption DEF IdsInv, ReachInv, StoreInv, TypeOK, ItemIdsAbove
<1>2. CASE IsItem(a)
  <2>1. ensureIdForGItem(a)
    BY <1>2 DEF registers
  <2>2. /\ UNCHANGED <<heapVars, severed, m_nextId, m_obj2id, itemAt>>
        /\ \/ m_gitem2id[a] # 0 /\ UNCHANGED <<m_gitem2id, m_nextGItemId>>
           \/ /\ m_gitem2id[a] = 0 /\ m_nextGItemId' = m_nextGItemId + 1
              /\ m_gitem2id' = [m_gitem2id EXCEPT ![a] = m_nextGItemId]
    BY <2>1 DEF ensureIdForGItem, nextGItemId, heapVars, objVars
  <2>3. \A b : IsItem(b)' = IsItem(b)
    BY <2>2 DEF IsItem
  <2>4. CASE m_gitem2id[a] # 0 /\ UNCHANGED <<m_gitem2id, m_nextGItemId>>
    BY <1>1, <1>2, <2>2, <2>3, <2>4 DEF idOf, InUse
  <2>5. CASE /\ m_gitem2id[a] = 0 /\ m_nextGItemId' = m_nextGItemId + 1
             /\ m_gitem2id' = [m_gitem2id EXCEPT ![a] = m_nextGItemId]
    <3>1. m_gitem2id'[a] = m_nextGItemId /\ \A b \in Addr \ {a} : m_gitem2id'[b] = m_gitem2id[b]
      BY <1>1, <2>5
    <3>2. \A b \in Addr \ {a} : idOf(b)' = idOf(b)
      BY <2>2, <2>3, <3>1 DEF idOf
    <3>3. idOf(a)' = m_nextGItemId /\ idOf(a) = 0
      BY <1>2, <2>3, <2>5, <3>1 DEF idOf
    <3>4. ~InUse(m_nextGItemId)
      BY <1>1, <2>2 DEF InUse
    <3>5. \A id : InUse(id) => InUse(id)'
      BY <1>1, <2>2, <2>5 DEF InUse
    <3> QED BY <1>1, <2>2, <3>2, <3>3, <3>4, <3>5
  <2> QED BY <2>2, <2>4, <2>5
<1>3. CASE ~IsItem(a)
  <2>1. ensureIdFor(a)
    BY <1>3 DEF registers
  <2>2. /\ UNCHANGED <<heapVars, severed, m_nextGItemId, m_gitem2id, itemAt>>
        /\ \/ m_obj2id[a] # 0 /\ UNCHANGED <<m_obj2id, m_nextId>>
           \/ /\ m_obj2id[a] = 0 /\ m_nextId' = m_nextId + 1
              /\ m_obj2id' = [m_obj2id EXCEPT ![a] = m_nextId]
    BY <2>1 DEF ensureIdFor, registerNew, heapVars, gitemVars
  <2>3. \A b : IsItem(b)' = IsItem(b)
    BY <2>2 DEF IsItem
  <2>4. CASE m_obj2id[a] # 0 /\ UNCHANGED <<m_obj2id, m_nextId>>
    BY <1>1, <1>3, <2>2, <2>3, <2>4 DEF idOf, InUse
  <2>5. CASE /\ m_obj2id[a] = 0 /\ m_nextId' = m_nextId + 1
             /\ m_obj2id' = [m_obj2id EXCEPT ![a] = m_nextId]
    <3>1. m_obj2id'[a] = m_nextId /\ \A b \in Addr \ {a} : m_obj2id'[b] = m_obj2id[b]
      BY <1>1, <2>5
    <3>2. \A b \in Addr \ {a} : idOf(b)' = idOf(b)
      BY <2>2, <2>3, <3>1 DEF idOf
    <3>3. idOf(a)' = m_nextId /\ idOf(a) = 0
      BY <1>3, <2>3, <2>5, <3>1 DEF idOf
    <3>4. ~InUse(m_nextId)
      BY <1>1, <2>5 DEF InUse
    <3>5. \A id : InUse(id) => InUse(id)'
      BY <1>1, <2>2, <2>5 DEF InUse
    <3> QED BY <1>1, <2>2, <2>5, <3>2, <3>3, <3>4, <3>5
  <2> QED BY <2>2, <2>4, <2>5
<1> QED BY <1>2, <1>3

-----------------------------------------------------------------------------
(***************************************************************************)
(* The walk.  What an element that the client has asked about lists is on  *)
(* its way: told before, in the reply, or in a loop of the handler.        *)
(***************************************************************************)
Named(a) == \E i \in DOMAIN reply : reply[i].of = a
Waiting(a) == \E i \in DOMAIN todo : a \in todo[i]
Coming(a) == idOf(a) \in visited \/ Named(a) \/ Waiting(a)

Begins ==
    /\ walk = "no" => visited = {}
    /\ request # "none" => walk = "on"
    /\ request = "roots" => visited = {}
    /\ walk = "done" => frontier = {}

SeenNamed ==
    \A x \in seen : Named(x) \/ (request = "roots" /\ \E w \in Addr : Named(w) /\ inner[w] = x)

Numbered ==
    /\ \A a \in Addr : Named(a) => idOf(a) # 0
    /\ \A id \in visited : InUse(id)

Walks ==
    \A a \in Calm :
        /\ Root(a) => Coming(a)
        /\ \A p \in Calm : p \in Listing(a) /\ idOf(p) \in visited \ frontier => Coming(a)

Steady == ~severed /\ m_nextId <= GItemBase

WalkInv ==
    /\ Begins /\ SeenNamed
    /\ Steady => Numbered /\ (walk \in {"on", "done"} => Walks)

\* Between two requests nothing has been seen, named or put in a loop.
LEMMA NoReply ==
  ASSUME HandlerInv, request = "none"
  PROVE  seen = {} /\ \A a : ~Named(a) /\ ~Waiting(a)
<1>1. reply = <<>> /\ todo = <<>> /\ seen = {}
  BY DEF HandlerInv, Answers
<1>2. DOMAIN reply = {} /\ DOMAIN todo = {}
  BY <1>1
<1> QED BY <1>1, <1>2 DEF Named, Waiting

\* What is coming is still coming after a step of the application.
LEMMA ApplicationWalks ==
  ASSUME DiscoveryInv, TreeInv', WalkInv, Application
  PROVE  WalkInv'
<1>1. /\ request = "none" /\ walk \in {"no", "on"} /\ UNCHANGED handlerVars
      /\ UNCHANGED <<walk, frontier, visited>>
  BY ApplicationQuiet, ApplicationTypes DEF DiscoveryInv
<1>2. UNCHANGED <<request, todo, seen, reply>>
  BY <1>1 DEF handlerVars
<1>3. PICK T \in SUBSET Addr : Spares(T)
  BY ApplicationSpares DEF DiscoveryInv
<1>4. seen = {} /\ \A a : ~Named(a) /\ ~Waiting(a)
  BY <1>1, NoReply DEF DiscoveryInv
<1>5. \A a : ~Named(a)' /\ ~Waiting(a)'
  BY <1>2, <1>4 DEF Named, Waiting
<1>6. UNCHANGED <<m_nextId, m_nextGItemId>> /\ (severed => severed')
  BY <1>3 DEF Spares
<1>7. Begins' /\ SeenNamed'
  BY <1>1, <1>2, <1>4 DEF WalkInv, Begins, SeenNamed
<1>8. Steady' => Steady
  BY <1>6 DEF Steady
<1>9. Steady' => Numbered'
  BY <1>1, <1>5, <1>6, <1>8 DEF WalkInv, Numbered, InUse
<1>10. ASSUME Steady', walk = "on" PROVE Walks'
  <2>1. Walks
    BY <1>8, <1>10 DEF WalkInv
  <2>2. SUFFICES ASSUME NEW a \in Addr, a \in Calm', Root(a)' \/ \E p \in Addr : p \in Calm'
                           /\ p \in Listing(a)' /\ idOf(p)' \in visited' \ frontier'
                 PROVE  Coming(a)'
    BY DEF Walks, Calm
  <2>3. a \in Calm /\ idOf(a)' = idOf(a)
    BY <1>3, <1>10, <2>2, CalmBefore
  <2>4. Root(a)' => Root(a)
    BY <1>3, <1>10, <2>2, RootBefore
  <2>5. ASSUME NEW p \in Addr, p \in Calm', p \in Listing(a)', idOf(p)' \in visited' \ frontier'
        PROVE  p \in Calm /\ p \in Listing(a) /\ idOf(p) \in visited \ frontier
    <3>1. p \in Calm /\ idOf(p)' = idOf(p)
      BY <1>3, <1>10, <2>5, CalmBefore
    <3>2. p \in Listing(a)
      BY <1>3, <1>10, <2>2, <2>5, ListedBefore DEF DiscoveryInv
    <3> QED BY <1>1, <2>5, <3>1, <3>2
  <2>6. Coming(a)
    BY <2>1, <2>2, <2>3, <2>4, <2>5 DEF Walks
  <2> QED BY <1>1, <1>4, <2>3, <2>6 DEF Coming
<1> QED BY <1>1, <1>7, <1>9, <1>10 DEF WalkInv

\* Nothing that the properties of the tree depend on changes in a request.
LEMMA CalmSame ==
  ASSUME TreeInv, TreeInv', UNCHANGED <<objectAt, itemAt, treeVars, touched>>
  PROVE  /\ Calm' = Calm
         /\ \A a \in Addr : Root(a)' = Root(a) /\ Listing(a)' = Listing(a)
<1>1. UNCHANGED <<objectAt, itemAt, class, owner, up, inner, touched>>
  BY DEF treeVars
<1>2. \A a, c : IsA(a, c)' = IsA(a, c)
  BY <1>1 DEF IsA
<1>3. \A c : Objects(c)' = Objects(c)
  BY <1>2 DEF Objects
<1>4. \A a : IsItem(a)' = IsItem(a) /\ Exists(a)' = Exists(a)
  BY <1>1 DEF IsItem, Exists
<1>5. Calm' = Calm
  BY <1>1, <1>2, <1>4 DEF Calm, Listed
<1>6. \A a : Popup(a)' = Popup(a) /\ IsHandle(a)' = IsHandle(a)
  BY <1>1, <1>2, <1>3 DEF Popup, IsHandle
<1>7. \A a : Root(a)' = Root(a)
  BY <1>1, <1>2, <1>6 DEF Root, IsWindow
<1>8. \A a \in Addr : parentOf(a)' = parentOf(a)
  <2>1. \A a \in Addr : parentOf(a)' = place(a)' /\ parentOf(a) = place(a)
    BY ParentPlace, ParentPlaceNext DEF PlaceOfParents
  <2> QED BY <1>1, <2>1 DEF place
<1>9. \A a : Unlisted(a)' = Unlisted(a)
  BY <1>1, <1>2, <1>3 DEF Unlisted
<1>10. \A a \in Addr : Listing(a)' = Listing(a)
  BY <1>1, <1>3, <1>4, <1>8, <1>9 DEF Listing
<1> QED BY <1>5, <1>7, <1>10

\* The walk invariant depends on these variables.
LEMMA WalksSame ==
  ASSUME WalkInv, TreeInv, TreeInv',
         UNCHANGED <<objectAt, itemAt, treeVars, handlerVars, walkVars, m_obj2id, m_gitem2id,
                     m_nextId, m_nextGItemId, severed>>
  PROVE  WalkInv'
<1>1. /\ UNCHANGED <<inner, itemAt, m_obj2id, m_gitem2id, m_nextId, m_nextGItemId, severed>>
      /\ UNCHANGED <<request, todo, seen, reply, walk, frontier, visited, touched>>
  BY DEF treeVars, handlerVars, walkVars
<1>2. \A a : idOf(a)' = idOf(a) /\ Named(a)' = Named(a) /\ Waiting(a)' = Waiting(a)
  BY <1>1 DEF idOf, IsItem, Named, Waiting
<1>3. \A a : Coming(a)' = Coming(a)
  BY <1>1, <1>2 DEF Coming
<1>4. Calm' = Calm /\ \A a \in Addr : Root(a)' = Root(a) /\ Listing(a)' = Listing(a)
  BY <1>1, CalmSame
<1>5. Walks => Walks'
  BY <1>1, <1>2, <1>3, <1>4 DEF Walks, Calm
<1>6. Begins' /\ SeenNamed'
  BY <1>1, <1>2 DEF WalkInv, Begins, SeenNamed
<1>7. Numbered => Numbered'
  BY <1>1, <1>2 DEF Numbered, InUse
<1> QED BY <1>1, <1>5, <1>6, <1>7 DEF WalkInv, Steady

-----------------------------------------------------------------------------
\* A request leaves the tree as it is.
LEMMA RequestsQuiet ==
  ASSUME Requests
  PROVE  UNCHANGED <<objectAt, itemAt, treeVars, touched, severed>>
<1>1. CASE handleElementsRoots
  BY <1>1 DEF handleElementsRoots, asks, vars, heapVars, objVars
<1>2. CASE \E id \in frontier : handleElementsChildren(id)
  BY <1>2 DEF handleElementsChildren, asks, vars, heapVars, objVars
<1>3. ASSUME NEW a, registers(a) PROVE UNCHANGED <<objectAt, itemAt, severed>>
  BY <1>3 DEF registers, ensureIdFor, ensureIdForGItem, heapVars, objVars
<1>4. CASE \E a \in Addr : handleOne(a)
  BY <1>3, <1>4 DEF handleOne, walkVars
<1>5. CASE \E a \in Addr : handles(a)
  BY <1>3, <1>5 DEF handles, walkVars, vars, heapVars, objVars
<1>6. CASE replies
  BY <1>6 DEF replies, vars, heapVars, objVars
<1> QED BY <1>1, <1>2, <1>4, <1>5, <1>6 DEF Requests

\* The walk begins with the roots.
LEMMA RootsWalk ==
  ASSUME DiscoveryInv, TreeInv', WalkInv, handleElementsRoots
  PROVE  WalkInv'
<1>1. /\ walk = "no" /\ walk' = "on" /\ request = "none" /\ request' = "roots"
      /\ todo' = rootLoops /\ UNCHANGED <<vars, treeVars, seen, reply, frontier, visited, touched>>
  BY DEF handleElementsRoots, asks, Idle, Free
<1>2. seen = {} /\ \A a : ~Named(a)
  BY <1>1, NoReply DEF DiscoveryInv
<1>3. visited' = {} /\ \A a : ~Named(a)'
  BY <1>1, <1>2 DEF WalkInv, Begins, Named
<1>4. Begins' /\ SeenNamed' /\ Numbered'
  BY <1>1, <1>2, <1>3 DEF Begins, SeenNamed, Numbered
<1>5. Calm' = Calm /\ \A a \in Addr : Root(a)' = Root(a)
  <2>1. UNCHANGED <<objectAt, itemAt>>
    BY <1>1 DEF vars, heapVars
  <2> QED BY <1>1, <2>1, CalmSame DEF DiscoveryInv
<1>6. ASSUME NEW a \in Addr, Root(a) PROVE Waiting(a)'
  <2> DEFINE F == {x \in Addr : IsWindow(x) /\ ~Popup(x)}
             G == {x \in Objects("QWindow") : up[x] = None /\ ~Popup(x)}
  <2>1. a \in F \/ a \in G
    BY <1>6 DEF Root, Objects
  <2>2. todo' = <<F, G>>
    BY <1>1, Zenon DEF rootLoops
  <2> HIDE DEF F, G
  <2>3. DOMAIN todo' = {1, 2} /\ todo'[1] = F /\ todo'[2] = G
    BY <2>2
  <2> QED BY <2>1, <2>3 DEF Waiting
<1>7. Walks'
  BY <1>3, <1>5, <1>6 DEF Walks, Coming, Calm
<1> QED BY <1>4, <1>7 DEF WalkInv

\* The ID of an element is resolved to that element.
LEMMA Resolved ==
  ASSUME LinkedInv, IdsInv, Steady, NEW p \in Addr, Exists(p), idOf(p) # 0
  PROVE  /\ IsItem(p) => ResolvesToItem(idOf(p)) /\ m_id2gitem[idOf(p)] = p
         /\ ~IsItem(p) => /\ ~ResolvesToItem(idOf(p)) /\ objectForId(idOf(p)) # 0
                          /\ addressOf(objectForId(idOf(p))) = p
<1>1. CASE IsItem(p)
  BY <1>1 DEF idOf, IdsInv, ItemHashes, ResolvesToItem
<1>2. CASE ~IsItem(p)
  <2>1. idOf(p) = m_obj2id[p] /\ m_obj2id[p] # 0 /\ objectAt[p] # 0
    BY <1>2 DEF idOf, Exists, IsItem
  <2>2. HashesInverse /\ SerialsDistinct /\ IdsBelowNext /\ TypeOK /\ ItemIdsAbove
    BY DEF LinkedInv, LinkInv, Steady, IdsInv, ReachInv, StoreInv
  <2>3. m_obj2id[p] \in DOMAIN m_id2obj /\ m_id2obj[m_obj2id[p]] = objectAt[p]
    BY <2>1, <2>2 DEF HashesInverse
  <2>4. objectForId(idOf(p)) = objectAt[p]
    BY <2>1, <2>3 DEF objectForId, LiveObject
  <2>5. \A a \in Addr : objectAt[a] = objectAt[p] => a = p
    BY <2>1, <2>2 DEF SerialsDistinct
  <2>6. addressOf(objectAt[p]) = p
    BY <2>5 DEF addressOf
  <2>7. ~ResolvesToItem(idOf(p))
    <3>1. m_obj2id[p] \in Nat /\ m_nextId \in Nat /\ m_obj2id[p] < m_nextId
      BY <2>2 DEF IdsBelowNext, TypeOK
    <3>2. m_nextId <= GItemBase /\ GItemBase \in Nat
      BY StoreAssumption DEF Steady
    <3>3. \A id \in DOMAIN m_id2gitem : id >= GItemBase /\ id \in Nat
      BY <2>2 DEF ItemIdsAbove, TypeOK
    <3> QED BY <2>1, <3>1, <3>2, <3>3 DEF ResolvesToItem
  <2> QED BY <1>2, <2>1, <2>4, <2>6, <2>7
<1> QED BY <1>1, <1>2

\* The client asks for the children of an element: what it lists is in a loop.
LEMMA ChildrenWalk ==
  ASSUME LinkedInv, IdsInv, DiscoveryInv, TreeInv', Kin, WalkInv,
         NEW id \in frontier, handleElementsChildren(id)
  PROVE  WalkInv'
<1>1. /\ walk = "on" /\ frontier' = frontier \ {id} /\ UNCHANGED <<vars, treeVars, visited, touched>>
      /\ UNCHANGED <<seen, reply>> /\ Idle
  BY DEF handleElementsChildren, asks, handlerVars
<1>2. request = "none" /\ half = None
  BY <1>1 DEF Idle, Free
<1>3. seen = {} /\ \A a : ~Named(a) /\ ~Waiting(a)
  BY <1>2, NoReply DEF DiscoveryInv
<1>4. \A a : ~Named(a)'
  BY <1>1, <1>3 DEF Named
<1>5. UNCHANGED <<objectAt, itemAt, m_obj2id, m_gitem2id, m_nextId, m_nextGItemId, severed>>
  BY <1>1 DEF vars, heapVars, objVars, gitemVars
<1>6. \A a : idOf(a)' = idOf(a)
  BY <1>5 DEF idOf, IsItem
<1>7. (Steady => Numbered') /\ (Steady' => Steady)
  BY <1>1, <1>4, <1>5 DEF WalkInv, Numbered, InUse, Steady
<1>8. CASE walk' = "crashed" /\ UNCHANGED handlerVars
  <2>1. request' = "none" /\ seen' = {}
    BY <1>2, <1>3, <1>8 DEF handlerVars
  <2> QED BY <1>7, <1>8, <2>1 DEF WalkInv, Begins, SeenNamed
<1>9. CASE ~(walk' = "crashed" /\ UNCHANGED handlerVars)
  <2> DEFINE loops == CASE ResolvesToItem(id)   -> childLoops(m_id2gitem[id])
                        [] ~ResolvesToItem(id) /\ objectForId(id) # 0
                                                -> childLoops(addressOf(objectForId(id)))
                        [] OTHER                -> <<>>
  <2>1. UNCHANGED walk /\ asks("children", loops)
    BY <1>9, Zenon DEF handleElementsChildren
  <2>2. request' = "children" /\ todo' = loops
    BY <2>1 DEF asks
  <2>3. Begins' /\ SeenNamed'
    BY <1>1, <1>3, <2>1, <2>2 DEF Begins, SeenNamed
  <2>4. /\ ResolvesToItem(id) => loops = childLoops(m_id2gitem[id])
        /\ ~ResolvesToItem(id) /\ objectForId(id) # 0
              => loops = childLoops(addressOf(objectForId(id)))
    BY Zenon
  <2> HIDE DEF loops
  <2>5. ASSUME Steady' PROVE Walks'
    <3>1. Walks /\ Numbered /\ Steady
      BY <1>1, <1>7, <2>5 DEF WalkInv
    <3>2. Calm' = Calm /\ \A a \in Addr : Root(a)' = Root(a) /\ Listing(a)' = Listing(a)
      BY <1>1, <1>5, CalmSame DEF DiscoveryInv
    <3>3. \A a : Coming(a) => Coming(a)'
      BY <1>1, <1>3, <1>6 DEF Coming
    <3>4. ASSUME NEW a \in Calm, NEW p \in Calm, p \in Listing(a), idOf(p) = id, ~Root(a)
          PROVE  Waiting(a)'
      <4>1. a \in Addr /\ p \in Addr /\ Exists(a) /\ Exists(p) /\ Listed(a)
        BY DEF Calm
      <4>2. id # 0
        BY <3>1 DEF Numbered, InUse, DiscoveryInv, WalkTypes
      <4>3. loops = childLoops(p)
        BY <2>4, <3>1, <3>4, <4>1, <4>2, Resolved
      <4>4. InLoops(p, a)
        BY <1>2, <3>4, <4>1, ListsIt DEF DiscoveryInv
      <4> QED BY <2>2, <4>3, <4>4 DEF InLoops, Waiting
    <3>5. ASSUME NEW a \in Calm, Root(a) PROVE Coming(a)'
      BY <3>1, <3>3, <3>5 DEF Walks
    <3>6. ASSUME NEW a \in Calm, NEW p \in Calm, p \in Listing(a), idOf(p) \in visited \ frontier'
          PROVE  Coming(a)'
      <4>1. CASE idOf(p) = id
        BY <3>4, <3>5, <3>6, <4>1 DEF Coming
      <4>2. CASE idOf(p) # id
        BY <1>1, <3>1, <3>3, <3>6, <4>2 DEF Walks
      <4> QED BY <4>1, <4>2
    <3> QED BY <1>1, <1>6, <3>2, <3>5, <3>6 DEF Walks, Calm
  <2> QED BY <1>7, <2>3, <2>5 DEF WalkInv
<1> QED BY <1>8, <1>9

-----------------------------------------------------------------------------
\* The requests for one element come before the walk.
LEMMA OneWalk ==
  ASSUME DiscoveryInv, WalkInv, NEW a \in Addr, handleOne(a)
  PROVE  WalkInv'
<1>1. /\ request = "none" /\ walk = "no"
      /\ UNCHANGED <<request, todo, seen, reply, walk, frontier, visited>>
  BY DEF handleOne, Idle, Free, handlerVars, walkVars
<1>2. seen = {} /\ \A b : ~Named(b)
  BY <1>1, NoReply DEF DiscoveryInv
<1>3. visited' = {} /\ \A b : ~Named(b)'
  BY <1>1, <1>2 DEF WalkInv, Begins, Named
<1> QED BY <1>1, <1>2, <1>3 DEF WalkInv, Begins, SeenNamed, Numbered

\* One turn of a loop: an element is passed over, or named.
LEMMA HandlesNames ==
  ASSUME TreeInv, HandlerInv, NEW a \in Addr, handles(a)
  PROVE  /\ request # "none" /\ UNCHANGED <<request, walk, frontier, visited, inner>>
         /\ Waiting(a)
         /\ \A x : Waiting(x) => x = a \/ Waiting(x)'
         /\ \A x : Named(x) => Named(x)'
         /\ \/ a \in seen /\ UNCHANGED <<vars, seen, reply>>
            \/ /\ registers(a) /\ Named(a)' /\ sees(a)
               /\ \A x : Named(x)' => x = a \/ Named(x)
<1>1. UNCHANGED <<request, walk, frontier, visited, inner>>
  BY DEF handles, treeVars, walkVars
<1>2. PICK i \in DOMAIN todo : turn(i, a)
  BY DEF handles
<1>3. a \in todo[i] /\ todo' = [todo EXCEPT ![i] = @ \ {a}]
  BY <1>2 DEF turn, eldest
<1>4. request # "none"
  BY <1>2 DEF HandlerInv, Answers
<1>5. Waiting(a) /\ \A x : Waiting(x) => x = a \/ Waiting(x)'
  <2>1. DOMAIN todo' = DOMAIN todo
        /\ \A j \in DOMAIN todo : \A x : x \in todo[j] => x = a \/ x \in todo'[j]
    BY <1>3
  <2> QED BY <1>3, <2>1 DEF Waiting
<1>6. CASE skips(a)
  <2>1. a \in seen /\ UNCHANGED <<vars, seen, reply>>
    BY <1>6 DEF handles, skips
  <2> QED BY <1>1, <1>4, <1>5, <2>1 DEF Named
<1>7. CASE ~skips(a)
  <2> DEFINE e == [of |-> a, is |-> Summary(a)]
             n == Len(reply) + 1
  <2>1. registers(a) /\ sees(a) /\ reply' = Append(reply, e)
    BY <1>7 DEF handles
  <2>2. e \in Answer
    <3>1. class[a] \in Class \cup {"none"}
      BY DEF TreeInv, TreeTypes
    <3>2. \/ Summary(a) = summarizeGraphicsItem \/ Summary(a) = summarizeTopLevel(class[a])
          \/ Summary(a) = summarizeObject(class[a])
      BY Zenon DEF Summary
    <3> QED BY <3>1, <3>2 DEF Answer
  <2>3. reply \in Seq(Answer)
    BY DEF HandlerInv, Answers
  <2>4. e.of = a
    OBVIOUS
  <2> HIDE DEF e
  <2>5. /\ DOMAIN reply' = 1..n /\ n \in DOMAIN reply' /\ reply'[n] = e
        /\ DOMAIN reply = 1..Len(reply) /\ \A j \in DOMAIN reply : reply'[j] = reply[j]
    BY <2>1, <2>2, <2>3
  <2>6. Len(reply) \in Nat
    BY <2>3
  <2>7. Named(a)' /\ \A x : Named(x) => Named(x)'
    BY <2>4, <2>5, <2>6 DEF Named
  <2>8. ASSUME NEW x, Named(x)' PROVE x = a \/ Named(x)
    <3>1. PICK j \in DOMAIN reply' : reply'[j].of = x
      BY <2>8 DEF Named
    <3>2. CASE j = n
      BY <2>4, <2>5, <3>1, <3>2
    <3>3. CASE j # n
      <4>1. j \in DOMAIN reply
        BY <2>5, <2>6, <3>3
      <4> QED BY <2>5, <3>1, <4>1 DEF Named
    <3> QED BY <3>2, <3>3
  <2> QED BY <1>1, <1>4, <1>5, <2>1, <2>7, <2>8
<1> QED BY <1>6, <1>7

\* What is inside a widget or a Quick window is no root.
LEMMA InnerNoRoot ==
  ASSUME TreeInv, NEW w \in Addr, NEW a \in Addr, inner[w] = a
  PROVE  ~Root(a)
<1>0. None \notin Addr
  BY DiscoveryAssumption
<1>1. Widget(w) \/ Window(w)
  BY <1>0 DEF TreeInv, Others
<1>2. CASE Widget(w)
  <2>1. Window(a)
    BY <1>0, <1>2 DEF TreeInv, Widgets
  <2>2. IsHandle(a)
    BY <1>2, <2>1 DEF IsHandle, Objects, Widget, Window
  <2> QED BY <2>2 DEF Root
<1>3. CASE Window(w)
  <2>1. QuickItem(a)
    BY <1>0, <1>3 DEF TreeInv, Contents
  <2>2. ~Widget(a) /\ ~Window(a)
    BY <2>1, OneFamily DEF TreeInv
  <2> QED BY <2>2 DEF Root, IsWindow, Widget, Window
<1> QED BY <1>1, <1>2, <1>3

\* A turn of a loop names an element that was waiting, or has named it before.
LEMMA HandlesWalk ==
  ASSUME IdsInv, IdsInv', DiscoveryInv, TreeInv', WalkInv, NEW a \in Addr, handles(a)
  PROVE  WalkInv'
<1>0. TreeInv /\ HandlerInv
  BY DEF DiscoveryInv
<1>1. /\ request # "none" /\ UNCHANGED <<request, walk, frontier, visited, inner>>
      /\ Waiting(a)
      /\ \A x : Waiting(x) => x = a \/ Waiting(x)'
      /\ \A x : Named(x) => Named(x)'
      /\ \/ a \in seen /\ UNCHANGED <<vars, seen, reply>>
         \/ /\ registers(a) /\ Named(a)' /\ sees(a)
            /\ \A x : Named(x)' => x = a \/ Named(x)
  BY <1>0, HandlesNames
<1>2. UNCHANGED <<objectAt, itemAt, treeVars, touched, severed>>
  BY RequestsQuiet DEF Requests
<1>3. walk = "on" /\ Begins'
  BY <1>1 DEF WalkInv, Begins
<1>4. SeenNamed'
  <2>1. CASE a \in seen /\ UNCHANGED <<vars, seen, reply>>
    BY <1>1, <2>1 DEF WalkInv, SeenNamed
  <2>2. CASE Named(a)' /\ sees(a)
    <3> SUFFICES ASSUME NEW x \in seen'
                 PROVE  Named(x)' \/ (request = "roots" /\ \E w \in Addr : Named(w)' /\ inner[w] = x)
      BY <1>1 DEF SeenNamed
    <3>1. CASE x \in seen
      BY <1>1, <3>1 DEF WalkInv, SeenNamed
    <3>2. CASE x \notin seen
      BY <2>2, <3>2 DEF sees
    <3> QED BY <3>1, <3>2
  <2> QED BY <1>1, <2>1, <2>2
<1>5. ASSUME Steady'
      PROVE  /\ Steady /\ \A b \in Addr : idOf(b)' = idOf(b) \/ (idOf(b) = 0 /\ b = a /\ ~InUse(idOf(b)'))
             /\ \A id : InUse(id) => InUse(id)'
             /\ a \in seen \/ idOf(a)' # 0
  <2>1. CASE a \in seen /\ UNCHANGED <<vars, seen, reply>>
    <3>1. UNCHANGED <<m_nextId, m_nextGItemId, severed, m_obj2id, m_gitem2id, itemAt>>
      BY <2>1 DEF vars, heapVars, objVars, gitemVars
    <3> QED BY <1>5, <2>1, <3>1 DEF Steady, idOf, IsItem, InUse
  <2>2. CASE registers(a)
    <3>1. m_nextId' <= GItemBase
      BY <1>5 DEF Steady
    <3> QED BY <1>2, <1>5, <2>2, <3>1, Registers DEF Steady
  <2> QED BY <1>1, <2>1, <2>2
<1>6. ASSUME Steady' PROVE Numbered'
  <2>1. Numbered
    BY <1>5, <1>6 DEF WalkInv
  <2>2. \A id \in visited' : InUse(id)'
    BY <1>1, <1>5, <1>6, <2>1 DEF Numbered
  <2>3. ASSUME NEW x \in Addr, Named(x)' PROVE idOf(x)' # 0
    <3>1. CASE Named(x)
      <4>1. idOf(x) # 0
        BY <2>1, <3>1 DEF Numbered
      <4> QED BY <1>5, <1>6, <4>1
    <3>2. CASE ~Named(x)
      <4>1. x = a /\ registers(a)
        BY <1>1, <2>3, <3>2 DEF Named
      <4>2. m_nextId' <= GItemBase
        BY <1>6 DEF Steady
      <4> QED BY <4>1, <4>2, Registers
    <3> QED BY <3>1, <3>2
  <2> QED BY <2>2, <2>3 DEF Numbered
<1>7. ASSUME Steady' PROVE Walks'
  <2>1. Steady /\ Walks /\ Numbered
    BY <1>3, <1>5, <1>7 DEF WalkInv
  <2>2. Calm' = Calm /\ \A b \in Addr : Root(b)' = Root(b) /\ Listing(b)' = Listing(b)
    BY <1>0, <1>2, CalmSame
  <2>3. \A b \in Addr : idOf(b) \in visited => idOf(b)' \in visited'
    <3>1. \A b \in Addr : idOf(b) \in visited => idOf(b) # 0
      BY <2>1 DEF Numbered, InUse
    <3> QED BY <1>1, <1>5, <1>7, <3>1
  <2>4. \A b \in Addr : idOf(b)' \in visited' => idOf(b)' = idOf(b)
    BY <1>1, <1>5, <1>7, <2>1 DEF Numbered
  <2>5. ASSUME NEW b \in Addr, Coming(b), b # a \/ a \notin seen \/ Named(a) PROVE Coming(b)'
    <3>1. CASE idOf(b) \in visited
      BY <2>3, <3>1 DEF Coming
    <3>2. CASE Named(b)
      BY <1>1, <3>2 DEF Coming
    <3>3. CASE Waiting(b) /\ b # a
      BY <1>1, <3>3 DEF Coming
    <3>4. CASE b = a
      BY <1>1, <2>5, <3>4 DEF Coming
    <3> QED BY <2>5, <3>1, <3>2, <3>3, <3>4 DEF Coming
  <2>6. ASSUME a \in seen, ~Named(a) PROVE ~Root(a) /\ visited = {}
    <3>1. request = "roots" /\ \E w \in Addr : Named(w) /\ inner[w] = a
      BY <2>6 DEF WalkInv, SeenNamed
    <3> QED BY <1>0, <3>1, InnerNoRoot DEF WalkInv, Begins
  <2>7. ASSUME NEW b \in Addr, b \in Calm, Root(b) PROVE Coming(b)'
    BY <2>1, <2>5, <2>6, <2>7 DEF Walks
  <2>8. ASSUME NEW b \in Addr, b \in Calm, NEW p \in Addr, p \in Calm, p \in Listing(b),
               idOf(p)' \in visited' \ frontier'
        PROVE  Coming(b)'
    <3>1. idOf(p) \in visited \ frontier
      BY <1>1, <2>4, <2>8
    <3>2. Coming(b) /\ visited # {}
      BY <2>1, <2>8, <3>1 DEF Walks
    <3> QED BY <2>5, <2>6, <3>2
  <2> QED BY <2>2, <2>7, <2>8 DEF Walks, Calm
<1> QED BY <1>3, <1>4, <1>6, <1>7 DEF WalkInv

\* The reply: what was named is told.
LEMMA RepliesWalk ==
  ASSUME IdsInv, DiscoveryInv, TreeInv', WalkInv, replies
  PROVE  WalkInv'
<1> DEFINE told == {idOf(reply[i].of) : i \in DOMAIN reply}
<1>1. /\ request # "none" /\ request' = "none" /\ todo' = <<>> /\ seen' = {} /\ reply' = <<>>
      /\ \A i \in DOMAIN todo : todo[i] = {}
      /\ frontier' = frontier \cup (told \ visited) /\ visited' = visited \cup told
      /\ walk' = (IF frontier' = {} THEN "done" ELSE walk)
      /\ UNCHANGED <<vars, treeVars, touched>>
  BY DEF replies
<1>2. walk = "on"
  BY <1>1 DEF WalkInv, Begins
<1>3. Begins' /\ SeenNamed'
  BY <1>1, <1>2 DEF Begins, SeenNamed
<1>4. UNCHANGED <<objectAt, itemAt, m_obj2id, m_gitem2id, m_nextId, m_nextGItemId, severed>>
  BY <1>1 DEF vars, heapVars, objVars, gitemVars
<1>5. (\A a : idOf(a)' = idOf(a) /\ ~Named(a)') /\ (\A id : InUse(id)' = InUse(id)) /\ (Steady' = Steady)
  <2>1. DOMAIN reply' = {}
    BY <1>1
  <2> QED BY <1>4, <2>1 DEF idOf, IsItem, Named, InUse, Steady
<1>6. \A i \in DOMAIN reply : reply[i].of \in Addr
  <2>1. DiscoveryTypeOK
    BY TypesFollow
  <2> QED BY <2>1 DEF DiscoveryTypeOK
<1>7. ASSUME Steady PROVE Numbered'
  <2>1. Numbered
    BY <1>7 DEF WalkInv
  <2>2. ASSUME NEW i \in DOMAIN reply PROVE InUse(idOf(reply[i].of))
    <3>1. Named(reply[i].of)
      BY DEF Named
    <3> QED BY <1>6, <2>1, <3>1, IdsInUse DEF Numbered
  <2>3. \A id \in visited' : InUse(id)
    BY <1>1, <2>1, <2>2 DEF Numbered
  <2> QED BY <1>5, <2>3 DEF Numbered
<1>8. ASSUME Steady PROVE Walks'
  <2>1. Walks
    BY <1>2, <1>8 DEF WalkInv
  <2>2. Calm' = Calm /\ \A a \in Addr : Root(a)' = Root(a) /\ Listing(a)' = Listing(a)
    BY <1>1, <1>4, CalmSame DEF DiscoveryInv
  <2>3. \A a : ~Waiting(a)
    BY <1>1 DEF Waiting
  <2>4. \A a : Coming(a) => Coming(a)'
    BY <1>1, <1>5, <2>3 DEF Coming, Named
  <2>5. visited' \ frontier' \subseteq visited \ frontier
    BY <1>1
  <2> QED BY <1>5, <2>1, <2>2, <2>4, <2>5 DEF Walks, Calm
<1> QED BY <1>3, <1>5, <1>7, <1>8 DEF WalkInv

WalkStrong == LinkedInv /\ IdsInv /\ DiscoveryInv /\ Kin

\* The walk invariant is inductive, given the others.
LEMMA WalkStep ==
    WalkStrong /\ WalkStrong' /\ WalkInv /\ [DiscoveryNext]_discoveryVars => WalkInv'
<1> SUFFICES ASSUME WalkStrong, WalkStrong', WalkInv, [DiscoveryNext]_discoveryVars
             PROVE  WalkInv'
  OBVIOUS
<1>1. LinkedInv /\ IdsInv /\ IdsInv' /\ DiscoveryInv /\ TreeInv /\ TreeInv' /\ Kin
  BY DEF WalkStrong, DiscoveryInv
<1>2. CASE Application
  BY <1>1, <1>2, ApplicationWalks
<1>3. CASE Requests
  BY <1>1, <1>3, RootsWalk, ChildrenWalk, OneWalk, HandlesWalk, RepliesWalk DEF Requests
<1>4. CASE UNCHANGED discoveryVars
  <2>1. UNCHANGED <<objectAt, itemAt, treeVars, handlerVars, walkVars, m_obj2id, m_gitem2id,
                    m_nextId, m_nextGItemId, severed>>
    BY <1>4 DEF discoveryVars, vars, heapVars, objVars, gitemVars
  <2> QED BY <1>1, <2>1, WalksSame
<1> QED BY <1>2, <1>3, <1>4 DEF DiscoveryNext

\* It holds at first.
LEMMA WalkStart == DiscoveryInit => WalkInv
<1> SUFFICES ASSUME DiscoveryInit PROVE WalkInv
  OBVIOUS
<1>1. request = "none" /\ reply = <<>> /\ seen = {} /\ walk = "no" /\ visited = {}
  BY DEF DiscoveryInit
<1>2. \A a : ~Named(a)
  BY <1>1 DEF Named
<1> QED BY <1>1, <1>2 DEF WalkInv, Begins, SeenNamed, Numbered

\* What the client was told of the calm elements is closed when the walk is done.
LEMMA WalkEnds == DiscoveryInv /\ WalkInv => WalkReaches
<1> SUFFICES ASSUME DiscoveryInv, WalkInv, walk = "done", request = "none", ~severed,
                    m_nextId <= GItemBase, NEW a \in Hanging
             PROVE  idOf(a) \in visited
  BY DEF WalkReaches
<1> DEFINE S == {b \in Calm : idOf(b) \in visited}
<1>1. frontier = {} /\ Walks
  BY DEF WalkInv, Begins, Steady
<1>2. \A b : ~Named(b) /\ ~Waiting(b)
  BY NoReply DEF DiscoveryInv
<1>3. ASSUME NEW b \in Calm, Root(b) \/ Listing(b) \cap S # {} PROVE b \in S
  <2>1. Coming(b)
    BY <1>1, <1>3 DEF Walks
  <2> QED BY <1>2, <2>1 DEF Coming
<1>4. S \in SUBSET Calm /\ Closed(S)
  BY <1>3 DEF Closed
<1> HIDE DEF S
<1>5. a \in S
  BY <1>4 DEF Hanging
<1> QED BY <1>5 DEF S

-----------------------------------------------------------------------------
\* What the application does between two requests, and what the handlers do,
\* keeps the object table, the tree and the reply in order.
LEMMA DiscoveryInvariant == DiscoverySpec => []DiscoveryInv
<1>1. DiscoveryInit => DiscoveryInv \/ ~TypeOK
  BY TreeInit, HandlerInit, DiscoveryStart DEF DiscoveryInv
<1>2. TypeOK /\ TypeOK' /\ DiscoveryInv /\ [DiscoveryNext]_discoveryVars => DiscoveryInv'
  BY DiscoveryStep
<1>3. DiscoverySpec => []TypeOK
  BY ImplementsObjectStore, TypeCorrect, PTL
<1> QED BY <1>1, <1>2, <1>3, PTL DEF DiscoverySpec

\* The variables of the handlers and of the walk keep their types, whatever
\* classes the application has and however many objects it makes.
THEOREM DiscoveryTypeCorrect == DiscoverySpec => []DiscoveryTypeOK
BY DiscoveryInvariant, TypesFollow, PTL

\* The parent that handleElementParent finds for an element is the one whose
\* children list it, in any tree that the application can make.
THEOREM ParentAlwaysListsIt == DiscoverySpec => []ParentListsIt
<1>1. DiscoveryInv => TreeInv
  BY DEF DiscoveryInv
<1> QED BY <1>1, DiscoveryInvariant, TreeAgrees, PTL

\* No reply of any handler names an element twice, nor a widget and the window
\* that shows it.
THEOREM AlwaysNamedOnce == DiscoverySpec => []NamedOnce
<1>1. DiscoveryInv => NamedOnce
  BY DEF DiscoveryInv, HandlerInv
<1> QED BY <1>1, DiscoveryInvariant, PTL

\* The object table, the tree and the handlers are as they should be together.
LEMMA WalkStrongInvariant == DiscoverySpec => []WalkStrong
<1>1. DiscoverySpec => DiscoveryInit /\ [][DiscoveryNext]_discoveryVars
  BY DEF DiscoverySpec
<1>2. DiscoveryInv => TypeOK /\ TreeInv
  BY DEF DiscoveryInv
<1>3. DiscoverySpec => []Kin
  BY <1>1, <1>2, KinInit, KinStep, DiscoveryInvariant, PTL
<1>4. LinkedInv /\ IdsInv /\ DiscoveryInv /\ Kin => WalkStrong
  BY DEF WalkStrong
<1> QED BY <1>3, <1>4, ImplementsObjectStore, LinkInvariant, IdsInvariant, DiscoveryInvariant, PTL

\* A walk from the roots reaches every element that hangs from a root by
\* elements that were there before it began and have not moved, for any tree,
\* whatever the application creates, moves and destroys between two requests.
THEOREM WalkAlwaysReaches == DiscoverySpec => []WalkReaches
<1>1. DiscoverySpec => DiscoveryInit /\ [][DiscoveryNext]_discoveryVars
  BY DEF DiscoverySpec
<1>2. DiscoverySpec => []WalkInv
  BY <1>1, WalkStart, WalkStep, WalkStrongInvariant, PTL
<1> QED BY <1>2, DiscoveryInvariant, WalkEnds, PTL
=============================================================================
