------------------------- MODULE SessionKeysProofs -------------------------
(***************************************************************************)
(* The index order of SessionKeys, for every set of authIds and every      *)
(* number of keys.  The inductive invariant bounds every index by the      *)
(* number of keys that were ever set, in memory and in the store, because  *)
(* a list may come back from the store.                                    *)
(***************************************************************************)
EXTENDS SessionKeys, SequenceTheorems, TLAPS

\* The list without its n-th element, position by position.
LEMMA RemoveAtElements ==
  ASSUME NEW S, NEW list \in Seq(S), NEW n \in 1 .. Len(list)
  PROVE  /\ RemoveAt(list, n) \in Seq(S)
         /\ Len(RemoveAt(list, n)) = Len(list) - 1
         /\ \A i \in 1 .. Len(list) - 1 :
              RemoveAt(list, n)[i] = IF i < n THEN list[i] ELSE list[i + 1]
<1> DEFINE front == SubSeq(list, 1, n - 1)
           back  == SubSeq(list, n + 1, Len(list))
<1>1. /\ front \in Seq(S)
      /\ Len(front) = n - 1
      /\ \A i \in 1 .. n - 1 : front[i] = list[i]
  OBVIOUS
<1>2. /\ back \in Seq(S)
      /\ Len(back) = Len(list) - n
      /\ \A i \in 1 .. Len(list) - n : back[i] = list[n + i]
  OBVIOUS
<1> HIDE DEF front, back
<1>3. /\ front \o back \in Seq(S)
      /\ Len(front \o back) = Len(list) - 1
      /\ \A i \in 1 .. Len(list) - 1 :
           (front \o back)[i] = IF i <= n - 1 THEN front[i] ELSE back[i - (n - 1)]
  <2>1. /\ front \o back \in Seq(S)
        /\ Len(front \o back) = Len(front) + Len(back)
        /\ \A i \in 1 .. Len(front) + Len(back) :
             (front \o back)[i] = IF i <= Len(front) THEN front[i] ELSE back[i - Len(front)]
    BY <1>1, <1>2, ConcatProperties, Zenon
  <2> QED
    BY <1>1, <1>2, <2>1
<1>4. RemoveAt(list, n) = front \o back
  BY DEF RemoveAt, front, back
<1> QED
  BY <1>1, <1>2, <1>3, <1>4, SMT

\* A position that is found is one of the list, and has the index.
LEMMA PositionFound ==
  ASSUME NEW list \in Seq(SessionKey), NEW index,
         Position(list, index) # 0
  PROVE  /\ Position(list, index) \in 1 .. Len(list)
         /\ list[Position(list, index)].index = index
  BY DEF Position, SelectInSeq, Min

-----------------------------------------------------------------------------
\* A list that is well-formed stays so when a key is added at its end ...
LEMMA AppendListOK ==
  ASSUME NEW n \in Nat, n < MaxSets,
         NEW list \in Seq(SessionKey), ListOK(list, n),
         NEW new, new = [index |-> NextIndex(list), key |-> n]
  PROVE  /\ Append(list, new) \in Seq(SessionKey)
         /\ ListOK(Append(list, new), n + 1)
<1>1. /\ NextIndex(list) \in 0 .. n
      /\ \A i \in DOMAIN list : list[i].index < NextIndex(list)
  <2>1. CASE list = <<>>
    BY <2>1 DEF NextIndex
  <2>2. CASE list # <<>>
    <3>1. Len(list) \in DOMAIN list /\ NextIndex(list) = list[Len(list)].index + 1
      BY <2>2 DEF NextIndex, Last
    <3>2. \A i \in DOMAIN list :
            list[i].index \in Nat /\ list[i].index <= list[Len(list)].index
      <4> TAKE i \in DOMAIN list
      <4>1. list[i] \in SessionKey /\ list[Len(list)] \in SessionKey
        BY <3>1
      <4>2. i = Len(list) \/ i < Len(list)
        BY <3>1
      <4> QED
        BY <3>1, <4>1, <4>2 DEF ListOK, Increasing, SessionKey
    <3> QED
      BY <3>1, <3>2 DEF ListOK
  <2> QED
    BY <2>1, <2>2
<1>2. new \in SessionKey
  BY <1>1, SessionKeysAssumption DEF SessionKey, Keys
<1>3. /\ Append(list, new) \in Seq(SessionKey)
      /\ DOMAIN Append(list, new) = 1 .. Len(list) + 1
      /\ \A i \in DOMAIN list : Append(list, new)[i] = list[i]
      /\ Append(list, new)[Len(list) + 1] = new
  BY <1>2
<1>4. Increasing(Append(list, new))
  <2> SUFFICES ASSUME NEW i \in 1 .. Len(list) + 1, NEW j \in 1 .. Len(list) + 1, i < j
               PROVE  Append(list, new)[i].index < Append(list, new)[j].index
    BY <1>3 DEF Increasing
  <2>1. i \in DOMAIN list /\ (j \in DOMAIN list \/ j = Len(list) + 1)
    OBVIOUS
  <2> QED
    BY <1>1, <1>3, <2>1 DEF ListOK, Increasing
<1>5. \A i \in 1 .. Len(list) + 1 :
        Append(list, new)[i].index < n + 1 /\ Append(list, new)[i].key < n + 1
  <2> TAKE i \in 1 .. Len(list) + 1
  <2>1. CASE i \in DOMAIN list
    <3>1. list[i] \in SessionKey
      BY <2>1
    <3> QED
      BY <1>3, <2>1, <3>1 DEF ListOK, SessionKey, Keys
  <2>2. CASE i = Len(list) + 1
    BY <1>1, <1>3, <2>2
  <2> QED
    BY <2>1, <2>2
<1> QED
  BY <1>2, <1>3, <1>4, <1>5 DEF ListOK, Increasing

\* ... or removed anywhere.
LEMMA RemoveListOK ==
  ASSUME NEW list \in Seq(SessionKey), NEW k, ListOK(list, k), NEW n \in 1 .. Len(list)
  PROVE  /\ RemoveAt(list, n) \in Seq(SessionKey)
         /\ ListOK(RemoveAt(list, n), k)
<1> DEFINE rest == RemoveAt(list, n)
           Old(i) == IF i < n THEN i ELSE i + 1
<1>1. /\ rest \in Seq(SessionKey)
      /\ Len(rest) = Len(list) - 1
      /\ \A i \in 1 .. Len(list) - 1 : rest[i] = IF i < n THEN list[i] ELSE list[i + 1]
  BY RemoveAtElements
<1> HIDE DEF rest
<1>2. DOMAIN rest = 1 .. Len(list) - 1
  BY <1>1
<1>3. ASSUME NEW i \in DOMAIN rest
      PROVE  Old(i) \in DOMAIN list /\ rest[i] = list[Old(i)]
  BY <1>1, <1>2
<1>4. \A i, j \in DOMAIN rest : i < j => Old(i) < Old(j)
  BY <1>2
<1> HIDE DEF Old
<1>5. Increasing(rest)
  BY <1>3, <1>4 DEF ListOK, Increasing
<1>6. \A i \in DOMAIN rest : rest[i].index < k /\ rest[i].key < k
  BY <1>3 DEF ListOK
<1> QED
  BY <1>1, <1>5, <1>6 DEF ListOK, rest

\* What a number of keys bounds, a larger number bounds.
LEMMA ListOKGrows ==
  ASSUME NEW list \in Seq(SessionKey), NEW n \in Nat, ListOK(list, n)
  PROVE  ListOK(list, n + 1)
<1>1. ASSUME NEW i \in DOMAIN list
      PROVE  list[i].index \in Nat /\ list[i].key \in Nat
  <2>1. list[i] \in SessionKey
    OBVIOUS
  <2> QED
    BY <2>1, SessionKeysAssumption DEF SessionKey, Keys
<1> QED
  BY <1>1 DEF ListOK

-----------------------------------------------------------------------------
\* A map of well-formed lists, in memory or in the store.
ListsOK(map, n) ==
  /\ IsMap(map, AuthIds, Seq(SessionKey))
  /\ \A a \in DOMAIN map : ListOK(map[a], n)

LEMMA PutListsOK ==
  ASSUME NEW map, NEW n, ListsOK(map, n), NEW a \in AuthIds,
         NEW list \in Seq(SessionKey), ListOK(list, n)
  PROVE  ListsOK(Put(map, a, list), n)
<1>1. IsMap(Put(map, a, list), AuthIds, Seq(SessionKey))
  BY DEF ListsOK, IsMap, Put
<1> QED
  BY <1>1 DEF ListsOK, Put

LEMMA DelListsOK ==
  ASSUME NEW map, NEW n, ListsOK(map, n), NEW a
  PROVE  ListsOK(Del(map, a), n)
<1>1. IsMap(Del(map, a), AuthIds, Seq(SessionKey))
  BY DEF ListsOK, IsMap, Del
<1> QED
  BY <1>1 DEF ListsOK, Del

LEMMA ListsOKGrows ==
  ASSUME NEW map, NEW n \in Nat, ListsOK(map, n)
  PROVE  ListsOK(map, n + 1)
<1>1. ASSUME NEW a \in DOMAIN map
      PROVE  ListOK(map[a], n + 1)
  BY <1>1, ListOKGrows DEF ListsOK, IsMap
<1> QED
  BY <1>1 DEF ListsOK

\* A missing list is empty, and as well-formed as the others.
LEMMA ListedOK ==
  ASSUME NEW map, NEW n, ListsOK(map, n), NEW a \in AuthIds
  PROVE  Listed(map, a) \in Seq(SessionKey) /\ ListOK(Listed(map, a), n)
<1>1. <<>> \in Seq(SessionKey) /\ ListOK(<<>>, n)
  BY DEF ListOK, Increasing
<1> QED
  BY <1>1 DEF ListsOK, IsMap, Listed

\* The store's list follows, or does not.
LEMMA PersistOK ==
  ASSUME IInv, NEW a \in AuthIds, NEW newStored, Persist(a, newStored),
         NEW n, ListsOK(stored, n), ListsOK(newStored, n)
  PROVE  ListsOK(stored', n) /\ behind' \subseteq AuthIds
  BY DEF Persist, IInv, TypeOK

-----------------------------------------------------------------------------
LEMMA InitIInv ==
  ASSUME Init
  PROVE  IInv
<1>1. TypeOK
  BY SessionKeysAssumption DEF Init, TypeOK, IsMap, EmptyMap
<1> QED
  BY <1>1 DEF Init, IInv, EmptyMap

\* The invariant in terms of ListsOK.
LEMMA IInvLists ==
  IInv <=> /\ TypeOK
           /\ ListsOK(keys, sets)
           /\ ListsOK(stored, sets)
  BY DEF IInv, TypeOK, ListsOK

LEMMA NextIInv ==
  ASSUME IInv, Next
  PROVE  IInv'
<1>0. /\ TypeOK
      /\ ListsOK(keys, sets)
      /\ ListsOK(stored, sets)
  BY IInvLists
<1> SUFFICES /\ TypeOK'
             /\ ListsOK(keys', sets')
             /\ ListsOK(stored', sets')
  BY DEF IInv, TypeOK, ListsOK
<1>1. CASE RegisterPersistor
  BY <1>0, <1>1 DEF RegisterPersistor, TypeOK
<1>2. CASE Restart
  BY <1>0, <1>2 DEF Restart, TypeOK, ListsOK, EmptyMap, IsMap
<1>3. ASSUME NEW a \in AuthIds, SetSessionKey(a)
      PROVE  TypeOK' /\ ListsOK(keys', sets') /\ ListsOK(stored', sets')
  <2> DEFINE list == Listed(keys, a)
             new  == [index |-> NextIndex(list), key |-> sets]
  <2>1. /\ sets \in Nat /\ sets < MaxSets /\ sets' = sets + 1 /\ sets' \in 0 .. MaxSets
        /\ keys' = Put(keys, a, Append(list, new))
        /\ given' = given \cup {[authId |-> a, index |-> new.index, key |-> new.key]}
        /\ Persist(a, Put(stored, a, Append(list, new)))
        /\ persistor' = persistor /\ lapsed' \subseteq AuthIds
    BY <1>0, <1>3, SessionKeysAssumption DEF SetSessionKey, Save, Given, Lapse, TypeOK
  <2>2. list \in Seq(SessionKey) /\ ListOK(list, sets)
    BY <1>0, ListedOK
  <2> HIDE DEF list
  <2>3. Append(list, new) \in Seq(SessionKey) /\ ListOK(Append(list, new), sets + 1)
    BY <2>1, <2>2, AppendListOK
  <2>4. new \in SessionKey
    BY <2>1, <2>2, <2>3
  <2> HIDE DEF new
  <2>5. ListsOK(keys, sets + 1) /\ ListsOK(stored, sets + 1)
    BY <1>0, <2>1, ListsOKGrows
  <2>6. ListsOK(keys', sets + 1) /\ ListsOK(Put(stored, a, Append(list, new)), sets + 1)
    BY <2>1, <2>3, <2>5, PutListsOK
  <2>7. ListsOK(stored', sets + 1) /\ behind' \subseteq AuthIds
    BY <2>1, <2>5, <2>6, PersistOK
  <2>8. given' \subseteq [authId : AuthIds, index : 0 .. MaxIndex, key : Keys]
    BY <1>0, <2>1, <2>4 DEF TypeOK, SessionKey
  <2> QED
    BY <1>0, <2>1, <2>6, <2>7, <2>8 DEF TypeOK, ListsOK
<1>4. ASSUME NEW a \in AuthIds, RemoveAllSessionKeys(a)
      PROVE  TypeOK' /\ ListsOK(keys', sets') /\ ListsOK(stored', sets')
  <2>1. ListsOK(Del(keys, a), sets) /\ ListsOK(Del(stored, a), sets)
    BY <1>0, DelListsOK
  <2>2. ListsOK(stored', sets) /\ behind' \subseteq AuthIds
    BY <1>0, <1>4, <2>1, PersistOK DEF RemoveAllSessionKeys, Delete
  <2> QED
    BY <1>0, <1>4, <2>1, <2>2 DEF RemoveAllSessionKeys, Lapse, TypeOK, ListsOK
<1>5. ASSUME NEW a \in AuthIds, LoadFromPersistor(a)
      PROVE  TypeOK' /\ ListsOK(keys', sets') /\ ListsOK(stored', sets')
  <2>1. stored[a] \in Seq(SessionKey) /\ ListOK(stored[a], sets)
    BY <1>0, <1>5 DEF LoadFromPersistor, ListsOK, IsMap
  <2>2. ListsOK(Put(keys, a, stored[a]), sets)
    BY <1>0, <2>1, PutListsOK
  <2> QED
    BY <1>0, <1>5, <2>2 DEF LoadFromPersistor, Lapse, TypeOK, ListsOK
<1>6. ASSUME NEW a \in AuthIds, NEW index, RemoveSessionKey(a, index)
      PROVE  TypeOK' /\ ListsOK(keys', sets') /\ ListsOK(stored', sets')
  <2> DEFINE list == Listed(keys, a)
             rest == RemoveAt(list, Position(list, index))
  <2>1. /\ Position(list, index) # 0
        /\ keys' = Put(keys, a, rest)
        /\ Persist(a, Put(stored, a, rest))
        /\ UNCHANGED <<persistor, sets, given>> /\ lapsed' \subseteq AuthIds
    BY <1>0, <1>6 DEF RemoveSessionKey, Save, Lapse, TypeOK
  <2>2. list \in Seq(SessionKey) /\ ListOK(list, sets)
    BY <1>0, ListedOK
  <2> HIDE DEF list
  <2>3. rest \in Seq(SessionKey) /\ ListOK(rest, sets)
    BY <2>1, <2>2, PositionFound, RemoveListOK
  <2> HIDE DEF rest
  <2>4. ListsOK(keys', sets) /\ ListsOK(Put(stored, a, rest), sets)
    BY <1>0, <2>1, <2>3, PutListsOK
  <2>5. ListsOK(stored', sets) /\ behind' \subseteq AuthIds
    BY <1>0, <2>1, <2>4, PersistOK
  <2> QED
    BY <1>0, <2>1, <2>4, <2>5 DEF TypeOK, ListsOK
<1> QED
  BY <1>1, <1>2, <1>3, <1>4, <1>5, <1>6 DEF Next

-----------------------------------------------------------------------------
\* The indices in memory and in the store stay in order, below the number of
\* keys that SetSessionKey made.
THEOREM Invariance == Spec => []IInv
<1>1. ASSUME IInv, UNCHANGED vars PROVE IInv'
  BY <1>1 DEF vars, IInv, TypeOK, ListOK, Increasing
<1> QED
  BY <1>1, InitIInv, NextIInv, PTL DEF Spec

\* The variables of SessionKeyManager keep their types; no index leaves the
\* range of int32.
THEOREM TypeCorrect == Spec => []TypeOK
<1>1. IInv => TypeOK
  BY DEF IInv
<1> QED
  BY <1>1, Invariance, PTL

\* No sequence of SetSessionKey, removals, loads and restarts brings a list
\* out of order: its last key has the largest index and no index is twice.
THEOREM AlwaysAscending == Spec => []Ascending
<1>1. ASSUME IInv PROVE Ascending
  <2>1. ASSUME NEW a \in AuthIds PROVE Increasing(Listed(keys, a))
    BY <1>1, IInvLists, ListedOK DEF ListOK
  <2> QED
    BY <2>1 DEF Ascending
<1> QED
  BY <1>1, Invariance, PTL

-----------------------------------------------------------------------------
(* DecryptsOwn                                                             *)

\* What SetSessionKey made is all there is in a map of lists.
MadeIn(map, G) ==
  \A a \in DOMAIN map : \A i \in DOMAIN map[a] : Given(a, map[a][i]) \in G

LEMMA PutMadeIn ==
  ASSUME NEW map, NEW G, MadeIn(map, G), NEW a, NEW list,
         \A i \in DOMAIN list : Given(a, list[i]) \in G
  PROVE  MadeIn(Put(map, a, list), G)
BY DEF MadeIn, Put

LEMMA DelMadeIn ==
  ASSUME NEW map, NEW G, MadeIn(map, G), NEW a
  PROVE  MadeIn(Del(map, a), G)
BY DEF MadeIn, Del

LEMMA PersistMadeIn ==
  ASSUME NEW G, MadeIn(stored, G), NEW a, NEW newStored, MadeIn(newStored, G),
         Persist(a, newStored)
  PROVE  MadeIn(stored', G)
BY DEF Persist

\* A step that touches one authId leaves the others' latest keys alone.
LEMMA OthersKept ==
  ASSUME NEW a \in AuthIds, NEW b \in AuthIds, b # a, LatestKept(b), KeysOf(b)' = KeysOf(b),
         b \in behind' <=> b \in behind,
         b \in DOMAIN keys' => b \in DOMAIN keys /\ keys'[b] = keys[b],
         b \in DOMAIN stored => b \in DOMAIN stored' /\ stored'[b] = stored[b]
  PROVE  LatestKept(b)'
BY DEF LatestKept, HoldsLatest

\* A change of the map and what the persistor makes of it are such a step.
LEMMA ChangeOthers ==
  ASSUME NEW a, NEW b, b # a,
         \/ \E list : keys' = Put(keys, a, list) \/ keys' = Del(keys, a)
         \/ UNCHANGED keys
  PROVE  b \in DOMAIN keys' => b \in DOMAIN keys /\ keys'[b] = keys[b]
BY DEF Put, Del

LEMMA PersistOthers ==
  ASSUME NEW a, NEW b, b # a, NEW newStored, Persist(a, newStored),
         (\E list : newStored = Put(stored, a, list)) \/ newStored = Del(stored, a)
  PROVE  /\ b \in behind' <=> b \in behind
         /\ b \in DOMAIN stored => b \in DOMAIN stored' /\ stored'[b] = stored[b]
BY DEF Persist, Put, Del

LEMMA SetKeyInv ==
  ASSUME IInv, KeyInv, NEW a \in AuthIds, SetSessionKey(a)
  PROVE  KeyInv'
<1> DEFINE list == Listed(keys, a)
           new  == [index |-> NextIndex(list), key |-> sets]
           longer == Append(list, new)
<1>1. /\ keys' = Put(keys, a, longer)
      /\ given' = given \cup {Given(a, new)}
      /\ Persist(a, Put(stored, a, longer))
      /\ lapsed' = IF a \notin DOMAIN keys /\ KeysOf(a) # {} THEN lapsed \cup {a} ELSE lapsed
  BY DEF SetSessionKey, Save, Lapse
<1>2. list \in Seq(SessionKey) /\ ListOK(list, sets) /\ (a \in DOMAIN keys => list = keys[a])
  BY IInvLists, ListedOK DEF Listed
<1>3. a \notin DOMAIN keys => list = <<>>
  BY DEF Listed
<1> HIDE DEF list
<1>4. /\ DOMAIN longer = 1 .. Len(list) + 1
      /\ \A i \in DOMAIN list : longer[i] = list[i]
      /\ longer[Len(list) + 1] = new
      /\ longer # <<>> /\ Last(longer) = new
  BY <1>2 DEF Last
<1>5. MadeIn(keys, given') /\ MadeIn(stored, given')
  BY <1>1 DEF KeyInv, MadeHere, MadeIn
<1>6. \A i \in DOMAIN longer : Given(a, longer[i]) \in given'
  <2> TAKE i \in DOMAIN longer
  <2>1. CASE i \in DOMAIN list
    <3>1. a \in DOMAIN keys /\ list = keys[a]
      BY <1>2, <1>3, <2>1
    <3> QED
      BY <1>4, <1>5, <2>1, <3>1 DEF MadeIn
  <2>2. CASE i = Len(list) + 1
    BY <1>1, <1>4, <2>2
  <2> QED
    BY <1>2, <1>4, <2>1, <2>2
<1> HIDE DEF longer
<1>7. MadeIn(keys', given') /\ MadeIn(stored', given')
  BY <1>1, <1>5, <1>6, PutMadeIn, PersistMadeIn
<1>8. \A b \in AuthIds \ {a} : KeysOf(b)' = KeysOf(b)
  BY <1>1 DEF KeysOf, Given
<1>9. KeysOf(a)' = KeysOf(a) \cup {Given(a, new)} /\ Given(a, new).index = NextIndex(list)
  BY <1>1 DEF KeysOf, Given
<1>10. ASSUME a \notin lapsed' PROVE LatestKept(a)'
  <2>1. LatestKept(a) /\ (a \in DOMAIN keys \/ KeysOf(a) = {})
    BY <1>1, <1>10 DEF KeyInv
  <2>2. \A g \in KeysOf(a) : g.index < NextIndex(list) /\ g.index \in Nat
    <3> SUFFICES ASSUME NEW g \in KeysOf(a) PROVE g.index < NextIndex(list) /\ g.index \in Nat
      OBVIOUS
    <3>1. list # <<>> /\ g.index <= Last(list).index
      BY <1>2, <2>1 DEF LatestKept, HoldsLatest
    <3>2. Last(list) \in SessionKey
      BY <1>2, <3>1 DEF Last
    <3>3. g.index \in Nat /\ Last(list).index \in Nat
      BY <3>2, SessionKeysAssumption DEF KeysOf, IInv, TypeOK, SessionKey
    <3> QED
      BY <3>1, <3>3 DEF NextIndex
  <2>3. NextIndex(list) \in Nat
    <3>1. list # <<>> => Last(list) \in SessionKey
      BY <1>2 DEF Last
    <3>2. list # <<>> => Last(list).index \in Nat
      BY <3>1, SessionKeysAssumption DEF SessionKey
    <3> QED
      BY <3>2 DEF NextIndex
  <2>4. \A g \in KeysOf(a)' : g.index <= Last(longer).index
    BY <1>4, <1>9, <2>2, <2>3
  <2>5. HoldsLatest(keys, a)'
    BY <1>1, <1>4, <2>4 DEF HoldsLatest, Put
  <2>6. a \notin behind' => HoldsLatest(stored, a)'
    BY <1>1, <1>4, <2>4 DEF HoldsLatest, Put, Persist
  <2>7. \A g, h \in KeysOf(a)' : g.index = h.index => g.key = h.key
    BY <1>9, <2>1, <2>2, <2>3 DEF LatestKept
  <2> QED
    BY <2>5, <2>6, <2>7 DEF LatestKept
<1>11. ASSUME NEW b \in AuthIds \ {a}, b \notin lapsed' PROVE LatestKept(b)'
  <2>1. LatestKept(b)
    BY <1>1, <1>11 DEF KeyInv
  <2> QED
    BY <1>1, <1>8, <2>1, OthersKept, ChangeOthers, PersistOthers
<1> QED
  BY <1>7, <1>10, <1>11 DEF KeyInv, MadeHere, MadeIn

LEMMA RemoveKeyInv ==
  ASSUME IInv, KeyInv, NEW a \in AuthIds, NEW index, RemoveSessionKey(a, index)
  PROVE  KeyInv'
<1> DEFINE list == Listed(keys, a)
           n == Position(list, index)
           rest == RemoveAt(list, n)
<1>1. /\ n # 0
      /\ keys' = Put(keys, a, rest)
      /\ Persist(a, Put(stored, a, rest))
      /\ given' = given
      /\ lapsed' = IF index = Last(list).index THEN lapsed \cup {a} ELSE lapsed
  BY DEF RemoveSessionKey, Save, Lapse
<1>2. list \in Seq(SessionKey)
  BY IInvLists, ListedOK
<1>3. n \in 1 .. Len(list) /\ list[n].index = index
  BY <1>1, <1>2, PositionFound
<1>4. a \in DOMAIN keys /\ list = keys[a]
  BY <1>3 DEF Listed
<1> HIDE DEF list, n
<1>5. /\ rest \in Seq(SessionKey)
      /\ Len(rest) = Len(list) - 1
      /\ \A i \in 1 .. Len(list) - 1 : rest[i] = IF i < n THEN list[i] ELSE list[i + 1]
  BY <1>2, <1>3, RemoveAtElements
<1> HIDE DEF rest
<1>6. \A i \in DOMAIN rest : Given(a, rest[i]) \in given
  <2> TAKE i \in DOMAIN rest
  <2>1. \E j \in DOMAIN list : rest[i] = list[j]
    BY <1>2, <1>3, <1>5
  <2> QED
    BY <1>4, <2>1 DEF KeyInv, MadeHere
<1>7. MadeIn(keys', given') /\ MadeIn(stored', given')
  <2>1. MadeIn(keys, given) /\ MadeIn(stored, given)
    BY DEF KeyInv, MadeHere, MadeIn
  <2> QED
    BY <1>1, <1>6, <2>1, PutMadeIn, PersistMadeIn
<1>8. \A b : KeysOf(b)' = KeysOf(b)
  BY <1>1 DEF KeysOf
<1>9. ASSUME a \notin lapsed' PROVE LatestKept(a)'
  <2>1. LatestKept(a) /\ index # Last(list).index
    BY <1>1, <1>9 DEF KeyInv
  <2>2. n < Len(list)
    BY <1>2, <1>3, <2>1 DEF Last
  <2>3. rest # <<>> /\ Last(rest) = Last(list)
    BY <1>2, <1>3, <1>5, <2>2 DEF Last
  <2>4. KeysOf(a) # {} => \A g \in KeysOf(a) : g.index <= Last(rest).index
    BY <1>4, <2>1, <2>3 DEF LatestKept, HoldsLatest
  <2>5. KeysOf(a) # {} => HoldsLatest(keys, a)'
    BY <1>1, <1>8, <2>3, <2>4 DEF HoldsLatest, Put
  <2>6. KeysOf(a) # {} /\ a \notin behind' => HoldsLatest(stored, a)'
    BY <1>1, <1>8, <2>3, <2>4 DEF HoldsLatest, Put, Persist
  <2> QED
    BY <1>8, <2>1, <2>5, <2>6 DEF LatestKept
<1>10. ASSUME NEW b \in AuthIds \ {a}, b \notin lapsed' PROVE LatestKept(b)'
  <2>1. LatestKept(b)
    BY <1>1, <1>10 DEF KeyInv
  <2> QED
    BY <1>1, <1>8, <2>1, OthersKept, ChangeOthers, PersistOthers
<1> QED
  BY <1>7, <1>9, <1>10 DEF KeyInv, MadeHere, MadeIn

LEMMA RemoveAllKeyInv ==
  ASSUME IInv, KeyInv, NEW a \in AuthIds, RemoveAllSessionKeys(a)
  PROVE  KeyInv'
<1>1. /\ keys' = Del(keys, a)
      /\ Persist(a, Del(stored, a))
      /\ given' = given
      /\ lapsed' = lapsed \cup {a}
  BY DEF RemoveAllSessionKeys, Delete, Lapse
<1>2. MadeIn(keys', given') /\ MadeIn(stored', given')
  <2>1. MadeIn(keys, given) /\ MadeIn(stored, given)
    BY DEF KeyInv, MadeHere, MadeIn
  <2> QED
    BY <1>1, <2>1, DelMadeIn, PersistMadeIn
<1>3. ASSUME NEW b \in AuthIds, b \notin lapsed' PROVE LatestKept(b)'
  <2>1. b # a /\ LatestKept(b) /\ KeysOf(b)' = KeysOf(b)
    BY <1>1, <1>3 DEF KeyInv, KeysOf
  <2> QED
    BY <1>1, <2>1, OthersKept, ChangeOthers, PersistOthers
<1> QED
  BY <1>2, <1>3 DEF KeyInv, MadeHere, MadeIn

LEMMA LoadKeyInv ==
  ASSUME IInv, KeyInv, NEW a \in AuthIds, LoadFromPersistor(a)
  PROVE  KeyInv'
<1>1. /\ a \in DOMAIN stored /\ keys' = Put(keys, a, stored[a])
      /\ UNCHANGED <<stored, given>> /\ behind' = behind \ {a}
      /\ lapsed' = IF a \in behind THEN lapsed \cup {a} ELSE lapsed
  BY DEF LoadFromPersistor, Lapse
<1>2. MadeIn(keys', given') /\ MadeIn(stored', given')
  <2>1. MadeIn(keys, given) /\ MadeIn(stored, given)
    BY DEF KeyInv, MadeHere, MadeIn
  <2>2. \A i \in DOMAIN stored[a] : Given(a, stored[a][i]) \in given
    BY <1>1, <2>1 DEF MadeIn
  <2> QED
    BY <1>1, <2>1, <2>2, PutMadeIn
<1>3. \A b : KeysOf(b)' = KeysOf(b)
  BY <1>1 DEF KeysOf
<1>4. ASSUME a \notin lapsed' PROVE LatestKept(a)'
  <2>1. LatestKept(a) /\ a \notin behind
    BY <1>1, <1>4 DEF KeyInv
  <2> QED
    BY <1>1, <1>3, <2>1 DEF LatestKept, HoldsLatest, Put
<1>5. ASSUME NEW b \in AuthIds \ {a}, b \notin lapsed' PROVE LatestKept(b)'
  <2>1. LatestKept(b)
    BY <1>1, <1>5 DEF KeyInv
  <2> QED
    BY <1>1, <1>3, <2>1, OthersKept, ChangeOthers
<1> QED
  BY <1>2, <1>4, <1>5 DEF KeyInv, MadeHere, MadeIn

LEMMA NextKeyInv ==
  ASSUME IInv, KeyInv, [Next]_vars
  PROVE  KeyInv'
<1>1. CASE UNCHANGED vars \/ RegisterPersistor \/ Restart
  <2>1. /\ UNCHANGED <<stored, given, behind, lapsed>>
        /\ keys' = keys \/ keys' = EmptyMap
    BY <1>1 DEF vars, RegisterPersistor, Restart
  <2>2. \A b : KeysOf(b)' = KeysOf(b)
    BY <2>1 DEF KeysOf
  <2>3. \A b \in AuthIds \ lapsed : LatestKept(b)'
    BY <2>1, <2>2 DEF KeyInv, LatestKept, HoldsLatest, EmptyMap
  <2> QED
    BY <2>1, <2>3 DEF KeyInv, MadeHere, EmptyMap
<1> QED
  BY <1>1, SetKeyInv, RemoveKeyInv, RemoveAllKeyInv, LoadKeyInv DEF Next

\* A ciphertext is decrypted with the key it was encrypted with or not at all,
\* for every number of keys and restarts, unless the latest key was removed or
\* a restart was followed by a set before a load, or by a load of a store that
\* had missed a change.
THEOREM AlwaysDecryptsOwn == Spec => []DecryptsOwn
<1>1. Init => KeyInv
  BY DEF Init, KeyInv, MadeHere, LatestKept, KeysOf, EmptyMap
<1>2. ASSUME IInv, KeyInv PROVE DecryptsOwn
  <2> SUFFICES ASSUME NEW g \in given, g.authId \notin lapsed,
                      Position(Listed(keys, g.authId), g.index) # 0
               PROVE  GetSessionKey(g.authId, g.index).key = g.key
    BY DEF DecryptsOwn
  <2> DEFINE a == g.authId
             list == Listed(keys, a)
             n == Position(list, g.index)
  <2>1. a \in AuthIds /\ g \in KeysOf(a)
    BY <1>2 DEF IInv, TypeOK, KeysOf
  <2>2. list \in Seq(SessionKey)
    BY <1>2, <2>1, IInvLists, ListedOK
  <2>3. n \in 1 .. Len(list) /\ list[n].index = g.index
    BY <2>2, PositionFound
  <2>4. a \in DOMAIN keys /\ list = keys[a]
    BY <2>3 DEF Listed
  <2>5. Given(a, list[n]) \in given
    BY <1>2, <2>2, <2>3, <2>4 DEF KeyInv, MadeHere
  <2>6. Given(a, list[n]) \in KeysOf(a) /\ Given(a, list[n]).index = g.index
        /\ Given(a, list[n]).key = list[n].key
    BY <2>3, <2>5 DEF KeysOf, Given
  <2>7. list[n].key = g.key
    BY <1>2, <2>1, <2>6 DEF KeyInv, LatestKept
  <2> QED
    BY <2>7 DEF GetSessionKey
<1>3. IInv /\ KeyInv /\ [Next]_vars => KeyInv'
  BY NextKeyInv
<1> QED
  BY <1>1, <1>2, <1>3, Invariance, PTL DEF Spec
=============================================================================
