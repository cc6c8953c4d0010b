---------------------------- MODULE SessionKeys ----------------------------
(***************************************************************************)
(* SessionKeyManager (pkg/authentication/session_key_manager.go): the      *)
(* session keys of each authId, found by the index that Encrypt writes in  *)
(* front of a ciphertext, and the optional SessionKeyPersistor whose       *)
(* failures are only logged.                                               *)
(*                                                                         *)
(* Every operation is one critical section of the manager's lock and one   *)
(* action.  HiChain derives a fresh key for every SetSessionKey, so a key  *)
(* is named by the number of the call that brought it.                     *)
(***************************************************************************)
EXTENDS Naturals, Sequences, SequencesExt, GoMaps

CONSTANTS
    AuthIds,
    MaxIndex,     \* the largest int32
    MaxSets       \* bound: calls of SetSessionKey, so few that no index wraps

ASSUME SessionKeysAssumption ==
    /\ MaxIndex \in Nat
    /\ MaxSets \in Nat
    /\ MaxSets <= MaxIndex

VARIABLES
    keys,        \* authId -> list of [index, key]
    persistor,   \* "none" or "registered"
    stored,      \* what the persistor holds: authId -> list
    sets,        \* how often SetSessionKey was called
    given,       \* every [authId, index, key] that SetSessionKey returned
    behind,      \* authIds whose stored list missed a change of the memory
    lapsed       \* authIds whose latest key was removed, or lost by a restart

vars == <<keys, persistor, stored, sets, given, behind, lapsed>>

Keys == 0 .. MaxSets - 1
SessionKey == [index : 0 .. MaxIndex, key : Keys]

\* The list of an authId in memory or in the store; a missing one is empty.
Listed(map, a) == IF a \in DOMAIN map THEN map[a] ELSE <<>>

\* Position of the first key with this index, 0 if there is none.
Position(list, index) == SelectInSeq(list, LAMBDA k : k.index = index)

\* Mutant: the index is the number of keys.
CountIndex(list) == Len(list)
NextIndex(list) == IF list = <<>> THEN 0 ELSE Last(list).index + 1

\* GetSessionKey and Decrypt look an index up.
GetSessionKey(a, index) == Listed(keys, a)[Position(Listed(keys, a), index)]

Init ==
    /\ keys = EmptyMap
    /\ persistor = "none"
    /\ stored = EmptyMap
    /\ sets = 0
    /\ given = {}
    /\ behind = {}
    /\ lapsed = {}

-----------------------------------------------------------------------------
\* A change is passed on to the persistor, if there is one; an error is
\* logged and the memory keeps its change.
Persist(a, newStored) ==
    \/ /\ persistor = "registered"
       /\ stored' = newStored
       /\ behind' = behind \ {a}
    \/ UNCHANGED stored /\ behind' = behind \cup {a}

\* Mutant: what is saved is the list from before the change.
SaveBefore(a, list) == Persist(a, Put(stored, a, Listed(keys, a)))
Save(a, list) == Persist(a, Put(stored, a, list))
Delete(a) == Persist(a, Del(stored, a))

Given(a, k) == [authId |-> a, index |-> k.index, key |-> k.key]
KeysOf(a) == {g \in given : g.authId = a}

Lapse(a, lost) == lapsed' = IF lost THEN lapsed \cup {a} ELSE lapsed

RegisterPersistor ==
    /\ persistor' = "registered"
    /\ UNCHANGED <<keys, stored, sets, given, behind, lapsed>>

SetSessionKey(a) ==
    LET list == Listed(keys, a)
        new  == [index |-> NextIndex(list), key |-> sets]
    IN  /\ sets < MaxSets
        /\ sets' = sets + 1
        /\ keys' = Put(keys, a, Append(list, new))
        /\ given' = given \cup {Given(a, new)}
        /\ Save(a, Append(list, new))
        /\ Lapse(a, a \notin DOMAIN keys /\ KeysOf(a) # {})
        /\ UNCHANGED persistor

RemoveSessionKey(a, index) ==
    LET list == Listed(keys, a)
        rest == RemoveAt(list, Position(list, index))
    IN  /\ Position(list, index) # 0
        /\ keys' = Put(keys, a, rest)
        /\ Save(a, rest)
        /\ Lapse(a, index = Last(list).index)
        /\ UNCHANGED <<persistor, sets, given>>

RemoveAllSessionKeys(a) ==
    /\ keys' = Del(keys, a)
    /\ Delete(a)
    /\ Lapse(a, TRUE)
    /\ UNCHANGED <<persistor, sets, given>>

\* Load fails when it has nothing for the authId, and when it fails.
LoadFromPersistor(a) ==
    /\ persistor = "registered"
    /\ a \in DOMAIN stored
    /\ keys' = Put(keys, a, stored[a])
    /\ behind' = behind \ {a}
    /\ Lapse(a, a \in behind)
    /\ UNCHANGED <<persistor, stored, sets, given>>

\* The process ends, possibly between a change and its Save (which is a Save
\* that failed), and starts anew with an empty manager.
Restart ==
    /\ keys' = EmptyMap
    /\ persistor' = "none"
    /\ UNCHANGED <<stored, sets, given, behind, lapsed>>

Next ==
    \/ RegisterPersistor
    \/ Restart
    \/ \E a \in AuthIds :
        \/ SetSessionKey(a)
        \/ RemoveAllSessionKeys(a)
        \/ LoadFromPersistor(a)
        \/ \E index \in 0 .. MaxIndex : RemoveSessionKey(a, index)

Spec == Init /\ [][Next]_vars

-----------------------------------------------------------------------------
TypeOK ==
    /\ IsMap(keys, AuthIds, Seq(SessionKey))
    /\ persistor \in {"none", "registered"}
    /\ IsMap(stored, AuthIds, Seq(SessionKey))
    /\ sets \in 0 .. MaxSets
    /\ given \subseteq [authId : AuthIds, index : 0 .. MaxIndex, key : Keys]
    /\ behind \subseteq AuthIds
    /\ lapsed \subseteq AuthIds

Increasing(list) ==
    \A i, j \in DOMAIN list : i < j => list[i].index < list[j].index

\* The last key of a list has the largest index, as GetLatestSessionKey
\* assumes (line 171), and no index occurs twice: also after keys in the
\* middle were removed and after the list was loaded again.
Ascending == \A a \in AuthIds : Increasing(Listed(keys, a))

\* What Encrypt did with a key, Decrypt undoes with this key or not at all:
\* its index leads to no other one, through removals, failed saves and
\* restarts, as long as the latest key is not removed and, after a restart,
\* the keys come back from a store that has missed none before one is set.
DecryptsOwn ==
    \A g \in given :
        g.authId \notin lapsed /\ Position(Listed(keys, g.authId), g.index) # 0
            => GetSessionKey(g.authId, g.index).key = g.key

\* The invariant behind Ascending: an index is at most the number of keys
\* that were ever set, in memory and in the store.
ListOK(list, n) ==
    /\ Increasing(list)
    /\ \A i \in DOMAIN list : list[i].index < n /\ list[i].key < n

IInv ==
    /\ TypeOK
    /\ \A a \in DOMAIN keys : ListOK(keys[a], sets)
    /\ \A a \in DOMAIN stored : ListOK(stored[a], sets)

\* The invariant behind DecryptsOwn: lists hold what SetSessionKey made, and
\* the latest key is the last in memory, and in a store that has missed
\* nothing.
MadeHere(map) ==
    \A a \in DOMAIN map : \A i \in DOMAIN map[a] : Given(a, map[a][i]) \in given

HoldsLatest(map, a) ==
    /\ a \in DOMAIN map /\ map[a] # <<>>
    /\ \A g \in KeysOf(a) : g.index <= Last(map[a]).index

LatestKept(a) ==
    /\ KeysOf(a) # {} =>
         /\ a \in DOMAIN keys => HoldsLatest(keys, a)
         /\ a \notin behind => HoldsLatest(stored, a)
    /\ \A g, h \in KeysOf(a) : g.index = h.index => g.key = h.key

KeyInv ==
    /\ MadeHere(keys) /\ MadeHere(stored)
    /\ \A a \in AuthIds \ lapsed : LatestKept(a)

-----------------------------------------------------------------------------
\* The comment at lines 70-71 says that indices are incremented and that
\* every call makes a new record: so an index names one key.
IndexNamesOneKey ==
    \A g, h \in given :
        g.authId = h.authId /\ g.index = h.index => g.key = h.key
=============================================================================
