------------------------------ MODULE TTLStore ------------------------------
(***************************************************************************)
(* What MCPSessionManager promises its callers, with no sweep, no ticker   *)
(* and no locks: a map from session ids to data whose entries survive as   *)
(* long as they are used, and may disappear only once they have been idle  *)
(* for longer than the TTL, or when a caller deletes them.                 *)
(***************************************************************************)
EXTENDS Integers

CONSTANTS
    Ids,        \* session ids
    Values,     \* data a caller may store
    Empty,      \* the map a new session starts with
    TTL         \* idle time a session survives

VARIABLES
    live,       \* ids present in the map
    age,        \* time since last access, not told apart beyond TTL + 1
    data        \* stored data

store == <<live, age, data>>

Overdue == {id \in live : age[id] > TTL}

Init ==
    /\ live = {}
    /\ age  = [id \in Ids |-> 0]
    /\ data = [id \in Ids |-> Empty]

\* A new session; the id may shadow an old one only where ids repeat.
Create(id) ==
    /\ live' = live \union {id}
    /\ age'  = [age EXCEPT ![id] = 0]
    /\ data' = [data EXCEPT ![id] = Empty]

Touch(id) ==
    /\ id \in live
    /\ age' = [age EXCEPT ![id] = 0]
    /\ UNCHANGED <<live, data>>

Put(id, v) ==
    /\ id \in live
    /\ age'  = [age EXCEPT ![id] = 0]
    /\ data' = [data EXCEPT ![id] = v]
    /\ UNCHANGED live

Forget(S) ==
    /\ live' = live \ S
    /\ age'  = [id \in Ids |-> IF id \in S THEN 0 ELSE age[id]]
    /\ data' = [id \in Ids |-> IF id \in S THEN Empty ELSE data[id]]

Delete(id) == Forget({id})

\* The only unasked-for removal: sessions idle for longer than the TTL.
Expire(S) == S \subseteq Overdue /\ Forget(S)

Elapse ==
    /\ age' = [id \in Ids |-> IF id \in live /\ age[id] <= TTL
                              THEN age[id] + 1 ELSE age[id]]
    /\ UNCHANGED <<live, data>>

Next ==
    \/ Elapse
    \/ \E id \in Ids : Create(id) \/ Touch(id) \/ Delete(id)
    \/ \E id \in Ids, v \in Values : Put(id, v)
    \/ \E S \in SUBSET Ids : Expire(S)

Spec == Init /\ [][Next]_store
=============================================================================
