------------------------------ MODULE Registry ------------------------------
(***************************************************************************)
(* What the store promises about names, without saying how: a name is held *)
(* by one record at a time, a record takes its name once in its life, and  *)
(* the name passes on only from a record that is dead.  Sandbox implements *)
(* it (NamesLeased there) with a lookup, a purge and an insert that are    *)
(* separate statements of separate requests.                               *)
(***************************************************************************)
CONSTANTS
    Id,         \* ids of records
    Key,        \* what a record holds: an owner and a name
    Nobody      \* no key

VARIABLES
    key,        \* per id, the key it holds
    dead,       \* records whose key may be taken from them
    spent       \* ids that have held a key

leaseVars == <<key, dead, spent>>

Holders == {e \in Id : key[e] # Nobody}

LeaseInit ==
    /\ key = [e \in Id |-> Nobody]
    /\ dead = {}
    /\ spent = {}

Claim(e, k) ==
    /\ e \notin spent
    /\ \A f \in Id : key[f] # k
    /\ key' = [key EXCEPT ![e] = k]
    /\ spent' = spent \cup {e}
    /\ UNCHANGED dead

\* Records die, several at once when they share a namespace, and revive.
Turn ==
    /\ dead' \in SUBSET Holders
    /\ UNCHANGED <<key, spent>>

Release(e) ==
    /\ e \in dead
    /\ key' = [key EXCEPT ![e] = Nobody]
    /\ dead' = dead \ {e}
    /\ UNCHANGED spent

LeaseNext ==
    \/ \E e \in Id : Release(e) \/ \E k \in Key : Claim(e, k)
    \/ Turn

LeaseSpec == LeaseInit /\ [][LeaseNext]_leaseVars
=============================================================================
