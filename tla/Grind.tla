------------------------------- MODULE Grind --------------------------------
(***************************************************************************)
(* grind_nonce of crate signet-signer: threads try every Threads-th nonce, *)
(* from their own number on, until one finds a nonce that meets the target *)
(* or all nonces are used up.  They share a flag and a mutex.              *)
(*                                                                         *)
(* Abstracted: the hash.  Which nonces meet the target is a set chosen per *)
(* block.  The flag is read with relaxed ordering, so a read may miss a    *)
(* store of another thread.                                                *)
(***************************************************************************)
EXTENDS Naturals

CONSTANTS
    Threads,    \* number of threads
    MaxNonce    \* u32::MAX

ASSUME GrindAssumption ==
    /\ Threads \in Nat \ {0} /\ MaxNonce \in Nat
    /\ Threads <= MaxNonce + 1

VARIABLES
    valid,  \* nonces with which the header meets the target
    at,     \* per thread: where it is
    nonce,  \* per thread: the nonce it tries
    found,  \* the set that holds the nonce found, if any
    stop

grindVars == <<valid, at, nonce, found, stop>>

Thread == 0..(Threads - 1)
Nonce == 0..MaxNonce

GrindTypeOK ==
    /\ valid \in SUBSET Nonce
    /\ at \in [Thread -> {"check", "test", "store", "raise", "returned"}]
    /\ nonce \in [Thread -> Nonce]
    /\ found \in {{}} \cup {{n} : n \in Nonce}
    /\ stop \in BOOLEAN

\* No thread runs, or all are joined.
Joined == \A t \in Thread : at[t] = "returned"

GrindInit ==
    /\ valid = {} /\ found = {} /\ stop = FALSE
    /\ at = [t \in Thread |-> "returned"]
    /\ nonce = [t \in Thread |-> t]

Spawn(v) ==
    /\ Joined
    /\ valid' = v /\ found' = {} /\ stop' = FALSE
    /\ at' = [t \in Thread |-> "check"]
    /\ nonce' = [t \in Thread |-> t]

\* The process dies.
Kill ==
    /\ at' = [t \in Thread |-> "returned"]
    /\ valid' = {} /\ found' = {} /\ stop' = FALSE
    /\ nonce' = [t \in Thread |-> t]

Check(t) ==
    /\ at[t] = "check"
    /\ \/ stop /\ at' = [at EXCEPT ![t] = "returned"]
       \/ at' = [at EXCEPT ![t] = "test"]
    /\ UNCHANGED <<valid, nonce, found, stop>>

\* A mutant: the last nonce of a thread is never tried.
TestShort(t) ==
    /\ at[t] = "test"
    /\ IF nonce[t] \in valid
       THEN at' = [at EXCEPT ![t] = "store"] /\ UNCHANGED nonce
       ELSE IF nonce[t] + Threads < MaxNonce
            THEN /\ at' = [at EXCEPT ![t] = "check"]
                 /\ nonce' = [nonce EXCEPT ![t] = @ + Threads]
            ELSE at' = [at EXCEPT ![t] = "returned"] /\ UNCHANGED nonce
    /\ UNCHANGED <<valid, found, stop>>

\* checked_add ends the thread instead of overflowing.
Test(t) ==
    /\ at[t] = "test"
    /\ IF nonce[t] \in valid
       THEN at' = [at EXCEPT ![t] = "store"] /\ UNCHANGED nonce
       ELSE IF nonce[t] + Threads <= MaxNonce
            THEN /\ at' = [at EXCEPT ![t] = "check"]
                 /\ nonce' = [nonce EXCEPT ![t] = @ + Threads]
            ELSE at' = [at EXCEPT ![t] = "returned"] /\ UNCHANGED nonce
    /\ UNCHANGED <<valid, found, stop>>

Store(t) ==
    /\ at[t] = "store"
    /\ found' = {nonce[t]}
    /\ at' = [at EXCEPT ![t] = "raise"]
    /\ UNCHANGED <<valid, nonce, stop>>

Raise(t) ==
    /\ at[t] = "raise"
    /\ stop' = TRUE
    /\ at' = [at EXCEPT ![t] = "returned"]
    /\ UNCHANGED <<valid, nonce, found>>

GrindStep(t) == Check(t) \/ Test(t) \/ Store(t) \/ Raise(t)

-----------------------------------------------------------------------------

\* Once the threads are joined, the nonce they left meets the target, and
\* they leave none only if no nonce does, whichever threads found one and
\* whatever reads of the flag missed (signet.rs grind_nonce).
GrindSound ==
    Joined => found \subseteq valid /\ (found = {} => valid = {})
=============================================================================
