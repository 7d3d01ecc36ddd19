---------------------------- MODULE SignerProofs ----------------------------
(***************************************************************************)
(* Theorems about Signer, for any number of threads, any range of nonces,  *)
(* any premine and any number of failures.                                 *)
(***************************************************************************)
EXTENDS Signer, TLAPS

(* Which nonces a thread tries. *)

Own(t, n) == \E k \in Nat : n = k * Threads + t

\* Every nonce is some thread's.
LEMMA HasOwner ==
    ASSUME NEW n \in Nat
    PROVE  \E t \in Thread : Own(t, n)
<1> DEFINE t == n % Threads
<1>1. n = Threads * (n \div Threads) + t /\ n \div Threads \in Nat /\ t \in Thread
  BY GrindAssumption DEF Thread
<1>2. n = (n \div Threads) * Threads + t
  BY <1>1, GrindAssumption DEF Thread
<1> QED BY <1>1, <1>2 DEF Own

\* A thread's next nonce is its own, and it skips none.
LEMMA NextOwned ==
    ASSUME NEW t \in Thread, NEW m \in Nat, Own(t, m)
    PROVE  /\ Own(t, m + Threads)
           /\ \A n \in Nat : Own(t, n) /\ m < n => m + Threads <= n
<1>1. PICK j \in Nat : m = j * Threads + t
  BY DEF Own
<1>2. m + Threads = (j + 1) * Threads + t
  BY <1>1, GrindAssumption DEF Thread
<1>3. ASSUME NEW n \in Nat, Own(t, n), m < n PROVE m + Threads <= n
  <2>1. PICK k \in Nat : n = k * Threads + t
    BY <1>3 DEF Own
  <2>2. j * Threads \in Nat /\ k * Threads \in Nat /\ Threads \in Nat /\ t \in Nat
    BY GrindAssumption DEF Thread
  <2>3. j * Threads < k * Threads
    BY <1>1, <1>3, <2>1, <2>2
  <2>4. j < k
    BY <2>3, GrindAssumption
  <2>5. PICK d \in Nat : k = (j + 1) + d
    BY <2>4
  <2>6. k * Threads = (j + 1) * Threads + d * Threads /\ d * Threads \in Nat
    BY <2>5, GrindAssumption
  <2> QED BY <1>2, <2>1, <2>2, <2>6
<1> QED BY <1>2, <1>3 DEF Own

-----------------------------------------------------------------------------
(* The search for a nonce. *)

\* What a thread has passed does not meet the target; one that has returned
\* has passed everything, unless something was found.
GrindInv ==
    /\ GrindTypeOK
    /\ found \subseteq valid
    /\ stop => found # {}
    /\ \A t \in Thread :
          /\ Own(t, nonce[t])
          /\ at[t] = "store" => nonce[t] \in valid
          /\ at[t] = "raise" => found # {}
          /\ \A n \in valid : Own(t, n) => nonce[t] <= n
          /\ at[t] = "returned" /\ found = {} => \A n \in valid : ~Own(t, n)

\* The invariant says what a joined search promises.
LEMMA GrindConcludes == GrindInv => GrindSound
<1> SUFFICES ASSUME GrindInv, Joined PROVE found \subseteq valid /\ (found = {} => valid = {})
  BY DEF GrindSound
<1>1. ASSUME found = {}, NEW n \in valid PROVE FALSE
  <2>1. PICK t \in Thread : Own(t, n)
    BY HasOwner DEF GrindInv, GrindTypeOK, Nonce
  <2> QED BY <1>1, <2>1 DEF GrindInv, Joined
<1> QED BY <1>1 DEF GrindInv

\* No thread is past its first nonce.
LEMMA Fresh ==
    ASSUME NEW t \in Thread
    PROVE  /\ t \in Nonce /\ Own(t, t)
           /\ \A n \in Nat : Own(t, n) => t <= n
<1>1. t = 0 * Threads + t
  BY GrindAssumption DEF Thread
<1>2. ASSUME NEW k \in Nat PROVE t <= k * Threads + t
  <2>1. k * Threads \in Nat
    BY GrindAssumption
  <2> QED BY <2>1 DEF Thread
<1> QED BY <1>1, <1>2, GrindAssumption DEF Own, Thread, Nonce

\* A search starts, or ends with its process, in the invariant.
LEMMA GrindStarts ==
    /\ GrindInit => GrindInv
    /\ Kill => GrindInv'
    /\ \A v \in SUBSET Nonce : Spawn(v) => GrindInv'
<1>1. ASSUME GrindInit PROVE GrindInv
  BY <1>1, Fresh DEF GrindInit, GrindInv, GrindTypeOK
<1>2. ASSUME Kill PROVE GrindInv'
  BY <1>2, Fresh DEF Kill, GrindInv, GrindTypeOK
<1>3. ASSUME NEW v \in SUBSET Nonce, Spawn(v) PROVE GrindInv'
  <2>1. \A n \in v : n \in Nat
    BY DEF Nonce
  <2>2. \A t \in Thread : nonce'[t] = t /\ at'[t] = "check"
    BY <1>3 DEF Spawn
  <2>3. GrindTypeOK'
    BY <1>3, Fresh DEF Spawn, GrindTypeOK
  <2> QED BY <1>3, <2>1, <2>2, <2>3, Fresh DEF Spawn, GrindInv
<1> QED BY <1>1, <1>2, <1>3

\* Every step of a thread keeps the invariant.
LEMMA GrindKeeps ==
    ASSUME GrindInv, NEW t \in Thread, GrindStep(t)
    PROVE  GrindInv'
<1>t. GrindTypeOK
  BY DEF GrindInv
<1>1. CASE Check(t)
  BY <1>t, <1>1 DEF Check, GrindInv, GrindTypeOK
<1>2. CASE Test(t)
  <2>1. CASE nonce[t] \in valid
    BY <1>t, <1>2, <2>1 DEF Test, GrindInv, GrindTypeOK
  <2>2. CASE nonce[t] \notin valid
    <3>n. nonce[t] \in Nat /\ Own(t, nonce[t]) /\ Threads \in Nat /\ MaxNonce \in Nat
      BY <1>t, GrindAssumption DEF GrindTypeOK, Nonce, GrindInv
    <3>1. \A n \in valid : n \in Nat /\ n <= MaxNonce
      BY <1>t, GrindAssumption DEF GrindTypeOK, Nonce
    <3>2. \A n \in valid : Own(t, n) => nonce[t] + Threads <= n
      BY <2>2, <3>n, <3>1, NextOwned DEF GrindInv
    <3>3. CASE nonce[t] + Threads <= MaxNonce
      <4>1. nonce[t] + Threads \in Nonce /\ Own(t, nonce[t] + Threads)
        BY <3>n, <3>3, NextOwned DEF Nonce
      <4>2. nonce' = [nonce EXCEPT ![t] = @ + Threads] /\ at' = [at EXCEPT ![t] = "check"]
            /\ UNCHANGED <<valid, found, stop>>
        BY <1>2, <2>2, <3>3 DEF Test
      <4> QED BY <1>t, <3>2, <4>1, <4>2 DEF GrindInv, GrindTypeOK
    <3>4. CASE ~(nonce[t] + Threads <= MaxNonce)
      <4>1. \A n \in valid : ~Own(t, n)
        BY <3>n, <3>1, <3>2, <3>4
      <4>2. at' = [at EXCEPT ![t] = "returned"] /\ UNCHANGED <<nonce, valid, found, stop>>
        BY <1>2, <2>2, <3>4 DEF Test
      <4> QED BY <1>t, <4>1, <4>2 DEF GrindInv, GrindTypeOK
    <3> QED BY <3>3, <3>4
  <2> QED BY <2>1, <2>2
<1>3. CASE Store(t)
  BY <1>t, <1>3 DEF Store, GrindInv, GrindTypeOK
<1>4. CASE Raise(t)
  BY <1>t, <1>4 DEF Raise, GrindInv, GrindTypeOK
<1> QED BY <1>1, <1>2, <1>3, <1>4 DEF GrindStep

\* Once the threads are joined the nonce they left meets the target, and they
\* leave none only if there is none, for any number of threads and whichever
\* reads of the flag miss its store (signet.rs grind_nonce).
THEOREM SearchSound == Spec => []GrindSound
<1>1. Init => GrindInv
  BY GrindStarts DEF Init
<1>2. GrindInv /\ [Next]_vars => GrindInv'
  <2> SUFFICES ASSUME GrindInv, [Next]_vars PROVE GrindInv'
    OBVIOUS
  <2>1. CASE UNCHANGED grindVars
    BY <2>1 DEF grindVars, GrindInv, GrindTypeOK
  <2>2. CASE \E v \in SUBSET Nonce : Spawn(v)
    BY <2>2, GrindStarts
  <2>3. CASE Kill
    BY <2>3, GrindStarts
  <2>4. CASE \E t \in Thread : GrindStep(t)
    BY <2>4, GrindKeeps
  <2>5. UNCHANGED grindVars \/ (\E v \in SUBSET Nonce : Spawn(v)) \/ Kill
        \/ \E t \in Thread : GrindStep(t)
    BY DEF Next, Loop, Tick, GetInfo, GetWalletInfo, CreateWallet, GetAddress, GetTemplate,
       Assembled, Submit, CallFails, Grinding, NodeDies, NodeStarts, SignerDies, WireLands,
       vars
  <2> QED BY <2>1, <2>2, <2>3, <2>4, <2>5
<1> QED BY <1>1, <1>2, GrindConcludes, PTL DEF Spec

-----------------------------------------------------------------------------
(* The pace of the loop. *)

\* The loop has asked for the height, and not come back yet.
Late == signer.pc \notin {"tick", "info"}

\* The signer knows the height but for one block at most: one submission of a
\* predecessor can land while it is at work, for those that could extend the
\* chain further would have to know that block.
PaceInv ==
    /\ SignerTypeOK
    /\ signer.blocks <= node.height
    /\ \A w \in wire : w <= node.height
    /\ Late => /\ node.height <= signer.blocks + 1
               /\ \A w \in wire : w <= signer.blocks
    /\ signer.pc \in {"grind", "submit"} => signer.prev <= node.height
    /\ signer.delay = "quick" =>
          /\ At("tick") /\ node.height <= Premine
          /\ \A w \in wire : w < node.height

\* Every step keeps the invariant of the pace.
LEMMA PaceStep == PaceInv /\ [Next]_vars => PaceInv'
<1> SUFFICES ASSUME PaceInv, [Next]_vars PROVE PaceInv'
  OBVIOUS
<1>t. SignerTypeOK /\ Premine \in Nat /\ MaxHeight \in Nat /\ MaxFaults \in Nat
  BY SignerAssumption DEF PaceInv
<1> USE DEF Height, Late, At, Goto, NoFault
<1>1. CASE Tick
  BY <1>t, <1>1 DEF Tick, PaceInv, SignerTypeOK
<1>2. CASE GetInfo
  <2>1. CASE ~node.up
    BY <1>t, <1>2, <2>1 DEF GetInfo, PaceInv, SignerTypeOK
  <2>2. CASE node.up
    <3>1. PICK pc \in {"template", "walletinfo"} :
            signer' = [signer EXCEPT !.blocks = node.height, !.pc = pc]
      BY <1>2, <2>2 DEF GetInfo
    <3>2. signer' = [pc |-> pc, spk |-> signer.spk, blocks |-> node.height,
                     prev |-> signer.prev, delay |-> signer.delay]
      BY <1>t, <3>1 DEF SignerTypeOK
    <3> QED BY <1>t, <1>2, <3>2 DEF GetInfo, PaceInv, SignerTypeOK
  <2> QED BY <2>1, <2>2
<1>3. CASE GetWalletInfo
  BY <1>t, <1>3 DEF GetWalletInfo, PaceInv, SignerTypeOK
<1>4. CASE CreateWallet
  BY <1>t, <1>4 DEF CreateWallet, Fault, PaceInv, SignerTypeOK
<1>5. CASE GetAddress
  BY <1>t, <1>5 DEF GetAddress, PaceInv, SignerTypeOK
<1>6. CASE GetTemplate
  <2>1. CASE ~node.up
    BY <1>t, <1>6, <2>1 DEF GetTemplate, PaceInv, SignerTypeOK
  <2>2. CASE node.up
    <3>1. /\ signer' = [signer EXCEPT !.prev = node.height, !.pc = "grind"]
          /\ faults' = faults \/ Fault
      BY <1>6, <2>2 DEF GetTemplate
    <3>2. signer' = [pc |-> "grind", spk |-> signer.spk, blocks |-> signer.blocks,
                     prev |-> node.height, delay |-> signer.delay]
      BY <1>t, <3>1 DEF SignerTypeOK
    <3>3. faults' \in 0..MaxFaults
      BY <1>t, <3>1 DEF Fault, SignerTypeOK
    <3> QED BY <1>t, <1>6, <3>2, <3>3 DEF GetTemplate, PaceInv, SignerTypeOK
  <2> QED BY <2>1, <2>2
<1>7. CASE Assembled
  BY <1>t, <1>7 DEF Assembled, PaceInv, SignerTypeOK
<1>8. CASE Submit
  <2>1. CASE ~Extends(signer.prev)
    BY <1>t, <1>8, <2>1 DEF Submit, PaceInv, SignerTypeOK
  <2>2. CASE Extends(signer.prev)
    <3>1. PICK delay \in {"quick", "interval"} :
            /\ signer' = [signer EXCEPT !.pc = "tick", !.delay = delay]
            /\ delay = "quick" => signer.blocks + 1 < Premine
      <4>1. CASE Fault /\ Goto("tick")
        <5>1. signer.delay = "interval"
          BY <1>t, <1>8 DEF Submit, PaceInv, SignerTypeOK
        <5> QED BY <1>t, <4>1, <5>1 DEF SignerTypeOK
      <4> QED BY <1>8, <2>2, <4>1 DEF Submit, NextDelay
    <3>2. signer' = [pc |-> "tick", spk |-> signer.spk, blocks |-> signer.blocks,
                     prev |-> signer.prev, delay |-> delay]
      BY <1>t, <3>1 DEF SignerTypeOK
    <3>3. node' = [up |-> node.up, height |-> node.height + 1, wallet |-> node.wallet]
          /\ node.height < MaxHeight
      BY <1>t, <1>8, <2>2 DEF Submit, Extends, Extended, SignerTypeOK
    <3>4. faults' \in 0..MaxFaults
      BY <1>t, <1>8 DEF Submit, Fault, SignerTypeOK
    <3> QED BY <1>t, <1>8, <3>1, <3>2, <3>3, <3>4 DEF Submit, PaceInv, SignerTypeOK
  <2> QED BY <2>1, <2>2
<1>9. CASE CallFails
  BY <1>t, <1>9 DEF CallFails, Fault, PaceInv, SignerTypeOK
<1>10. CASE NodeDies
  <2>1. PICK w \in {"none", "unloaded"} :
          node' = [node EXCEPT !.up = FALSE, !.wallet = w]
    BY <1>10 DEF NodeDies
  <2>2. node' = [up |-> FALSE, height |-> node.height, wallet |-> w]
    BY <1>t, <2>1 DEF SignerTypeOK
  <2>3. faults' \in 0..MaxFaults /\ wire' = {} /\ signer' = signer
    BY <1>t, <1>10 DEF NodeDies, Fault, SignerTypeOK
  <2>4. node'.height = node.height /\ SignerTypeOK'
    BY <1>t, <2>2, <2>3 DEF SignerTypeOK
  <2> QED BY <2>3, <2>4 DEF PaceInv
<1>11. CASE NodeStarts
  BY <1>t, <1>11 DEF NodeStarts, PaceInv, SignerTypeOK
<1>12. CASE SignerDies
  <2>1. wire' \in SUBSET Height /\ \A w \in wire' : w <= node.height
    BY <1>t, <1>12 DEF SignerDies, PaceInv, SignerTypeOK
  <2>2. faults' \in 0..MaxFaults
    BY <1>t, <1>12 DEF SignerDies, Fault, SignerTypeOK
  <2> QED BY <1>t, <1>12, <2>1, <2>2 DEF SignerDies, Started, PaceInv, SignerTypeOK
<1>13. CASE WireLands
  BY <1>t, <1>13 DEF WireLands, Extends, Extended, PaceInv, SignerTypeOK
<1>14. CASE (\E t \in Thread : Grinding(t)) \/ UNCHANGED vars
  BY <1>t, <1>14 DEF Grinding, vars, signerVars, PaceInv, SignerTypeOK
<1> QED BY <1>1, <1>2, <1>3, <1>4, <1>5, <1>6, <1>7, <1>8, <1>9, <1>10, <1>11, <1>12, <1>13,
           <1>14 DEF Next, Loop

\* The signer is quick only while the chain is no longer than the premine,
\* whichever process dies and whichever submission lands late (main.rs run).
THEOREM QuickOnlyForPremine == Spec => []PaceKept
<1>1. Init => PaceInv
  BY SignerAssumption DEF Init, Started, PaceInv, SignerTypeOK, Late, At, Height
<1>2. PaceInv => PaceKept
  BY DEF PaceInv, PaceKept
<1> QED BY <1>1, <1>2, PaceStep, PTL DEF Spec
=============================================================================
