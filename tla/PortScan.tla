------------------------------ MODULE PortScan ------------------------------
(***************************************************************************)
(* lowest_free_port of crate signet-db: one pass over the sorted, distinct *)
(* held ports with a candidate that moves up.  EnvStore takes its answer   *)
(* as an atomic choice; this module is why it may.                         *)
(*                                                                         *)
(* A sorted, distinct vector is the set of its elements, taken from below. *)
(***************************************************************************)
EXTENDS Naturals

CONSTANT PortCalls  \* arguments the function is called with
ASSUME PortCallsAssumption ==
    PortCalls \subseteq [base: Nat, max: Nat, held: SUBSET Nat]

VARIABLES
    portCall,   \* the arguments
    taken,      \* held ports the loop has not looked at
    candidate,  \* everything below it, from base, is held
    portPc,
    answer      \* the port, or nothing

portVars == <<portCall, taken, candidate, portPc, answer>>

LowestFree(c) ==
    LET free == (c.base..c.max) \ c.held
    IN  {p \in free : \A q \in free : p <= q}

PortInit ==
    /\ portCall \in PortCalls
    /\ taken = portCall.held
    /\ candidate = portCall.base
    /\ portPc = IF portCall.base > portCall.max THEN "done" ELSE "scan"
    /\ answer = {}

IsNext(port) == port \in taken /\ \A q \in taken : port <= q

\* A held port below the candidate is passed over.
Skip ==
    /\ portPc = "scan"
    /\ \E port \in taken :
          IsNext(port) /\ port < candidate /\ taken' = taken \ {port}
    /\ UNCHANGED <<portCall, candidate, portPc, answer>>

\* The candidate is held: try the next.
Bump ==
    /\ portPc = "scan"
    /\ \E port \in taken :
          IsNext(port) /\ port = candidate /\ taken' = taken \ {port}
    /\ candidate' = candidate + 1
    /\ UNCHANGED <<portCall, portPc, answer>>

\* A mutant: the last port of the pool is never handed out.
FinishExclusive ==
    /\ portPc = "scan"
    /\ taken = {} \/ \E port \in taken : IsNext(port) /\ port > candidate
    /\ answer' = IF candidate < portCall.max THEN {candidate} ELSE {}
    /\ portPc' = "done"
    /\ UNCHANGED <<portCall, taken, candidate>>

\* A gap, or the end of the held ports.
Finish ==
    /\ portPc = "scan"
    /\ taken = {} \/ \E port \in taken : IsNext(port) /\ port > candidate
    /\ answer' = IF candidate <= portCall.max THEN {candidate} ELSE {}
    /\ portPc' = "done"
    /\ UNCHANGED <<portCall, taken, candidate>>

PortNext == Skip \/ Bump \/ Finish

PortSpec == PortInit /\ [][PortNext]_portVars
PortFairSpec == PortSpec /\ WF_portVars(PortNext)

-----------------------------------------------------------------------------

\* The scan answers with the lowest port of [base, max] that is not held, and
\* with nothing exactly when there is none, whatever ports outside the pool
\* are among the held ones (lib.rs lowest_free_port; next_electrum_port and
\* next_explorer_port rest on it).
Answered == portPc = "done" => answer = LowestFree(portCall)

\* The scan comes to an end (lib.rs lowest_free_port's loop).
ScanEnds == <>(portPc = "done")
=============================================================================
