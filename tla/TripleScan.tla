----------------------------- MODULE TripleScan -----------------------------
(***************************************************************************)
(* next_lightning_ports and free_port_triple of crate signet-db: for every *)
(* requested instance the lowest free aligned triple of ports (REST, gRPC, *)
(* p2p), scanned from the bottom of the pool each time.  EnvStore counts   *)
(* triples, not ports, and takes them in one step; this module is why it   *)
(* may.                                                                    *)
(***************************************************************************)
EXTENDS Naturals, FiniteSets

CONSTANT TripleCalls    \* arguments: the pool, first ports held, triples wanted
ASSUME TripleCallsAssumption ==
    TripleCalls \subseteq [base: Nat, max: Nat, held: SUBSET Nat, triples: Nat]

VARIABLES
    tripleCall, \* the arguments
    allHeld,    \* ports held by live environments or by this call
    given,      \* first ports of the triples allocated so far
    left,       \* triples still to allocate
    p,          \* where free_port_triple looks
    triplePc

tripleVars == <<tripleCall, allHeld, given, left, p, triplePc>>

Triple(q) == {q, q + 1, q + 2}

\* A mutant: an aligned base is skipped.
FirstAbove(base) == base + (3 - (base % 3))

\* The lowest multiple of three from base on.
First(base) == base + ((3 - (base % 3)) % 3)

\* An instance holds its REST port and the two after it.
HeldPorts(starts) == UNION {Triple(q) : q \in starts}

TripleInit ==
    /\ tripleCall \in TripleCalls
    /\ allHeld = HeldPorts(tripleCall.held)
    /\ given = {}
    /\ left = tripleCall.triples
    /\ p = First(tripleCall.base)
    /\ triplePc = "scan"

\* A mutant: only the REST port is looked at.
FreeRest(q) == q \notin allHeld

Free(q) == Triple(q) \cap allHeld = {}

Fits(q) == q + 2 <= tripleCall.max

\* A mutant: what this call hands out is not held against the next triple.
TakeForgetting ==
    /\ triplePc = "scan" /\ left > 0 /\ Fits(p) /\ Free(p)
    /\ given' = given \cup {p}
    /\ left' = left - 1
    /\ p' = First(tripleCall.base)
    /\ UNCHANGED <<tripleCall, allHeld, triplePc>>

Take ==
    /\ triplePc = "scan" /\ left > 0 /\ Fits(p) /\ Free(p)
    /\ allHeld' = allHeld \cup Triple(p)
    /\ given' = given \cup {p}
    /\ left' = left - 1
    /\ p' = First(tripleCall.base)
    /\ UNCHANGED <<tripleCall, triplePc>>

\* A mutant: the scan does not move.
AdvanceStuck ==
    /\ triplePc = "scan" /\ left > 0 /\ Fits(p) /\ ~Free(p)
    /\ p' = p
    /\ UNCHANGED <<tripleCall, allHeld, given, left, triplePc>>

Advance ==
    /\ triplePc = "scan" /\ left > 0 /\ Fits(p) /\ ~Free(p)
    /\ p' = p + 3
    /\ UNCHANGED <<tripleCall, allHeld, given, left, triplePc>>

Exhausted ==
    /\ triplePc = "scan" /\ left > 0 /\ ~Fits(p)
    /\ triplePc' = "exhausted"
    /\ UNCHANGED <<tripleCall, allHeld, given, left, p>>

Return ==
    /\ triplePc = "scan" /\ left = 0
    /\ triplePc' = "done"
    /\ UNCHANGED <<tripleCall, allHeld, given, left, p>>

TripleNext == Take \/ Advance \/ Exhausted \/ Return

TripleSpec == TripleInit /\ [][TripleNext]_tripleVars
TripleFairSpec == TripleSpec /\ WF_tripleVars(TripleNext)

-----------------------------------------------------------------------------

Aligned(q) == q % 3 = 0 /\ q >= tripleCall.base /\ q + 2 <= tripleCall.max

\* Every triple handed out lies in the pool, aligned, and shares no port with
\* an instance of a live environment or with another triple of the call
\* (lib.rs free_port_triple, and the pushes of next_lightning_ports).
TriplesFit ==
    \A q \in given :
        /\ Aligned(q)
        /\ Triple(q) \cap HeldPorts(tripleCall.held) = {}
        /\ \A o \in given \ {q} : Triple(q) \cap Triple(o) = {}

\* The call gives one triple per requested instance, or reports an exhausted
\* pool, and then only if no aligned triple of the pool is left (lib.rs
\* next_lightning_ports).
AllOrExhausted ==
    /\ triplePc = "done" => Cardinality(given) = tripleCall.triples
    /\ triplePc = "exhausted" => \A q \in tripleCall.base..tripleCall.max : Aligned(q) => ~Free(q)

\* No triple is skipped: every aligned triple below one that was handed out
\* is held or was handed out too, so a released triple is used again
\* (lib.rs free_port_triple).
LowestFirst ==
    \A q \in given : \A o \in tripleCall.base..(q - 1) : o % 3 = 0 => ~Free(o)

\* The call comes to an end (lib.rs, both loops).
CallEnds == <>(triplePc \in {"done", "exhausted"})
=============================================================================
