----------------------------- MODULE CallProofs ------------------------------
(***************************************************************************)
(* What happens on the way to an environment apart from its records is     *)
(* right for every input: the scans that allocate ports, the versions and  *)
(* components of a create, the admission of a request.                     *)
(***************************************************************************)
EXTENDS PortScan, TripleScan, Catalog, Auth, FiniteSetTheorems, WellFoundedInduction, TLAPS

-----------------------------------------------------------------------------
(* The scan of lowest_free_port, for every pool and held vector. *)

\* What the loop keeps: everything from base up to the candidate is held, and
\* what was looked at lies below the candidate.
PortInv ==
    /\ portCall \in PortCalls /\ portPc \in {"scan", "done"}
    /\ taken \subseteq portCall.held
    /\ candidate \in Nat /\ candidate >= portCall.base
    /\ \A q \in portCall.base..(candidate - 1) : q \in portCall.held
    /\ \A q \in portCall.held \ taken : q < candidate
    /\ Answered

\* The arguments are numbers.
LEMMA PortCallTyped ==
    ASSUME portCall \in PortCalls
    PROVE  portCall.base \in Nat /\ portCall.max \in Nat /\ portCall.held \subseteq Nat
BY PortCallsAssumption

\* A candidate that is not held, with everything below it held, is the answer.
LEMMA CandidateLowest ==
    ASSUME PortInv, candidate \notin portCall.held
    PROVE  LowestFree(portCall) = IF candidate <= portCall.max THEN {candidate} ELSE {}
<1>1. portCall.base \in Nat /\ portCall.max \in Nat /\ portCall.held \subseteq Nat
  BY PortCallTyped DEF PortInv
<1>2. \A q \in (portCall.base..portCall.max) \ portCall.held : candidate <= q
  BY <1>1 DEF PortInv
<1>3. CASE candidate <= portCall.max
  <2>1. candidate \in (portCall.base..portCall.max) \ portCall.held
    BY <1>1, <1>3 DEF PortInv
  <2>2. \A q \in LowestFree(portCall) : q = candidate
    BY <1>1, <1>2, <2>1 DEF LowestFree, PortInv
  <2>3. candidate \in LowestFree(portCall)
    BY <1>2, <2>1 DEF LowestFree
  <2> QED BY <1>3, <2>2, <2>3
<1>4. CASE ~(candidate <= portCall.max)
  BY <1>1, <1>2, <1>4 DEF LowestFree, PortInv
<1> QED BY <1>3, <1>4

\* The loop invariant holds when the loop starts, and for an empty pool.
LEMMA PortLoopInit == PortInit => PortInv
<1> SUFFICES ASSUME PortInit PROVE PortInv
  OBVIOUS
<1>1. portCall.base \in Nat /\ portCall.max \in Nat /\ portCall.held \subseteq Nat
  BY PortCallTyped DEF PortInit
<1>2. Answered
  BY <1>1 DEF PortInit, Answered, LowestFree
<1> QED BY <1>1, <1>2 DEF PortInit, PortInv

\* Every turn of the loop keeps the loop invariant.
LEMMA PortLoopStep == PortInv /\ [PortNext]_portVars => PortInv'
<1> SUFFICES ASSUME PortInv, [PortNext]_portVars PROVE PortInv'
  OBVIOUS
<1>1. portCall.base \in Nat /\ portCall.max \in Nat /\ portCall.held \subseteq Nat
  BY PortCallTyped DEF PortInv
<1>2. CASE Skip
  BY <1>1, <1>2 DEF Skip, PortInv, Answered
<1>3. CASE Bump
  <2>1. candidate \in taken /\ taken' = taken \ {candidate}
    BY <1>3 DEF Bump
  <2> QED BY <1>1, <1>3, <2>1 DEF Bump, PortInv, Answered
<1>4. CASE Finish
  <2>1. candidate \notin portCall.held
    BY <1>1, <1>4 DEF Finish, IsNext, PortInv
  <2>2. Answered'
    BY <1>4, <2>1, CandidateLowest DEF Finish, Answered, LowestFree
  <2> QED BY <1>4, <2>2 DEF Finish, PortInv
<1>5. CASE UNCHANGED portVars
  BY <1>5 DEF portVars, PortInv, Answered, LowestFree
<1> QED BY <1>2, <1>3, <1>4, <1>5 DEF PortNext

\* lowest_free_port answers with the lowest free port of the pool, or with
\* nothing when the pool is exhausted or empty, for all pools and all held
\* ports (lib.rs lowest_free_port).
THEOREM LowestPortFound == PortSpec => []Answered
<1>1. PortInv => Answered
  BY DEF PortInv
<1> QED BY <1>1, PortLoopInit, PortLoopStep, PTL DEF PortSpec

-----------------------------------------------------------------------------
(* The allocation of lightning ports, for every pool, every set of held
   instances and every number of triples. *)

\* Every aligned triple of the pool below n is held.
HeldBelow(n) == \A o \in tripleCall.base..(n - 1) : o % 3 = 0 => ~Free(o)

\* What the two loops keep: the ports held are those of the arguments and of
\* the triples given; the inner scan has passed held triples only.
TripleInv ==
    /\ tripleCall \in TripleCalls /\ triplePc \in {"scan", "done", "exhausted"}
    /\ given \subseteq Nat /\ IsFiniteSet(given)
    /\ left \in Nat /\ left + Cardinality(given) = tripleCall.triples
    /\ allHeld = HeldPorts(tripleCall.held) \cup HeldPorts(given)
    /\ p \in Nat /\ p % 3 = 0 /\ p >= tripleCall.base /\ HeldBelow(p)
    /\ triplePc = "done" => left = 0
    /\ triplePc = "exhausted" => ~Fits(p)
    /\ TriplesFit
    /\ LowestFirst

\* The arguments are numbers.
LEMMA TripleCallTyped ==
    ASSUME tripleCall \in TripleCalls
    PROVE  /\ tripleCall.base \in Nat /\ tripleCall.max \in Nat
           /\ tripleCall.held \subseteq Nat /\ tripleCall.triples \in Nat
BY TripleCallsAssumption

\* The scan starts at the lowest multiple of three of the pool.
LEMMA FirstAligned ==
    ASSUME NEW b \in Nat
    PROVE  /\ First(b) \in Nat /\ First(b) >= b /\ First(b) % 3 = 0
           /\ \A o \in b..(First(b) - 1) : o % 3 # 0
BY DEF First

\* Aligned triples with different first ports share no port.
LEMMA AlignedApart ==
    ASSUME NEW q \in Nat, NEW o \in Nat, q % 3 = 0, o % 3 = 0, q # o
    PROVE  Triple(q) \cap Triple(o) = {}
<1>1. q + 3 <= o \/ o + 3 <= q
  OBVIOUS
<1> QED BY <1>1 DEF Triple

\* The next multiple of three is three on.
LEMMA NextAligned ==
    ASSUME NEW q \in Nat, q % 3 = 0
    PROVE  (q + 3) % 3 = 0 /\ (q + 1) % 3 # 0 /\ (q + 2) % 3 # 0
OBVIOUS

\* The invariant holds when the call starts.
LEMMA TripleLoopInit == TripleInit => TripleInv
<1> SUFFICES ASSUME TripleInit PROVE TripleInv
  OBVIOUS
<1>1. /\ tripleCall.base \in Nat /\ tripleCall.max \in Nat
      /\ tripleCall.held \subseteq Nat /\ tripleCall.triples \in Nat
  BY TripleCallTyped DEF TripleInit
<1>2. p \in Nat /\ p % 3 = 0 /\ p >= tripleCall.base /\ HeldBelow(p)
  BY <1>1, FirstAligned DEF TripleInit, HeldBelow
<1>3. IsFiniteSet(given) /\ left + Cardinality(given) = tripleCall.triples
  BY <1>1, FS_EmptySet DEF TripleInit
<1>4. allHeld = HeldPorts(tripleCall.held) \cup HeldPorts(given)
  BY DEF TripleInit, HeldPorts
<1> QED BY <1>1, <1>2, <1>3, <1>4 DEF TripleInit, TripleInv, TriplesFit, LowestFirst

\* A triple that is taken keeps the invariant.
LEMMA TakeStep == TripleInv /\ Take => TripleInv'
<1> SUFFICES ASSUME TripleInv, Take PROVE TripleInv'
  OBVIOUS
<1>1. /\ tripleCall.base \in Nat /\ tripleCall.max \in Nat
      /\ tripleCall.held \subseteq Nat /\ tripleCall.triples \in Nat
  BY TripleCallTyped DEF TripleInv
<1>2. p \in Nat /\ p % 3 = 0 /\ Aligned(p) /\ Triple(p) \cap allHeld = {}
  BY DEF TripleInv, Take, Aligned, Fits, Free
<1>3. allHeld' = HeldPorts(tripleCall.held) \cup HeldPorts(given')
  BY DEF TripleInv, Take, HeldPorts
<1>4. p \notin given
  BY <1>2 DEF TripleInv, HeldPorts, Triple
<1>5. given' \subseteq Nat /\ IsFiniteSet(given') /\ Cardinality(given') = Cardinality(given) + 1
  BY <1>2, <1>4, FS_AddElement DEF TripleInv, Take
<1>6. left' \in Nat /\ left' + Cardinality(given') = tripleCall.triples
  BY <1>1, <1>5, FS_CardinalityType DEF TripleInv, Take
<1>7. \A o : ~Free(o) => ~Free(o)'
  BY DEF Free, Take
<1>8. p' \in Nat /\ p' % 3 = 0 /\ p' >= tripleCall.base /\ HeldBelow(p)'
  BY <1>1, FirstAligned DEF Take, HeldBelow
<1>9. TriplesFit'
  <2>1. ASSUME NEW q \in given PROVE Triple(q) \cap Triple(p) = {}
    BY <1>2, <2>1 DEF TripleInv, HeldPorts
  <2>2. Triple(p) \cap HeldPorts(tripleCall.held) = {}
    BY <1>2 DEF TripleInv
  <2>3. given' = given \cup {p} /\ tripleCall' = tripleCall
    BY DEF Take
  <2> QED BY <1>2, <2>1, <2>2, <2>3 DEF TripleInv, TriplesFit, Aligned
<1>10. LowestFirst'
  BY <1>7 DEF TripleInv, LowestFirst, HeldBelow, Take
<1> QED BY <1>3, <1>5, <1>6, <1>8, <1>9, <1>10 DEF TripleInv, Take

\* A blocked triple that is passed over keeps the invariant.
LEMMA AdvanceStep == TripleInv /\ Advance => TripleInv'
<1> SUFFICES ASSUME TripleInv, Advance PROVE TripleInv'
  OBVIOUS
<1>1. /\ tripleCall.base \in Nat /\ p \in Nat
      /\ tripleCall' = tripleCall /\ allHeld' = allHeld /\ given' = given
  BY TripleCallTyped DEF TripleInv, Advance
<1>2. p' = p + 3 /\ p' \in Nat /\ p' % 3 = 0 /\ p' >= tripleCall.base
  BY <1>1, NextAligned DEF TripleInv, Advance
<1>3. HeldBelow(p)'
  <2> SUFFICES ASSUME NEW o \in tripleCall.base..(p + 2), o % 3 = 0 PROVE ~Free(o)
    <3>1. p' - 1 = p + 2
      BY <1>1, <1>2
    <3> QED BY <1>1, <3>1 DEF HeldBelow, Free
  <2>1. o < p \/ o = p
    BY <1>1, NextAligned DEF TripleInv
  <2> QED BY <1>1, <2>1 DEF TripleInv, HeldBelow, Advance
<1>4. TriplesFit' /\ LowestFirst'
  BY <1>1 DEF TripleInv, TriplesFit, LowestFirst, Aligned, Free
<1> QED BY <1>1, <1>2, <1>3, <1>4 DEF TripleInv, Advance

\* Every step of the call keeps the invariant.
LEMMA TripleLoopStep == TripleInv /\ [TripleNext]_tripleVars => TripleInv'
<1> SUFFICES ASSUME TripleInv, [TripleNext]_tripleVars PROVE TripleInv'
  OBVIOUS
<1>1. CASE Exhausted
  BY <1>1 DEF Exhausted, TripleInv, HeldBelow, Fits, TriplesFit, LowestFirst, Aligned, Free
<1>2. CASE Return
  BY <1>2 DEF Return, TripleInv, HeldBelow, Fits, TriplesFit, LowestFirst, Aligned, Free
<1>3. CASE UNCHANGED tripleVars
  BY <1>3 DEF tripleVars, TripleInv, HeldBelow, Fits, TriplesFit, LowestFirst, Aligned, Free
<1> QED BY <1>1, <1>2, <1>3, TakeStep, AdvanceStep DEF TripleNext

\* The triples of a call lie in the pool and share no port with each other or
\* with a live environment, for every pool (lib.rs next_lightning_ports).
THEOREM TriplesAlwaysFit == TripleSpec => []TriplesFit
<1>1. TripleInv => TriplesFit
  BY DEF TripleInv
<1> QED BY <1>1, TripleLoopInit, TripleLoopStep, PTL DEF TripleSpec

\* A call that succeeds gives one triple per instance, and a call that reports
\* an exhausted pool left no aligned triple free (lib.rs next_lightning_ports).
THEOREM AllOrTrulyExhausted == TripleSpec => []AllOrExhausted
<1>1. TripleInv => AllOrExhausted
  <2> SUFFICES ASSUME TripleInv PROVE AllOrExhausted
    OBVIOUS
  <2>1. tripleCall.base \in Nat /\ tripleCall.max \in Nat /\ tripleCall.triples \in Nat
    BY TripleCallTyped DEF TripleInv
  <2>2. triplePc = "done" => Cardinality(given) = tripleCall.triples
    BY <2>1, FS_CardinalityType DEF TripleInv
  <2>3. ASSUME triplePc = "exhausted", NEW q \in tripleCall.base..tripleCall.max, Aligned(q)
        PROVE  ~Free(q)
    <3>1. q \in tripleCall.base..(p - 1) /\ q % 3 = 0
      BY <2>1, <2>3 DEF TripleInv, Fits, Aligned
    <3> QED BY <3>1 DEF TripleInv, HeldBelow
  <2> QED BY <2>2, <2>3 DEF AllOrExhausted
<1> QED BY <1>1, TripleLoopInit, TripleLoopStep, PTL DEF TripleSpec

\* No free triple is skipped, so released ones are used again (lib.rs
\* free_port_triple).
THEOREM LowestTriplesFirst == TripleSpec => []LowestFirst
<1>1. TripleInv => LowestFirst
  BY DEF TripleInv
<1> QED BY <1>1, TripleLoopInit, TripleLoopStep, PTL DEF TripleSpec

-----------------------------------------------------------------------------
(* Versions and components, for every catalog, versions of any length and
   every graph of dependencies. *)

\* A set of numbers has a least one.
LEMMA LeastOf ==
    ASSUME NEW S, S \subseteq Nat, S # {}
    PROVE  \E x \in S : \A y \in S : x <= y
<1>1. PICK x \in S : \A y \in S : ~(<<y, x>> \in OpToRel(<, Nat))
  BY NatLessThanWellFounded, WFMin, Zenon
<1>2. \A y \in S : ~(y < x)
  BY <1>1 DEF OpToRel
<1> QED BY <1>2

\* A segment that is there is a number, one that is missing is zero.
LEMMA SegmentTyped ==
    ASSUME NEW v \in Seq(Nat)
    PROVE  \A i \in Nat \ {0} : Segment(v, i) \in Nat /\ (Segment(v, i) > 0 => i \in DOMAIN v)
BY DEF Segment

\* Where two versions first differ decides which is above the other.
LEMMA AboveExact ==
    ASSUME NEW v \in Seq(Nat), NEW w \in Seq(Nat), NEW first \in Nat \ {0},
           Segment(v, first) # Segment(w, first),
           \A j \in 1..(first - 1) : Segment(v, j) = Segment(w, j)
    PROVE  Above(v, w) <=> Segment(v, first) > Segment(w, first)
<1>1. ASSUME Segment(v, first) > Segment(w, first) PROVE Above(v, w)
  <2>1. first \in DOMAIN v
    BY <1>1, SegmentTyped
  <2> QED BY <1>1, <2>1 DEF Above
<1>2. ASSUME Above(v, w) PROVE Segment(v, first) > Segment(w, first)
  <2>1. PICK i \in DOMAIN v : /\ Segment(v, i) > Segment(w, i)
                              /\ \A j \in 1..(i - 1) : Segment(v, j) = Segment(w, j)
    BY <1>2 DEF Above
  <2>2. i \in Nat \ {0} /\ Segment(v, i) \in Nat /\ Segment(w, i) \in Nat
    BY SegmentTyped
  <2>3. ~(i \in 1..(first - 1)) /\ ~(first \in 1..(i - 1))
    BY <2>1, <2>2
  <2>4. i = first
    BY <2>2, <2>3
  <2> QED BY <2>1, <2>4
<1> QED BY <1>1, <1>2

\* compare_segments orders two versions of any length as the reference does.
LEMMA CompareExact ==
    ASSUME NEW v \in Seq(Nat), NEW w \in Seq(Nat)
    PROVE  \/ Compare(v, w) = 0 /\ Same(v, w) /\ ~Above(v, w) /\ ~Above(w, v)
           \/ Compare(v, w) = 1 /\ ~Same(v, w) /\ Above(v, w) /\ ~Above(w, v)
           \/ Compare(v, w) = -1 /\ ~Same(v, w) /\ ~Above(v, w) /\ Above(w, v)
<1> DEFINE longer == IF Len(v) > Len(w) THEN Len(v) ELSE Len(w)
           differ == {i \in 1..longer : Segment(v, i) # Segment(w, i)}
           least == CHOOSE x \in differ : \A y \in differ : x <= y
<1>1. /\ Len(v) \in Nat /\ Len(w) \in Nat /\ longer \in Nat
      /\ DOMAIN v = 1..Len(v) /\ DOMAIN w = 1..Len(w)
      /\ DOMAIN v \cup DOMAIN w = 1..longer
      /\ \A i \in Nat \ {0} : Segment(v, i) \in Nat /\ Segment(w, i) \in Nat
  BY DEF Segment
<1>2. CASE differ = {}
  <2>1. Compare(v, w) = 0
    BY <1>2 DEF Compare
  <2>2. \A i \in 1..longer : Segment(v, i) = Segment(w, i)
    BY <1>2
  <2>3. Same(v, w)
    BY <1>1, <2>2 DEF Same
  <2>4. ~Above(v, w) /\ ~Above(w, v)
    <3>1. \A i \in DOMAIN v \cup DOMAIN w :
             ~(Segment(v, i) > Segment(w, i)) /\ ~(Segment(w, i) > Segment(v, i))
      BY <1>1, <2>2
    <3> QED BY <3>1 DEF Above
  <2> QED BY <2>1, <2>3, <2>4
<1>3. CASE differ # {}
  <2>1. least \in differ /\ \A y \in differ : least <= y
    <3>1. \E x \in differ : \A y \in differ : x <= y
      <4>1. differ \subseteq Nat
        BY <1>1
      <4> HIDE DEF differ
      <4> QED BY <1>3, <4>1, LeastOf
    <3> HIDE DEF differ
    <3> QED BY <3>1
  <2>2. Compare(v, w) = IF Segment(v, least) < Segment(w, least) THEN -1 ELSE 1
    BY <1>3 DEF Compare
  <2> HIDE DEF least
  <2>3. least \in 1..longer /\ Segment(v, least) # Segment(w, least)
    BY <2>1
  <2>4. \A j \in 1..(least - 1) : Segment(v, j) = Segment(w, j)
    BY <1>1, <2>1, <2>3
  <2> HIDE DEF differ
  <2> HIDE DEF longer
  <2>5. ~Same(v, w)
    BY <1>1, <2>3 DEF Same
  <2>6. least \in Nat \ {0}
    BY <1>1, <2>3
  <2>7. Above(v, w) <=> Segment(v, least) > Segment(w, least)
    BY <2>3, <2>4, <2>6, AboveExact
  <2>8. Above(w, v) <=> Segment(w, least) > Segment(v, least)
    BY <2>3, <2>4, <2>6, AboveExact
  <2> QED BY <1>1, <2>2, <2>3, <2>5, <2>7, <2>8
<1> QED BY <1>2, <1>3

\* A constraint is satisfied exactly if the reference order says so.
LEMMA SatisfiesExact ==
    ASSUME NEW v \in Seq(Nat), NEW w \in Seq(Nat), NEW op \in {">=", "<=", ">", "<", "="}
    PROVE  Satisfies(v, op, w) <=> Meets(v, op, w)
<1> DEFINE order == Compare(v, w)
<1>1. /\ op = ">=" => (Satisfies(v, op, w) <=> order # -1)
      /\ op = "<=" => (Satisfies(v, op, w) <=> order # 1)
      /\ op = ">" => (Satisfies(v, op, w) <=> order = 1)
      /\ op = "<" => (Satisfies(v, op, w) <=> order = -1)
      /\ op = "=" => (Satisfies(v, op, w) <=> order = 0)
  BY DEF Satisfies
<1>2. /\ op = ">=" => (Meets(v, op, w) <=> Same(v, w) \/ Above(v, w))
      /\ op = "<=" => (Meets(v, op, w) <=> Same(v, w) \/ Above(w, v))
      /\ op = ">" => (Meets(v, op, w) <=> Above(v, w))
      /\ op = "<" => (Meets(v, op, w) <=> Above(w, v))
      /\ op = "=" => (Meets(v, op, w) <=> Same(v, w))
  BY DEF Meets
<1> HIDE DEF order
<1>3. /\ order # -1 <=> Same(v, w) \/ Above(v, w)
      /\ order # 1 <=> Same(v, w) \/ Above(w, v)
      /\ order = 1 <=> Above(v, w)
      /\ order = -1 <=> Above(w, v)
      /\ order = 0 <=> Same(v, w)
  BY CompareExact DEF order
<1> QED BY <1>1, <1>2, <1>3

\* What the stages have found out so far.
PinsListed ==
    stage # "refused" =>
        \A c \in Pinned : (stage = "pins" /\ c \in todo) \/ choice.pins[c] \in choice.entries[c]

RulesHold ==
    stage \in {"rules", "images", "select", "ok"} =>
        \A rule \in choice.rules : (stage = "rules" /\ rule.of \in todo) \/ ~Broken(rule)

ImagesEffective ==
    stage \in {"images", "select", "ok"} =>
        \A c \in Component :
            \/ stage = "images" /\ c \in todo
            \/ image[c] = Effective(c) /\ image[c] # NoVersion

\* Whatever is wanted was asked for, or a dependency of what is; those whose
\* dependencies are still to be looked at are in the worklist.
WantedFollowed ==
    /\ choice.asked \subseteq wanted
    /\ \A S \in SUBSET Component : choice.asked \subseteq S /\ Closed(S) => wanted \subseteq S
    /\ stage \in {"pins", "rules", "images"} => wanted = choice.asked
    /\ stage \in {"select", "ok"} =>
          \A c \in wanted : (stage = "select" /\ c \in todo) \/ choice.deps[c] \subseteq wanted

CatalogInv ==
    /\ choice \in CatalogCalls
    /\ stage \in {"pins", "rules", "images", "select", "ok", "refused"}
    /\ todo \subseteq Component /\ wanted \subseteq Component
    /\ image \in [Component -> Version \cup {NoVersion}]
    /\ stage = "pins" => todo \subseteq Pinned
    /\ stage = "select" => todo \subseteq wanted
    /\ PinsListed /\ RulesHold /\ ImagesEffective /\ WantedFollowed
    /\ RefusedForCause

\* The catalog, the selection and the wish are well typed.
LEMMA ChoiceTyped ==
    ASSUME choice \in CatalogCalls
    PROVE  /\ choice.entries \in [Component -> SUBSET Version]
           /\ choice.default \in [Component -> Version \cup {NoVersion}]
           /\ choice.rules \subseteq Rule
           /\ choice.pins \in [Component -> Version \cup {NoVersion}]
           /\ choice.asked \subseteq Component
           /\ choice.deps \in [Component -> SUBSET Component]
           /\ \A c \in Component : choice.default[c] \in choice.entries[c] \cup {NoVersion}
           /\ \A c \in Component : Effective(c) \in Version \cup {NoVersion}
BY CatalogAssumption DEF Effective

\* A rule relates two components and a version to one, by a known operator.
LEMMA RuleTyped ==
    ASSUME NEW rule \in Rule
    PROVE  /\ rule.of \in Component /\ rule.on \in Component
           /\ rule.at \in Version /\ rule.target \in Version
           /\ rule.op \in {">=", "<=", ">", "<", "="}
BY DEF Rule

\* A broken rule is one that the reference order says is broken.
LEMMA BrokenExact ==
    ASSUME choice \in CatalogCalls, NEW rule \in choice.rules
    PROVE  Broken(rule) <=>
             /\ rule.at = Effective(rule.of) /\ rule.at \in choice.entries[rule.of]
             /\ Effective(rule.on) # NoVersion
             /\ ~Meets(Effective(rule.on), rule.op, rule.target)
<1>1. rule \in Rule
  BY ChoiceTyped
<1>2. /\ rule.on \in Component /\ rule.target \in Version
      /\ rule.op \in {">=", "<=", ">", "<", "="}
  BY <1>1, RuleTyped
<1>3. Effective(rule.on) \in Version \cup {NoVersion}
  BY <1>2, ChoiceTyped
<1>4. CASE Effective(rule.on) = NoVersion
  BY <1>4 DEF Broken
<1>5. CASE Effective(rule.on) # NoVersion
  <2>1. Satisfies(Effective(rule.on), rule.op, rule.target)
          <=> Meets(Effective(rule.on), rule.op, rule.target)
    BY <1>2, <1>3, <1>5, SatisfiesExact, CatalogAssumption
  <2> QED BY <2>1 DEF Broken
<1> QED BY <1>4, <1>5

\* What was asked for and its dependencies stay within every closed set.
LEMMA CatalogStart == CatalogInit => CatalogInv
<1> SUFFICES ASSUME CatalogInit PROVE CatalogInv
  OBVIOUS
<1>1. choice \in CatalogCalls
  BY DEF CatalogInit
<1>2. choice.asked \subseteq Component
  BY <1>1, ChoiceTyped
<1> QED BY <1>1, <1>2 DEF CatalogInit, CatalogInv, PinsListed, RulesHold, ImagesEffective,
                        WantedFollowed, RefusedForCause, Pinned

\* What does not change as long as the call is the same.
LEMMA CallKept ==
    ASSUME choice' = choice
    PROVE  /\ Pinned' = Pinned /\ \A x : Effective(x)' = Effective(x)
           /\ \A rule : Broken(rule)' <=> Broken(rule)
           /\ \A S : Closed(S)' <=> Closed(S)
BY DEF Pinned, Effective, Broken, Closed

\* What excuses a refusal: a pin, a default or a requirement of the call.
Cause ==
    \/ \E x \in Pinned : choice.pins[x] \notin choice.entries[x]
    \/ \E x \in Component : Effective(x) = NoVersion
    \/ \E rule \in choice.rules :
          /\ Effective(rule.of) = rule.at
          /\ ~Meets(Effective(rule.on), rule.op, rule.target)

\* A refusal with a cause keeps to RefusedForCause.
LEMMA CauseKept ==
    ASSUME CatalogInv, choice' = choice, stage' = "refused" => Cause
    PROVE  RefusedForCause'
<1>1. CASE ~(stage' = "refused")
  BY <1>1 DEF RefusedForCause
<1>2. CASE \E x \in Pinned : choice.pins[x] \notin choice.entries[x]
  BY <1>2 DEF RefusedForCause, Pinned
<1>3. CASE \E x \in Component : Effective(x) = NoVersion
  BY <1>3 DEF RefusedForCause, Effective
<1>4. ASSUME NEW rule \in choice.rules,
             Effective(rule.of) = rule.at,
             ~Meets(Effective(rule.on), rule.op, rule.target)
      PROVE  RefusedForCause'
  <2> DEFINE sel(c) == IF c \in Pinned THEN choice.pins[c] ELSE choice.default[c]
  <2>1. rule.of \in Component /\ rule.on \in Component
    BY ChoiceTyped, RuleTyped DEF CatalogInv
  <2>2. sel(rule.of) = Effective(rule.of) /\ sel(rule.on) = Effective(rule.on)
    BY <2>1 DEF Effective, Pinned
  <2>3. sel(rule.of)' = Effective(rule.of) /\ sel(rule.on)' = Effective(rule.on)
    BY <2>2 DEF Pinned
  <2>4. sel(rule.of)' = rule.at /\ ~Meets(sel(rule.on)', rule.op, rule.target)
    BY <1>4, <2>3
  <2>5. rule \in choice'.rules
    OBVIOUS
  <2> QED BY <2>4, <2>5 DEF RefusedForCause
<1> QED BY <1>1, <1>2, <1>3, <1>4 DEF Cause

\* A refused pin is not listed; the others are.
LEMMA CheckPinKeeps == CatalogInv /\ CheckPin => CatalogInv'
<1> SUFFICES ASSUME CatalogInv, CheckPin PROVE CatalogInv'
  OBVIOUS
<1>1. /\ choice' = choice /\ image' = image /\ wanted' = wanted /\ stage = "pins"
      /\ \/ /\ stage' = "refused" /\ todo' = {}
            /\ \E x \in todo : choice.pins[x] \notin choice.entries[x]
         \/ \E x \in todo : /\ choice.pins[x] \in choice.entries[x]
                            /\ stage' = "pins" /\ todo' = todo \ {x}
         \/ todo = {} /\ stage' = "rules" /\ todo' = Component
  BY DEF CheckPin, Refuse, To
<1>2. PinsListed'
  BY <1>1, CallKept DEF CatalogInv, PinsListed
<1>3. RulesHold'
  <2>1. \A rule \in choice.rules : rule.of \in Component
    BY ChoiceTyped, RuleTyped DEF CatalogInv
  <2> QED BY <1>1, <2>1 DEF RulesHold
<1>4. ImagesEffective' /\ WantedFollowed'
  BY <1>1, CallKept DEF CatalogInv, ImagesEffective, WantedFollowed
<1>5. RefusedForCause'
  BY <1>1, CauseKept DEF CatalogInv, Cause
<1> QED BY <1>1, <1>2, <1>3, <1>4, <1>5, CallKept DEF CatalogInv

\* A refused rule is broken; the others hold.
LEMMA CheckRulesKeeps == CatalogInv /\ CheckRules => CatalogInv'
<1> SUFFICES ASSUME CatalogInv, CheckRules PROVE CatalogInv'
  OBVIOUS
<1>1. /\ choice' = choice /\ image' = image /\ wanted' = wanted /\ stage = "rules"
      /\ \/ /\ stage' = "refused" /\ todo' = {}
            /\ \E rule \in choice.rules : Broken(rule)
         \/ \E x \in todo : /\ ~\E rule \in choice.rules : rule.of = x /\ Broken(rule)
                            /\ stage' = "rules" /\ todo' = todo \ {x}
         \/ todo = {} /\ stage' = "images" /\ todo' = Component
  BY DEF CheckRules, Refuse, To
<1>2. PinsListed'
  BY <1>1, CallKept DEF CatalogInv, PinsListed
<1>3. RulesHold'
  BY <1>1, CallKept DEF CatalogInv, RulesHold
<1>4. ImagesEffective' /\ WantedFollowed'
  BY <1>1, CallKept DEF CatalogInv, ImagesEffective, WantedFollowed
<1>5. RefusedForCause'
  <2>1. \A rule \in choice.rules : Broken(rule) => Cause
    BY BrokenExact DEF CatalogInv, Cause
  <2> QED BY <1>1, <2>1, CauseKept DEF CatalogInv
<1> QED BY <1>1, <1>2, <1>3, <1>4, <1>5, CallKept DEF CatalogInv

\* An image that is resolved is that of the effective version.
LEMMA ResolveKeeps == CatalogInv /\ Resolve => CatalogInv'
<1> SUFFICES ASSUME CatalogInv, Resolve PROVE CatalogInv'
  OBVIOUS
<1>1. /\ choice' = choice /\ wanted' = wanted /\ stage = "images"
      /\ \/ /\ stage' = "refused" /\ todo' = {} /\ image' = image
            /\ \E x \in todo : Effective(x) = NoVersion
         \/ \E x \in todo : /\ Effective(x) # NoVersion
                            /\ image' = [image EXCEPT ![x] = Effective(x)]
                            /\ stage' = "images" /\ todo' = todo \ {x}
         \/ todo = {} /\ stage' = "select" /\ todo' = wanted /\ image' = image
  BY DEF Resolve, Refuse, To
<1>2. PinsListed'
  BY <1>1, CallKept DEF CatalogInv, PinsListed
<1>3. RulesHold'
  BY <1>1, CallKept DEF CatalogInv, RulesHold
<1>4. image' \in [Component -> Version \cup {NoVersion}] /\ todo \subseteq Component
  BY <1>1, ChoiceTyped DEF CatalogInv
<1>5. ImagesEffective'
  BY <1>1, <1>4, CallKept DEF CatalogInv, ImagesEffective
<1>6. WantedFollowed'
  BY <1>1, CallKept DEF CatalogInv, WantedFollowed
<1>7. RefusedForCause'
  BY <1>1, <1>4, CauseKept DEF CatalogInv, Cause
<1> QED BY <1>1, <1>2, <1>3, <1>4, <1>5, <1>6, <1>7, CallKept DEF CatalogInv

\* What the worklist adds is a dependency of what is wanted.
LEMMA SelectKeeps == CatalogInv /\ Select => CatalogInv'
<1> SUFFICES ASSUME CatalogInv, Select PROVE CatalogInv'
  OBVIOUS
<1>1. /\ choice' = choice /\ image' = image /\ stage = "select" /\ stage' \in {"select", "ok"}
      /\ \/ \E x \in todo : /\ stage' = "select" /\ wanted' = wanted \cup choice.deps[x]
                            /\ todo' = (todo \cup (choice.deps[x] \ wanted)) \ {x}
         \/ todo = {} /\ stage' = "ok" /\ todo' = {} /\ wanted' = wanted
  BY DEF Select, To
<1>2. PinsListed' /\ RulesHold' /\ ImagesEffective' /\ RefusedForCause'
  BY <1>1, CallKept DEF CatalogInv, PinsListed, RulesHold, ImagesEffective, RefusedForCause
<1>3. todo \subseteq wanted /\ wanted \subseteq Component
      /\ choice.deps \in [Component -> SUBSET Component]
  BY <1>1, ChoiceTyped DEF CatalogInv
<1>4. wanted' \subseteq Component /\ todo' \subseteq wanted' /\ todo' \subseteq Component
  BY <1>1, <1>3
<1>5. WantedFollowed'
  <2>1. choice.asked \subseteq wanted'
    BY <1>1 DEF CatalogInv, WantedFollowed
  <2>2. ASSUME NEW S \in SUBSET Component, choice.asked \subseteq S, Closed(S)
        PROVE  wanted' \subseteq S
    BY <1>1, <1>3, <2>2 DEF CatalogInv, WantedFollowed, Closed
  <2>3. ASSUME NEW y \in wanted'
        PROVE  (stage' = "select" /\ y \in todo') \/ choice.deps[y] \subseteq wanted'
    BY <1>1, <1>3, <2>3 DEF CatalogInv, WantedFollowed
  <2> QED BY <1>1, <2>1, <2>2, <2>3, CallKept DEF WantedFollowed
<1> QED BY <1>1, <1>2, <1>4, <1>5, CallKept DEF CatalogInv

\* Every step keeps what the stages have found out.
LEMMA CatalogKept == CatalogInv /\ [CatalogNext]_catalogVars => CatalogInv'
<1>1. CatalogInv /\ UNCHANGED catalogVars => CatalogInv'
  BY DEF catalogVars, CatalogInv, PinsListed, RulesHold, ImagesEffective, WantedFollowed,
         RefusedForCause, Pinned, Effective, Broken, Closed
<1> QED BY <1>1, CheckPinKeeps, CheckRulesKeeps, ResolveKeeps, SelectKeeps DEF CatalogNext

\* No environment is deployed with versions that are not listed or that a
\* requirement excludes, for every catalog, every selection and versions of
\* any length (versions.rs validate_selection, lib.rs resolve_images).
THEOREM DeployedAlwaysCompatible == CatalogSpec => []DeployedCompatible
<1>1. CatalogInv => DeployedCompatible
  <2> SUFFICES ASSUME CatalogInv, stage = "ok" PROVE DeployedCompatible
    BY DEF DeployedCompatible
  <2>1. \A c \in Component : image[c] = Effective(c) /\ Effective(c) # NoVersion
    BY DEF CatalogInv, ImagesEffective
  <2>2. \A c \in Component : Effective(c) \in choice.entries[c]
    BY <2>1, ChoiceTyped DEF CatalogInv, PinsListed, Pinned, Effective
  <2>3. ASSUME NEW rule \in choice.rules, image[rule.of] = rule.at
        PROVE  Meets(image[rule.on], rule.op, rule.target)
    <3>1. rule.of \in Component /\ rule.on \in Component
      BY ChoiceTyped, RuleTyped DEF CatalogInv
    <3>2. ~Broken(rule)
      BY DEF CatalogInv, RulesHold
    <3> QED BY <2>1, <2>2, <2>3, <3>1, <3>2, BrokenExact DEF CatalogInv
  <2> QED BY <2>1, <2>2, <2>3 DEF DeployedCompatible
<1> QED BY <1>1, CatalogStart, CatalogKept, PTL DEF CatalogSpec

\* A selection is refused only for a cause, for every catalog (versions.rs
\* validate_selection, lib.rs resolve_images).
THEOREM RefusedAlwaysForCause == CatalogSpec => []RefusedForCause
<1>1. CatalogInv => RefusedForCause
  BY DEF CatalogInv
<1> QED BY <1>1, CatalogStart, CatalogKept, PTL DEF CatalogSpec

\* What is deployed is the least closed set with what was asked for, for any
\* graph of dependencies, cyclic ones included (lib.rs selected_specs).
THEOREM SelectionAlwaysLeast == CatalogSpec => []SelectionLeast
<1>1. CatalogInv => SelectionLeast
  BY DEF CatalogInv, WantedFollowed, SelectionLeast, Closed
<1> QED BY <1>1, CatalogStart, CatalogKept, PTL DEF CatalogSpec

-----------------------------------------------------------------------------
(* Admission, for every clock, window, event and token. *)

\* The event of the request would be let in, but for its age.
Signed ==
    /\ login.scheme = "nostr"
    /\ login.event.parses /\ login.event.signed /\ login.event.kind
    /\ login.event.url = "same" /\ login.event.method = "same"

\* What the handler has found out when it is where it is.
AuthInv ==
    /\ login \in AuthCalls
    /\ authPc \in {"header", "event", "token", "signer", "bearer", "served", "refused"}
    /\ authPc = "event" => login.scheme = "nostr"
    /\ authPc = "token" => login.scheme = "bearer"
    /\ authPc = "signer" => Signed /\ Fresh(login.event, login.now, login.maxAge)
    /\ authPc = "bearer" =>
          login.scheme = "bearer" /\ login.token = "issued" /\ login.database
    /\ AdmissionExact

\* The request is well typed.
LEMMA LoginTyped ==
    ASSUME login \in AuthCalls
    PROVE  /\ Top \in Nat /\ Skew \in 0..Top /\ Unlimited \notin 0..Top
           /\ login.now \in 0..Top /\ login.maxAge \in (0..Top) \cup {Unlimited}
           /\ login.event.created \in 0..Top
           /\ login.scheme \in {"none", "nostr", "bearer", "other"}
           /\ login.event.parses \in BOOLEAN /\ login.event.signed \in BOOLEAN
           /\ login.event.kind \in BOOLEAN /\ login.database \in BOOLEAN
BY AuthAssumption DEF HttpEvent

\* Saturation does not show: the window is that of the integers.
LEMMA WindowExact ==
    ASSUME login \in AuthCalls
    PROVE  Fresh(login.event, login.now, login.maxAge) <=>
             (login.maxAge # Unlimited =>
                 login.event.created \in (login.now - login.maxAge)..(login.now + Skew))
BY LoginTyped DEF Fresh, Plus, Minus

\* Every step keeps what the handler has found out.
LEMMA AuthStep == AuthInv /\ [AuthNext]_authVars => AuthInv'
<1> SUFFICES ASSUME AuthInv, [AuthNext]_authVars PROVE AuthInv'
  OBVIOUS
<1>0. login \in AuthCalls
  BY DEF AuthInv
<1>1. CASE Authenticate
  BY <1>1, LoginTyped DEF Authenticate, Becomes, AuthInv, AdmissionExact
<1>2. CASE VerifyEvent
  BY <1>0, <1>2, WindowExact DEF VerifyEvent, Becomes, AuthInv, AdmissionExact, Signed
<1>3. CASE FindToken
  BY <1>3 DEF FindToken, Becomes, AuthInv, AdmissionExact
<1>4. CASE Handle
  BY <1>0, <1>4, WindowExact DEF Handle, Becomes, AuthInv, AdmissionExact, Signed
<1>5. CASE UNCHANGED authVars
  BY <1>5 DEF authVars, AuthInv, AdmissionExact, Signed, Fresh
<1> QED BY <1>1, <1>2, <1>3, <1>4, <1>5 DEF AuthNext

\* A request is let in exactly if it may be, for any clock, window, event
\* and token (signet-nostr verify_http_auth, rpc.rs authenticate and handle).
THEOREM AdmittedExactly == AuthSpec => []AdmissionExact
<1>1. AuthInit => AuthInv
  BY DEF AuthInit, AuthInv, AdmissionExact
<1>2. AuthInv => AdmissionExact
  BY DEF AuthInv
<1> QED BY <1>1, <1>2, AuthStep, PTL DEF AuthSpec
=============================================================================
