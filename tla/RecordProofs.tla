---------------------------- MODULE RecordProofs ----------------------------
(***************************************************************************)
(* What the records of live environments say, for any number of requests   *)
(* in flight, failures and crashes: they hold ports of their own, and      *)
(* every running namespace has one.  With requests in flight neither is    *)
(* true as it stands (bug_ports, bug_reaped, bug_purge).  The theorems     *)
(* take the interleavings that break them as hypotheses, and show that     *)
(* there are no others.                                                    *)
(***************************************************************************)
EXTENDS NamespaceProofs

-----------------------------------------------------------------------------
(* Ports.  A handler picks ports that no live record holds, and records    *)
(* them some awaits later: two handlers that pick meanwhile may pick the   *)
(* same ones (bug_ports), and a status written late may bring back a       *)
(* record whose ports were given away.  Nothing else puts ports in danger. *)

\* A create records its ports when it inserts its row; the instances of a create
\* or an update are recorded last, unless the create fails.
GivenUp == {"cleanup", "condemn"}

\* The ports, and the instances, a handler has yet to record.
PickedPorts(h) == IF h.pc \in Early THEN h.port ELSE NoPorts
PickedLn(h) == IF h.pc \in GivenUp THEN NoLn ELSE h.ln

\* The handler in slot r works for a live record, or for one to come.
Choosing(r) == req[r].pc # "idle" /\ (req[r].pc \in Early \/ LiveRow(req[r].env))

\* No two handlers hold the same unrecorded port for different environments.
ChoicesApart ==
    \A r, t \in Request :
        req[r].env # req[t].env /\ Choosing(r) /\ Choosing(t) =>
            /\ \A x \in Pool : PickedPorts(req[r])[x] = PickedPorts(req[t])[x]
                                  => PickedPorts(req[r])[x] = NoPort
            /\ ~Overlap(PickedLn(req[r]), PickedLn(req[t]))

\* A step brings no dead record back to life.
NoRevival == \A e \in Env : rows[e].status \in Dead => ~LiveRow(e)'

\* A record that is gone has left no instances behind.
Bare == \A e \in Env : ~Stored(e) => lightning[e] = NoLn

\* Handlers past their insert work for ids that are used up.
Known == \A r \in Request : req[r].pc \notin Early => req[r].env \in drawn \cup {None}

\* Ports p and instances m share no port with record e.
Clear(p, m, e) ==
    /\ \A x \in Pool : p[x] = rows[e].port[x] => p[x] = NoPort
    /\ ~Overlap(m, lightning[e])

\* What a handler has picked no other live record holds.
Chosen ==
    \A r \in Request : \A f \in Env :
        f # req[r].env /\ Choosing(r) /\ LiveRow(f) =>
            Clear(PickedPorts(req[r]), PickedLn(req[r]), f)

PortInv == Bare /\ Known /\ PortsDisjoint /\ Chosen

-----------------------------------------------------------------------------
(* Steps that pick nothing and give no record more than it had.            *)

\* No record holds more than before: it keeps its ports, perhaps without being
\* live, or is gone.
Shrunk ==
    \A e \in Env :
        \/ /\ rows'[e].port = rows[e].port /\ lightning'[e] = lightning[e]
           /\ Stored(e)' <=> Stored(e)
           /\ LiveRow(e)' => LiveRow(e)
        \/ ~Stored(e)' /\ rows'[e].port = NoPorts /\ lightning'[e] = NoLn

\* Statements that write a status, purge or mark leave nobody with more, as
\* long as they bring nothing back to life.
LEMMA ShrinkingStatements ==
    ASSUME StoreTypeOK, NoRevival,
           \/ UNCHANGED storeVars
           \/ \E e, st : st # "none" /\ SetStatus(e, st)
           \/ \E e : Purge(e)
           \/ \E s : MarkExpired(s)
    PROVE  Shrunk
<1>t. rows \in [Env -> Row] /\ lightning \in [Env -> LnMap]
  BY DEF StoreTypeOK
<1>r. ASSUME NEW e \in Env, Stored(e), LiveRow(e)' PROVE LiveRow(e)
  <2>1. rows[e].status \in Live \cup Dead
    BY <1>t, <1>r DEF Row, Status, Stored
  <2> QED BY <1>r, <2>1 DEF NoRevival, LiveRow
<1>1. CASE UNCHANGED storeVars
  BY <1>1 DEF storeVars, Shrunk, Stored, LiveRow
<1>2. ASSUME NEW e, NEW st, st # "none", SetStatus(e, st) PROVE Shrunk
  <2>1. ASSUME NEW f \in Env, f # e \/ ~Stored(e) PROVE rows'[f] = rows[f]
    BY <1>t, <1>2, <2>1 DEF SetStatus
  <2>2. ASSUME e \in Env, Stored(e)
        PROVE  rows'[e].port = rows[e].port /\ rows'[e].status = st
    BY <1>t, <1>2, <2>2 DEF SetStatus, Row
  <2> QED BY <1>2, <1>r, <2>1, <2>2 DEF SetStatus, Shrunk, Stored, LiveRow
<1>3. ASSUME NEW e, Purge(e) PROVE Shrunk
  <2>1. CASE rows[e].status \in Dead
    BY <1>t, <1>3, <2>1 DEF Purge, NoRow, Shrunk, Stored, LiveRow
  <2>2. CASE rows[e].status \notin Dead
    BY <1>3, <2>2 DEF Purge, storeVars, Shrunk, Stored, LiveRow
  <2> QED BY <2>1, <2>2
<1>4. ASSUME NEW s, MarkExpired(s) PROVE Shrunk
  <2>1. ASSUME NEW f \in Env
        PROVE  /\ rows'[f].port = rows[f].port
               /\ \/ rows'[f].status = rows[f].status
                  \/ rows[f].status # "none" /\ rows'[f].status = "expired"
    BY <1>t, <1>4 DEF MarkExpired, Row
  <2> QED BY <1>4, <2>1 DEF MarkExpired, Shrunk, Stored, LiveRow, Live
<1> QED BY <1>1, <1>2, <1>3, <1>4

\* A handler goes on with its environment and with what it has picked, or with
\* less.
Carries(h, g) ==
    /\ h.pc # "idle" /\ g.env = h.env
    /\ g.pc \in Early <=> h.pc \in Early
    /\ g.pc \in Early => g.port = h.port
    /\ g.pc \notin GivenUp => h.pc \notin GivenUp /\ g.ln = h.ln

\* A slot holds a handler that has picked nothing, or none.
Blank(g) ==
    /\ PickedPorts(g) = NoPorts /\ PickedLn(g) = NoLn
    /\ g.pc \notin Early => g.env \in drawn \cup {None}

Same(t) == req'[t] = req[t]
Moves == \A t \in Request : Same(t) \/ Carries(req[t], req'[t]) \/ Blank(req'[t])

\* Who holds nothing is clear of everybody.
LEMMA NothingClear == ASSUME NEW e PROVE Clear(NoPorts, NoLn, e)
BY DEF Clear, Overlap, NoPorts, NoLn

\* Who holds no more than before shares no more than before.
LEMMA ShrinkKeeps ==
    ASSUME Shrunk, Bare, PortsDisjoint PROVE Bare' /\ PortsDisjoint'
<1>1. Bare'
  BY DEF Shrunk, Bare
<1>2. ASSUME NEW e \in Env, NEW f \in Env, e # f, LiveRow(e)', LiveRow(f)'
      PROVE  /\ \A p \in Pool : rows'[e].port[p] = rows'[f].port[p] => rows'[e].port[p] = NoPort
             /\ ~Overlap(lightning'[e], lightning'[f])
  <2>1. \A x \in {e, f} : /\ LiveRow(x) /\ rows'[x].port = rows[x].port
                          /\ lightning'[x] = lightning[x]
    BY <1>2 DEF Shrunk, LiveRow, Live, Stored
  <2> QED BY <1>2, <2>1 DEF PortsDisjoint
<1>3. PortsDisjoint'
  BY <1>2 DEF PortsDisjoint, Overlap
<1> QED BY <1>1, <1>3

\* ... and what a handler has picked stays its own.
LEMMA ShrinkChosen ==
    ASSUME ApiTypeOK, Shrunk, Moves, Chosen PROVE Chosen'
<1> SUFFICES ASSUME NEW r \in Request, NEW f \in Env, f # req'[r].env, Choosing(r)', LiveRow(f)'
             PROVE  Clear(PickedPorts(req[r]), PickedLn(req[r]), f)'
  BY DEF Chosen
<1> DEFINE q == req[r]
           p == req'[r]
<1>1. LiveRow(f) /\ rows'[f].port = rows[f].port /\ lightning'[f] = lightning[f]
  BY DEF Shrunk, LiveRow, Live, Stored
<1>2. CASE Blank(p)
  BY <1>2, NothingClear DEF Blank, Clear, Overlap, NoPorts, NoLn, PickedPorts, PickedLn
<1>3. CASE Same(r) \/ Carries(q, p)
  <2>1. /\ p.env = q.env /\ (p.pc \in Early <=> q.pc \in Early) /\ q.pc # "idle"
        /\ PickedPorts(p) = PickedPorts(q)
        /\ PickedLn(p) = PickedLn(q) \/ PickedLn(p) = NoLn
    BY <1>3 DEF Same, Carries, PickedPorts, PickedLn, Choosing
  <2>2. q.pc \in Early \/ LiveRow(q.env)
    <3>1. q.env \in Env
      BY <2>1, WorkFacts
    <3> QED BY <2>1, <3>1 DEF Choosing, Shrunk, LiveRow, Live, Stored
  <2>3. Clear(PickedPorts(q), PickedLn(q), f)
    BY <1>1, <2>1, <2>2 DEF Chosen, Choosing
  <2>4. Clear(PickedPorts(p), PickedLn(p), f)
    BY <2>1, <2>3 DEF Clear, Overlap, NoLn
  <2> QED BY <1>1, <2>4 DEF Clear, Overlap, PickedPorts, PickedLn
<1> QED BY <1>2, <1>3 DEF Moves

\* Where nobody gets more, nothing is picked and no id is forgotten, ports
\* stay apart.
LEMMA QuietStep ==
    ASSUME ApiTypeOK, PortInv, Shrunk, Moves, drawn \subseteq drawn' PROVE PortInv'
<1>1. Bare' /\ PortsDisjoint' /\ Chosen'
  BY ShrinkKeeps, ShrinkChosen DEF PortInv
<1>2. Known'
  BY DEF PortInv, Known, Moves, Same, Carries, Blank
<1> QED BY <1>1, <1>2 DEF PortInv

\* A handler that ends has picked nothing.
LEMMA DoneMoves ==
    ASSUME ApiTypeOK, NEW r \in Request, Done(r) PROVE Moves
<1>1. \A t \in Request : req'[t] = IF t = r THEN Idle ELSE req[t]
  BY DEF Done, ApiTypeOK
<1>2. Blank(Idle)
  BY DEF Blank, PickedPorts, PickedLn, Idle, Early, GivenUp
<1> QED BY <1>1, <1>2 DEF Moves, Same

\* What a handler remembers besides where it is.
Memory(h) == <<h.env, h.op, h.seen, h.port, h.asked, h.ln>>

\* A handler that moves on remembers what it knew.
LEMMA GotoMemory ==
    ASSUME ApiTypeOK, NEW r \in Request, req[r].pc # "idle", NEW pc, Goto(r, pc)
    PROVE  /\ req'[r].pc = pc /\ Memory(req'[r]) = Memory(req[r])
           /\ \A t \in Request \ {r} : req'[t] = req[t]
BY WorkFacts DEF Goto, ApiTypeOK, AtWork, Handler, Memory

\* A handler past its insert that only moves on has picked nothing new.
LEMMA GotoMoves ==
    ASSUME ApiTypeOK, NEW r \in Request, req[r].pc \notin Early \cup {"idle"},
           NEW pc \in Pc \ Early, pc \notin GivenUp => req[r].pc \notin GivenUp, Goto(r, pc)
    PROVE  Moves
<1>1. /\ req'[r].pc = pc /\ req'[r].env = req[r].env /\ req'[r].ln = req[r].ln
      /\ \A t \in Request \ {r} : req'[t] = req[t]
  BY GotoMemory DEF Memory
<1>2. Carries(req[r], req'[r])
  BY <1>1 DEF Carries
<1> QED BY <1>1, <1>2 DEF Moves, Same

\* A handler that picks what no other live record holds keeps ports apart.
LEMMA PickStep ==
    ASSUME PortInv, NEW r \in Request, req[r].pc # "idle",
           UNCHANGED <<storeVars, drawn>>, \A t \in Request \ {r} : req'[t] = req[t],
           req'[r].env = req[r].env, req'[r].pc \in Early <=> req[r].pc \in Early,
           \A f \in Env : f # req[r].env /\ LiveRow(f) /\ Choosing(r) =>
               Clear(PickedPorts(req'[r]), PickedLn(req'[r]), f)
    PROVE  PortInv'
<1>1. rows' = rows /\ lightning' = lightning /\ drawn' = drawn
  BY DEF storeVars
<1>2. Bare' /\ PortsDisjoint'
  BY <1>1 DEF PortInv, Bare, PortsDisjoint, Overlap, Stored, LiveRow
<1>3. Known'
  BY <1>1 DEF PortInv, Known
<1>4. ASSUME NEW t \in Request, NEW f \in Env, f # req'[t].env, Choosing(t)', LiveRow(f)'
      PROVE  Clear(PickedPorts(req'[t]), PickedLn(req'[t]), f)
  <2>1. LiveRow(f)
    BY <1>1, <1>4 DEF LiveRow
  <2>2. CASE t = r
    <3>1. Choosing(r)
      BY <1>1, <1>4, <2>2 DEF Choosing, LiveRow
    <3> QED BY <1>4, <2>1, <2>2, <3>1
  <2>3. CASE t # r
    <3>1. req'[t] = req[t]
      BY <2>3
    <3>2. Choosing(t)
      BY <1>1, <1>4, <3>1 DEF Choosing, LiveRow
    <3> QED BY <1>4, <2>1, <3>1, <3>2 DEF PortInv, Chosen
  <2> QED BY <2>2, <2>3
<1>5. Chosen'
  BY <1>1, <1>4 DEF Chosen, Clear, Overlap, PickedPorts, PickedLn
<1> QED BY <1>2, <1>3, <1>5 DEF PortInv

-----------------------------------------------------------------------------
(* The steps that pick ports, and those that record them.                  *)

\* A create that looks for a port of a pool takes one that no live record
\* holds (signet-db next_explorer_port, next_electrum_port).
LEMMA AllocPorts ==
    ASSUME TypeOK, PortInv, NEW r \in Request, CreateAlloc(r), ~Done(r)
    PROVE  PortInv'
<1> DEFINE q == req[r]
           p == req'[r]
           pool == IF "explorer" \in q.todo THEN "explorer" ELSE "electrum"
           left == q.todo \ {pool}
<1>t. ApiTypeOK
  BY DEF TypeOK
<1>1. q \in AtWork /\ q.port \in Ports /\ q.pc = "alloc"
  BY <1>t, WorkFacts DEF CreateAlloc, At
<1>2. PICK x \in NextPort(pool) :
        req' = [req EXCEPT ![r] = [q EXCEPT !.port[pool] = x, !.todo = left,
                                            !.pc = AfterPorts(left)]]
  BY DEF CreateAlloc
<1>3. /\ p = [q EXCEPT !.port[pool] = x, !.todo = left, !.pc = AfterPorts(left)]
      /\ \A t \in Request \ {r} : req'[t] = req[t]
  BY <1>t, <1>2 DEF ApiTypeOK
<1> HIDE DEF pool, left
<1>4. p.env = q.env /\ p.pc \in Early /\ p.port = [q.port EXCEPT ![pool] = x] /\ p.ln = q.ln
  BY <1>1, <1>3 DEF AtWork, Handler, AfterPorts, Early
<1>5. ASSUME NEW f \in Env, f # q.env, LiveRow(f)
      PROVE  Clear(PickedPorts(p), PickedLn(p), f)
  <2>1. Clear(q.port, q.ln, f)
    BY <1>1, <1>5 DEF PortInv, Chosen, Choosing, PickedPorts, PickedLn, Early, GivenUp
  <2>2. rows[f].port[pool] # x
    BY <1>5 DEF NextPort, LowestFreePort
  <2>3. ASSUME NEW y \in Pool, p.port[y] = rows[f].port[y] PROVE p.port[y] = NoPort
    <3>1. y # pool /\ p.port[y] = q.port[y]
      BY <1>1, <1>4, <2>2, <2>3 DEF Ports
    <3> QED BY <2>1, <2>3, <3>1 DEF Clear
  <2>4. PickedPorts(p) = p.port /\ PickedLn(p) = q.ln
    BY <1>4 DEF PickedPorts, PickedLn, Early, GivenUp
  <2> QED BY <2>1, <2>3, <2>4 DEF Clear
<1> QED BY <1>1, <1>3, <1>4, <1>5, PickStep DEF CreateAlloc, Early

\* A lightning port that is free is on no live list.
LEMMA FreeTriples ==
    ASSUME StoreTypeOK, NEW L \in SUBSET Instance, NEW g \in NextLightningPorts(L), NEW i \in L,
           NEW f \in Env, LiveRow(f), NEW y \in Instance
    PROVE  g[i] # NoPort /\ g[i] # lightning[f][y]
<1>1. g[i] \in LnPort \ HeldLightningPorts
  BY DEF NextLightningPorts
<1>2. g[i] # NoPort
  BY <1>1, PortAssumption DEF NoPort
<1>3. lightning[f][y] # NoPort => lightning[f][y] \in HeldLightningPorts
  BY DEF HeldLightningPorts, PortsOf, Named
<1> QED BY <1>1, <1>2, <1>3

\* Instances L with free triples, beside instances m that are clear of a live
\* record, are clear of it.
LEMMA FreeList ==
    ASSUME StoreTypeOK, NEW L \in SUBSET Instance, NEW g \in NextLightningPorts(L),
           NEW m \in LnMap, NEW f \in Env, LiveRow(f), ~Overlap(m, lightning[f])
    PROVE  ~Overlap([i \in Instance |-> IF i \in L THEN g[i] ELSE m[i]], lightning[f])
<1> SUFFICES ASSUME NEW x \in Instance, NEW y \in DOMAIN lightning[f],
                    (IF x \in L THEN g[x] ELSE m[x]) = lightning[f][y],
                    (IF x \in L THEN g[x] ELSE m[x]) # NoPort
             PROVE  FALSE
  BY DEF Overlap
<1>1. y \in Instance
  BY DEF StoreTypeOK, LnMap
<1>2. CASE x \in L
  BY <1>1, <1>2, FreeTriples
<1>3. CASE x \notin L
  BY <1>3 DEF Overlap, LnMap
<1> QED BY <1>2, <1>3

\* A create gives its instances triples that are free (next_lightning_ports).
LEMMA TriplePorts ==
    ASSUME TypeOK, PortInv, NEW r \in Request, CreateLnPorts(r), ~Done(r)
    PROVE  PortInv'
<1> DEFINE q == req[r]
           p == req'[r]
<1>t. StoreTypeOK /\ ApiTypeOK
  BY DEF TypeOK
<1>1. q \in AtWork /\ q.asked \in SUBSET Instance /\ q.pc = "lnports"
  BY <1>t, WorkFacts DEF CreateLnPorts, At
<1>2. PICK g \in NextLightningPorts(q.asked) :
        req' = [req EXCEPT ![r] = [q EXCEPT !.pc = "namespace", !.asked = {},
                 !.ln = [i \in Instance |-> IF i \in q.asked THEN g[i] ELSE NoPort]]]
  BY DEF CreateLnPorts
<1>3. /\ p = [q EXCEPT !.pc = "namespace", !.asked = {},
                !.ln = [i \in Instance |-> IF i \in q.asked THEN g[i] ELSE NoPort]]
      /\ \A t \in Request \ {r} : req'[t] = req[t]
  BY <1>t, <1>2 DEF ApiTypeOK
<1>4. /\ p.pc = "namespace" /\ p.env = q.env
      /\ p.ln = [i \in Instance |-> IF i \in q.asked THEN g[i] ELSE NoLn[i]]
  BY <1>1, <1>3 DEF AtWork, Handler, NoLn
<1>5. ASSUME NEW f \in Env, LiveRow(f)
      PROVE  Clear(PickedPorts(p), PickedLn(p), f)
  <2>1. ~Overlap(p.ln, lightning[f])
    BY <1>t, <1>1, <1>4, <1>5, FreeList, NothingClear, Empties DEF Clear
  <2>2. PickedPorts(p) = NoPorts /\ PickedLn(p) = p.ln
    BY <1>4 DEF PickedPorts, PickedLn, Early, GivenUp
  <2> QED BY <2>1, <2>2, NothingClear DEF Clear
<1> QED BY <1>1, <1>3, <1>4, <1>5, PickStep DEF CreateLnPorts, Early

\* An update takes over what is recorded for its environment, which is clear of
\* the others as long as it is live.
LEMMA ReadPorts ==
    ASSUME TypeOK, PortInv, NEW r \in Request, UpdateRead(r), ~Done(r)
    PROVE  PortInv'
<1> DEFINE q == req[r]
           p == req'[r]
           additions == q.asked \ Named(lightning[q.env])
<1>t. ApiTypeOK
  BY DEF TypeOK
<1>1. q \in AtWork /\ q.env \in Env /\ q.pc = "lnread"
  BY <1>t, WorkFacts DEF UpdateRead, At
<1>2. /\ p = [q EXCEPT !.pc = "lnalloc", !.asked = additions, !.ln = lightning[q.env]]
      /\ \A t \in Request \ {r} : req'[t] = req[t]
  BY <1>t DEF UpdateRead, ApiTypeOK
<1> HIDE DEF additions
<1>3. p.pc = "lnalloc" /\ p.env = q.env /\ p.ln = lightning[q.env]
  BY <1>1, <1>2 DEF AtWork, Handler
<1>4. ASSUME NEW f \in Env, f # q.env, LiveRow(f), Choosing(r)
      PROVE  Clear(PickedPorts(p), PickedLn(p), f)
  <2>1. ~Overlap(lightning[q.env], lightning[f])
    BY <1>1, <1>4 DEF PortInv, PortsDisjoint, Choosing, Early
  <2>2. PickedPorts(p) = NoPorts /\ PickedLn(p) = lightning[q.env]
    BY <1>3 DEF PickedPorts, PickedLn, Early, GivenUp
  <2> QED BY <2>1, <2>2, NothingClear DEF Clear
<1> QED BY <1>1, <1>2, <1>3, <1>4, PickStep DEF UpdateRead, Early

\* ... and gives its additions triples that are free.
LEMMA AddedPorts ==
    ASSUME TypeOK, PortInv, NEW r \in Request, UpdateAlloc(r), ~Done(r)
    PROVE  PortInv'
<1> DEFINE q == req[r]
           p == req'[r]
<1>t. StoreTypeOK /\ ApiTypeOK
  BY DEF TypeOK
<1>1. /\ q \in AtWork /\ q.pc = "lnalloc" /\ q.asked \in SUBSET Instance /\ q.ln \in LnMap
  BY <1>t, WorkFacts DEF UpdateAlloc, At
<1>2. PICK g \in NextLightningPorts(q.asked) :
        req' = [req EXCEPT ![r] = [q EXCEPT !.pc = "lnapply",
                 !.ln = [i \in Instance |-> IF i \in q.asked THEN g[i] ELSE q.ln[i]]]]
  BY DEF UpdateAlloc
<1>3. /\ p = [q EXCEPT !.pc = "lnapply",
                !.ln = [i \in Instance |-> IF i \in q.asked THEN g[i] ELSE q.ln[i]]]
      /\ \A t \in Request \ {r} : req'[t] = req[t]
  BY <1>t, <1>2 DEF ApiTypeOK
<1>4. /\ p.pc = "lnapply" /\ p.env = q.env
      /\ p.ln = [i \in Instance |-> IF i \in q.asked THEN g[i] ELSE q.ln[i]]
  BY <1>1, <1>3 DEF AtWork, Handler
<1>5. ASSUME NEW f \in Env, f # q.env, LiveRow(f), Choosing(r)
      PROVE  Clear(PickedPorts(p), PickedLn(p), f)
  <2>1. ~Overlap(q.ln, lightning[f])
    BY <1>1, <1>5 DEF PortInv, Chosen, PickedLn, GivenUp, Clear
  <2>2. ~Overlap(p.ln, lightning[f])
    BY <1>t, <1>1, <1>4, <1>5, <2>1, FreeList
  <2>3. PickedPorts(p) = NoPorts /\ PickedLn(p) = p.ln
    BY <1>4 DEF PickedPorts, PickedLn, Early, GivenUp
  <2> QED BY <2>2, <2>3, NothingClear DEF Clear
<1> QED BY <1>1, <1>3, <1>4, <1>5, PickStep DEF UpdateAlloc, Early

\* An insert records what its create has picked: no live record holds it, and
\* no other handler has picked it.
LEMMA InsertPorts ==
    ASSUME TypeOK, LeaseInv, PortInv, ChoicesApart, NEW r \in Request, CreateInsert(r), ~Done(r)
    PROVE  PortInv'
<1> DEFINE q == req[r]
           p == req'[r]
           e == q.env
<1>t. StoreTypeOK /\ ApiTypeOK
  BY DEF TypeOK
<1>1. /\ q \in AtWork /\ q.pc = "insert" /\ e \in Env \ drawn
      /\ lightning' = lightning /\ drawn' = drawn \cup {e}
  BY <1>t, WorkFacts DEF CreateInsert, At, LeaseInv, IdsApart, Early
<1>2. /\ InsertRow(e, q.owner, q.name, q.port)
      /\ p = [q EXCEPT !.pc = IF q.asked = {} THEN "namespace" ELSE "lnports",
                       !.owner = None, !.name = None]
      /\ \A t \in Request \ {r} : req'[t] = req[t]
  BY <1>t DEF CreateInsert, ApiTypeOK
<1>3. p.pc \in {"namespace", "lnports"} /\ p.env = e /\ p.ln = q.ln
  BY <1>1, <1>2 DEF AtWork, Handler
<1>4. /\ rows'[e].status = "provisioning" /\ rows'[e].port = q.port
      /\ \A f \in Env \ {e} : rows'[f] = rows[f]
  BY <1>t, <1>1, <1>2 DEF InsertRow, StoreTypeOK
<1>5. ~Stored(e) /\ lightning[e] = NoLn
  BY <1>1 DEF LeaseInv, RowsDrawn, PortInv, Bare
<1>6. ASSUME NEW t \in Request \ {r}
      PROVE  /\ req[t].env # e
             /\ req[t].pc \in Early => req[t].env \notin drawn
  <2>1. CASE req[t].pc \in Early
    BY <1>1, <2>1 DEF LeaseInv, IdsApart, Before, Early
  <2>2. CASE req[t].pc \notin Early
    <3>1. req[t].env \in drawn \cup {None}
      BY <2>2 DEF PortInv, Known
    <3> QED BY <1>1, <2>2, <3>1, NoneAssumption
  <2> QED BY <2>1, <2>2
<1> HIDE DEF p, e
<1>7. Bare' /\ Known'
  <2>1. Bare'
    BY <1>1, <1>4 DEF PortInv, Bare, Stored
  <2>2. Known'
    BY <1>1, <1>2, <1>3 DEF PortInv, Known, p
  <2> QED BY <2>1, <2>2
\* The new record is clear of the others,
<1>8. ASSUME NEW f \in Env \ {e}, LiveRow(f)
      PROVE  Clear(q.port, q.ln, f)
  BY <1>1, <1>8 DEF PortInv, Chosen, Choosing, PickedPorts, PickedLn, GivenUp, Early, e
<1>9. PortsDisjoint'
  <2>1. ASSUME NEW x \in Env, NEW y \in Env, x # y, LiveRow(x)', LiveRow(y)'
        PROVE  /\ \A z \in Pool : rows'[x].port[z] = rows'[y].port[z] => rows'[x].port[z] = NoPort
               /\ ~Overlap(lightning[x], lightning[y])
    <3>1. CASE x = e
      BY <1>4, <1>5, <1>8, <2>1, <3>1 DEF Clear, Overlap, NoLn, LiveRow
    <3>2. CASE y = e
      BY <1>4, <1>5, <1>8, <2>1, <3>2 DEF Clear, Overlap, NoLn, LiveRow
    <3>3. CASE x # e /\ y # e
      BY <1>4, <2>1, <3>3 DEF PortInv, PortsDisjoint, LiveRow
    <3> QED BY <3>1, <3>2, <3>3
  <2> QED BY <1>1, <2>1 DEF PortsDisjoint, Overlap
\* ... and of what other handlers have picked.
<1>10. ASSUME NEW t \in Request, NEW f \in Env, f # req'[t].env, Choosing(t)', LiveRow(f)'
       PROVE  Clear(PickedPorts(req[t]), PickedLn(req[t]), f)'
  <2>1. CASE t = r
    <3>1. f # e /\ LiveRow(f) /\ rows'[f] = rows[f]
      BY <1>3, <1>4, <1>10, <2>1 DEF LiveRow, p
    <3>2. PickedPorts(p) = NoPorts /\ PickedLn(p) = q.ln
      BY <1>3 DEF PickedPorts, PickedLn, Early, GivenUp
    <3> QED BY <1>1, <1>8, <2>1, <3>1, <3>2 DEF Clear, Overlap, NoPorts, PickedPorts, PickedLn, p
  <2>2. CASE t # r
    <3>1. req'[t] = req[t] /\ req[t].env # e /\ req[t].pc # "idle"
      BY <1>2, <1>6, <1>10, <2>2 DEF Choosing
    <3>2. req[t].env \in Env
      BY <1>t, <3>1, WorkFacts
    <3>3. Choosing(t)
      BY <1>4, <1>10, <3>1, <3>2 DEF Choosing, LiveRow
    <3>4. CASE f = e
      <4>1. \A x \in Pool : PickedPorts(req[t])[x] = q.port[x] => PickedPorts(req[t])[x] = NoPort
        BY <1>1, <3>1, <3>3 DEF ChoicesApart, Choosing, PickedPorts, Early, e
      <4> QED BY <1>1, <1>4, <1>5, <3>1, <3>4, <4>1
              DEF Clear, Overlap, NoLn, PickedPorts, PickedLn
    <3>5. CASE f # e
      <4>1. rows'[f] = rows[f] /\ LiveRow(f)
        BY <1>4, <1>10, <3>5 DEF LiveRow
      <4> QED BY <1>1, <1>10, <3>1, <3>3, <4>1
              DEF PortInv, Chosen, Clear, Overlap, PickedPorts, PickedLn
    <3> QED BY <3>4, <3>5
  <2> QED BY <2>1, <2>2
<1> QED BY <1>7, <1>9, <1>10 DEF PortInv, Chosen

\* A handler that replaces the instances of its record records what it has
\* picked, and ends.
LEMMA ListPorts ==
    ASSUME TypeOK, PortInv, ChoicesApart, NEW r \in Request,
           req[r].pc \notin GivenUp \cup {"idle"},
           SetLightning(req[r].env, req[r].ln), Done(r), drawn' = drawn
    PROVE  PortInv'
<1> DEFINE e == req[r].env
           m == req[r].ln
<1>t. StoreTypeOK /\ ApiTypeOK
  BY DEF TypeOK
<1>1. e \in Env /\ rows' = rows
  BY <1>t, WorkFacts DEF SetLightning
<1>m. Moves
  BY <1>t, DoneMoves
<1>2. CASE ~Stored(e)
  <2>1. Shrunk
    BY <1>1, <1>2 DEF SetLightning, Shrunk, Stored, LiveRow
  <2> QED BY <1>t, <1>m, <2>1, QuietStep
<1>3. CASE Stored(e)
  <2>1. lightning'[e] = m /\ \A f \in Env \ {e} : lightning'[f] = lightning[f]
    BY <1>t, <1>1, <1>3 DEF SetLightning, StoreTypeOK
  <2>2. req'[r] = Idle /\ \A t \in Request \ {r} : req'[t] = req[t]
    BY <1>t DEF Done, ApiTypeOK
  <2> HIDE DEF e, m
  <2>3. Bare' /\ Known'
    <3>1. Bare'
      BY <1>1, <1>3, <2>1 DEF PortInv, Bare, Stored
    <3>2. Known'
      BY <2>2 DEF PortInv, Known, Idle
    <3> QED BY <3>1, <3>2
  <2>4. ASSUME LiveRow(e), NEW f \in Env \ {e}, LiveRow(f)
        PROVE  ~Overlap(m, lightning[f])
    BY <2>4 DEF PortInv, Chosen, Choosing, PickedLn, Clear, e, m
  <2>5. PortsDisjoint'
    <3>1. ASSUME NEW x \in Env, NEW y \in Env, x # y, LiveRow(x), LiveRow(y)
          PROVE  ~Overlap(lightning'[x], lightning'[y])
      <4>1. CASE x = e
        BY <2>1, <2>4, <3>1, <4>1
      <4>2. CASE y = e
        BY <2>1, <2>4, <3>1, <4>2 DEF Overlap
      <4>3. CASE x # e /\ y # e
        BY <2>1, <3>1, <4>3 DEF PortInv, PortsDisjoint
      <4> QED BY <4>1, <4>2, <4>3
    <3> QED BY <1>1, <3>1 DEF PortInv, PortsDisjoint, Overlap, LiveRow
  <2>6. ASSUME NEW t \in Request, NEW f \in Env, f # req'[t].env, Choosing(t)', LiveRow(f)'
        PROVE  Clear(PickedPorts(req[t]), PickedLn(req[t]), f)'
    <3>1. t # r /\ req'[t] = req[t] /\ req[t].pc # "idle" /\ LiveRow(f)
      BY <1>1, <2>2, <2>6 DEF Choosing, Idle, LiveRow
    <3>2. Choosing(t)
      BY <1>1, <2>6, <3>1 DEF Choosing, LiveRow
    <3>3. Clear(PickedPorts(req[t]), PickedLn(req[t]), f)
      BY <2>6, <3>1, <3>2 DEF PortInv, Chosen
    <3>4. ~Overlap(PickedLn(req[t]), lightning'[f])
      <4>1. CASE f = e
        <5>1. Choosing(r) /\ PickedLn(req[r]) = m
          BY <3>1, <4>1 DEF Choosing, PickedLn, e, m
        <5> QED BY <2>1, <2>6, <3>1, <3>2, <4>1, <5>1 DEF ChoicesApart, e
      <4>2. CASE f # e
        BY <2>1, <3>3, <4>2 DEF Clear
      <4> QED BY <4>1, <4>2
    <3> QED BY <1>1, <3>1, <3>3, <3>4 DEF Clear, Overlap, PickedPorts, PickedLn
  <2> QED BY <2>3, <2>5, <2>6 DEF PortInv, Chosen
<1> QED BY <1>2, <1>3

-----------------------------------------------------------------------------
(* Every step keeps ports apart.                                           *)

\* A purge on behalf of a create goes on with what it was to insert.
LEMMA PurgeMoves ==
    ASSUME ApiTypeOK, NEW r \in Request, CreatePurge(r) PROVE Moves
<1> DEFINE q == req[r]
           p == req'[r]
<1>1. CASE Done(r)
  BY <1>1, DoneMoves
<1>2. CASE ~Done(r)
  <2>1. q \in AtWork /\ q.pc = "purge"
    BY WorkFacts DEF CreatePurge, At
  <2>2. /\ p = [q EXCEPT !.pc = AfterPorts(q.todo), !.old = None]
        /\ \A t \in Request \ {r} : req'[t] = req[t]
    BY <1>2 DEF CreatePurge, ApiTypeOK
  <2>3. p.env = q.env /\ p.port = q.port /\ p.ln = q.ln /\ p.pc \in Early
    BY <2>1, <2>2 DEF AtWork, Handler, AfterPorts, Early
  <2>4. Carries(q, p)
    BY <2>1, <2>3 DEF Carries, Early, GivenUp
  <2> QED BY <2>2, <2>4 DEF Moves, Same
<1> QED BY <1>1, <1>2

\* A handler that has checked its namespace has picked nothing new.
LEMMA CheckMoves ==
    ASSUME ApiTypeOK, NEW r \in Request, CheckExists(r) PROVE Moves
<1> DEFINE q == req[r]
           p == req'[r]
           next == AfterReconcile(q.op, q.seen)
<1>0. q \in AtWork /\ q.pc = "exists"
  BY WorkFacts DEF CheckExists, At
<1>1. CASE Done(r)
  BY <1>1, DoneMoves
<1>2. CASE Goto(r, "expire")
  BY <1>0, <1>2, GotoMoves DEF Pc, Early, GivenUp
<1>3. CASE ~Done(r) /\ ~Goto(r, "expire")
  <2>1. /\ p = [q EXCEPT !.pc = next, !.seen = "none"]
        /\ \A t \in Request \ {r} : req'[t] = req[t]
    BY <1>3 DEF CheckExists, ApiTypeOK
  <2>2. next \in {"coreready", "scaleSts", "lnread", "idle"}
    BY DEF AfterReconcile
  <2> HIDE DEF next
  <2>3. p.pc = next /\ p.env = q.env /\ p.ln = q.ln
    BY <1>0, <2>1 DEF AtWork, Handler
  <2>4. Carries(q, p)
    BY <1>0, <2>2, <2>3 DEF Carries, Early, GivenUp
  <2> QED BY <2>1, <2>4 DEF Moves, Same
<1> QED BY <1>1, <1>2, <1>3

\* A request that arrives has picked nothing, and is for a new id or for one
\* that is used up.
LEMMA ArriveMoves ==
    ASSUME ApiTypeOK, RowsDrawn, NEW r \in Request, Arrive(r) PROVE Moves
<1> DEFINE p == req'[r]
<1>1. ASSUME NEW o \in Owner, NEW n \in Name, NEW ttl, NEW want, NEW asked,
             CreateLookup(r, o, n, ttl, want, asked)
      PROVE  Moves
  <2> DEFINE H(e, old, pc) ==
        [pc |-> pc, op |-> "create", env |-> e, old |-> old, owner |-> o,
         name |-> n, ttl |-> ttl, seen |-> "none", todo |-> want,
         port |-> NoPorts, asked |-> asked, ln |-> NoLn]
  <2>1. PICK e \in FreshIds, old \in Env \cup {None}, pc \in Early :
          req' = [req EXCEPT ![r] = H(e, old, pc)]
    BY <1>1 DEF CreateLookup, AfterPorts, RowsNamed, Early
  <2>2. p = H(e, old, pc) /\ \A t \in Request \ {r} : req'[t] = req[t]
    BY <2>1 DEF ApiTypeOK
  <2>3. Blank(p)
    BY <2>2 DEF Blank, PickedPorts, PickedLn
  <2> QED BY <2>2, <2>3 DEF Moves, Same
<1>2. ASSUME NEW op \in StoredOps, NEW o \in Owner, NEW e \in Env, NEW asked,
             Lookup(r, op, o, e, asked)
      PROVE  Moves
  <2>1. /\ p.pc = AfterLookup(op, rows[e].status)
        /\ p.env = e /\ p.port = NoPorts /\ p.ln = NoLn
        /\ \A t \in Request \ {r} : req'[t] = req[t]
    BY <1>2 DEF Lookup, ApiTypeOK
  <2>2. p.pc \notin Early
    BY <2>1 DEF AfterLookup, StoredOps, Early
  <2>3. e \in drawn
    BY <1>2 DEF Lookup, RowsDrawn
  <2>4. Blank(p)
    BY <2>1, <2>2, <2>3 DEF Blank, PickedPorts, PickedLn
  <2> QED BY <2>1, <2>4 DEF Moves, Same
<1> QED BY <1>1, <1>2 DEF Arrive

\* Every step of a handler keeps ports apart.
LEMMA HandlePorts ==
    ASSUME TypeOK, LeaseInv, PortInv, ChoicesApart, NoRevival, NEW r \in Request, Handle(r)
    PROVE  PortInv'
<1>t. StoreTypeOK /\ ApiTypeOK
  BY DEF TypeOK
<1>q. ASSUME Moves, drawn' = drawn,
             \/ UNCHANGED storeVars
             \/ \E e, st : st # "none" /\ SetStatus(e, st)
             \/ \E e : Purge(e)
      PROVE  PortInv'
  BY <1>t, <1>q, ShrinkingStatements, QuietStep
<1>1. CASE CreatePurge(r)
  BY <1>t, <1>q, <1>1, PurgeMoves DEF CreatePurge
<1>2. CASE CreateAlloc(r)
  BY <1>t, <1>q, <1>2, AllocPorts, DoneMoves DEF CreateAlloc
<1>3. CASE CreateInsert(r)
  <2>1. ASSUME Done(r) PROVE UNCHANGED <<storeVars, drawn>>
    <3>1. req'[r] = Idle /\ req[r] \in AtWork
      BY <1>t, <1>3, <2>1, WorkFacts DEF Done, ApiTypeOK, CreateInsert, At
    <3>2. [req[r] EXCEPT !.pc = IF req[r].asked = {} THEN "namespace" ELSE "lnports",
                         !.owner = None, !.name = None].pc # "idle"
      BY <3>1 DEF AtWork, Handler
    <3>3. Idle.pc = "idle"
      BY DEF Idle
    <3> QED BY <1>t, <1>3, <3>1, <3>2, <3>3 DEF CreateInsert, ApiTypeOK, storeVars
  <2> QED BY <1>t, <1>q, <1>3, <2>1, InsertPorts, DoneMoves
<1>4. CASE CreateLnPorts(r)
  BY <1>t, <1>q, <1>4, TriplePorts, DoneMoves DEF CreateLnPorts
<1>5. CASE CreateNs(r) \/ CreateWorkloads(r) \/ CreateExpose(r) \/ CreateCleanup(r)
  <2>1. \E pc \in {"workloads", "expose", "setln"} \cup GivenUp : Goto(r, pc)
    BY <1>5 DEF CreateNs, CreateWorkloads, CreateExpose, IntoNamespace, CreateCleanup, GivenUp
  <2>2. req[r].pc \in {"namespace", "workloads", "expose", "cleanup"}
    BY <1>5 DEF CreateNs, CreateWorkloads, CreateExpose, CreateCleanup, At
  <2>3. req[r].pc = "cleanup" => Goto(r, "condemn")
    BY <1>5 DEF CreateNs, CreateWorkloads, CreateExpose, CreateCleanup, At
  <2>4. Moves
    BY <1>t, <2>1, <2>2, <2>3, GotoMoves DEF Pc, Early, GivenUp
  <2> QED BY <1>q, <1>5, <2>4 DEF CreateNs, CreateWorkloads, CreateExpose, CreateCleanup
<1>6. CASE CreateSetLightning(r) \/ UpdateSetLightning(r)
  BY <1>6, ListPorts DEF CreateSetLightning, UpdateSetLightning, At, GivenUp
<1>7. CASE CheckExists(r)
  BY <1>t, <1>q, <1>7, CheckMoves DEF CheckExists
<1>8. CASE Expire(r) \/ Condemn(r) \/ Promote(r) \/ Settle(r) \/ DeleteRecord(r)
  <2>1. Done(r) /\ drawn' = drawn
    BY <1>8 DEF Expire, Condemn, Promote, Settle, DeleteRecord
  <2>2. (\E e, st : st # "none" /\ SetStatus(e, st)) \/ \E e : Purge(e)
    BY <1>8 DEF Expire, Condemn, Promote, Settle, ResultStatus, DeleteRecord
  <2> QED BY <1>t, <1>q, <2>1, <2>2, DoneMoves
<1>9. CASE CoreReady(r) \/ ScaleSts(r) \/ ScaleDep(r) \/ DestroyTeardown(r) \/ UpdateApply(r)
  <2>1. \/ Done(r)
        \/ \E pc \in {"promote", "scaleDep", "settle", "condemn"} : Goto(r, pc)
        \/ req[r].pc = "lnapply" /\ Goto(r, "lnset")
    BY <1>9 DEF CoreReady, ScaleSts, ScaleDep, DestroyTeardown, UpdateApply, At
  <2>2. req[r].pc \in {"coreready", "scaleSts", "scaleDep", "teardown", "lnapply"}
    BY <1>9 DEF CoreReady, ScaleSts, ScaleDep, DestroyTeardown, UpdateApply, At
  <2>3. Moves
    BY <1>t, <2>1, <2>2, DoneMoves, GotoMoves DEF Pc, Early, GivenUp
  <2> QED BY <1>q, <1>9, <2>3 DEF CoreReady, ScaleSts, ScaleDep, DestroyTeardown, UpdateApply
<1>10. CASE UpdateRead(r) \/ UpdateAlloc(r)
  BY <1>t, <1>q, <1>10, ReadPorts, AddedPorts, DoneMoves DEF UpdateRead, UpdateAlloc
<1> QED BY <1>1, <1>2, <1>3, <1>4, <1>5, <1>6, <1>7, <1>8, <1>9, <1>10
        DEF Handle, CreateStep, StoredStep

\* Every step does.
LEMMA PortStep ==
    TypeOK /\ LeaseInv /\ ChoicesApart /\ [Next]_vars /\ [NoRevival]_vars /\ PortInv => PortInv'
<1> SUFFICES ASSUME TypeOK, LeaseInv, ChoicesApart, [Next]_vars, [NoRevival]_vars, PortInv
             PROVE  PortInv'
  OBVIOUS
<1>t. StoreTypeOK /\ ApiTypeOK
  BY DEF TypeOK
<1>r. NoRevival
  BY DEF NoRevival, vars, storeVars, LiveRow, Live, Dead
<1>d. drawn \subseteq drawn'
  BY OneSlotStep, DrawnStays
<1>q. ASSUME Moves, UNCHANGED storeVars \/ \E s : MarkExpired(s) PROVE PortInv'
  BY <1>t, <1>r, <1>d, <1>q, ShrinkingStatements, QuietStep
<1>s. UNCHANGED req => Moves
  BY DEF Moves, Same
<1>1. CASE ApiStep
  <2>1. PICK r \in Request : Arrive(r) \/ Handle(r) \/ Abandon(r)
    BY <1>1 DEF ApiStep
  <2>2. CASE Arrive(r)
    BY <1>t, <1>q, <2>2, ArriveMoves DEF Arrive, CreateLookup, Lookup, LeaseInv
  <2>3. CASE Abandon(r)
    BY <1>t, <1>q, <2>3, DoneMoves DEF Abandon
  <2> QED BY <1>r, <2>1, <2>2, <2>3, HandlePorts
<1>2. CASE Reap
  BY <1>q, <1>s, <1>2 DEF Reap, ReaperStep, ListExpired, ReapOne, StartMarking, MarkOne, apiVars
<1>3. CASE ClusterStep \/ UNCHANGED vars
  BY <1>q, <1>s, <1>3 DEF ClusterStep, vars, apiVars
<1>4. CASE Crash
  <2>1. \A t \in Request : req'[t] = Idle
    BY <1>4 DEF Crash
  <2>2. Blank(Idle)
    BY DEF Blank, PickedPorts, PickedLn, Idle, Early, GivenUp
  <2> QED BY <1>q, <1>4, <2>1, <2>2 DEF Crash, Moves
<1> QED BY <1>1, <1>2, <1>3, <1>4 DEF Next

\* No two live environments hold the same port, however many requests are in
\* flight, whatever fails and whenever the process dies, but for two races:
\* two handlers that have picked the same port and not yet recorded it
\* (signet-db next_explorer_port, next_electrum_port and next_lightning_ports
\* reserve nothing: bug_ports), and a status written over one that has
\* meanwhile become dead (signet-db set_environment_status: bug_reaped).
THEOREM PortsAlwaysDisjoint ==
    Spec /\ []ChoicesApart /\ [][NoRevival]_vars => []PortsDisjoint
<1>1. Init => PortInv
  <2> SUFFICES ASSUME Init PROVE PortInv
    OBVIOUS
  <2>1. /\ \A r \in Request : req[r] = Idle
        /\ \A e \in Env : rows[e] = NoRow /\ lightning[e] = NoLn
    BY DEF Init, StoreInit, ApiInit
  <2> QED BY <2>1 DEF PortInv, Bare, Known, PortsDisjoint, Chosen, Choosing, LiveRow, Live, NoRow,
               Idle
<1>2. PortInv => PortsDisjoint
  BY DEF PortInv
<1>3. Spec => []LeaseInv
  BY Leases
<1> QED BY <1>1, <1>2, <1>3, PortStep, TypeCorrect, PTL DEF Spec

-----------------------------------------------------------------------------
(* Records and namespaces.  A create inserts its record some awaits before *)
(* it makes the namespace: a handler that works for the same environment   *)
(* meanwhile finds no namespace, and writes the record off (bug_purge).    *)
(* Short of that, one failure is always made good.                         *)

\* Nobody else works for an environment that waits for its namespace.
CreatesAlone ==
    \A r, t \in Request :
        r # t /\ req[r].pc \in {"lnports", "namespace"} => req[t].env # req[r].env

\* A create that is about to make a namespace has a live record.
Charged == \A r \in Request : req[r].pc \in {"lnports", "namespace"} => LiveRow(req[r].env)

\* A namespace the reaper has deleted is gone for good, and is not that of a
\* create under way.
ReapedGone == \A s \in reaper.reaped : ~Active(s) /\ \E e \in drawn : Short[e] = s
ReapedElse == \A r \in Request : req[r].pc \in Before => Home(r) \notin reaper.reaped

\* One failure is not enough to leave a namespace running without a record.
Tracked == faults <= 1 => ActiveTracked

\* What a handler that is about to write off a record knows of its namespace.
WritesOff ==
    \A r \in Request :
        /\ req[r].pc = "cleanup" => ~Active(Home(r)) \/ faults >= 1
        /\ req[r].pc = "condemn" => ~Active(Home(r)) \/ faults >= 2
        /\ req[r].pc = "expire" => ~Exists(Home(r))

LifeInv == Charged /\ ReapedGone /\ ReapedElse /\ Tracked /\ WritesOff

\* A step counts at most one failure, and takes none back.
LEMMA FaultsGrow ==
    ASSUME TypeOK, [Next]_vars
    PROVE  faults \in Nat /\ (faults' = faults \/ faults' = faults + 1)
<1> SUFFICES faults' = faults \/ faults' = faults + 1
  BY MaxFaultsAssumption DEF TypeOK, KubeTypeOK
<1>1. CASE ApiStep
  <2>1. PICK r \in Request : Arrive(r) \/ Handle(r) \/ Abandon(r)
    BY <1>1 DEF ApiStep
  <2>2. CASE Arrive(r) \/ Abandon(r)
    BY <2>2 DEF Arrive, CreateLookup, Lookup, Abandon, Fault
  <2>3. CASE CreateStep(r)
    BY <2>3 DEF CreateStep, CreatePurge, CreateAlloc, CreateInsert, CreateLnPorts, CreateNs,
       CreateWorkloads, CreateExpose, IntoNamespace, CreateSetLightning, CreateCleanup,
       Fault, NoFault
  <2>4. CASE StoredStep(r)
    BY <2>4 DEF StoredStep, CheckExists, Expire, CoreReady, Promote, ScaleSts, ScaleDep,
       Settle, DestroyTeardown, Condemn, DeleteRecord, UpdateRead, UpdateAlloc, UpdateApply,
       UpdateSetLightning, Fault, NoFault
  <2> QED BY <2>1, <2>2, <2>3, <2>4 DEF Handle
<1>2. CASE Reap
  BY <1>2 DEF Reap, ReaperStep, ListExpired, ReapOne, StartMarking, MarkOne, Fault, NoFault
<1>3. CASE ClusterStep \/ Crash \/ UNCHANGED vars
  BY <1>3 DEF ClusterStep, Crash, Fault, vars
<1> QED BY <1>1, <1>2, <1>3 DEF Next

\* What the reaper has deleted grows by what it deletes.
LEMMA ReapedStep ==
    ASSUME TypeOK, [Next]_vars, NEW s \in reaper'.reaped
    PROVE  \/ s \in reaper.reaped
           \/ s \in reaper.due /\ ~Active(s)' /\ UNCHANGED <<req, drawn>>
<1>r. ReaperTypeOK /\ ns \in [ShortId -> Namespace]
  BY DEF TypeOK, KubeTypeOK
<1>1. CASE Reap
  <2>1. CASE ReapOne
    <3>1. PICK u \in reaper.due :
            \/ /\ DeleteNamespace(u)
               /\ reaper' = [reaper EXCEPT !.due = @ \ {u}, !.reaped = @ \cup {u}]
            \/ reaper' = [reaper EXCEPT !.due = @ \ {u}]
      BY <2>1 DEF ReapOne
    <3>2. u \in ShortId
      BY <1>r DEF ReaperTypeOK
    <3>3. DeleteNamespace(u) => ~Active(u)'
      BY <1>r, <3>2 DEF DeleteNamespace, Active, Namespace
    <3>4. \/ reaper'.reaped \subseteq reaper.reaped
          \/ DeleteNamespace(u) /\ reaper'.reaped \subseteq reaper.reaped \cup {u}
      BY <1>r, <3>1 DEF ReaperTypeOK
    <3> QED BY <1>1, <3>3, <3>4 DEF Reap, apiVars
  <2>2. CASE ListExpired \/ StartMarking \/ MarkOne
    BY <1>r, <2>2 DEF ListExpired, StartMarking, MarkOne, Asleep, ReaperTypeOK
  <2> QED BY <1>1, <2>1, <2>2 DEF Reap, ReaperStep
<1>2. CASE Crash
  BY <1>2 DEF Crash, Asleep
<1>3. CASE ApiStep \/ ClusterStep \/ UNCHANGED vars
  BY <1>3 DEF ApiStep, ClusterStep, vars
<1> QED BY <1>1, <1>2, <1>3 DEF Next


\* A live record is written off by a handler that is there to do so, or by the
\* reaper that has deleted its namespace.
LEMMA Dies ==
    ASSUME TypeOK, [Next]_vars, NEW e \in Env, LiveRow(e), ~LiveRow(e)'
    PROVE  \/ \E r \in Request : /\ e = req[r].env /\ req[r].pc \in {"expire", "condemn"}
                                 /\ UNCHANGED ns
           \/ Short[e] \in reaper.reaped /\ UNCHANGED ns
<1>t. rows \in [Env -> Row]
  BY DEF TypeOK, StoreTypeOK
<1>p. ASSUME NEW x, Purge(x) PROVE FALSE
  BY <1>t, <1>p DEF Purge, storeVars, LiveRow, Live, Dead
<1>s. ASSUME NEW x, NEW st, SetStatus(x, st) PROVE e = x /\ st \notin Live
  BY <1>t, <1>s DEF SetStatus, LiveRow, Row
<1>u. rows' # rows
  BY DEF LiveRow
<1>1. CASE ApiStep
  <2>0. PICK r \in Request : Arrive(r) \/ Handle(r) \/ Abandon(r)
    BY <1>1 DEF ApiStep
  <2>1. CASE Arrive(r) \/ Abandon(r)
    BY <1>u, <2>1 DEF Arrive, CreateLookup, Lookup, Abandon, storeVars
  <2>2. CASE CreateStep(r)
    <3>1. CASE CreateInsert(r)
      BY <1>t, <1>u, <3>1 DEF CreateInsert, InsertRow, LiveRow, Live
    <3>2. CASE CreatePurge(r)
      BY <1>p, <3>2 DEF CreatePurge
    <3> QED BY <1>u, <2>2, <3>1, <3>2 DEF CreateStep, CreateAlloc, CreateLnPorts, CreateNs,
       CreateWorkloads, CreateExpose, CreateSetLightning, SetLightning, CreateCleanup, storeVars
  <2>3. CASE StoredStep(r)
    <3>1. CASE DeleteRecord(r)
      BY <1>p, <3>1 DEF DeleteRecord
    <3>2. CASE Expire(r) \/ Condemn(r)
      BY <1>s, <3>2 DEF Expire, Condemn, At, kubeVars
    <3>3. CASE Promote(r) \/ Settle(r)
      BY <1>s, <3>3 DEF Promote, Settle, ResultStatus, Live
    <3> QED BY <1>u, <2>3, <3>1, <3>2, <3>3 DEF StoredStep, CheckExists, CoreReady, ScaleSts,
       ScaleDep, DestroyTeardown, UpdateRead, UpdateAlloc, UpdateApply, UpdateSetLightning,
       SetLightning, storeVars
  <2> QED BY <2>0, <2>1, <2>2, <2>3 DEF Handle
<1>2. CASE Reap
  <2>1. CASE MarkOne
    <3>1. PICK s \in reaper.reaped : MarkExpired(s)
      BY <1>u, <2>1 DEF MarkOne, storeVars
    <3> QED BY <1>t, <2>1, <3>1 DEF MarkExpired, MarkOne, LiveRow, kubeVars
  <2> QED BY <1>2, <1>u, <2>1 DEF Reap, ReaperStep, ListExpired, ReapOne, StartMarking, storeVars
<1>3. CASE ClusterStep \/ Crash \/ UNCHANGED vars
  BY <1>3, <1>u DEF ClusterStep, Crash, vars, storeVars
<1> QED BY <1>1, <1>2, <1>3 DEF Next

\* What the reaper has deleted stays gone.
LEMMA GoneStep ==
    ASSUME TypeOK, NamedAfter, ReapedGone, ReapedElse, [Next]_vars
    PROVE  ReapedGone'
<1> SUFFICES ASSUME NEW s \in reaper'.reaped
             PROVE  ~Active(s)' /\ \E e \in drawn' : Short[e] = s
  BY DEF ReapedGone
<1>d. drawn \subseteq drawn'
  BY OneSlotStep, DrawnStays
<1>1. CASE s \in reaper.reaped
  <2>1. s \in ShortId /\ ~Active(s) /\ \E e \in drawn : Short[e] = s
    BY <1>1 DEF TypeOK, ReaperTypeOK, ReapedGone
  <2>2. CASE NoNew
    BY <1>d, <2>1, <2>2 DEF NoNew
  <2>3. ASSUME NEW r \in Request, Makes(r) PROVE ~Active(s)'
    <3>1. Home(r) # s
      BY <1>1, <2>3 DEF Makes, At, ReapedElse, Before
    <3> QED BY <2>1, <2>3, <3>1 DEF Makes, CreateNamespace, Active, TypeOK, KubeTypeOK
  <2> QED BY <1>d, <2>1, <2>2, <2>3, MadeOrNoNew
<1>2. CASE s \in reaper.due /\ ~Active(s)' /\ UNCHANGED <<req, drawn>>
  BY <1>d, <1>2 DEF NamedAfter
<1> QED BY <1>1, <1>2, ReapedStep

\* ... and is never that of a create without a namespace.
LEMMA ElseStep ==
    ASSUME ShortInjective, TypeOK, TypeOK', OwnerInv, OwnerInv', ReapedGone, ReapedElse,
           [Next]_vars
    PROVE  ReapedElse'
<1> SUFFICES ASSUME NEW t \in Request, req'[t].pc \in Before, Home(t)' \in reaper'.reaped
             PROVE  FALSE
  BY DEF ReapedElse
<1>h. Home(t)' = Short[req'[t].env]
  BY DEF Home
<1>1. CASE req'[t].pc \in Early
  <2>1. req'[t].env \in Env \ drawn' /\ drawn' \subseteq Env
    BY <1>1 DEF OwnerInv, IdsApart, TypeOK, ApiTypeOK
  <2>2. PICK e \in drawn' : Short[e] = Home(t)'
    BY GoneStep DEF OwnerInv, ReapedGone
  <2> QED BY <1>h, <2>1, <2>2 DEF ShortInjective
<1>2. CASE req'[t].pc \notin Early
  <2>1. req[t].pc \in Before /\ req'[t].env = req[t].env
    BY <1>2, OneSlotStep, LateStays
  <2>2. Home(t)' = Home(t) /\ Home(t) \notin reaper.reaped /\ Home(t) \notin reaper.due
    BY <1>h, <2>1 DEF Home, ReapedElse, OwnerInv, NotYet
  <2> QED BY <2>2, ReapedStep
<1> QED BY <1>1, <1>2

\* A step of one slot leaves the others alone.
LEMMA OtherSlots ==
    ASSUME ApiTypeOK, NEW r \in Request, Arrive(r) \/ Handle(r) \/ Abandon(r)
    PROVE  \A t \in Request \ {r} : req'[t] = req[t]
<1>1. CASE Arrive(r) \/ Abandon(r)
  BY <1>1 DEF Arrive, CreateLookup, Lookup, Abandon, Done, ApiTypeOK
<1>2. CASE CreateStep(r)
  BY <1>2 DEF CreateStep, CreatePurge, CreateAlloc, CreateInsert, CreateLnPorts, CreateNs,
     CreateWorkloads, CreateExpose, IntoNamespace, CreateSetLightning, CreateCleanup, Done,
     Goto, ApiTypeOK
<1>3. CASE StoredStep(r)
  BY <1>3 DEF StoredStep, CheckExists, Expire, CoreReady, Promote, ScaleSts, ScaleDep,
     Settle, DestroyTeardown, Condemn, DeleteRecord, UpdateRead, UpdateAlloc, UpdateApply,
     UpdateSetLightning, Done, Goto, ApiTypeOK
<1> QED BY <1>1, <1>2, <1>3 DEF Handle

\* A handler that is done leaves an idle slot.
LEMMA DoneIdle ==
    ASSUME ApiTypeOK, NEW r \in Request, Done(r) PROVE req'[r] = Idle
BY DEF Done, ApiTypeOK

\* A handler comes to write off its record for a reason.
LEMMA GivesUp ==
    ASSUME TypeOK, NotYet, NEW r \in Request, [Next]_vars,
           req'[r].pc \in {"cleanup", "condemn", "expire"}, req'[r] # req[r]
    PROVE  /\ req'[r].env = req[r].env
           /\ req'[r].pc = "cleanup" => ~Active(Home(r))' \/ faults' = faults + 1
           /\ req'[r].pc = "condemn" =>
                 \/ ~Active(Home(r))'
                 \/ req[r].pc = "cleanup" /\ faults' = faults + 1 /\ UNCHANGED ns
           /\ req'[r].pc = "expire" => ~Exists(Home(r))'
<1> DEFINE q == req[r]
           p == req'[r]
<1>t. ApiTypeOK /\ ns \in [ShortId -> Namespace]
  BY DEF TypeOK, KubeTypeOK
<1>d. ASSUME Done(r) PROVE FALSE
  BY <1>t, <1>d, DoneIdle DEF Idle
<1>g. ASSUME q.pc # "idle", NEW pc, Goto(r, pc)
      PROVE  p.pc = pc /\ p.env = q.env /\ Home(r)' = Home(r) /\ Home(r) \in ShortId
  BY <1>t, <1>g, GotoMemory, WorkFacts DEF Memory, Home
<1>x. ASSUME Home(r) \in ShortId, DeleteNamespace(Home(r))
      PROVE  ~Active(Home(r))' \/ Home(r)' # Home(r)
  <2>1. \A s \in ShortId : DeleteNamespace(s) => ns'[s].phase # "active"
    BY <1>t DEF DeleteNamespace, Active, Namespace
  <2> QED BY <1>x, <2>1 DEF Active
<1>1. CASE ApiStep
  <2>0. Arrive(r) \/ Handle(r) \/ Abandon(r)
    BY <1>t, <1>1, OtherSlots DEF ApiStep
  <2>1. CASE Arrive(r)
    <3>1. req'[r].pc \in {"purge", "alloc", "insert", "teardown", "unrecord", "exists", "idle"}
      <4>1. ASSUME NEW o, NEW n, NEW ttl, NEW want, NEW asked,
                   CreateLookup(r, o, n, ttl, want, asked)
            PROVE  req'[r].pc \in {"purge", "alloc", "insert"}
        BY <1>t, <4>1 DEF CreateLookup, AfterPorts, ApiTypeOK
      <4>2. ASSUME NEW op \in StoredOps, NEW o, NEW e, NEW asked, Lookup(r, op, o, e, asked)
            PROVE  req'[r].pc \in {"teardown", "unrecord", "exists", "idle"}
        BY <1>t, <4>2 DEF Lookup, AfterLookup, ApiTypeOK, StoredOps
      <4> QED BY <2>1, <4>1, <4>2 DEF Arrive
    <3> QED BY <3>1
  <2>2. CASE Abandon(r)
    BY <1>d, <2>2 DEF Abandon
  <2>3. CASE CreateStep(r)
    <3>1. CASE CreatePurge(r) \/ CreateAlloc(r) \/ CreateInsert(r) \/ CreateLnPorts(r)
      <4>1. q.pc # "idle"
        BY <3>1 DEF CreatePurge, CreateAlloc, CreateInsert, CreateLnPorts, At
      <4>2. q \in AtWork
        BY <1>t, <4>1, WorkFacts
      <4>3. p.pc \in Before \cup {"idle"}
        <5>1. CASE CreatePurge(r)
          <6>1. p = [q EXCEPT !.pc = AfterPorts(q.todo), !.old = None]
            BY <1>t, <1>d, <5>1 DEF CreatePurge, ApiTypeOK
          <6> QED BY <4>2, <6>1 DEF AtWork, Handler, AfterPorts, Before, Early
        <5>2. CASE CreateAlloc(r)
          <6> DEFINE pool == IF "explorer" \in q.todo THEN "explorer" ELSE "electrum"
                     left == q.todo \ {pool}
          <6>1. PICK n : p = [q EXCEPT !.port[pool] = n, !.todo = left, !.pc = AfterPorts(left)]
            BY <1>t, <1>d, <5>2 DEF CreateAlloc, ApiTypeOK
          <6> QED BY <4>2, <6>1 DEF AtWork, Handler, AfterPorts, Before, Early
        <5>3. CASE CreateInsert(r)
          <6>1. p = [q EXCEPT !.pc = IF q.asked = {} THEN "namespace" ELSE "lnports",
                              !.owner = None, !.name = None]
            BY <1>t, <1>d, <5>3 DEF CreateInsert, ApiTypeOK
          <6> QED BY <4>2, <6>1 DEF AtWork, Handler, Before
        <5>4. CASE CreateLnPorts(r)
          <6>1. PICK m : p = [q EXCEPT !.pc = "namespace", !.asked = {}, !.ln = m]
            BY <1>t, <1>d, <5>4 DEF CreateLnPorts, ApiTypeOK
          <6> QED BY <4>2, <6>1 DEF AtWork, Handler, Before
        <5> QED BY <3>1, <5>1, <5>2, <5>3, <5>4
      <4> QED BY <4>3 DEF Before, Early
    <3>2. CASE CreateNs(r)
      <4>1. ~Exists(Home(r)) /\ q.pc # "idle"
        BY <3>2 DEF CreateNs, At, NotYet, Before
      <4> QED BY <1>g, <3>2, <4>1 DEF CreateNs, Fault, NoFault
    <3>3. CASE CreateWorkloads(r) \/ CreateExpose(r)
      <4>1. q.pc # "idle"
        BY <3>3 DEF CreateWorkloads, CreateExpose, At
      <4>2. \/ Goto(r, "expose") \/ Goto(r, "setln")
            \/ Goto(r, "cleanup") /\ ~Active(Home(r)) /\ UNCHANGED ns
            \/ Goto(r, "cleanup") /\ faults' = faults + 1
        BY <3>3 DEF CreateWorkloads, CreateExpose, IntoNamespace, Fault, kubeVars
      <4> QED BY <1>g, <4>1, <4>2 DEF Active
    <3>4. CASE CreateCleanup(r)
      <4>1. q.pc = "cleanup" /\ Goto(r, "condemn")
        BY <3>4 DEF CreateCleanup, At
      <4> QED BY <1>g, <1>x, <3>4, <4>1 DEF CreateCleanup, Fault, kubeVars
    <3>5. CASE CreateSetLightning(r)
      BY <1>d, <3>5 DEF CreateSetLightning
    <3> QED BY <2>3, <3>1, <3>2, <3>3, <3>4, <3>5 DEF CreateStep
  <2>4. CASE StoredStep(r)
    <3>1. CASE CheckExists(r)
      <4>1. q.pc # "idle" /\ q \in AtWork
        BY <1>t, <3>1, WorkFacts DEF CheckExists, At
      <4>2. CASE Goto(r, "expire")
        <5>1. UNCHANGED ns
          BY <3>1 DEF CheckExists, kubeVars
        <5>2. ~Exists(Home(r)) \/ AfterReconcile(q.op, q.seen) = "expire"
                  \/ ~Goto(r, "expire")
          <6>1. Goto(r, "expire") => p.pc = "expire"
            BY <1>g, <4>1
          <6>2. ~Done(r)
            BY <1>d
          <6>3. p = [q EXCEPT !.pc = AfterReconcile(q.op, q.seen), !.seen = "none"]
                  => p.pc = AfterReconcile(q.op, q.seen)
            BY <4>1 DEF AtWork, Handler
          <6> QED BY <1>t, <3>1, <6>1, <6>2, <6>3 DEF CheckExists, ApiTypeOK
        <5>3. AfterReconcile(q.op, q.seen) # "expire"
          BY DEF AfterReconcile
        <5> QED BY <1>g, <4>1, <4>2, <5>1, <5>2, <5>3 DEF Exists
      <4>3. CASE ~Goto(r, "expire")
        <5>1. p = [q EXCEPT !.pc = AfterReconcile(q.op, q.seen), !.seen = "none"]
          BY <1>t, <1>d, <3>1, <4>3 DEF CheckExists, ApiTypeOK
        <5>2. p.pc = AfterReconcile(q.op, q.seen)
          BY <4>1, <5>1 DEF AtWork, Handler
        <5> QED BY <5>2 DEF AfterReconcile
      <4> QED BY <4>2, <4>3
    <3>2. CASE DestroyTeardown(r)
      <4>1. q.pc # "idle" /\ Goto(r, "condemn") /\ DeleteNamespace(Home(r))
        BY <3>2 DEF DestroyTeardown, At
      <4> QED BY <1>g, <1>x, <4>1
    <3>3. CASE CoreReady(r) \/ ScaleSts(r) \/ ScaleDep(r) \/ UpdateApply(r)
      <4>1. q.pc # "idle"
        BY <3>3 DEF CoreReady, ScaleSts, ScaleDep, UpdateApply, At
      <4>2. Done(r) \/ \E pc \in {"promote", "scaleDep", "settle", "lnset"} : Goto(r, pc)
        BY <3>3 DEF CoreReady, ScaleSts, ScaleDep, UpdateApply
      <4> QED BY <1>d, <1>g, <4>1, <4>2
    <3>4. CASE UpdateRead(r) \/ UpdateAlloc(r)
      <4>1. q \in AtWork
        BY <1>t, <3>4, WorkFacts DEF UpdateRead, UpdateAlloc, At
      <4>2. p.pc \in {"lnalloc", "lnapply"}
        <5>1. CASE UpdateRead(r)
          <6>1. p = [q EXCEPT !.pc = "lnalloc", !.asked = q.asked \ Named(lightning[q.env]),
                              !.ln = lightning[q.env]]
            BY <1>t, <1>d, <5>1 DEF UpdateRead, ApiTypeOK
          <6> QED BY <4>1, <6>1 DEF AtWork, Handler
        <5>2. CASE UpdateAlloc(r)
          <6>1. PICK g : p = [q EXCEPT !.pc = "lnapply", !.ln =
                                [i \in Instance |-> IF i \in q.asked THEN g[i] ELSE q.ln[i]]]
            BY <1>t, <1>d, <5>2 DEF UpdateAlloc, ApiTypeOK
          <6> QED BY <4>1, <6>1 DEF AtWork, Handler
        <5> QED BY <3>4, <5>1, <5>2
      <4> QED BY <4>2
    <3>5. CASE Expire(r) \/ Condemn(r) \/ Promote(r) \/ Settle(r) \/ DeleteRecord(r)
               \/ UpdateSetLightning(r)
      BY <1>d, <3>5
      DEF Expire, Condemn, Promote, Settle, DeleteRecord, UpdateSetLightning
    <3> QED BY <2>4, <3>1, <3>2, <3>3, <3>4, <3>5 DEF StoredStep
  <2> QED BY <2>0, <2>1, <2>2, <2>3, <2>4 DEF Handle
<1>2. CASE Reap \/ ClusterStep \/ UNCHANGED vars
  BY <1>2 DEF Reap, ClusterStep, vars, apiVars
<1>3. CASE Crash
  <2>1. p.pc = "idle"
    BY <1>3, Empties DEF Crash
  <2> QED BY <2>1
<1> QED BY <1>1, <1>2, <1>3 DEF Next

\* What a handler knows when it gives up stays true until it is done: its
\* namespace is not made again.
LEMMA OffStep ==
    ASSUME ShortInjective, TypeOK, NotYet, CreatesAlone, WritesOff, [Next]_vars
    PROVE  WritesOff'
<1>f. faults \in Nat /\ (faults' = faults \/ faults' = faults + 1)
  BY FaultsGrow
<1> SUFFICES ASSUME NEW r \in Request, req'[r].pc \in {"cleanup", "condemn", "expire"}
             PROVE  /\ req'[r].pc = "cleanup" => ~Active(Home(r))' \/ faults' >= 1
                    /\ req'[r].pc = "condemn" => ~Active(Home(r))' \/ faults' >= 2
                    /\ req'[r].pc = "expire" => ~Exists(Home(r))'
  BY DEF WritesOff
<1>o. /\ req[r].pc = "cleanup" => ~Active(Home(r)) \/ faults >= 1
      /\ req[r].pc = "condemn" => ~Active(Home(r)) \/ faults >= 2
      /\ req[r].pc = "expire" => ~Exists(Home(r))
  BY DEF WritesOff
<1>1. CASE req'[r] = req[r]
  <2>1. req[r].pc # "idle" /\ Home(r)' = Home(r) /\ req[r].env \in Env /\ Home(r) \in ShortId
    BY <1>1, WorkFacts DEF Home, TypeOK
  <2>2. \/ NoNew
        \/ \A s \in ShortId \ {Home(u) : u \in {x \in Request : At(x, "namespace") /\ x # r}} :
              ns'[s] = ns[s]
    <3>1. ASSUME NEW u \in Request, Makes(u)
          PROVE  u # r /\ At(u, "namespace") /\ \A s \in ShortId \ {Home(u)} : ns'[s] = ns[s]
      BY <1>1, <3>1 DEF Makes, At, Before, CreateNamespace, TypeOK, KubeTypeOK
    <3> QED BY <3>1, MadeOrNoNew
  <2>3. \A u \in Request : At(u, "namespace") /\ u # r => Home(u) # Home(r)
    <3> SUFFICES ASSUME NEW u \in Request, At(u, "namespace"), u # r PROVE Home(u) # Home(r)
      OBVIOUS
    <3>1. req[u].env # req[r].env /\ req[u].env \in Env
      BY WorkFacts DEF CreatesAlone, At, TypeOK
    <3> QED BY <2>1, <3>1 DEF ShortInjective, Home
  <2>4. (Active(Home(r))' => Active(Home(r))) /\ (Exists(Home(r))' => Exists(Home(r)))
    BY <2>1, <2>2, <2>3 DEF NoNew, Active, Exists
  <2> QED BY <1>1, <1>f, <1>o, <2>4
<1>2. CASE req'[r] # req[r]
  <2>1. CASE req[r].pc = "cleanup" /\ faults' = faults + 1 /\ UNCHANGED ns /\ req'[r].pc = "condemn"
    <3>1. Home(r)' = Home(r)
      BY <1>2, GivesUp DEF Home
    <3>2. Active(Home(r))' => Active(Home(r))
      BY <2>1, <3>1 DEF Active
    <3> QED BY <1>f, <1>o, <2>1, <3>2
  <2>2. CASE ~(/\ req[r].pc = "cleanup" /\ faults' = faults + 1
               /\ UNCHANGED ns /\ req'[r].pc = "condemn")
    BY <1>2, <1>f, <2>2, GivesUp
  <2> QED BY <2>1, <2>2
<1> QED BY <1>1, <1>2

\* A create that waits for its namespace keeps its record: nobody else is
\* there to write it off.
LEMMA ChargedStep ==
    ASSUME TypeOK, LeaseInv, CreatesAlone, Charged, ReapedElse, [Next]_vars
    PROVE  Charged'
<1> SUFFICES ASSUME NEW r \in Request, req'[r].pc \in {"lnports", "namespace"}
             PROVE  LiveRow(req[r].env)'
  BY DEF Charged
<1>1. req[r].pc \in Before /\ req'[r].env = req[r].env
  BY OneSlotStep, LateStays DEF Before, Early
<1>e. req[r].env \in Env
  BY <1>1, WorkFacts DEF Before, Early, TypeOK
<1>2. CASE req[r].pc \in Early
  <2>1. Inserts(r)
    <3>1. ~Keeps(r) /\ ~Enters(r)
      BY <1>2 DEF Keeps, Enters, Before, Early
    <3>2. ASSUME NEW t \in Request, t # r PROVE ~Enters(t) /\ ~Inserts(t)
      BY <1>2, <3>2 DEF Enters, Inserts, Early
    <3> QED BY <3>1, <3>2, OneSlotStep DEF SlotStep
  <2>2. req[r].env \notin drawn /\ drawn' = drawn \cup {req[r].env}
    BY <1>2, <2>1 DEF Inserts, LeaseInv, IdsApart
  <2>3. PICK t \in Request : Inserted(t)
    BY <2>2, OneStatement DEF Statement
  <2>4. req[t].env = req[r].env
    <3>1. req[t].env \notin drawn
      BY <2>3 DEF Inserted, LeaseInv, IdsApart, Early
    <3> QED BY <2>2, <2>3, <3>1 DEF Inserted
  <2>5. rows'[req[r].env].status = "provisioning"
    BY <2>3, <2>4, NewRow DEF TypeOK
  <2> QED BY <1>1, <2>5 DEF LiveRow, Live
<1>3. CASE req[r].pc \notin Early
  <2>1. req[r].pc \in {"lnports", "namespace"} /\ LiveRow(req[r].env)
    BY <1>1, <1>3 DEF Before, Charged
  <2>2. Short[req[r].env] \notin reaper.reaped
    BY <1>1 DEF ReapedElse, Home
  <2>3. \A t \in Request : req[t].pc \in {"expire", "condemn"} => req[t].env # req[r].env
    BY <2>1 DEF CreatesAlone
  <2>4. \A e \in Env : e = req[r].env => LiveRow(e)'
    BY <2>1, <2>2, <2>3, Dies
  <2> QED BY <1>1, <1>e, <2>4 DEF LiveRow
<1> QED BY <1>2, <1>3

\* As long as one call failed at most, a namespace that runs has a live record.
LEMMA TrackedStep ==
    ASSUME ShortInjective, TypeOK, OwnerInv, LifeInv, [Next]_vars
    PROVE  Tracked'
<1>f. faults \in Nat /\ (faults' = faults \/ faults' = faults + 1)
  BY FaultsGrow
<1> SUFFICES ASSUME faults' <= 1, NEW s \in ShortId, Active(s)'
             PROVE  LiveRow(ns[s].env)'
  BY DEF Tracked, ActiveTracked
<1>t. ns \in [ShortId -> Namespace] /\ drawn \subseteq Env
  BY DEF TypeOK, KubeTypeOK, ApiTypeOK
<1>0. faults <= 1 /\ ActiveTracked
  BY <1>f DEF LifeInv, Tracked
<1>1. ASSUME NEW e \in Env, Short[e] = s, LiveRow(e), s \notin reaper.reaped, Active(s)
      PROVE  LiveRow(e)'
  <2> SUFFICES ASSUME ~LiveRow(e)', NEW r \in Request, e = req[r].env,
                      req[r].pc \in {"expire", "condemn"}
               PROVE  FALSE
    BY <1>1, Dies
  <2>1. Active(Home(r)) /\ Exists(Home(r))
    BY <1>1 DEF Home, Active, Exists
  <2> QED BY <1>f, <1>0, <2>1 DEF LifeInv, WritesOff
<1>2. ASSUME Active(s), Exists(s)' => ns'[s].env = ns[s].env
      PROVE  LiveRow(ns[s].env)'
  <2>1. ns[s].env \in Env /\ Short[ns[s].env] = s /\ s \notin reaper.reaped
    BY <1>t, <1>2 DEF OwnerInv, NamedAfter, Exists, Active, LifeInv, ReapedGone
  <2>2. LiveRow(ns[s].env) /\ ns'[s].env = ns[s].env
    BY <1>0, <1>2 DEF ActiveTracked, Active, Exists
  <2>3. \A e \in Env : e = ns[s].env => LiveRow(e)'
    BY <1>1, <1>2, <2>1, <2>2
  <2> QED BY <2>1, <2>2, <2>3 DEF LiveRow
<1>3. CASE NoNew
  BY <1>2, <1>3 DEF NoNew
<1>4. ASSUME NEW r \in Request, Makes(r) PROVE LiveRow(ns[s].env)'
  <2>1. req[r].pc = "namespace" /\ req[r].env \in Env /\ ~Exists(Home(r)) /\ Home(r) \in ShortId
    BY <1>4, WorkFacts DEF Makes, At, TypeOK
  <2>2. CASE s # Home(r)
    BY <1>2, <1>4, <1>t, <2>2 DEF Makes, CreateNamespace, Active
  <2>3. CASE s = Home(r)
    <3>1. ns'[s].env = req[r].env /\ ns' # ns
      BY <1>t, <1>4, <2>1, <2>3 DEF Makes, CreateNamespace, NoNamespace, Exists, Active
    <3>2. LiveRow(req[r].env)
      BY <2>1 DEF LifeInv, Charged
    <3>3. \A e \in Env : e = req[r].env => LiveRow(e)'
      BY <3>1, <3>2, Dies
    <3> QED BY <2>1, <3>1, <3>3 DEF LiveRow
  <2> QED BY <2>2, <2>3
<1> QED BY <1>3, <1>4, MadeOrNoNew

\* No step leaves a namespace running without a record, until two calls have
\* failed.
LEMMA LifeStep ==
    ASSUME ShortInjective, TypeOK, TypeOK', OwnerInv, OwnerInv', LeaseInv, CreatesAlone,
           LifeInv, [Next]_vars
    PROVE  LifeInv'
BY ChargedStep, GoneStep, ElseStep, OffStep, TrackedStep DEF LifeInv, OwnerInv

\* A running namespace has a live record until two calls have failed, however
\* many requests are in flight, unless one is for an environment whose create
\* has yet to make its namespace: one failure is always made good (rpc.rs
\* environment_create deletes what it made before it gives up the record).
THEOREM TrackedUntilTwoFail ==
    ShortInjective => (Spec /\ []CreatesAlone => [](faults <= 1 => ActiveTracked))
<1> SUFFICES ASSUME ShortInjective
             PROVE  Spec /\ []CreatesAlone => [](faults <= 1 => ActiveTracked)
  OBVIOUS
<1>1. Init => LifeInv
  <2> SUFFICES ASSUME Init PROVE LifeInv
    OBVIOUS
  <2>1. /\ \A r \in Request : req[r] = Idle
        /\ \A s \in ShortId : ~Active(s)
        /\ reaper.reaped = {}
    BY DEF Init, KubeInit, ApiInit, ReaperInit, Asleep, NoNamespace, Active
  <2> QED BY <2>1 DEF LifeInv, Charged, ReapedGone, ReapedElse, Tracked, ActiveTracked,
                      WritesOff, Idle, Before, Early
<1>2. TypeOK /\ TypeOK' /\ OwnerInv /\ OwnerInv' /\ LeaseInv /\ CreatesAlone /\ LifeInv
         /\ [Next]_vars => LifeInv'
  BY LifeStep
<1>3. LifeInv => (faults <= 1 => ActiveTracked)
  BY DEF LifeInv, Tracked
<1>4. Spec => []OwnerInv
  BY Owners
<1>5. Spec => []LeaseInv
  BY Leases
<1> QED BY <1>1, <1>2, <1>3, <1>4, <1>5, TypeCorrect, PTL DEF Spec
=============================================================================
