-------------------------- MODULE NamespaceProofs ---------------------------
(***************************************************************************)
(* Theorems about the names of Sandbox: who takes a namespace, who deletes *)
(* one and why, and what the records promise of an environment's name.     *)
(***************************************************************************)
EXTENDS SandboxProofs

-----------------------------------------------------------------------------
(* What one step does to the namespaces, to the slots and to the reaper's  *)
(* list.                                                                   *)

Early == {"purge", "alloc", "insert"}
Before == Early \cup {"lnports", "namespace"}   \* a create before its namespace

\* No namespace comes, goes or changes hands.
Tended ==
    \A u \in ShortId : /\ ns'[u].phase = ns[u].phase
                       /\ ns'[u].env = ns[u].env /\ ns'[u].ttl = ns[u].ttl

\* The create in slot r makes its namespace.
Makes(r) ==
    /\ At(r, "namespace") /\ ~Exists(Home(r))
    /\ CreateNamespace(Home(r), req[r].env, req[r].ttl)
    /\ req'[r].pc \notin Before /\ drawn' = drawn
    /\ \A t \in Request \ {r} : req'[t] = req[t]

Call ==
    \/ Tended
    \/ \E r \in Request : Makes(r)
    \/ \E r \in Request : req[r].pc \in {"cleanup", "teardown"} /\ DeleteNamespace(Home(r))
    \/ \E s \in reaper.due : DeleteNamespace(s)
    \/ \E s \in ShortId : NamespaceGone(s)

\* Calls that scale, fill or publish leave a namespace where it is.
LEMMA TendingCalls ==
    ASSUME NsTypeOK, NEW s,
           \/ ApplyWorkloads(s) \/ \E p, m : Publish(s, p, m) \/ \E l : AddLnd(s, l)
           \/ \E n : ScaleStatefulSets(s, n) \/ ScaleDeployments(s, n)
    PROVE  Tended
<1>n. ns \in [ShortId -> Namespace]
  BY DEF NsTypeOK
<1>1. CASE ApplyWorkloads(s)
  <2>1. ASSUME NEW c \in Namespace
        PROVE  LET d == [c EXCEPT !.sts = 1, !.dep = 1]
               IN  d.phase = c.phase /\ d.env = c.env /\ d.ttl = c.ttl
    BY DEF Namespace
  <2> QED BY <1>n, <1>1, <2>1 DEF ApplyWorkloads, Tended
<1>2. CASE \E p, m : Publish(s, p, m)
  <2>1. PICK p, m : Publish(s, p, m)
    BY <1>2
  <2>2. ASSUME NEW c \in Namespace
        PROVE  LET d == [c EXCEPT !.lb = p, !.lnd = m]
               IN  d.phase = c.phase /\ d.env = c.env /\ d.ttl = c.ttl
    BY DEF Namespace
  <2> QED BY <1>n, <2>1, <2>2 DEF Publish, Tended
<1>3. CASE \E l : AddLnd(s, l)
  BY <1>n, <1>3 DEF AddLnd, Tended, Namespace
<1>4. CASE \E n : ScaleStatefulSets(s, n) \/ ScaleDeployments(s, n)
  BY <1>n, <1>4 DEF ScaleStatefulSets, ScaleDeployments, Tended, Namespace
<1> QED BY <1>1, <1>2, <1>3, <1>4

\* A create that makes its namespace leaves the other slots alone.
LEMMA CreateNsMakes ==
    ASSUME ApiTypeOK, NEW r \in Request, CreateNs(r), ~UNCHANGED ns
    PROVE  Makes(r)
<1>1. /\ At(r, "namespace") /\ ~Exists(Home(r)) /\ drawn' = drawn
      /\ CreateNamespace(Home(r), req[r].env, req[r].ttl) /\ Goto(r, "workloads")
  BY DEF CreateNs, kubeVars
<1>2. req[r] \in AtWork
  BY <1>1, WorkFacts DEF At
<1>3. req'[r].pc = "workloads" /\ \A t \in Request \ {r} : req'[t] = req[t]
  BY <1>1, <1>2 DEF Goto, ApiTypeOK, AtWork, Handler
<1> QED BY <1>1, <1>3 DEF Makes, Before, Early

\* Every step makes one call of the cluster at most.
LEMMA OneCall == TypeOK /\ [Next]_vars => Call
<1> SUFFICES ASSUME TypeOK, [Next]_vars, ~UNCHANGED ns
             PROVE  Call
  BY DEF Call, Tended
<1>t. ApiTypeOK /\ NsTypeOK
  BY DEF TypeOK, KubeTypeOK, NsTypeOK
<1>1. CASE ApiStep
  <2>1. PICK r \in Request : Arrive(r) \/ Handle(r) \/ Abandon(r)
    BY <1>1 DEF ApiStep
  <2>2. CASE Arrive(r) \/ Abandon(r)
    BY <2>2 DEF Arrive, CreateLookup, Lookup, Abandon, kubeVars
  <2>3. CASE CreateStep(r)
    <3>1. CASE CreateNs(r)
      BY <1>t, <3>1, CreateNsMakes DEF Call
    <3>2. CASE CreateWorkloads(r) \/ CreateExpose(r)
      BY <1>t, <3>2, TendingCalls DEF CreateWorkloads, CreateExpose, IntoNamespace, kubeVars,
         Call
    <3>3. CASE CreateCleanup(r)
      BY <3>3 DEF CreateCleanup, At, kubeVars, Call
    <3> QED BY <2>3, <3>1, <3>2, <3>3 DEF CreateStep, CreatePurge, CreateAlloc, CreateInsert,
               CreateLnPorts, CreateSetLightning, kubeVars
  <2>4. CASE StoredStep(r)
    <3>1. CASE ScaleSts(r) \/ ScaleDep(r)
      BY <1>t, <3>1, TendingCalls DEF ScaleSts, ScaleDep, Call
    <3>2. CASE DestroyTeardown(r)
      BY <3>2 DEF DestroyTeardown, At, Call
    <3>3. CASE UpdateApply(r)
      BY <1>t, <3>3, TendingCalls DEF UpdateApply, kubeVars, Call
    <3> QED BY <2>4, <3>1, <3>2, <3>3 DEF StoredStep, CheckExists, Expire, CoreReady, Promote,
               Settle, Condemn, DeleteRecord, UpdateRead, UpdateAlloc, UpdateSetLightning,
               kubeVars
  <2> QED BY <2>1, <2>2, <2>3, <2>4 DEF Handle
<1>2. CASE Reap
  BY <1>2 DEF Reap, ReaperStep, ListExpired, ReapOne, StartMarking, MarkOne, kubeVars, Call
<1>3. CASE ClusterStep
  BY <1>3 DEF ClusterStep, TtlPasses, Call
<1>4. CASE Crash \/ UNCHANGED vars
  BY <1>4 DEF Crash, vars, kubeVars
<1> QED BY <1>1, <1>2, <1>3, <1>4 DEF Next

\* A namespace in use never passes to another environment, whatever ids share
\* its name: it is made only where none exists (orchestrator create).
THEOREM NeverTakenOver == Spec => NoTakeover
<1>1. TypeOK /\ [Next]_vars
        => [\A s \in ShortId : Exists(s) /\ Exists(s)' => ns'[s].env = ns[s].env]_vars
  <2> SUFFICES ASSUME TypeOK, [Next]_vars, NEW s \in ShortId, Exists(s), Exists(s)'
               PROVE  ns'[s].env = ns[s].env
    OBVIOUS
  <2>1. Call /\ ns \in [ShortId -> Namespace]
    BY OneCall DEF TypeOK, KubeTypeOK
  <2>2. CASE Tended
    BY <2>2 DEF Tended
  <2>3. CASE \E r \in Request : Makes(r)
    BY <2>1, <2>3 DEF Makes, CreateNamespace, Exists
  <2>4. ASSUME NEW u, DeleteNamespace(u) PROVE ns'[s].env = ns[s].env
    BY <2>1, <2>4 DEF DeleteNamespace, Namespace
  <2>5. ASSUME NEW u \in ShortId, NamespaceGone(u) PROVE ns'[s].env = ns[s].env
    BY <2>1, <2>5 DEF NamespaceGone, NoNamespace, Exists
  <2> QED BY <2>1, <2>2, <2>3, <2>4, <2>5 DEF Call
<1> QED BY <1>1, TypeCorrect, PTL DEF Spec, NoTakeover

-----------------------------------------------------------------------------

\* A create in slot t that has no namespace yet goes on with its environment,
\* and with its owner and name until it inserts them.
Keeps(t) ==
    req'[t].pc \in Before =>
        /\ req[t].pc \in Before /\ req'[t].env = req[t].env
        /\ req'[t].pc \in Early <=> req[t].pc \in Early
        /\ req'[t].pc \in Early =>
              req'[t].owner = req[t].owner /\ req'[t].name = req[t].name

\* A create arrives in slot r and takes a fresh id.
Enters(r) ==
    /\ req[r].pc = "idle" /\ req'[r].env \in FreshIds /\ req'[r].pc \in Early
    /\ req'[r].owner \in Owner /\ req'[r].name \in Name /\ drawn' = drawn
    /\ \A t \in Request \ {r} : req'[t] = req[t]

\* The create in slot r inserts its row.
Inserts(r) ==
    /\ req[r].pc = "insert" /\ req'[r].pc \in Before \ Early
    /\ req'[r].env = req[r].env /\ drawn' = drawn \cup {req[r].env}
    /\ \A t \in Request \ {r} : req'[t] = req[t]

SlotStep ==
    \/ drawn' = drawn /\ \A t \in Request : Keeps(t)
    \/ \E r \in Request : Enters(r) \/ Inserts(r)

\* A handler that ends, or goes on past the point where creates make their
\* namespace, is a slot step.
LEMMA LeavesSlots ==
    ASSUME ApiTypeOK, NEW r \in Request, NEW h, h.pc \notin Before,
           req' = [req EXCEPT ![r] = h], drawn' = drawn
    PROVE  SlotStep
<1>1. req'[r] = h /\ \A t \in Request \ {r} : req'[t] = req[t]
  BY DEF ApiTypeOK
<1>2. ASSUME NEW t \in Request PROVE Keeps(t)
  BY <1>1 DEF Keeps
<1> QED BY <1>2 DEF SlotStep

\* ... in particular one that is done, or jumps there.
LEMMA JumpsSlots ==
    ASSUME ApiTypeOK, NEW r \in Request, req[r].pc # "idle", drawn' = drawn,
           Done(r) \/ \E pc \in Pc \ Before : Goto(r, pc)
    PROVE  SlotStep
<1>1. CASE Done(r)
  BY <1>1, Empties, LeavesSlots DEF Done, Before, Early
<1>2. ASSUME NEW pc \in Pc \ Before, Goto(r, pc) PROVE SlotStep
  <2> DEFINE h == [req[r] EXCEPT !.pc = pc]
  <2>1. req' = [req EXCEPT ![r] = h]
    BY <1>2 DEF Goto
  <2>2. h.pc = pc
    BY WorkFacts DEF AtWork, Handler
  <2> HIDE DEF h
  <2> QED BY <1>2, <2>1, <2>2, LeavesSlots
<1> QED BY <1>1, <1>2

\* A create that goes on before its namespace, keeping its environment.
LEMMA StaysSlots ==
    ASSUME ApiTypeOK, NEW r \in Request, NEW h, drawn' = drawn,
           req' = [req EXCEPT ![r] = h],
           req[r].pc \in Before, h.env = req[r].env, h.pc \in Early <=> req[r].pc \in Early,
           h.pc \in Early => h.owner = req[r].owner /\ h.name = req[r].name
    PROVE  SlotStep
<1>1. req'[r] = h /\ \A t \in Request \ {r} : req'[t] = req[t]
  BY DEF ApiTypeOK
<1>2. ASSUME NEW t \in Request PROVE Keeps(t)
  BY <1>1 DEF Keeps
<1> QED BY <1>2 DEF SlotStep

\* Every step of a create is a slot step.
LEMMA CreateSlots ==
    ASSUME ApiTypeOK, NEW r \in Request, CreateStep(r)
    PROVE  SlotStep
<1> DEFINE q == req[r]
<1>0. q.pc # "idle"
  BY DEF CreateStep, CreatePurge, CreateAlloc, CreateInsert, CreateLnPorts, CreateNs,
         CreateWorkloads, CreateExpose, CreateSetLightning, CreateCleanup, At
<1>q. q \in AtWork
  BY <1>0, WorkFacts
<1>1. CASE CreatePurge(r)
  <2> DEFINE h == [q EXCEPT !.pc = AfterPorts(q.todo), !.old = None]
  <2>1. h.env = q.env /\ h.pc \in Early /\ h.owner = q.owner /\ h.name = q.name
    BY <1>q DEF AtWork, Handler, AfterPorts, Early
  <2>2. q.pc \in Early /\ drawn' = drawn
    BY <1>1 DEF CreatePurge, At, Early
  <2>3. Done(r) \/ req' = [req EXCEPT ![r] = h]
    BY <1>1 DEF CreatePurge
  <2> HIDE DEF h
  <2> QED BY <1>0, <2>1, <2>2, <2>3, JumpsSlots, StaysSlots DEF Before
<1>2. CASE CreateAlloc(r)
  <2> DEFINE pool == IF "explorer" \in q.todo THEN "explorer" ELSE "electrum"
             left == q.todo \ {pool}
             h(p) == [q EXCEPT !.port[pool] = p, !.todo = left, !.pc = AfterPorts(left)]
  <2>1. ASSUME NEW p
        PROVE  h(p).env = q.env /\ h(p).pc \in Early /\ h(p).owner = q.owner /\ h(p).name = q.name
    BY <1>q DEF AtWork, Handler, AfterPorts, Early
  <2>2. q.pc \in Early /\ drawn' = drawn
    BY <1>2 DEF CreateAlloc, At, Early
  <2>3. Done(r) \/ \E p \in NextPort(pool) : req' = [req EXCEPT ![r] = h(p)]
    BY <1>2 DEF CreateAlloc
  <2> HIDE DEF h
  <2> QED BY <1>0, <2>1, <2>2, <2>3, JumpsSlots, StaysSlots DEF Before
<1>3. CASE CreateInsert(r)
  <2> DEFINE h == [q EXCEPT !.pc = IF q.asked = {} THEN "namespace" ELSE "lnports",
                            !.owner = None, !.name = None]
  <2>1. h.env = q.env /\ h.pc \in Before \ Early
    BY <1>q DEF AtWork, Handler, Before, Early
  <2>2. \/ Done(r) /\ drawn' = drawn
        \/ req' = [req EXCEPT ![r] = h] /\ drawn' = drawn \cup {q.env}
    BY <1>3 DEF CreateInsert
  <2> HIDE DEF h
  <2>3. CASE req' = [req EXCEPT ![r] = h] /\ drawn' = drawn \cup {q.env}
    <3>1. req'[r] = h /\ \A t \in Request \ {r} : req'[t] = req[t]
      BY <2>3 DEF ApiTypeOK
    <3> QED BY <1>3, <2>1, <2>3, <3>1 DEF CreateInsert, At, Inserts, SlotStep
  <2> QED BY <1>0, <2>2, <2>3, JumpsSlots
<1>4. CASE CreateLnPorts(r)
  <2> DEFINE h(m) == [q EXCEPT !.pc = "namespace", !.asked = {}, !.ln = m]
  <2>1. ASSUME NEW m PROVE h(m).env = q.env /\ h(m).pc = "namespace"
    BY <1>q DEF AtWork, Handler
  <2>2. q.pc = "lnports" /\ drawn' = drawn
    BY <1>4 DEF CreateLnPorts, At
  <2>3. Done(r) \/ \E m : req' = [req EXCEPT ![r] = h(m)]
    BY <1>4 DEF CreateLnPorts
  <2> HIDE DEF h
  <2> QED BY <1>0, <2>1, <2>2, <2>3, JumpsSlots, StaysSlots DEF Before, Early
<1>5. CASE CreateNs(r) \/ CreateWorkloads(r) \/ CreateExpose(r) \/ CreateSetLightning(r)
           \/ CreateCleanup(r)
  BY <1>0, <1>5, JumpsSlots
  DEF CreateNs, CreateWorkloads, CreateExpose, IntoNamespace, CreateSetLightning,
      CreateCleanup, Pc, Before, Early
<1> QED BY <1>1, <1>2, <1>3, <1>4, <1>5 DEF CreateStep

\* Every step of another method is a slot step: it is no create.
LEMMA StoredSlots ==
    ASSUME ApiTypeOK, NEW r \in Request, StoredStep(r)
    PROVE  SlotStep
<1> DEFINE q == req[r]
<1>0. q.pc # "idle"
  BY DEF StoredStep, CheckExists, Expire, CoreReady, Promote, ScaleSts, ScaleDep, Settle,
         DestroyTeardown, Condemn, DeleteRecord, UpdateRead, UpdateAlloc, UpdateApply,
         UpdateSetLightning, At
<1>q. q \in AtWork
  BY <1>0, WorkFacts
<1>1. CASE CheckExists(r)
  <2> DEFINE next == AfterReconcile(q.op, q.seen)
             h == [q EXCEPT !.pc = next, !.seen = "none"]
  <2>1. h.pc \notin Before
    BY <1>q DEF AtWork, Handler, AfterReconcile, Before, Early
  <2>2. drawn' = drawn /\ (Done(r) \/ Goto(r, "expire") \/ req' = [req EXCEPT ![r] = h])
    BY <1>1 DEF CheckExists
  <2> HIDE DEF h
  <2> QED BY <1>0, <2>1, <2>2, JumpsSlots, LeavesSlots DEF Pc, Before, Early
<1>2. CASE UpdateRead(r)
  <2> DEFINE h(a, m) == [q EXCEPT !.pc = "lnalloc", !.asked = a, !.ln = m]
  <2>1. ASSUME NEW a, NEW m PROVE h(a, m).pc \notin Before
    BY <1>q DEF AtWork, Handler, Before, Early
  <2>2. drawn' = drawn /\ (Done(r) \/ \E a, m : req' = [req EXCEPT ![r] = h(a, m)])
    BY <1>2 DEF UpdateRead
  <2> HIDE DEF h
  <2> QED BY <1>0, <2>1, <2>2, JumpsSlots, LeavesSlots
<1>3. CASE UpdateAlloc(r)
  <2> DEFINE h(m) == [q EXCEPT !.pc = "lnapply", !.ln = m]
  <2>1. ASSUME NEW m PROVE h(m).pc \notin Before
    BY <1>q DEF AtWork, Handler, Before, Early
  <2>2. drawn' = drawn /\ (Done(r) \/ \E m : req' = [req EXCEPT ![r] = h(m)])
    BY <1>3 DEF UpdateAlloc
  <2> HIDE DEF h
  <2> QED BY <1>0, <2>1, <2>2, JumpsSlots, LeavesSlots
<1>4. CASE CoreReady(r) \/ UpdateApply(r) \/ ScaleSts(r) \/ ScaleDep(r) \/ DestroyTeardown(r)
  BY <1>0, <1>4, JumpsSlots
  DEF CoreReady, UpdateApply, ScaleSts, ScaleDep, DestroyTeardown, Pc, Before, Early
<1>5. CASE Expire(r) \/ Promote(r) \/ Settle(r) \/ Condemn(r) \/ DeleteRecord(r)
           \/ UpdateSetLightning(r)
  BY <1>0, <1>5, JumpsSlots
  DEF Expire, Promote, Settle, Condemn, DeleteRecord, UpdateSetLightning
<1> QED BY <1>1, <1>2, <1>3, <1>4, <1>5 DEF StoredStep

\* Every arrival is a slot step.
LEMMA ArriveSlots ==
    ASSUME ApiTypeOK, NEW r \in Request, Arrive(r)
    PROVE  SlotStep
<1>1. ASSUME NEW o \in Owner, NEW n \in Name, NEW ttl, NEW want, NEW asked,
             CreateLookup(r, o, n, ttl, want, asked)
      PROVE  SlotStep
  <2> DEFINE H(e, old, pc) ==
        [pc |-> pc, op |-> "create", env |-> e, old |-> old, owner |-> o,
         name |-> n, ttl |-> ttl, seen |-> "none", todo |-> want,
         port |-> NoPorts, asked |-> asked, ln |-> NoLn]
  <2>1. PICK e \in FreshIds, old \in Env \cup {None}, pc \in Early :
          req' = [req EXCEPT ![r] = H(e, old, pc)]
    BY <1>1 DEF CreateLookup, AfterPorts, RowsNamed, Early
  <2>2. req'[r] = H(e, old, pc) /\ \A t \in Request \ {r} : req'[t] = req[t]
    BY <2>1 DEF ApiTypeOK
  <2>3. req[r].pc = "idle" /\ drawn' = drawn
    BY <1>1 DEF CreateLookup, At
  <2> QED BY <2>2, <2>3 DEF Enters, SlotStep
<1>2. ASSUME NEW op \in StoredOps, NEW o, NEW e, NEW asked, Lookup(r, op, o, e, asked)
      PROVE  SlotStep
  <2> DEFINE next == AfterLookup(op, rows[e].status)
             h == [pc |-> next, op |-> op, env |-> e, old |-> None, owner |-> None,
                   name |-> None, ttl |-> FALSE,
                   seen |-> IF op \in LiveOps THEN rows[e].status ELSE "none",
                   todo |-> {}, port |-> NoPorts,
                   asked |-> IF op = "update" THEN asked ELSE {}, ln |-> NoLn]
  <2>1. h.pc \notin Before
    BY DEF AfterLookup, StoredOps, LiveOps, Before, Early
  <2>2. drawn' = drawn /\ req' = [req EXCEPT ![r] = h]
    BY <1>2 DEF Lookup
  <2> HIDE DEF h
  <2> QED BY <2>1, <2>2, LeavesSlots
<1> QED BY <1>1, <1>2 DEF Arrive

\* Every step of the system is a slot step.
LEMMA OneSlotStep == TypeOK /\ [Next]_vars => SlotStep
<1> SUFFICES ASSUME TypeOK, [Next]_vars PROVE SlotStep
  OBVIOUS
<1>t. ApiTypeOK
  BY DEF TypeOK
<1>1. CASE ApiStep
  <2>1. PICK r \in Request : Arrive(r) \/ Handle(r) \/ Abandon(r)
    BY <1>1 DEF ApiStep
  <2>2. CASE Abandon(r)
    BY <1>t, <2>2, JumpsSlots DEF Abandon, At
  <2> QED BY <1>t, <2>1, <2>2, ArriveSlots, CreateSlots, StoredSlots DEF Handle
<1>2. CASE Crash
  <2>1. \A t \in Request : req'[t].pc = "idle"
    BY <1>2, Empties DEF Crash
  <2> QED BY <1>2, <2>1 DEF Crash, SlotStep, Keeps, Before, Early
<1>3. CASE Reap \/ ClusterStep \/ UNCHANGED vars
  BY <1>3 DEF Reap, ClusterStep, vars, apiVars, SlotStep, Keeps
<1> QED BY <1>1, <1>2, <1>3 DEF Next

-----------------------------------------------------------------------------
(* Who owns a namespace, when no two environments share an id.             *)

ShortInjective == \A e, f \in Env : Short[e] = Short[f] => e = f

\* The ids of creates before their namespace are their own; an id is drawn
\* from the insert on.
IdsApart ==
    /\ \A r \in Request : req[r].pc \in Early => req[r].env \in Env \ drawn
    /\ \A r \in Request : req[r].pc \in Before \ Early => req[r].env \in drawn
    /\ \A r, t \in Request :
          r # t /\ req[r].pc \in Before /\ req[t].pc \in Before => req[r].env # req[t].env

\* A namespace is that of the drawn id it is named after, and so is every
\* entry of the reaper's list.
NamedAfter ==
    /\ \A s \in ShortId : Exists(s) => ns[s].env \in drawn /\ Short[ns[s].env] = s
    /\ \A s \in reaper.due : \E e \in drawn : Short[e] = s

\* A create that has no namespace yet is not mistaken for an old one.
NotYet ==
    \A r \in Request :
        req[r].pc \in Before => ~Exists(Home(r)) /\ Home(r) \notin reaper.due

\* What the reaper is about to delete is past its deadline.
DueIsPast == \A s \in reaper.due : Active(s) => ns[s].ttl /\ ns[s].env \in past

OwnerInv == IdsApart /\ NamedAfter /\ NotYet /\ DueIsPast

\* The reaper's list shrinks, or is read off the cluster.
LEMMA DueStep ==
    ASSUME TypeOK, [Next]_vars, NEW s \in reaper'.due
    PROVE  \/ s \in reaper.due
           \/ s \in ExpiredNamespaces /\ UNCHANGED <<ns, past, req, drawn>>
<1>r. ReaperTypeOK
  BY DEF TypeOK
<1>1. CASE Reap
  <2>1. CASE ListExpired
    BY <1>1, <2>1 DEF ListExpired, Reap, kubeVars, apiVars
  <2>2. CASE ReapOne
    BY <1>r, <2>2 DEF ReapOne, ReaperTypeOK
  <2>3. CASE StartMarking \/ MarkOne
    BY <1>r, <2>3 DEF StartMarking, MarkOne, Asleep, ReaperTypeOK
  <2> QED BY <1>1, <2>1, <2>2, <2>3 DEF Reap, ReaperStep
<1>2. CASE Crash
  BY <1>2 DEF Crash, Asleep
<1>3. CASE ApiStep \/ ClusterStep \/ UNCHANGED vars
  BY <1>3 DEF ApiStep, ClusterStep, vars
<1> QED BY <1>1, <1>2, <1>3 DEF Next

\* A deadline that has passed stays passed.
LEMMA PastStays == [Next]_vars => past \subseteq past'
<1> SUFFICES ASSUME [Next]_vars PROVE past \subseteq past'
  OBVIOUS
<1>1. CASE ClusterStep
  BY <1>1 DEF ClusterStep, NamespaceGone, TtlPasses
<1>2. CASE Reap
  BY <1>2 DEF Reap, ReaperStep, ListExpired, ReapOne, StartMarking, MarkOne, DeleteNamespace,
     kubeVars
<1>3. CASE ApiStep
  <2>1. PICK r \in Request : Arrive(r) \/ Handle(r) \/ Abandon(r)
    BY <1>3 DEF ApiStep
  <2>2. CASE Arrive(r) \/ Abandon(r)
    BY <2>2 DEF Arrive, CreateLookup, Lookup, Abandon, kubeVars
  <2>3. CASE CreateStep(r)
    BY <2>3 DEF CreateStep, CreatePurge, CreateAlloc, CreateInsert, CreateLnPorts, CreateNs,
       CreateWorkloads, CreateExpose, IntoNamespace, CreateSetLightning, CreateCleanup,
       CreateNamespace, ApplyWorkloads, Publish, DeleteNamespace, kubeVars
  <2>4. CASE StoredStep(r)
    BY <2>4 DEF StoredStep, CheckExists, Expire, CoreReady, Promote, ScaleSts, ScaleDep,
       Settle, DestroyTeardown, Condemn, DeleteRecord, UpdateRead, UpdateAlloc, UpdateApply,
       UpdateSetLightning, AddLnd, ScaleStatefulSets, ScaleDeployments, DeleteNamespace,
       kubeVars
  <2> QED BY <2>1, <2>2, <2>3, <2>4 DEF Handle
<1>4. CASE Crash \/ UNCHANGED vars
  BY <1>4 DEF Crash, vars, kubeVars
<1> QED BY <1>1, <1>2, <1>3, <1>4 DEF Next

\* No namespace appears or is revived, and those that stay keep their owner.
NoNew ==
    \A s \in ShortId :
        /\ Exists(s)' => Exists(s) /\ ns'[s].env = ns[s].env /\ ns'[s].ttl = ns[s].ttl
        /\ Active(s)' => Active(s)

\* Only a create that makes its namespace makes one.
LEMMA MadeOrNoNew ==
    ASSUME TypeOK, [Next]_vars
    PROVE  NoNew \/ \E r \in Request : Makes(r)
<1>1. Call /\ ns \in [ShortId -> Namespace]
  BY OneCall DEF TypeOK, KubeTypeOK
<1>2. CASE Tended
  BY <1>2 DEF Tended, NoNew, Exists, Active
<1>3. ASSUME NEW u, DeleteNamespace(u) PROVE NoNew
  BY <1>1, <1>3 DEF DeleteNamespace, NoNew, Exists, Active, Namespace
<1>4. ASSUME NEW u \in ShortId, NamespaceGone(u) PROVE NoNew
  BY <1>1, <1>4 DEF NamespaceGone, NoNamespace, NoNew, Exists, Active
<1> QED BY <1>1, <1>2, <1>3, <1>4 DEF Call

\* A create past its insert comes from a create before its namespace.
LEMMA LateStays ==
    ASSUME SlotStep, NEW t \in Request, req'[t].pc \in Before \ Early
    PROVE  req[t].pc \in Before /\ req'[t].env = req[t].env
<1>1. CASE \A u \in Request : Keeps(u)
  BY <1>1 DEF Keeps
<1>2. ASSUME NEW r \in Request, Enters(r) \/ Inserts(r)
      PROVE  req[t].pc \in Before /\ req'[t].env = req[t].env
  BY <1>2 DEF Enters, Inserts, Before, Early
<1> QED BY <1>1, <1>2 DEF SlotStep

\* The ids of creates stay apart.
LEMMA ApartStep == IdsApart /\ SlotStep => IdsApart'
<1> SUFFICES ASSUME IdsApart, SlotStep PROVE IdsApart'
  OBVIOUS
<1>1. CASE drawn' = drawn /\ \A t \in Request : Keeps(t)
  BY <1>1 DEF Keeps, IdsApart, Before
<1>2. ASSUME NEW r \in Request, Enters(r) PROVE IdsApart'
  <2>1. req'[r].env \in Env \ drawn /\ \A t \in Request : req'[r].env # req[t].env
    BY <1>2 DEF Enters, FreshIds
  <2> QED BY <1>2, <2>1 DEF Enters, IdsApart, Before
<1>3. ASSUME NEW r \in Request, Inserts(r) PROVE IdsApart'
  <2>1. req[r].pc \in Early
    BY <1>3 DEF Inserts, Early
  <2>2. /\ \A t \in Request : req'[t].env = req[t].env
        /\ \A t \in Request : req'[t].pc \in Before => req[t].pc \in Before
    BY <1>3, <2>1 DEF Inserts, Before
  <2>3. \A t \in Request : req'[t].pc \in Early => t # r /\ req[t].pc \in Early
    BY <1>3 DEF Inserts
  <2>4. \A t \in Request : req'[t].pc \in Before \ Early => t = r \/ req[t].pc \in Before \ Early
    BY <1>3 DEF Inserts
  <2> QED BY <1>3, <2>1, <2>2, <2>3, <2>4 DEF Inserts, IdsApart, Before
<1> QED BY <1>1, <1>2, <1>3 DEF SlotStep

\* Ids are never forgotten.
LEMMA DrawnStays == SlotStep => drawn \subseteq drawn'
BY DEF SlotStep, Enters, Inserts

\* Namespaces stay those of the drawn ids they are named after.
LEMMA NamedStep ==
    TypeOK /\ IdsApart /\ NamedAfter /\ [Next]_vars => NamedAfter'
<1> SUFFICES ASSUME TypeOK, IdsApart, NamedAfter, [Next]_vars PROVE NamedAfter'
  OBVIOUS
<1>n. ns \in [ShortId -> Namespace]
  BY DEF TypeOK, KubeTypeOK
<1>d. drawn \subseteq drawn'
  BY OneSlotStep, DrawnStays
<1>1. ASSUME NEW s \in ShortId, Exists(s)'
      PROVE  ns'[s].env \in drawn' /\ Short[ns'[s].env] = s
  <2>1. CASE NoNew
    BY <1>1, <1>d, <2>1 DEF NoNew, NamedAfter
  <2>2. ASSUME NEW r \in Request, Makes(r)
        PROVE  ns'[s].env \in drawn' /\ Short[ns'[s].env] = s
    <3>1. req[r].env \in drawn
      BY <2>2 DEF Makes, At, IdsApart, Before, Early
    <3>2. CASE s = Home(r)
      <4>1. ns'[s].env = req[r].env
        BY <1>n, <2>2, <3>2 DEF Makes, CreateNamespace, NoNamespace
      <4> QED BY <1>d, <3>1, <3>2, <4>1 DEF Home
    <3>3. CASE s # Home(r)
      <4>1. ns'[s] = ns[s]
        BY <1>n, <2>2, <3>3 DEF Makes, CreateNamespace
      <4> QED BY <1>1, <1>d, <4>1 DEF NamedAfter, Exists
    <3> QED BY <3>2, <3>3
  <2> QED BY <2>1, <2>2, MadeOrNoNew
<1>2. ASSUME NEW s \in reaper'.due
      PROVE  \E e \in drawn' : Short[e] = s
  <2>1. CASE s \in reaper.due
    BY <1>d, <2>1 DEF NamedAfter
  <2>2. CASE s \in ExpiredNamespaces
    BY <1>d, <2>2 DEF ExpiredNamespaces, NamedAfter
  <2> QED BY <2>1, <2>2, <1>2, DueStep
<1> QED BY <1>1, <1>2 DEF NamedAfter

\* Two creates before their namespace have different names for it.
LEMMA HomesApart ==
    ASSUME ShortInjective, TypeOK, IdsApart, NEW r \in Request, NEW t \in Request, r # t,
           req[r].pc \in Before, req[t].pc \in Before
    PROVE  Home(r) # Home(t)
<1>1. req[r].env \in Env /\ req[t].env \in Env
  BY DEF TypeOK, StoreTypeOK, ApiTypeOK, IdsApart, Before
<1> QED BY <1>1 DEF IdsApart, ShortInjective, Home

\* A create stays without a namespace until it makes one.
LEMMA NotYetStep ==
    ShortInjective /\ TypeOK /\ IdsApart /\ NamedAfter /\ NotYet /\ [Next]_vars => NotYet'
<1> SUFFICES ASSUME ShortInjective, TypeOK, IdsApart, NamedAfter, NotYet, [Next]_vars,
                    NEW t \in Request, req'[t].pc \in Before
             PROVE  ~Exists(Home(t))' /\ Home(t)' \notin reaper'.due
  BY DEF NotYet
<1>s. SlotStep /\ IdsApart' /\ NamedAfter' /\ drawn \in SUBSET Env
  BY OneSlotStep, ApartStep, NamedStep DEF TypeOK, ApiTypeOK
<1>d. drawn' \in SUBSET Env
  BY <1>s, TypeStep DEF TypeOK, ApiTypeOK
<1>h. Home(t)' = Short[req'[t].env]
  BY DEF Home
<1>1. CASE req'[t].pc \in Early
  <2>1. req'[t].env \in Env \ drawn'
    BY <1>s, <1>1 DEF IdsApart
  <2>2. \A e \in drawn' : Short[e] # Home(t)'
    BY <1>d, <1>h, <2>1 DEF ShortInjective
  <2>3. Home(t)' \in ShortId
    BY <1>h, <2>1, ShortAssumption
  <2> QED BY <1>s, <2>2, <2>3 DEF NamedAfter
<1>2. CASE req'[t].pc \notin Early
  <2>1. req[t].pc \in Before /\ req'[t].env = req[t].env
    BY <1>s, <1>2, LateStays
  <2>2. Home(t)' = Home(t) /\ ~Exists(Home(t)) /\ Home(t) \notin reaper.due
    BY <1>h, <2>1 DEF Home, NotYet
  <2>3. Home(t) \in ShortId
    BY <2>1, ShortAssumption DEF IdsApart, Home, TypeOK, ApiTypeOK, Before
  <2>4. Home(t) \notin reaper'.due
    BY <2>2, DueStep DEF ExpiredNamespaces
  <2>5. CASE NoNew
    BY <2>2, <2>3, <2>4, <2>5 DEF NoNew, Exists
  <2>6. ASSUME NEW r \in Request, Makes(r) PROVE ~Exists(Home(t))'
    <3>1. r # t /\ req[r].pc \in Before
      BY <2>6 DEF Makes, At, Before
    <3>2. Home(r) # Home(t)
      BY <2>1, <3>1, HomesApart
    <3>3. ns'[Home(t)] = ns[Home(t)]
      BY <2>3, <2>6, <3>2 DEF Makes, CreateNamespace, TypeOK, KubeTypeOK
    <3> QED BY <2>2, <3>3 DEF Exists
  <2> QED BY <2>2, <2>4, <2>5, <2>6, MadeOrNoNew
<1> QED BY <1>1, <1>2

\* What the reaper is about to delete stays past its deadline.
LEMMA DueIsPastStep ==
    TypeOK /\ NamedAfter /\ NotYet /\ DueIsPast /\ [Next]_vars => DueIsPast'
<1> SUFFICES ASSUME TypeOK, NamedAfter, NotYet, DueIsPast, [Next]_vars,
                    NEW s \in reaper'.due, Active(s)'
             PROVE  ns'[s].ttl /\ ns'[s].env \in past'
  BY DEF DueIsPast
<1>1. CASE s \in ExpiredNamespaces /\ UNCHANGED <<ns, past, req, drawn>>
  BY <1>1 DEF ExpiredNamespaces
<1>2. CASE s \in reaper.due
  <2>1. s \in ShortId
    BY <1>2 DEF TypeOK, ReaperTypeOK
  <2>2. CASE NoNew
    <3>1. Active(s) /\ Exists(s)'
      BY <2>1, <2>2 DEF NoNew, Active, Exists
    <3>2. ns'[s].env = ns[s].env /\ ns'[s].ttl = ns[s].ttl
      BY <2>1, <2>2, <3>1 DEF NoNew
    <3> QED BY <1>2, <3>1, <3>2, PastStays DEF DueIsPast
  <2>3. ASSUME NEW r \in Request, Makes(r)
        PROVE  ns'[s].ttl /\ ns'[s].env \in past'
    <3>1. Home(r) # s
      BY <1>2, <2>3 DEF Makes, At, NotYet, Before
    <3>2. ns'[s] = ns[s]
      BY <2>1, <2>3, <3>1 DEF Makes, CreateNamespace, TypeOK, KubeTypeOK
    <3> QED BY <1>2, <3>2, PastStays DEF DueIsPast, Active
  <2> QED BY <2>2, <2>3, MadeOrNoNew
<1> QED BY <1>1, <1>2, DueStep

\* With ids that share no name, the owner invariant is inductive: namespaces,
\* the reaper's list and the creates under way agree on who owns what.
THEOREM Owners == ShortInjective => (Spec => []OwnerInv)
<1> SUFFICES ASSUME ShortInjective PROVE Spec => []OwnerInv
  OBVIOUS
<1>1. Init => OwnerInv
  <2> SUFFICES ASSUME Init PROVE OwnerInv
    OBVIOUS
  <2>1. \A r \in Request : req[r].pc = "idle"
    BY DEF Init, ApiInit, Idle
  <2>2. \A s \in ShortId : ~Exists(s)
    BY DEF Init, KubeInit, NoNamespace, Exists
  <2>3. reaper.due = {}
    BY DEF Init, ReaperInit, Asleep
  <2> QED BY <2>1, <2>2, <2>3
          DEF OwnerInv, IdsApart, NamedAfter, NotYet, DueIsPast, Before, Early
<1>2. TypeOK /\ OwnerInv /\ [Next]_vars => OwnerInv'
  BY OneSlotStep, ApartStep, NamedStep, NotYetStep, DueIsPastStep DEF OwnerInv
<1> QED BY <1>1, <1>2, TypeCorrect, PTL DEF Spec

\* What justifies the deletion of namespace s.
Cause(s) ==
    \/ ns[s].ttl /\ ns[s].env \in past
    \/ \E r \in Request :
          /\ req[r].env = ns[s].env
          /\ req[r].pc \in {"teardown", "cleanup"}

\* With ids that share no name, a running namespace is deleted only by a
\* destroy of its environment, by the create that made it when that fails, or
\* past its deadline (reaper.rs, rpc.rs environment_create and _destroy).
THEOREM DeletedForCause == ShortInjective => (Spec => DeletedWithCause)
<1> SUFFICES ASSUME ShortInjective PROVE Spec => DeletedWithCause
  OBVIOUS
<1>1. TypeOK /\ OwnerInv /\ [Next]_vars
        => [\A s \in ShortId : Active(s) /\ ~Active(s)' => Cause(s)]_vars
  <2> SUFFICES ASSUME TypeOK, OwnerInv, [Next]_vars, NEW s \in ShortId,
                      Active(s), ~Active(s)'
               PROVE  Cause(s)
    OBVIOUS
  <2>1. Call /\ ns \in [ShortId -> Namespace] /\ drawn \in SUBSET Env
    BY OneCall DEF TypeOK, KubeTypeOK, ApiTypeOK
  <2>2. ASSUME NEW u, u # s, DeleteNamespace(u) PROVE FALSE
    BY <2>1, <2>2 DEF DeleteNamespace, Active
  <2>3. CASE Tended
    BY <2>3 DEF Tended, Active
  <2>4. ASSUME NEW r \in Request, Makes(r) PROVE FALSE
    <3>1. Home(r) # s
      BY <2>4 DEF Makes, Exists, Active
    <3> QED BY <2>1, <2>4, <3>1 DEF Makes, CreateNamespace, Active
  <2>5. ASSUME NEW r \in Request, req[r].pc \in {"cleanup", "teardown"},
               DeleteNamespace(Home(r))
        PROVE  Cause(s)
    <3>1. Home(r) = s
      BY <2>2, <2>5
    <3>2. req[r].env \in Env
      BY <2>5, WorkFacts DEF TypeOK, AtWork
    <3>3. ns[s].env \in Env /\ Short[ns[s].env] = s
      BY <2>1 DEF OwnerInv, NamedAfter, Exists, Active
    <3> QED BY <2>5, <3>1, <3>2, <3>3 DEF ShortInjective, Home, Cause
  <2>6. ASSUME NEW u \in reaper.due, DeleteNamespace(u) PROVE Cause(s)
    BY <2>2, <2>6 DEF OwnerInv, DueIsPast, Cause
  <2>7. ASSUME NEW u \in ShortId, NamespaceGone(u) PROVE FALSE
    BY <2>1, <2>7 DEF NamespaceGone, Active
  <2> QED BY <2>1, <2>3, <2>4, <2>5, <2>6, <2>7 DEF Call
<1>2. Spec => []OwnerInv
  BY Owners
<1>3. Spec => [][\A s \in ShortId : Active(s) /\ ~Active(s)' => Cause(s)]_vars
  BY <1>1, <1>2, TypeCorrect, PTL DEF Spec
<1> QED BY <1>3 DEF DeletedWithCause, Cause
-----------------------------------------------------------------------------
(* Sandbox implements Registry: its records keep the promise of names.     *)

\* A create knows whose name it is about to insert.
Claimant ==
    \A r \in Request :
        req[r].pc \in Early => req[r].owner \in Owner /\ req[r].name \in Name

\* A record has a key, and its id is used up.
RowsDrawn ==
    \A e \in Env : Stored(e) => /\ e \in drawn
                                /\ rows[e].owner \in Owner /\ rows[e].name \in Name

LeaseInv == IdsApart /\ Claimant /\ RowsDrawn

-----------------------------------------------------------------------------
(* The invariant. *)

\* No step of a slot changes what a create is about to insert.
LEMMA ClaimantStep == Claimant /\ SlotStep => Claimant'
<1> SUFFICES ASSUME Claimant, SlotStep, NEW t \in Request, req'[t].pc \in Early
             PROVE  req'[t].owner \in Owner /\ req'[t].name \in Name
  BY DEF Claimant
<1>1. CASE \A u \in Request : Keeps(u)
  BY <1>1 DEF Keeps, Before, Claimant
<1>2. ASSUME NEW r \in Request, Enters(r) \/ Inserts(r)
      PROVE  req'[t].owner \in Owner /\ req'[t].name \in Name
  BY <1>2 DEF Enters, Inserts, Claimant
<1> QED BY <1>1, <1>2 DEF SlotStep

\* A statement that inserts nothing keeps every record it leaves as it was,
\* except for its status.
LEMMA OldRow ==
    ASSUME StoreTypeOK, NEW e \in Env, Stored(e)',
           \/ UNCHANGED rows
           \/ \E f \in Env, st \in Status \ {"none"} : SetStatus(f, st)
           \/ \E f \in Env : Purge(f)
           \/ \E s \in ShortId : MarkExpired(s)
    PROVE  Stored(e) /\ rows'[e].owner = rows[e].owner /\ rows'[e].name = rows[e].name
<1>t. rows \in [Env -> Row]
  BY DEF StoreTypeOK
<1>1. CASE UNCHANGED rows
  BY <1>1 DEF Stored
<1>2. ASSUME NEW f \in Env, NEW st \in Status \ {"none"}, SetStatus(f, st)
      PROVE  Stored(e) /\ rows'[e].owner = rows[e].owner /\ rows'[e].name = rows[e].name
  BY <1>t, <1>2 DEF SetStatus, Stored, Row
<1>3. ASSUME NEW f \in Env, Purge(f)
      PROVE  Stored(e) /\ rows'[e].owner = rows[e].owner /\ rows'[e].name = rows[e].name
  BY <1>t, <1>3 DEF Purge, Stored, NoRow, storeVars
<1>4. ASSUME NEW s \in ShortId, MarkExpired(s)
      PROVE  Stored(e) /\ rows'[e].owner = rows[e].owner /\ rows'[e].name = rows[e].name
  BY <1>t, <1>4 DEF MarkExpired, Stored, Row
<1> QED BY <1>1, <1>2, <1>3, <1>4

\* What an insert makes of the records.
LEMMA NewRow ==
    ASSUME StoreTypeOK, NEW r \in Request, Inserted(r)
    PROVE  /\ rows'[req[r].env].status = "provisioning"
           /\ rows'[req[r].env].owner = req[r].owner
           /\ rows'[req[r].env].name = req[r].name
           /\ \A e \in Env \ {req[r].env} : rows'[e] = rows[e]
BY DEF StoreTypeOK, Inserted, InsertRow

\* Records keep their keys, and have ids that are used up.
LEMMA RowsDrawnStep ==
    TypeOK /\ Claimant /\ RowsDrawn /\ Statement => RowsDrawn'
<1> SUFFICES ASSUME TypeOK, Claimant, RowsDrawn, Statement, NEW e \in Env, Stored(e)'
             PROVE  e \in drawn' /\ rows'[e].owner \in Owner /\ rows'[e].name \in Name
  BY DEF RowsDrawn
<1>t. StoreTypeOK
  BY DEF TypeOK
<1>1. ASSUME NEW r \in Request, Inserted(r)
      PROVE  e \in drawn' /\ rows'[e].owner \in Owner /\ rows'[e].name \in Name
  <2>1. req[r].owner \in Owner /\ req[r].name \in Name
    BY <1>1 DEF Inserted, Claimant, Early
  <2> QED BY <1>t, <1>1, <2>1, NewRow DEF Inserted, RowsDrawn, Stored
<1>2. CASE drawn' = drawn /\ Stored(e) /\ rows'[e].owner = rows[e].owner
             /\ rows'[e].name = rows[e].name
  BY <1>2 DEF RowsDrawn
<1> QED BY <1>t, <1>1, <1>2, OldRow DEF Statement

\* The invariant is inductive.
LEMMA LeaseInvStep == TypeOK /\ LeaseInv /\ [Next]_vars => LeaseInv'
BY OneSlotStep, OneStatement, ApartStep, ClaimantStep, RowsDrawnStep DEF LeaseInv

-----------------------------------------------------------------------------
(* The refinement mapping, and what each statement is to Registry. *)

KeyOf == [e \in Env |-> IF Stored(e) THEN <<rows[e].owner, rows[e].name>> ELSE None]
DeadRows == {e \in Env : rows[e].status \in Dead}

\* An insert claims a key that nobody holds, for an id never used.
LEMMA InsertClaims ==
    ASSUME TypeOK, LeaseInv, NEW r \in Request, Inserted(r)
    PROVE  LET e == req[r].env
               k == <<req[r].owner, req[r].name>>
           IN  /\ k \in Owner \X Name /\ e \in Env \ drawn
               /\ \A f \in Env : KeyOf[f] # k
               /\ KeyOf' = [KeyOf EXCEPT ![e] = k]
               /\ DeadRows' = DeadRows
               /\ drawn' = drawn \cup {e}
<1> DEFINE e == req[r].env
           k == <<req[r].owner, req[r].name>>
<1>1. k \in Owner \X Name /\ e \in Env \ drawn /\ drawn' = drawn \cup {e}
  BY DEF LeaseInv, Claimant, IdsApart, Inserted, Early
<1>2. ASSUME NEW f \in Env PROVE KeyOf[f] # k
  <2>1. CASE Stored(f)
    <3>1. ~(rows[f].owner = req[r].owner /\ rows[f].name = req[r].name)
      BY <2>1 DEF Inserted, InsertRow, RowsNamed
    <3> QED BY <2>1, <3>1 DEF KeyOf
  <2>2. CASE ~Stored(f)
    BY <1>1, <2>2, KeyAssumption DEF KeyOf
  <2> QED BY <2>1, <2>2
<1>3. /\ rows'[e].status = "provisioning"
      /\ rows'[e].owner = req[r].owner /\ rows'[e].name = req[r].name
      /\ \A f \in Env \ {e} : rows'[f] = rows[f]
  BY NewRow DEF TypeOK
<1>4. ~Stored(e)
  BY <1>1 DEF LeaseInv, RowsDrawn
<1> HIDE DEF e, k
<1>5. KeyOf' = [KeyOf EXCEPT ![e] = k]
  <2>1. ASSUME NEW f \in Env \ {e} PROVE KeyOf'[f] = KeyOf[f]
    BY <1>3 DEF KeyOf, Stored
  <2>2. KeyOf'[e] = k
    BY <1>1, <1>3 DEF KeyOf, Stored, e, k
  <2> QED BY <1>1, <2>1, <2>2 DEF KeyOf
<1>6. DeadRows' = DeadRows
  BY <1>1, <1>3, <1>4 DEF DeadRows, Stored, Dead
<1> QED BY <1>1, <1>2, <1>5, <1>6 DEF e, k

\* A status update, one row or many, leaves the keys where they are.
LEMMA StatusTurns ==
    ASSUME TypeOK,
           \/ \E e \in Env, st \in Status \ {"none"} : SetStatus(e, st)
           \/ \E s \in ShortId : MarkExpired(s)
    PROVE  KeyOf' = KeyOf
<1>t. StoreTypeOK /\ rows \in [Env -> Row]
  BY DEF TypeOK, StoreTypeOK
<1>1. ASSUME NEW f \in Env, Stored(f) PROVE Stored(f)'
  <2>1. ASSUME NEW e \in Env, NEW st \in Status \ {"none"}, SetStatus(e, st)
        PROVE  Stored(f)'
    BY <1>t, <1>1, <2>1 DEF SetStatus, Stored, Row
  <2>2. ASSUME NEW s \in ShortId, MarkExpired(s) PROVE Stored(f)'
    BY <1>t, <1>1, <2>2 DEF MarkExpired, Stored, Row
  <2> QED BY <2>1, <2>2
<1>2. ASSUME NEW f \in Env PROVE KeyOf'[f] = KeyOf[f]
  <2>1. Stored(f)' => /\ Stored(f) /\ rows'[f].owner = rows[f].owner
                      /\ rows'[f].name = rows[f].name
    BY <1>t, OldRow
  <2> QED BY <1>1, <2>1 DEF KeyOf
<1> QED BY <1>2 DEF KeyOf

\* A purge gives up the key of a dead record, or does nothing.
LEMMA PurgeReleases ==
    ASSUME TypeOK, NEW e \in Env, Purge(e), ~UNCHANGED rows
    PROVE  /\ e \in DeadRows
           /\ KeyOf' = [KeyOf EXCEPT ![e] = None]
           /\ DeadRows' = DeadRows \ {e}
<1>1. /\ rows \in [Env -> Row] /\ rows[e].status \in Dead
      /\ rows' = [rows EXCEPT ![e] = NoRow]
  BY DEF TypeOK, StoreTypeOK, Purge, storeVars
<1>2. rows'[e].status = "none" /\ \A f \in Env \ {e} : rows'[f] = rows[f]
  BY <1>1 DEF NoRow
<1>3. KeyOf' = [KeyOf EXCEPT ![e] = None]
  <2>1. ASSUME NEW f \in Env \ {e} PROVE KeyOf'[f] = KeyOf[f]
    BY <1>2 DEF KeyOf, Stored
  <2>2. KeyOf'[e] = None
    BY <1>2 DEF KeyOf, Stored
  <2> QED BY <2>1, <2>2 DEF KeyOf
<1>4. DeadRows' = DeadRows \ {e}
  BY <1>2 DEF DeadRows, Dead
<1> QED BY <1>1, <1>3, <1>4 DEF DeadRows

-----------------------------------------------------------------------------

\* Every statement is a step of Registry, or none.
LEMMA LeaseStep ==
    TypeOK /\ LeaseInv /\ LeaseInv' /\ Statement
      => [Names!LeaseNext]_(Names!leaseVars)
<1> SUFFICES ASSUME TypeOK, LeaseInv, LeaseInv', Statement
             PROVE  [Names!LeaseNext]_(Names!leaseVars)
  OBVIOUS
<1>1. ASSUME NEW r \in Request, Inserted(r) PROVE Names!LeaseNext
  <2>1. PICK e \in Env, k \in Owner \X Name :
          /\ e \notin drawn /\ \A f \in Env : KeyOf[f] # k
          /\ KeyOf' = [KeyOf EXCEPT ![e] = k]
          /\ DeadRows' = DeadRows /\ drawn' = drawn \cup {e}
    BY <1>1, InsertClaims
  <2>2. Names!Claim(e, k)
    BY <2>1 DEF Names!Claim, KeyOf, DeadRows
  <2> QED BY <2>2 DEF Names!LeaseNext
<1>2. ASSUME drawn' = drawn, NEW e \in Env, Purge(e), ~UNCHANGED rows
      PROVE  Names!LeaseNext
  <2>1. /\ e \in DeadRows /\ KeyOf' = [KeyOf EXCEPT ![e] = None]
        /\ DeadRows' = DeadRows \ {e}
    BY <1>2, PurgeReleases
  <2>2. Names!Release(e)
    BY <1>2, <2>1 DEF Names!Release, KeyOf, DeadRows
  <2> QED BY <2>2 DEF Names!LeaseNext
<1>3. ASSUME drawn' = drawn,
             \/ \E e \in Env, st \in Status \ {"none"} : SetStatus(e, st)
             \/ \E s \in ShortId : MarkExpired(s)
      PROVE  Names!LeaseNext
  <2>1. KeyOf' = KeyOf
    BY <1>3, StatusTurns
  <2>2. DeadRows' \subseteq {e \in Env : KeyOf'[e] # None}
    BY KeyAssumption DEF LeaseInv, RowsDrawn, DeadRows, KeyOf, Stored, Dead
  <2>3. Names!Turn
    BY <1>3, <2>1, <2>2 DEF Names!Turn, Names!Holders, KeyOf, DeadRows
  <2> QED BY <2>3 DEF Names!LeaseNext
<1>4. CASE drawn' = drawn /\ UNCHANGED rows
  BY <1>4 DEF Names!leaseVars, Stored
<1> QED BY <1>1, <1>2, <1>3, <1>4 DEF Statement

\* The lease invariant holds of every behaviour.
LEMMA Leases == Spec => []LeaseInv
<1>1. Init => LeaseInv
  BY Empties DEF Init, ApiInit, StoreInit, LeaseInv, IdsApart, Claimant, RowsDrawn, Stored,
     NoRow, Before, Early
<1> QED BY <1>1, LeaseInvStep, TypeCorrect, PTL DEF Spec

\* The store keeps the promise of Registry: an id takes a name once, a name
\* passes on only from a dead record, and never to two, whatever requests do
\* between their lookup, their purge and their insert (rpc.rs
\* environment_create, signet-db purge_environment).
THEOREM LeasesKept == Spec => NamesLeased
<1>1. Init => Names!LeaseInit
  BY DEF Init, ApiInit, StoreInit, Names!LeaseInit, Stored, NoRow, Dead
<1>2. TypeOK /\ LeaseInv /\ LeaseInv' /\ [Next]_vars => [Names!LeaseNext]_(Names!leaseVars)
  BY OneStatement, LeaseStep
<1> QED BY <1>1, <1>2, Leases, TypeCorrect, PTL
        DEF Spec, NamesLeased, Names!LeaseSpec
=============================================================================
