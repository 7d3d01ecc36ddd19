--------------------------- MODULE SandboxProofs ----------------------------
(***************************************************************************)
(* Theorems about Sandbox, for every value of its constants.               *)
(***************************************************************************)
EXTENDS Sandbox, TLAPS

-----------------------------------------------------------------------------
(* The empty values are well typed. *)

\* The records that stand for nothing belong to the types of the variables.
LEMMA Empties ==
    /\ NoPorts \in Ports /\ NoLn \in LnMap
    /\ NoRow \in Row /\ NoNamespace \in Namespace
    /\ Idle \in Handler /\ Idle.pc = "idle"
<1>1. NoPorts \in Ports /\ NoLn \in LnMap
  BY DEF NoPorts, NoLn, Ports, LnMap
<1>2. NoRow \in Row
  BY <1>1 DEF NoRow, Row, Status
<1>3. NoNamespace \in Namespace
  BY <1>1 DEF NoNamespace, Namespace, Phase
<1>4. Idle \in Handler /\ Idle.pc = "idle"
  BY <1>1 DEF Idle, Handler, Pc, Status
<1> QED BY <1>1, <1>2, <1>3, <1>4

-----------------------------------------------------------------------------
(* Statements of the store keep its type. *)

\* An insert of a well-typed row keeps the store well typed.
LEMMA InsertTyped ==
    ASSUME StoreTypeOK, NEW e \in Env, NEW o \in Owner \cup {None},
           NEW n \in Name \cup {None}, NEW p \in Ports,
           InsertRow(e, o, n, p), UNCHANGED lightning
    PROVE  StoreTypeOK'
<1>1. [status |-> "provisioning", owner |-> o, name |-> n, port |-> p] \in Row
  BY DEF Row, Status, Live
<1> QED BY <1>1 DEF StoreTypeOK, InsertRow

\* A status update keeps the store well typed.
LEMMA SetStatusTyped ==
    ASSUME StoreTypeOK, NEW e \in Env, NEW s \in Status, SetStatus(e, s)
    PROVE  StoreTypeOK'
<1>1. [rows[e] EXCEPT !.status = s] \in Row
  BY DEF StoreTypeOK, Row
<1>2. rows' \in [Env -> Row]
  BY <1>1 DEF StoreTypeOK, SetStatus
<1> QED BY <1>2 DEF StoreTypeOK, SetStatus

\* A purge keeps the store well typed.
LEMMA PurgeTyped ==
    ASSUME StoreTypeOK, NEW e, Purge(e)
    PROVE  StoreTypeOK'
BY Empties DEF StoreTypeOK, Purge, storeVars

\* The reaper's update keeps the store well typed.
LEMMA MarkExpiredTyped ==
    ASSUME StoreTypeOK, NEW s, MarkExpired(s)
    PROVE  StoreTypeOK'
<1>1. ASSUME NEW e \in Env PROVE [rows[e] EXCEPT !.status = "expired"] \in Row
  BY DEF StoreTypeOK, Row, Status, Dead
<1>2. rows' \in [Env -> Row]
  BY <1>1 DEF StoreTypeOK, MarkExpired
<1> QED BY <1>2 DEF StoreTypeOK, MarkExpired

\* Replacing an instance list keeps the store well typed.
LEMMA SetLightningTyped ==
    ASSUME StoreTypeOK, NEW e, NEW m \in LnMap, SetLightning(e, m)
    PROVE  StoreTypeOK'
BY DEF StoreTypeOK, SetLightning

\* A statement that changes nothing keeps the store well typed.
LEMMA SameStoreTyped == StoreTypeOK /\ UNCHANGED storeVars => StoreTypeOK'
BY DEF StoreTypeOK, storeVars

-----------------------------------------------------------------------------
(* Calls of the cluster keep its type; NsTypeOK is the part they touch. *)

NsTypeOK == ns \in [ShortId -> Namespace] /\ past \in SUBSET Env

\* The calls of the orchestrator keep the cluster well typed.
LEMMA CallTyped ==
    ASSUME NsTypeOK, NEW s,
           \/ \E e \in Env, t \in BOOLEAN : CreateNamespace(s, e, t)
           \/ ApplyWorkloads(s)
           \/ \E p \in Ports, m \in LnMap : Publish(s, p, m)
           \/ \E m \in LnMap : AddLnd(s, m)
           \/ \E n \in 0..1 : ScaleStatefulSets(s, n) \/ ScaleDeployments(s, n)
           \/ DeleteNamespace(s)
           \/ UNCHANGED kubeVars
    PROVE  NsTypeOK'
<1>1. CASE \E e \in Env, t \in BOOLEAN : CreateNamespace(s, e, t)
  <2>1. PICK e \in Env, t \in BOOLEAN : CreateNamespace(s, e, t)
    BY <1>1
  <2>2. [NoNamespace EXCEPT !.phase = "active", !.env = e, !.ttl = t] \in Namespace
    BY Empties DEF Namespace, Phase
  <2> QED BY <2>1, <2>2 DEF NsTypeOK, CreateNamespace
<1>2. CASE ApplyWorkloads(s)
  <2>1. ASSUME NEW c \in Namespace
        PROVE  [c EXCEPT !.sts = 1, !.dep = 1] \in Namespace
    <3> DEFINE d == [c EXCEPT !.sts = 1]
    <3>1. d \in Namespace
      BY DEF Namespace
    <3>2. [c EXCEPT !.sts = 1, !.dep = 1] = [d EXCEPT !.dep = 1]
      OBVIOUS
    <3> HIDE DEF d
    <3>3. [d EXCEPT !.dep = 1] \in Namespace
      BY <3>1 DEF Namespace
    <3> QED BY <3>2, <3>3
  <2> QED BY <1>2, <2>1 DEF NsTypeOK, ApplyWorkloads
<1>3. CASE \E p \in Ports, m \in LnMap : Publish(s, p, m)
  <2>1. PICK p \in Ports, m \in LnMap : Publish(s, p, m)
    BY <1>3
  <2>2. ASSUME NEW c \in Namespace
        PROVE  [c EXCEPT !.lb = p, !.lnd = m] \in Namespace
    <3> DEFINE d == [c EXCEPT !.lb = p]
    <3>1. d \in Namespace
      BY DEF Namespace
    <3>2. [c EXCEPT !.lb = p, !.lnd = m] = [d EXCEPT !.lnd = m]
      OBVIOUS
    <3> HIDE DEF d
    <3>3. [d EXCEPT !.lnd = m] \in Namespace
      BY <3>1 DEF Namespace
    <3> QED BY <3>2, <3>3
  <2> QED BY <2>1, <2>2 DEF NsTypeOK, Publish
<1>4. CASE \E m \in LnMap : AddLnd(s, m)
  <2>1. PICK m \in LnMap : AddLnd(s, m)
    BY <1>4
  <2>2. CASE s \in ShortId
    <3> DEFINE l == [i \in Instance |-> IF m[i] # NoPort THEN m[i] ELSE ns[s].lnd[i]]
    <3>1. l \in LnMap
      BY <2>2 DEF NsTypeOK, Namespace, LnMap
    <3>2. ns' = [ns EXCEPT ![s].lnd = l] /\ past' = past
      BY <2>1, <2>2 DEF AddLnd, NsTypeOK
    <3> HIDE DEF l
    <3>3. ASSUME NEW c \in Namespace PROVE [c EXCEPT !.lnd = l] \in Namespace
      BY <3>1 DEF Namespace
    <3> QED BY <3>2, <3>3 DEF NsTypeOK
  <2>3. CASE s \notin ShortId
    BY <2>1, <2>3 DEF NsTypeOK, AddLnd
  <2> QED BY <2>2, <2>3
<1>5. CASE \E n \in 0..1 : ScaleStatefulSets(s, n) \/ ScaleDeployments(s, n)
  <2>1. PICK n \in 0..1 : ScaleStatefulSets(s, n) \/ ScaleDeployments(s, n)
    BY <1>5
  <2>2. CASE ScaleStatefulSets(s, n)
    BY <2>2 DEF NsTypeOK, ScaleStatefulSets, Namespace
  <2>3. CASE ScaleDeployments(s, n)
    BY <2>3 DEF NsTypeOK, ScaleDeployments, Namespace
  <2> QED BY <2>1, <2>2, <2>3
<1>6. CASE DeleteNamespace(s)
  <2>1. ASSUME NEW c \in Namespace PROVE [c EXCEPT !.phase = "terminating"] \in Namespace
    BY DEF Namespace, Phase
  <2> QED BY <1>6, <2>1 DEF NsTypeOK, DeleteNamespace
<1>7. CASE UNCHANGED kubeVars
  BY <1>7 DEF NsTypeOK, kubeVars
<1> QED BY <1>1, <1>2, <1>3, <1>4, <1>5, <1>6, <1>7

\* Steps of the cluster itself keep it well typed.
LEMMA ClusterTyped ==
    ASSUME NsTypeOK, NEW s \in ShortId, NamespaceGone(s) \/ TtlPasses(s)
    PROVE  NsTypeOK'
<1>1. CASE NamespaceGone(s)
  BY <1>1, Empties DEF NsTypeOK, NamespaceGone
<1>2. CASE TtlPasses(s)
  BY <1>2 DEF NsTypeOK, TtlPasses
<1> QED BY <1>1, <1>2

\* The failure counter stays within its bound.
LEMMA FaultTyped ==
    ASSUME faults \in 0..MaxFaults, Fault \/ NoFault
    PROVE  faults' \in 0..MaxFaults
BY MaxFaultsAssumption DEF Fault, NoFault

-----------------------------------------------------------------------------
(* Handlers. *)

\* Changing a field of a handler at work, other than its environment, to a
\* value of the field's type leaves it a handler at work.
LEMMA FieldTyped ==
    ASSUME NEW h \in AtWork
    PROVE  /\ \A x \in Pc : [h EXCEPT !.pc = x] \in AtWork
           /\ \A x \in Env \cup {None} : [h EXCEPT !.old = x] \in AtWork
           /\ \A x \in Owner \cup {None} : [h EXCEPT !.owner = x] \in AtWork
           /\ \A x \in Name \cup {None} : [h EXCEPT !.name = x] \in AtWork
           /\ \A x \in Op \cup {None} : [h EXCEPT !.op = x] \in AtWork
           /\ \A x \in BOOLEAN : [h EXCEPT !.ttl = x] \in AtWork
           /\ \A x \in Status : [h EXCEPT !.seen = x] \in AtWork
           /\ \A x \in SUBSET Pool : [h EXCEPT !.todo = x] \in AtWork
           /\ \A x \in Ports : [h EXCEPT !.port = x] \in AtWork
           /\ \A x \in SUBSET Instance : [h EXCEPT !.asked = x] \in AtWork
           /\ \A x \in LnMap : [h EXCEPT !.ln = x] \in AtWork
BY DEF AtWork, Handler

\* What a handler past its lookup holds is well typed.
LEMMA WorkFacts ==
    ASSUME ApiTypeOK, NEW r \in Request, req[r].pc # "idle"
    PROVE  /\ req[r] \in AtWork
           /\ req[r].env \in Env /\ Home(r) \in ShortId
           /\ req[r].owner \in Owner \cup {None} /\ req[r].name \in Name \cup {None}
           /\ req[r].ttl \in BOOLEAN /\ req[r].todo \in SUBSET Pool
           /\ req[r].port \in Ports /\ req[r].asked \in SUBSET Instance
           /\ req[r].ln \in LnMap /\ req[r].op \in Op \cup {None}
<1>1. req[r] \in AtWork
  BY Empties DEF ApiTypeOK
<1>2. req[r].env \in Env
  BY <1>1 DEF AtWork
<1>3. Home(r) \in ShortId
  BY <1>2, ShortAssumption DEF Home, ShortAssumption
<1> QED BY <1>1, <1>2, <1>3 DEF AtWork, Handler

\* Giving one slot a handler at work, or none, keeps the slots well typed.
LEMMA SlotTyped ==
    ASSUME ApiTypeOK, NEW r \in Request, NEW h \in AtWork \cup {Idle},
           req' = [req EXCEPT ![r] = h], drawn' \in SUBSET Env
    PROVE  ApiTypeOK'
BY DEF ApiTypeOK

\* A handler that moves on or ends keeps the slots well typed.
LEMMA MoveTyped ==
    ASSUME ApiTypeOK, NEW r \in Request, req[r].pc # "idle",
           Done(r) \/ \E pc \in Pc : Goto(r, pc), UNCHANGED drawn
    PROVE  ApiTypeOK'
<1>1. CASE Done(r)
  BY <1>1 DEF Done, ApiTypeOK
<1>2. ASSUME NEW pc \in Pc, Goto(r, pc) PROVE ApiTypeOK'
  <2>1. [req[r] EXCEPT !.pc = pc] \in AtWork
    BY WorkFacts, FieldTyped
  <2>2. req' = [req EXCEPT ![r] = [req[r] EXCEPT !.pc = pc]]
    BY <1>2 DEF Goto
  <2> QED BY <2>1, <2>2, SlotTyped DEF ApiTypeOK
<1> QED BY <1>1, <1>2

\* What the handlers share: everything but the reaper.
ShareTypeOK == StoreTypeOK /\ NsTypeOK /\ faults \in 0..MaxFaults /\ ApiTypeOK

-----------------------------------------------------------------------------
(* Steps of environment.create. *)

\* An arriving create is well typed.
LEMMA CreateLookupTyped ==
    ASSUME ShareTypeOK, NEW r \in Request, NEW o \in Owner, NEW n \in Name,
           NEW ttl \in Ttl, NEW want \in Want, NEW asked \in Ask,
           CreateLookup(r, o, n, ttl, want, asked)
    PROVE  ShareTypeOK'
<1> DEFINE H(e, old, pc) ==
      [pc |-> pc, op |-> "create", env |-> e, old |-> old, owner |-> o,
       name |-> n, ttl |-> ttl, seen |-> "none", todo |-> want,
       port |-> NoPorts, asked |-> asked, ln |-> NoLn]
<1>1. PICK e \in FreshIds, old \in Env \cup {None}, pc \in {"insert", "alloc", "purge"} :
        req' = [req EXCEPT ![r] = H(e, old, pc)]
  BY DEF CreateLookup, AfterPorts, RowsNamed
<1>2. e \in Env
  BY DEF FreshIds
<1>3. ttl \in BOOLEAN /\ want \in SUBSET Pool /\ asked \in SUBSET Instance
  BY RequestAssumption DEF RequestAssumption
<1>5. H(e, old, pc) \in AtWork
  BY <1>2, <1>3, Empties DEF AtWork, Handler, Pc, Status, Op
<1>6. ApiTypeOK'
  BY <1>1, <1>5, SlotTyped DEF CreateLookup, ShareTypeOK, ApiTypeOK
<1> QED
  BY <1>6, SameStoreTyped, CallTyped DEF CreateLookup, ShareTypeOK

\* A step of a create keeps everything well typed.
LEMMA CreateStepTyped ==
    ASSUME ShareTypeOK, NEW r \in Request, CreateStep(r)
    PROVE  ShareTypeOK'
<1> DEFINE q == req[r]
<1>0. q.pc # "idle"
  BY DEF CreateStep, CreatePurge, CreateAlloc, CreateInsert, CreateLnPorts, CreateNs,
         CreateWorkloads, CreateExpose, CreateSetLightning, CreateCleanup, At
<1>q. /\ q \in AtWork /\ q.env \in Env /\ Home(r) \in ShortId
      /\ q.owner \in Owner \cup {None} /\ q.name \in Name \cup {None}
      /\ q.ttl \in BOOLEAN /\ q.todo \in SUBSET Pool
      /\ q.port \in Ports /\ q.asked \in SUBSET Instance /\ q.ln \in LnMap
  BY <1>0, WorkFacts DEF ShareTypeOK
<1> HIDE DEF q
<1>s. ApiTypeOK /\ StoreTypeOK /\ NsTypeOK /\ drawn \in SUBSET Env
  BY DEF ShareTypeOK, ApiTypeOK
<1>1. CASE CreatePurge(r)
  <2> DEFINE pc == AfterPorts(q.todo)
             h == [q EXCEPT !.pc = pc]
  <2>1. pc \in Pc
    BY DEF AfterPorts, Pc
  <2>2. h \in AtWork
    BY <1>q, <2>1, FieldTyped
  <2> HIDE DEF h
  <2>3. [h EXCEPT !.old = None] \in AtWork
    BY <2>2, FieldTyped
  <2> USE DEF h
  <2>4. [q EXCEPT !.pc = pc, !.old = None] = [h EXCEPT !.old = None]
    OBVIOUS
  <2>5. ApiTypeOK'
    BY <1>1, <1>0, <1>s, <2>3, <2>4, SlotTyped, MoveTyped DEF CreatePurge, q
  <2>6. StoreTypeOK'
    BY <1>1, <1>s, PurgeTyped DEF CreatePurge
  <2> QED BY <1>1, <1>s, <2>5, <2>6, CallTyped DEF CreatePurge, ShareTypeOK
<1>2. CASE CreateAlloc(r)
  <2>1. CASE Done(r)
    BY <1>0, <1>2, <1>s, <2>1, MoveTyped, SameStoreTyped, CallTyped
    DEF CreateAlloc, ShareTypeOK, q
  <2>2. CASE ~Done(r)
    <3> DEFINE pool == IF "explorer" \in q.todo THEN "explorer" ELSE "electrum"
               left == q.todo \ {pool}
    <3>1. PICK p \in NextPort(pool) :
            req' = [req EXCEPT ![r] = [q EXCEPT !.port[pool] = p, !.todo = left,
                                                !.pc = AfterPorts(left)]]
      BY <1>2, <2>2 DEF CreateAlloc, q
    <3>2. p \in Port
      BY DEF NextPort, LowestFreePort
    <3> DEFINE ports == [q.port EXCEPT ![pool] = p]
               h1 == [q EXCEPT !.port = ports]
               h2 == [h1 EXCEPT !.todo = left]
               h3 == [h2 EXCEPT !.pc = AfterPorts(left)]
    <3>3. ports \in Ports
      BY <1>q, <3>2 DEF Ports
    <3> HIDE DEF ports
    <3>4. h1 \in AtWork
      BY <1>q, <3>3, FieldTyped
    <3> HIDE DEF h1
    <3>5. h2 \in AtWork
      BY <1>q, <3>4, FieldTyped
    <3> HIDE DEF h2
    <3>6. h3 \in AtWork
      BY <3>5, FieldTyped DEF AfterPorts, Pc
    <3>7. h3 = [q EXCEPT !.port[pool] = p, !.todo = left, !.pc = AfterPorts(left)]
      BY DEF h1, h2, ports
    <3> HIDE DEF h3
    <3>8. ApiTypeOK'
      BY <1>2, <1>s, <3>1, <3>6, <3>7, SlotTyped DEF CreateAlloc
    <3> QED BY <1>2, <1>s, <3>8, SameStoreTyped, CallTyped DEF CreateAlloc, ShareTypeOK
  <2> QED BY <2>1, <2>2
<1>3. CASE CreateInsert(r)
  <2>1. CASE Done(r) /\ UNCHANGED <<rows, drawn>>
    BY <1>0, <1>3, <1>s, <2>1, MoveTyped, SameStoreTyped, CallTyped
    DEF CreateInsert, ShareTypeOK, q, storeVars
  <2>2. CASE ~(Done(r) /\ UNCHANGED <<rows, drawn>>)
    <3> DEFINE pc == IF q.asked = {} THEN "namespace" ELSE "lnports"
               h1 == [q EXCEPT !.pc = pc]
               h2 == [h1 EXCEPT !.owner = None]
               h3 == [h2 EXCEPT !.name = None]
    <3>1. /\ InsertRow(q.env, q.owner, q.name, q.port)
          /\ drawn' = drawn \cup {q.env}
          /\ req' = [req EXCEPT ![r] = [q EXCEPT !.pc = pc, !.owner = None, !.name = None]]
      BY <1>3, <2>2 DEF CreateInsert, q
    <3>2. h1 \in AtWork
      BY <1>q, FieldTyped DEF Pc
    <3> HIDE DEF h1
    <3>3. h2 \in AtWork
      BY <3>2, FieldTyped
    <3> HIDE DEF h2
    <3>4. h3 \in AtWork
      BY <3>3, FieldTyped
    <3>5. h3 = [q EXCEPT !.pc = pc, !.owner = None, !.name = None]
      BY DEF h1, h2
    <3> HIDE DEF h3
    <3>6. ApiTypeOK'
      BY <1>q, <1>s, <3>1, <3>4, <3>5, SlotTyped
    <3>7. StoreTypeOK'
      BY <1>3, <1>q, <1>s, <3>1, InsertTyped DEF CreateInsert
    <3> QED BY <1>3, <1>s, <3>6, <3>7, CallTyped DEF CreateInsert, ShareTypeOK
  <2> QED BY <2>1, <2>2
<1>4. CASE CreateLnPorts(r)
  <2>1. CASE Done(r)
    BY <1>0, <1>4, <1>s, <2>1, MoveTyped, SameStoreTyped, CallTyped
    DEF CreateLnPorts, ShareTypeOK, q
  <2>2. CASE ~Done(r)
    <3>1. PICK f \in NextLightningPorts(q.asked) :
            req' = [req EXCEPT ![r] = [q EXCEPT !.pc = "namespace", !.asked = {},
                      !.ln = [i \in Instance |-> IF i \in q.asked THEN f[i] ELSE NoPort]]]
      BY <1>4, <2>2 DEF CreateLnPorts, q
    <3> DEFINE m == [i \in Instance |-> IF i \in q.asked THEN f[i] ELSE NoPort]
               h1 == [q EXCEPT !.pc = "namespace"]
               h2 == [h1 EXCEPT !.asked = {}]
               h3 == [h2 EXCEPT !.ln = m]
    <3>2. m \in LnMap
      BY <1>q DEF NextLightningPorts, LnMap
    <3>3. h1 \in AtWork
      BY <1>q, FieldTyped DEF Pc
    <3> HIDE DEF h1, m
    <3>4. h2 \in AtWork
      BY <3>3, FieldTyped
    <3> HIDE DEF h2
    <3>5. h3 \in AtWork
      BY <3>2, <3>4, FieldTyped
    <3>6. h3 = [q EXCEPT !.pc = "namespace", !.asked = {}, !.ln = m]
      BY DEF h1, h2
    <3> HIDE DEF h3
    <3>7. req' = [req EXCEPT ![r] = h3]
      BY <3>1, <3>6 DEF m
    <3>8. ApiTypeOK'
      BY <1>4, <1>s, <3>5, <3>7, SlotTyped DEF CreateLnPorts
    <3> QED BY <1>4, <1>s, <3>8, SameStoreTyped, CallTyped DEF CreateLnPorts, ShareTypeOK
  <2> QED BY <2>1, <2>2
<1>f. faults \in 0..MaxFaults
  BY DEF ShareTypeOK
<1>5. CASE CreateNs(r)
  <2>1. NsTypeOK'
    BY <1>5, <1>q, <1>s, CallTyped DEF CreateNs, q
  <2>2. ApiTypeOK'
    BY <1>0, <1>5, <1>s, MoveTyped DEF CreateNs, Pc, q
  <2> QED BY <1>5, <1>f, <1>s, <2>1, <2>2, SameStoreTyped, FaultTyped DEF CreateNs, ShareTypeOK
<1>6. CASE CreateWorkloads(r)
  <2>1. NsTypeOK'
    BY <1>6, <1>s, CallTyped DEF CreateWorkloads, IntoNamespace
  <2>2. ApiTypeOK'
    BY <1>0, <1>6, <1>s, MoveTyped DEF CreateWorkloads, IntoNamespace, Pc, q
  <2> QED BY <1>6, <1>f, <1>s, <2>1, <2>2, SameStoreTyped, FaultTyped
          DEF CreateWorkloads, IntoNamespace, ShareTypeOK
<1>7. CASE CreateExpose(r)
  <2>1. NsTypeOK'
    BY <1>7, <1>q, <1>s, CallTyped DEF CreateExpose, IntoNamespace, q
  <2>2. ApiTypeOK'
    BY <1>0, <1>7, <1>s, MoveTyped DEF CreateExpose, IntoNamespace, Pc, q
  <2> QED BY <1>7, <1>f, <1>s, <2>1, <2>2, SameStoreTyped, FaultTyped
          DEF CreateExpose, IntoNamespace, ShareTypeOK
<1>8. CASE CreateSetLightning(r)
  <2>1. StoreTypeOK'
    BY <1>8, <1>q, <1>s, SetLightningTyped DEF CreateSetLightning, q
  <2>2. ApiTypeOK'
    BY <1>0, <1>8, <1>s, MoveTyped DEF CreateSetLightning, q
  <2> QED BY <1>8, <1>s, <2>1, <2>2, CallTyped DEF CreateSetLightning, ShareTypeOK
<1>9. CASE CreateCleanup(r)
  <2>1. NsTypeOK'
    BY <1>9, <1>s, CallTyped DEF CreateCleanup
  <2>2. ApiTypeOK'
    BY <1>0, <1>9, <1>s, MoveTyped DEF CreateCleanup, Pc, q
  <2> QED BY <1>9, <1>f, <1>s, <2>1, <2>2, SameStoreTyped, FaultTyped DEF CreateCleanup, ShareTypeOK
<1> QED BY <1>1, <1>2, <1>3, <1>4, <1>5, <1>6, <1>7, <1>8, <1>9 DEF CreateStep

-----------------------------------------------------------------------------
(* Steps of the methods on a stored environment. *)

\* An arriving request for a stored environment is well typed.
LEMMA LookupTyped ==
    ASSUME ShareTypeOK, NEW r \in Request, NEW op \in StoredOps, NEW o \in Owner,
           NEW e \in Env, NEW asked \in Ask, Lookup(r, op, o, e, asked)
    PROVE  ShareTypeOK'
<1> DEFINE next == AfterLookup(op, rows[e].status)
           h == [pc |-> next, op |-> op, env |-> e, old |-> None, owner |-> None,
                 name |-> None, ttl |-> FALSE,
                 seen |-> IF op \in LiveOps THEN rows[e].status ELSE "none",
                 todo |-> {}, port |-> NoPorts,
                 asked |-> IF op = "update" THEN asked ELSE {}, ln |-> NoLn]
<1>1. next \in Pc
  BY DEF AfterLookup, StoredOps, LiveOps, Pc
<1>2. asked \in SUBSET Instance
  BY RequestAssumption DEF RequestAssumption
<1>3. rows[e].status \in Status
  BY DEF ShareTypeOK, StoreTypeOK, Row
<1> HIDE DEF next
<1>4. h \in AtWork
  BY <1>1, <1>2, <1>3, Empties DEF AtWork, Handler, Status, Op
<1>5. req' = [req EXCEPT ![r] = h]
  BY DEF Lookup, next
<1>6. ApiTypeOK'
  BY <1>4, <1>5, SlotTyped DEF Lookup, ShareTypeOK, ApiTypeOK
<1> QED BY <1>6, SameStoreTyped, CallTyped DEF Lookup, ShareTypeOK

\* A step of such a request keeps everything well typed.
LEMMA StoredStepTyped ==
    ASSUME ShareTypeOK, NEW r \in Request, StoredStep(r)
    PROVE  ShareTypeOK'
<1> DEFINE q == req[r]
<1>0. q.pc # "idle"
  BY DEF StoredStep, CheckExists, Expire, CoreReady, Promote, ScaleSts, ScaleDep,
         Settle, DestroyTeardown, Condemn, DeleteRecord, UpdateRead, UpdateAlloc,
         UpdateApply, UpdateSetLightning, At
<1>q. /\ q \in AtWork /\ q.env \in Env /\ Home(r) \in ShortId
      /\ q.asked \in SUBSET Instance /\ q.ln \in LnMap
  BY <1>0, WorkFacts DEF ShareTypeOK
<1> HIDE DEF q
<1>s. ApiTypeOK /\ StoreTypeOK /\ NsTypeOK /\ drawn \in SUBSET Env
  BY DEF ShareTypeOK, ApiTypeOK
<1>f. faults \in 0..MaxFaults
  BY DEF ShareTypeOK
<1>1. CASE CheckExists(r)
  <2> DEFINE next == AfterReconcile(q.op, q.seen)
             h == [q EXCEPT !.pc = next]
  <2>1. next \in Pc
    BY DEF AfterReconcile, Pc
  <2> HIDE DEF next
  <2>2. h \in AtWork
    BY <1>q, <2>1, FieldTyped
  <2> HIDE DEF h
  <2>3. [h EXCEPT !.seen = "none"] \in AtWork
    BY <2>2, FieldTyped DEF Status
  <2>4. [q EXCEPT !.pc = next, !.seen = "none"] = [h EXCEPT !.seen = "none"]
    BY DEF h
  <2>5. \/ Done(r)
        \/ Goto(r, "expire")
        \/ req' = [req EXCEPT ![r] = [q EXCEPT !.pc = next, !.seen = "none"]]
    BY <1>1 DEF CheckExists, q, next
  <2>6. ApiTypeOK'
    BY <1>0, <1>1, <1>s, <2>3, <2>4, <2>5, SlotTyped, MoveTyped DEF CheckExists, Pc, q
  <2> QED BY <1>1, <1>f, <1>s, <2>6, SameStoreTyped, CallTyped, FaultTyped
          DEF CheckExists, ShareTypeOK
<1>2. CASE Expire(r)
  <2>1. StoreTypeOK'
    BY <1>2, <1>q, <1>s, SetStatusTyped DEF Expire, q, Status, Live, Dead
  <2>2. ApiTypeOK'
    BY <1>0, <1>2, <1>s, MoveTyped DEF Expire, q
  <2> QED BY <1>2, <1>s, <2>1, <2>2, CallTyped DEF Expire, ShareTypeOK
<1>3. CASE CoreReady(r)
  <2>1. ApiTypeOK'
    BY <1>0, <1>3, <1>s, MoveTyped DEF CoreReady, Pc, q
  <2> QED BY <1>3, <1>s, <2>1, SameStoreTyped, CallTyped DEF CoreReady, ShareTypeOK
<1>4. CASE Promote(r)
  <2>1. StoreTypeOK'
    BY <1>4, <1>q, <1>s, SetStatusTyped DEF Promote, q, Status, Live, Dead
  <2>2. ApiTypeOK'
    BY <1>0, <1>4, <1>s, MoveTyped DEF Promote, q
  <2> QED BY <1>4, <1>s, <2>1, <2>2, CallTyped DEF Promote, ShareTypeOK
<1>5. CASE ScaleSts(r)
  <2>1. NsTypeOK'
    BY <1>5, <1>s, CallTyped DEF ScaleSts, Replicas
  <2>2. ApiTypeOK'
    BY <1>0, <1>5, <1>s, MoveTyped DEF ScaleSts, Pc, q
  <2> QED BY <1>5, <1>s, <2>1, <2>2, SameStoreTyped DEF ScaleSts, ShareTypeOK
<1>6. CASE ScaleDep(r)
  <2>1. NsTypeOK'
    BY <1>6, <1>s, CallTyped DEF ScaleDep, Replicas
  <2>2. ApiTypeOK'
    BY <1>0, <1>6, <1>s, MoveTyped DEF ScaleDep, Pc, q
  <2> QED BY <1>6, <1>s, <2>1, <2>2, SameStoreTyped DEF ScaleDep, ShareTypeOK
<1>7. CASE Settle(r)
  <2>1. StoreTypeOK'
    BY <1>7, <1>q, <1>s, SetStatusTyped DEF Settle, q, Status, Live, Dead, ResultStatus
  <2>2. ApiTypeOK'
    BY <1>0, <1>7, <1>s, MoveTyped DEF Settle, q
  <2> QED BY <1>7, <1>s, <2>1, <2>2, CallTyped DEF Settle, ShareTypeOK
<1>8. CASE DestroyTeardown(r)
  <2>1. NsTypeOK'
    BY <1>8, <1>s, CallTyped DEF DestroyTeardown
  <2>2. ApiTypeOK'
    BY <1>0, <1>8, <1>s, MoveTyped DEF DestroyTeardown, Pc, q
  <2> QED BY <1>8, <1>s, <2>1, <2>2, SameStoreTyped DEF DestroyTeardown, ShareTypeOK
<1>9. CASE Condemn(r)
  <2>1. StoreTypeOK'
    BY <1>9, <1>q, <1>s, SetStatusTyped DEF Condemn, q, Status, Live, Dead
  <2>2. ApiTypeOK'
    BY <1>0, <1>9, <1>s, MoveTyped DEF Condemn, q
  <2> QED BY <1>9, <1>s, <2>1, <2>2, CallTyped DEF Condemn, ShareTypeOK
<1>10. CASE DeleteRecord(r)
  <2>1. StoreTypeOK'
    BY <1>10, <1>q, <1>s, PurgeTyped DEF DeleteRecord, q, Status, Live, Dead
  <2>2. ApiTypeOK'
    BY <1>0, <1>10, <1>s, MoveTyped DEF DeleteRecord, q
  <2> QED BY <1>10, <1>s, <2>1, <2>2, CallTyped DEF DeleteRecord, ShareTypeOK
<1>11. CASE UpdateRead(r)
  <2>1. CASE Done(r)
    BY <1>0, <1>11, <1>s, <2>1, MoveTyped, SameStoreTyped, CallTyped
    DEF UpdateRead, ShareTypeOK, q
  <2>2. CASE ~Done(r)
    <3> DEFINE existing == lightning[q.env]
               additions == q.asked \ Named(existing)
               h1 == [q EXCEPT !.pc = "lnalloc"]
               h2 == [h1 EXCEPT !.asked = additions]
               h3 == [h2 EXCEPT !.ln = existing]
    <3>1. existing \in LnMap /\ additions \in SUBSET Instance
      BY <1>q, <1>s DEF StoreTypeOK
    <3>2. req' = [req EXCEPT ![r] = [q EXCEPT !.pc = "lnalloc", !.asked = additions,
                                              !.ln = existing]]
      BY <1>11, <2>2 DEF UpdateRead, q
    <3> HIDE DEF existing, additions
    <3>3. h1 \in AtWork
      BY <1>q, FieldTyped DEF Pc
    <3> HIDE DEF h1
    <3>4. h2 \in AtWork
      BY <3>1, <3>3, FieldTyped
    <3> HIDE DEF h2
    <3>5. h3 \in AtWork
      BY <3>1, <3>4, FieldTyped
    <3>6. h3 = [q EXCEPT !.pc = "lnalloc", !.asked = additions, !.ln = existing]
      BY DEF h1, h2
    <3> HIDE DEF h3
    <3>7. ApiTypeOK'
      BY <1>11, <1>s, <3>2, <3>5, <3>6, SlotTyped DEF UpdateRead
    <3> QED BY <1>11, <1>s, <3>7, SameStoreTyped, CallTyped DEF UpdateRead, ShareTypeOK
  <2> QED BY <2>1, <2>2
<1>12. CASE UpdateAlloc(r)
  <2>1. CASE Done(r)
    BY <1>0, <1>12, <1>s, <2>1, MoveTyped, SameStoreTyped, CallTyped
    DEF UpdateAlloc, ShareTypeOK, q
  <2>2. CASE ~Done(r)
    <3>1. PICK f \in NextLightningPorts(q.asked) :
            req' = [req EXCEPT ![r] = [q EXCEPT !.pc = "lnapply",
                      !.ln = [i \in Instance |-> IF i \in q.asked THEN f[i] ELSE q.ln[i]]]]
      BY <1>12, <2>2 DEF UpdateAlloc, q
    <3> DEFINE m == [i \in Instance |-> IF i \in q.asked THEN f[i] ELSE q.ln[i]]
               h1 == [q EXCEPT !.pc = "lnapply"]
               h2 == [h1 EXCEPT !.ln = m]
    <3>2. m \in LnMap
      BY <1>q DEF NextLightningPorts, LnMap
    <3>3. h1 \in AtWork
      BY <1>q, FieldTyped DEF Pc
    <3> HIDE DEF h1, m
    <3>4. h2 \in AtWork
      BY <3>2, <3>3, FieldTyped
    <3>5. h2 = [q EXCEPT !.pc = "lnapply", !.ln = m]
      BY DEF h1
    <3> HIDE DEF h2
    <3>6. req' = [req EXCEPT ![r] = h2]
      BY <3>1, <3>5 DEF m
    <3>7. ApiTypeOK'
      BY <1>12, <1>s, <3>4, <3>6, SlotTyped DEF UpdateAlloc
    <3> QED BY <1>12, <1>s, <3>7, SameStoreTyped, CallTyped DEF UpdateAlloc, ShareTypeOK
  <2> QED BY <2>1, <2>2
<1>13. CASE UpdateApply(r)
  <2> DEFINE part(I) == [i \in Instance |-> IF i \in I THEN q.ln[i] ELSE NoPort]
  <2>1. \A I \in SUBSET Instance : part(I) \in LnMap
    BY <1>q DEF LnMap
  <2>2. \/ \E I \in SUBSET Instance : AddLnd(Home(r), part(I))
        \/ UNCHANGED kubeVars
    <3>1. CASE UNCHANGED kubeVars
      BY <3>1
    <3>2. CASE ~UNCHANGED kubeVars
      BY <1>13, <1>q, <3>2 DEF UpdateApply, q
    <3> QED BY <3>1, <3>2
  <2>3. NsTypeOK'
    BY <1>s, <2>1, <2>2, CallTyped
  <2>4. ApiTypeOK'
    BY <1>0, <1>13, <1>s, MoveTyped DEF UpdateApply, Pc, q
  <2>5. faults' \in 0..MaxFaults
    BY <1>13, <1>f, FaultTyped DEF UpdateApply
  <2> QED BY <1>13, <1>s, <2>3, <2>4, <2>5, SameStoreTyped DEF UpdateApply, ShareTypeOK
<1>14. CASE UpdateSetLightning(r)
  <2>1. StoreTypeOK'
    BY <1>14, <1>q, <1>s, SetLightningTyped DEF UpdateSetLightning, q, Status, Live, Dead
  <2>2. ApiTypeOK'
    BY <1>0, <1>14, <1>s, MoveTyped DEF UpdateSetLightning, q
  <2> QED BY <1>14, <1>s, <2>1, <2>2, CallTyped DEF UpdateSetLightning, ShareTypeOK
<1> QED BY <1>1, <1>2, <1>3, <1>4, <1>5, <1>6, <1>7, <1>8, <1>9, <1>10, <1>11, <1>12,
           <1>13, <1>14 DEF StoredStep

-----------------------------------------------------------------------------
(* Type correctness of the system. *)

\* A pass of the reaper keeps everything well typed.
LEMMA ReaperTyped ==
    ASSUME ShareTypeOK, ReaperTypeOK, ReaperStep, UNCHANGED apiVars
    PROVE  ShareTypeOK' /\ ReaperTypeOK'
<1>a. ApiTypeOK'
  BY DEF apiVars, ApiTypeOK, ShareTypeOK
<1>s. StoreTypeOK /\ NsTypeOK /\ faults \in 0..MaxFaults
  BY DEF ShareTypeOK
<1>1. CASE ListExpired
  BY <1>1, <1>a, <1>s, SameStoreTyped, CallTyped
  DEF ListExpired, ExpiredNamespaces, ReaperTypeOK, ShareTypeOK
<1>2. CASE ReapOne
  <2>1. PICK s \in reaper.due :
          /\ \/ DeleteNamespace(s) /\ NoFault
             \/ Fault /\ UNCHANGED kubeVars
          /\ \/ reaper' = [reaper EXCEPT !.due = @ \ {s}, !.reaped = @ \cup {s}]
             \/ reaper' = [reaper EXCEPT !.due = @ \ {s}]
    BY <1>2 DEF ReapOne
  <2> DEFINE d == [reaper EXCEPT !.due = reaper.due \ {s}]
  <2>2. s \in ShortId /\ reaper.reaped \in SUBSET ShortId
    BY <2>1 DEF ReaperTypeOK
  <2>3. d \in [pc: {"sleep", "reap", "mark"}, due: SUBSET ShortId, reaped: SUBSET ShortId]
    BY DEF ReaperTypeOK
  <2>4. [reaper EXCEPT !.due = @ \ {s}, !.reaped = @ \cup {s}]
          = [d EXCEPT !.reaped = reaper.reaped \cup {s}]
    BY DEF ReaperTypeOK
  <2>5. [reaper EXCEPT !.due = @ \ {s}] = d
    OBVIOUS
  <2> HIDE DEF d
  <2>6. ReaperTypeOK'
    BY <2>1, <2>2, <2>3, <2>4, <2>5 DEF ReaperTypeOK
  <2>7. StoreTypeOK'
    BY <1>2, <1>s, SameStoreTyped DEF ReapOne
  <2>8. NsTypeOK'
    BY <1>s, <2>1, CallTyped
  <2> QED BY <1>a, <1>s, <2>1, <2>6, <2>7, <2>8, FaultTyped DEF ShareTypeOK
<1>3. CASE StartMarking
  <2>1. ReaperTypeOK'
    BY <1>3 DEF StartMarking, ReaperTypeOK, Asleep
  <2> QED BY <1>3, <1>a, <1>s, <2>1, SameStoreTyped, CallTyped DEF StartMarking, ShareTypeOK
<1>4. CASE MarkOne
  <2>1. PICK s \in reaper.reaped :
          /\ \/ MarkExpired(s) /\ NoFault
             \/ Fault /\ UNCHANGED storeVars
          /\ reaper' = IF reaper.reaped = {s} THEN Asleep
                       ELSE [reaper EXCEPT !.reaped = @ \ {s}]
    BY <1>4 DEF MarkOne
  <2>2. ReaperTypeOK'
    BY <2>1 DEF ReaperTypeOK, Asleep
  <2>3. StoreTypeOK'
    BY <1>s, <2>1, SameStoreTyped, MarkExpiredTyped
  <2> QED BY <1>4, <1>a, <1>s, <2>1, <2>2, <2>3, CallTyped, FaultTyped
          DEF MarkOne, ShareTypeOK
<1> QED BY <1>1, <1>2, <1>3, <1>4 DEF ReaperStep

\* The type invariant holds of the initial states.
LEMMA TypeInit == Init => TypeOK
BY Empties, MaxFaultsAssumption
   DEF Init, TypeOK, StoreInit, KubeInit, ApiInit, ReaperInit, StoreTypeOK, KubeTypeOK,
       ApiTypeOK, ReaperTypeOK, Asleep

\* The type invariant is inductive.
LEMMA TypeStep == TypeOK /\ [Next]_vars => TypeOK'
<1> SUFFICES ASSUME TypeOK, [Next]_vars
             PROVE  TypeOK'
  OBVIOUS
<1>1. ShareTypeOK /\ ReaperTypeOK
  BY DEF TypeOK, KubeTypeOK, ShareTypeOK, NsTypeOK
<1>2. SUFFICES ShareTypeOK' /\ ReaperTypeOK'
  BY DEF TypeOK, KubeTypeOK, ShareTypeOK, NsTypeOK
<1>3. CASE ApiStep
  <2>1. PICK r \in Request : (Arrive(r) \/ Handle(r) \/ Abandon(r)) /\ UNCHANGED reaper
    BY <1>3 DEF ApiStep
  <2>2. ReaperTypeOK'
    BY <1>1, <2>1 DEF ReaperTypeOK
  <2>3. CASE Arrive(r)
    BY <1>1, <2>2, <2>3, CreateLookupTyped, LookupTyped DEF Arrive
  <2>4. CASE Handle(r)
    BY <1>1, <2>2, <2>4, CreateStepTyped, StoredStepTyped DEF Handle
  <2>5. CASE Abandon(r)
    <3>1. ApiTypeOK'
      BY <1>1, <2>5, MoveTyped DEF Abandon, At, ShareTypeOK
    <3> QED BY <1>1, <2>2, <2>5, <3>1, SameStoreTyped, CallTyped, FaultTyped
            DEF Abandon, ShareTypeOK
  <2> QED BY <2>1, <2>3, <2>4, <2>5
<1>4. CASE Reap
  BY <1>1, <1>4, ReaperTyped DEF Reap
<1>5. CASE ClusterStep
  BY <1>1, <1>5, ClusterTyped, SameStoreTyped
  DEF ClusterStep, ShareTypeOK, apiVars, ApiTypeOK, ReaperTypeOK
<1>6. CASE Crash
  <2>1. ApiTypeOK'
    BY <1>1, <1>6 DEF Crash, ShareTypeOK, ApiTypeOK
  <2>2. ReaperTypeOK'
    BY <1>6 DEF Crash, ReaperTypeOK, Asleep
  <2> QED BY <1>1, <1>6, <2>1, <2>2, SameStoreTyped, CallTyped, FaultTyped
          DEF Crash, ShareTypeOK
<1>7. CASE UNCHANGED vars
  BY <1>1, <1>7, SameStoreTyped, CallTyped
  DEF vars, ShareTypeOK, apiVars, ApiTypeOK, ReaperTypeOK
<1> QED BY <1>3, <1>4, <1>5, <1>6, <1>7 DEF Next

\* Every reachable state is well typed: rows, namespaces, handlers and the
\* reaper's pass never hold a value outside the schema (EnvStore, Kube,
\* SandboxApi, Reaper).
THEOREM TypeCorrect == Spec => []TypeOK
BY TypeInit, TypeStep, PTL DEF Spec

-----------------------------------------------------------------------------
(* The records. *)

\* The create in slot r inserts its row, and so uses its id.
Inserted(r) ==
    /\ req[r].pc = "insert" /\ req[r].env \in Env
    /\ InsertRow(req[r].env, req[r].owner, req[r].name, req[r].port)
    /\ drawn' = drawn \cup {req[r].env}

\* What one step of the system may do to the records: one statement.
Statement ==
    \/ \E r \in Request : Inserted(r)
    \/ /\ drawn' = drawn
       /\ \/ UNCHANGED rows
          \/ \E e \in Env, st \in Status \ {"none"} : SetStatus(e, st)
          \/ \E e \in Env : Purge(e)
          \/ \E s \in ShortId : MarkExpired(s)

\* Every step touches the records by one statement of the store at most.
LEMMA OneStatement == TypeOK /\ [Next]_vars => Statement
<1> SUFFICES ASSUME TypeOK, [Next]_vars, \A r \in Request : ~Inserted(r)
             PROVE  Statement
  BY DEF Statement
<1>t. ApiTypeOK /\ ReaperTypeOK
  BY DEF TypeOK
<1>i. ASSUME NEW r \in Request, CreateInsert(r)
      PROVE  UNCHANGED <<rows, drawn>>
  BY <1>i, <1>t, WorkFacts DEF CreateInsert, Inserted, At
<1>d. drawn' = drawn
  <2>1. CASE ApiStep
    <3>1. PICK r \in Request : Arrive(r) \/ Handle(r) \/ Abandon(r)
      BY <2>1 DEF ApiStep
    <3>2. CASE Arrive(r) \/ Abandon(r)
      BY <3>2 DEF Arrive, CreateLookup, Lookup, Abandon
    <3>3. CASE CreateStep(r)
      BY <1>i, <3>3 DEF CreateStep, CreatePurge, CreateAlloc, CreateLnPorts, CreateNs,
         CreateWorkloads, CreateExpose, CreateSetLightning, CreateCleanup
    <3>4. CASE StoredStep(r)
      BY <3>4 DEF StoredStep, CheckExists, Expire, CoreReady, Promote, ScaleSts, ScaleDep,
         Settle, DestroyTeardown, Condemn, DeleteRecord, UpdateRead, UpdateAlloc,
         UpdateApply, UpdateSetLightning
    <3> QED BY <3>1, <3>2, <3>3, <3>4 DEF Handle
  <2>2. CASE Reap \/ ClusterStep \/ Crash \/ UNCHANGED vars
    BY <2>2 DEF Reap, ClusterStep, Crash, vars, apiVars
  <2> QED BY <2>1, <2>2 DEF Next
<1> SUFFICES ASSUME ~UNCHANGED rows PROVE Statement
  BY <1>d DEF Statement
<1>1. CASE ApiStep
  <2>1. PICK r \in Request : Arrive(r) \/ Handle(r) \/ Abandon(r)
    BY <1>1 DEF ApiStep
  <2>2. Handle(r) /\ req[r].pc # "idle"
    <3>1. CASE Arrive(r)
      BY <3>1 DEF Arrive, CreateLookup, Lookup, storeVars
    <3>2. CASE Abandon(r)
      BY <3>2 DEF Abandon, storeVars
    <3>3. CASE CreateStep(r)
      BY <3>3 DEF Handle, CreateStep, CreatePurge, CreateAlloc, CreateInsert,
           CreateLnPorts, CreateNs, CreateWorkloads, CreateExpose, CreateSetLightning,
           CreateCleanup, At
    <3>4. CASE StoredStep(r)
      BY <3>4 DEF Handle, StoredStep, CheckExists, Expire, CoreReady, Promote, ScaleSts,
           ScaleDep, Settle, DestroyTeardown, Condemn, DeleteRecord, UpdateRead,
           UpdateAlloc, UpdateApply, UpdateSetLightning, At
    <3> QED BY <2>1, <3>1, <3>2, <3>3, <3>4 DEF Handle
  <2>3. req[r].env \in Env
    BY <1>t, <2>2, WorkFacts
  <2>4. CASE CreatePurge(r)
    <3>1. req[r].old \in Env \/ UNCHANGED rows
      <4>1. rows \in [Env -> Row]
        BY DEF TypeOK, StoreTypeOK
      <4>2. req[r].old \notin Env => [rows EXCEPT ![req[r].old] = NoRow] = rows
        BY <4>1
      <4> QED BY <2>4, <4>2 DEF CreatePurge, Purge, storeVars
    <3> QED BY <1>d, <2>4, <3>1 DEF CreatePurge, Statement
  <2>5. CASE CreateInsert(r)
    BY <1>i, <2>5
  <2>6. CASE Expire(r) \/ Promote(r) \/ Settle(r) \/ Condemn(r)
    BY <1>d, <2>3, <2>6 DEF Expire, Promote, Settle, Condemn, ResultStatus, Status, Live, Dead,
       Statement
  <2>7. CASE DeleteRecord(r)
    BY <1>d, <2>3, <2>7 DEF DeleteRecord, Statement
  <2> QED
    BY <2>2, <2>4, <2>5, <2>6, <2>7 DEF Handle, CreateStep, StoredStep, storeVars,
       CreateAlloc, CreateLnPorts, CreateNs, CreateWorkloads, CreateExpose,
       CreateSetLightning, SetLightning, CreateCleanup, CheckExists, CoreReady, ScaleSts,
       ScaleDep, DestroyTeardown, UpdateRead, UpdateAlloc, UpdateApply, UpdateSetLightning
<1>2. CASE Reap
  <2>1. CASE MarkOne
    BY <1>d, <1>t, <2>1 DEF MarkOne, ReaperTypeOK, storeVars, Statement
  <2> QED BY <1>2, <2>1 DEF Reap, ReaperStep, ListExpired, ReapOne, StartMarking, storeVars
<1>3. CASE ClusterStep \/ Crash \/ UNCHANGED vars
  BY <1>3 DEF ClusterStep, Crash, vars, storeVars
<1> QED BY <1>1, <1>2, <1>3 DEF Next

\* No statement of the store gives an owner a second environment of a name.
LEMMA NameUniqueStep == TypeOK /\ NameUnique /\ Statement => NameUnique'
<1> SUFFICES ASSUME TypeOK, NameUnique, Statement,
                    NEW e \in Env, NEW f \in Env, Stored(e)', Stored(f)',
                    rows'[e].owner = rows'[f].owner, rows'[e].name = rows'[f].name
             PROVE  e = f
  BY DEF NameUnique
<1>t. rows \in [Env -> Row]
  BY DEF TypeOK, StoreTypeOK
<1> DEFINE Same(g) == Stored(g) /\ rows'[g].owner = rows[g].owner /\ rows'[g].name = rows[g].name
<1>1. Same(e) /\ Same(f) => e = f
  BY DEF NameUnique
<1>2. CASE UNCHANGED rows
  BY <1>1, <1>2 DEF Stored
<1>3. ASSUME NEW g \in Env, NEW o, NEW n, NEW p, InsertRow(g, o, n, p)
      PROVE  e = f
  <2>1. /\ rows'[g].owner = o /\ rows'[g].name = n
        /\ \A h \in Env \ {g} : rows'[h] = rows[h]
    BY <1>3, <1>t DEF InsertRow
  <2>2. \A h \in Env : ~(Stored(h) /\ rows[h].owner = o /\ rows[h].name = n)
    BY <1>3 DEF InsertRow, RowsNamed
  <2> QED BY <1>1, <2>1, <2>2 DEF Stored
<1>4. ASSUME NEW g \in Env, NEW st \in Status, SetStatus(g, st)
      PROVE  e = f
  <2>1. \A h \in Env : Stored(h)' => Same(h)
    BY <1>4, <1>t DEF SetStatus, Stored, Row
  <2> QED BY <1>1, <2>1
<1>5. ASSUME NEW g \in Env, Purge(g)
      PROVE  e = f
  <2>1. \A h \in Env : Stored(h)' => Same(h)
    BY <1>5, <1>t DEF Purge, Stored, NoRow, storeVars
  <2> QED BY <1>1, <2>1
<1>6. ASSUME NEW s \in ShortId, MarkExpired(s)
      PROVE  e = f
  <2>1. \A h \in Env : Stored(h)' => Same(h)
    BY <1>6, <1>t DEF MarkExpired, Stored, Row
  <2> QED BY <1>1, <2>1
<1> QED BY <1>2, <1>3, <1>4, <1>5, <1>6 DEF Statement, Inserted

\* An owner never has two environments of one name, for any number of
\* requests in flight, faults and crashes (signet-db, the unique index).
THEOREM NamesStayUnique == Spec => []NameUnique
<1>1. Init => NameUnique
  BY DEF Init, StoreInit, NameUnique, Stored, NoRow
<1>2. TypeOK /\ NameUnique /\ [Next]_vars => NameUnique'
  <2>1. CASE Next
    BY <2>1, OneStatement, NameUniqueStep
  <2>2. CASE UNCHANGED vars
    BY <2>2, OneStatement, NameUniqueStep
  <2> QED BY <2>1, <2>2
<1> QED BY <1>1, <1>2, TypeCorrect, PTL DEF Spec

\* A record disappears only while it is destroyed or expired, whichever
\* handler purges it and however old the status it read (signet-db
\* purge_environment).
THEOREM PurgesOnlyDead == Spec => PurgeOnlyDead
<1>1. TypeOK /\ [Next]_vars
        => [\A e \in Env : Stored(e) /\ ~Stored(e)' => rows[e].status \in Dead]_vars
  <2> SUFFICES ASSUME TypeOK, [Next]_vars, NEW e \in Env, Stored(e), ~Stored(e)'
               PROVE  rows[e].status \in Dead
    OBVIOUS
  <2>1. Statement /\ rows \in [Env -> Row]
    BY OneStatement DEF TypeOK, StoreTypeOK
  <2>2. ASSUME NEW g, NEW o, NEW n, NEW p, InsertRow(g, o, n, p) PROVE FALSE
    BY <2>1, <2>2 DEF InsertRow, Stored
  <2>3. ASSUME NEW g \in Env, Purge(g) PROVE rows[e].status \in Dead
    BY <2>1, <2>3 DEF Purge, Stored, storeVars
  <2>4. ASSUME NEW g \in Env, NEW st \in Status \ {"none"}, SetStatus(g, st) PROVE FALSE
    BY <2>1, <2>4 DEF SetStatus, Stored, Row
  <2>5. ASSUME NEW s, MarkExpired(s) PROVE FALSE
    BY <2>1, <2>5 DEF MarkExpired, Stored, Row
  <2> QED BY <2>1, <2>2, <2>3, <2>4, <2>5 DEF Statement, Inserted, Stored
<1> QED BY <1>1, TypeCorrect, PTL DEF Spec, PurgeOnlyDead
=============================================================================
