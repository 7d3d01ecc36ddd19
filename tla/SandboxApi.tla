----------------------------- MODULE SandboxApi -----------------------------
(***************************************************************************)
(* The environment.* handlers of crate signet-api.  A request is an async  *)
(* handler: each step below is one await (one statement of the store or    *)
(* one call of the cluster), and other requests and the reaper run between *)
(* any two of them.  What a handler read earlier it keeps in its record.   *)
(*                                                                         *)
(* A step whose error only ends the request is Abandon; errors the code    *)
(* carries on from are disjuncts of the step.  A call that took effect and *)
(* lost its answer is that step, then Abandon.                             *)
(***************************************************************************)
EXTENDS Kube

CONSTANTS
    Request,    \* slots for requests in flight
    Ops,        \* methods the callers use
    Want,       \* sets of pools a create may ask a port of
    Ask,        \* sets of lightning instances a call may name
    Ttl         \* whether a create sets ttl_secs

LiveOps == {"get", "stop", "start", "update"}
StoredOps == LiveOps \cup {"destroy", "delete"}
Op == StoredOps \cup {"create"}

ASSUME RequestAssumption ==
    /\ Ops \subseteq Op
    /\ Want \subseteq SUBSET Pool
    /\ Ask \subseteq SUBSET Instance
    /\ Ttl \subseteq BOOLEAN

VARIABLES
    req,    \* per slot: the handler's program counter and local variables
    drawn   \* ids an insert has used

apiVars == <<req, drawn>>

Pc == {"idle", "purge", "alloc", "insert", "lnports", "namespace", "workloads",
       "expose", "setln", "cleanup", "condemn", "exists", "expire",
       "coreready", "promote", "scaleSts", "scaleDep", "settle", "teardown",
       "unrecord", "lnread", "lnalloc", "lnapply", "lnset"}

Handler == [pc: Pc, op: Op \cup {None},
            env: Env \cup {None},       \* the row (a create's new one)
            old: Env \cup {None},       \* the dead row a create purges
            owner: Owner \cup {None}, name: Name \cup {None}, ttl: BOOLEAN,
            seen: Status,               \* row.status as the lookup read it
            todo: SUBSET Pool, port: Ports,
            asked: SUBSET Instance, ln: LnMap]

Idle == [pc |-> "idle", op |-> None, env |-> None, old |-> None,
         owner |-> None, name |-> None, ttl |-> FALSE, seen |-> "none",
         todo |-> {}, port |-> NoPorts, asked |-> {}, ln |-> NoLn]

\* A handler past its lookup knows its environment.
AtWork == {h \in Handler : h.env \in Env}

ApiTypeOK ==
    /\ req \in [Request -> AtWork \cup {Idle}]
    /\ drawn \in SUBSET Env

ApiInit ==
    /\ req = [r \in Request |-> Idle]
    /\ drawn = {}

At(r, pc) == req[r].pc = pc
Home(r) == Short[req[r].env]
Goto(r, pc) == req' = [req EXCEPT ![r].pc = pc]
Done(r) == req' = [req EXCEPT ![r] = Idle]

\* Uuid::now_v7 returns an id no row has and no other create holds.
FreshIds == Env \ (drawn \cup {req[r].env : r \in Request})

-----------------------------------------------------------------------------
(* environment.create *)

AfterPorts(todo) == IF todo = {} THEN "insert" ELSE "alloc"

\* A live name ends the request; a dead one is purged first.
CreateLookup(r, o, n, ttl, want, asked) ==
    LET new(e, old, pc) ==
            [pc |-> pc, op |-> "create", env |-> e, old |-> old, owner |-> o,
             name |-> n, ttl |-> ttl, seen |-> "none", todo |-> want,
             port |-> NoPorts, asked |-> asked, ln |-> NoLn]
    IN  /\ At(r, "idle") /\ "create" \in Ops
        /\ \E e \in FreshIds :
              \/ /\ RowsNamed(o, n) = {}
                 /\ req' = [req EXCEPT ![r] = new(e, None, AfterPorts(want))]
              \/ \E old \in RowsNamed(o, n) :
                    /\ rows[old].status \in Dead
                    /\ req' = [req EXCEPT ![r] = new(e, old, "purge")]
        /\ UNCHANGED <<storeVars, kubeVars, faults, drawn>>

\* The answer `nothing purged` is ignored; the lightning list is validated
\* only now, so an invalid request still frees the name.
CreatePurge(r) ==
    /\ At(r, "purge")
    /\ Purge(req[r].old)
    /\ \/ req' = [req EXCEPT ![r] = [@ EXCEPT !.pc = AfterPorts(req[r].todo), !.old = None]]
       \/ Done(r)
    /\ UNCHANGED <<kubeVars, faults, drawn>>

\* next_explorer_port, then next_electrum_port: read, reserve nothing.
CreateAlloc(r) ==
    LET q == req[r]
        pool == IF "explorer" \in q.todo THEN "explorer" ELSE "electrum"
        left == q.todo \ {pool}
    IN  /\ At(r, "alloc")
        /\ \/ \E p \in NextPort(pool) :
                 req' = [req EXCEPT ![r] = [q EXCEPT !.port[pool] = p, !.todo = left,
                                                     !.pc = AfterPorts(left)]]
           \/ NextPort(pool) = {} /\ Done(r)
        /\ UNCHANGED <<storeVars, kubeVars, faults, drawn>>

CreateInsert(r) ==
    LET q == req[r] IN
    /\ At(r, "insert")
    /\ \/ /\ InsertRow(q.env, q.owner, q.name, q.port)
          /\ drawn' = drawn \cup {q.env}
          /\ req' = [req EXCEPT ![r] =
                [q EXCEPT !.pc = IF q.asked = {} THEN "namespace" ELSE "lnports",
                          !.owner = None, !.name = None]]
       \/ \* unique violation
          RowsNamed(q.owner, q.name) # {} /\ Done(r) /\ UNCHANGED <<rows, drawn>>
    /\ UNCHANGED <<lightning, kubeVars, faults>>

\* An exhausted pool ends the request; the row stays, provisioning.
CreateLnPorts(r) ==
    LET q == req[r]
        given == NextLightningPorts(q.asked)
    IN  /\ At(r, "lnports")
        /\ \/ \E f \in given :
                 req' = [req EXCEPT ![r] = [q EXCEPT !.pc = "namespace", !.asked = {},
                            !.ln = [i \in Instance |->
                                IF i \in q.asked THEN f[i] ELSE NoPort]]]
           \/ given = {} /\ Done(r)
        /\ UNCHANGED <<storeVars, kubeVars, faults, drawn>>

\* A mutant: the namespace is applied, not created.
CreateNsApply(r) ==
    /\ At(r, "namespace")
    /\ CreateNamespace(Home(r), req[r].env, req[r].ttl)
    /\ NoFault
    /\ Goto(r, "workloads")
    /\ UNCHANGED <<storeVars, drawn>>

\* Creating a namespace that exists is a 409 conflict.
CreateNs(r) ==
    /\ At(r, "namespace")
    /\ \/ /\ ~Exists(Home(r)) /\ NoFault
          /\ CreateNamespace(Home(r), req[r].env, req[r].ttl)
          /\ Goto(r, "workloads")
       \/ ((Exists(Home(r)) /\ NoFault) \/ Fault) /\ UNCHANGED kubeVars /\ Goto(r, "cleanup")
    /\ UNCHANGED <<storeVars, drawn>>

\* A call into the namespace: refused once it is going, and a failure may
\* leave the objects made before it.
IntoNamespace(r, Call, next) ==
    \/ Active(Home(r)) /\ Call /\ NoFault /\ Goto(r, next)
    \/ Active(Home(r)) /\ Call /\ Fault /\ Goto(r, "cleanup")
    \/ ((~Active(Home(r)) /\ NoFault) \/ Fault) /\ UNCHANGED kubeVars /\ Goto(r, "cleanup")

CreateWorkloads(r) ==
    /\ At(r, "workloads")
    /\ IntoNamespace(r, ApplyWorkloads(Home(r)), "expose")
    /\ UNCHANGED <<storeVars, drawn>>

CreateExpose(r) ==
    /\ At(r, "expose")
    /\ IntoNamespace(r, Publish(Home(r), req[r].port, req[r].ln), "setln")
    /\ UNCHANGED <<storeVars, drawn>>

CreateSetLightning(r) ==
    /\ At(r, "setln")
    /\ SetLightning(req[r].env, req[r].ln)
    /\ Done(r)
    /\ UNCHANGED <<kubeVars, faults, drawn>>

CreateCleanup(r) ==
    /\ At(r, "cleanup")
    /\ \/ DeleteNamespace(Home(r)) /\ NoFault
       \/ Fault /\ UNCHANGED kubeVars
    /\ Goto(r, "condemn")
    /\ UNCHANGED <<storeVars, drawn>>

\* The last step of a failed create, and of a destroy.
Condemn(r) ==
    /\ At(r, "condemn")
    /\ SetStatus(req[r].env, "destroyed")
    /\ Done(r)
    /\ UNCHANGED <<kubeVars, faults, drawn>>

-----------------------------------------------------------------------------
(* The methods on a stored environment. *)

AfterLookup(op, seen) ==
    CASE op = "destroy" -> "teardown"
      [] op = "delete" -> IF seen \in Dead THEN "unrecord" ELSE "idle"
      [] op \in LiveOps -> IF seen \in Live THEN "exists" ELSE "idle"

\* resolve_environment, and the check that the caller owns the row.
Lookup(r, op, o, e, asked) ==
    LET next == AfterLookup(op, rows[e].status) IN
    /\ At(r, "idle") /\ op \in Ops
    /\ Stored(e) /\ rows[e].owner = o
    /\ next # "idle"
    /\ req' = [req EXCEPT ![r] =
          [pc |-> next, op |-> op, env |-> e, old |-> None, owner |-> None,
           name |-> None, ttl |-> FALSE,
           seen |-> IF op \in LiveOps THEN rows[e].status ELSE "none",
           todo |-> {}, port |-> NoPorts,
           asked |-> IF op = "update" THEN asked ELSE {}, ln |-> NoLn]]
    /\ UNCHANGED <<storeVars, kubeVars, faults, drawn>>

AfterReconcile(op, seen) ==
    CASE op = "get" /\ seen = "provisioning" -> "coreready"
      [] op = "stop" /\ seen = "ready" -> "scaleSts"
      [] op = "start" /\ seen = "stopped" -> "scaleSts"
      [] op = "update" /\ seen = "ready" -> "lnread"
      [] OTHER -> "idle"

\* The existence check of reconcile_reaped.  A failed check leaves the row.
CheckExists(r) ==
    LET q == req[r]
        next == AfterReconcile(q.op, q.seen)
    IN  /\ At(r, "exists")
        /\ \/ /\ (Exists(Home(r)) /\ NoFault) \/ Fault
              /\ IF next = "idle" THEN Done(r)
                 ELSE req' = [req EXCEPT ![r] = [q EXCEPT !.pc = next, !.seen = "none"]]
           \/ ~Exists(Home(r)) /\ NoFault /\ Goto(r, "expire")
        /\ UNCHANGED <<storeVars, kubeVars, drawn>>

\* No handler goes on with a row it has just seen expire.
Expire(r) ==
    /\ At(r, "expire")
    /\ SetStatus(req[r].env, "expired")
    /\ Done(r)
    /\ UNCHANGED <<kubeVars, faults, drawn>>

\* bitcoind's StatefulSet may report its replica ready while it has one.
CoreReady(r) ==
    /\ At(r, "coreready")
    /\ \/ Exists(Home(r)) /\ ns[Home(r)].sts = 1 /\ Goto(r, "promote")
       \/ Done(r)
    /\ UNCHANGED <<storeVars, kubeVars, faults, drawn>>

Promote(r) ==
    /\ At(r, "promote")
    /\ SetStatus(req[r].env, "ready")
    /\ Done(r)
    /\ UNCHANGED <<kubeVars, faults, drawn>>

Replicas(op) == IF op = "stop" THEN 0 ELSE 1
ResultStatus(op) == IF op = "stop" THEN "stopped" ELSE "provisioning"

ScaleSts(r) ==
    /\ At(r, "scaleSts")
    /\ ScaleStatefulSets(Home(r), Replicas(req[r].op))
    /\ Goto(r, "scaleDep")
    /\ UNCHANGED <<storeVars, faults, drawn>>

ScaleDep(r) ==
    /\ At(r, "scaleDep")
    /\ ScaleDeployments(Home(r), Replicas(req[r].op))
    /\ Goto(r, "settle")
    /\ UNCHANGED <<storeVars, faults, drawn>>

Settle(r) ==
    /\ At(r, "settle")
    /\ SetStatus(req[r].env, ResultStatus(req[r].op))
    /\ Done(r)
    /\ UNCHANGED <<kubeVars, faults, drawn>>

\* A mutant: the record is condemned although the teardown failed.
DestroyTeardownBlind(r) ==
    /\ At(r, "teardown")
    /\ \/ DeleteNamespace(Home(r)) /\ NoFault
       \/ Fault /\ UNCHANGED kubeVars
    /\ Goto(r, "condemn")
    /\ UNCHANGED <<storeVars, drawn>>

\* When the teardown fails the record is left alone (Abandon).
DestroyTeardown(r) ==
    /\ At(r, "teardown")
    /\ DeleteNamespace(Home(r))
    /\ Goto(r, "condemn")
    /\ UNCHANGED <<storeVars, faults, drawn>>

DeleteRecord(r) ==
    /\ At(r, "unrecord")
    /\ Purge(req[r].env)
    /\ Done(r)
    /\ UNCHANGED <<kubeVars, faults, drawn>>

-----------------------------------------------------------------------------
(* environment.update, after its status check. *)

\* Removals are refused; without additions there is nothing to do.
UpdateRead(r) ==
    LET q == req[r]
        existing == lightning[q.env]
        additions == q.asked \ Named(existing)
    IN  /\ At(r, "lnread")
        /\ IF Named(existing) \subseteq q.asked /\ additions # {}
           THEN req' = [req EXCEPT ![r] = [q EXCEPT !.pc = "lnalloc",
                                            !.asked = additions, !.ln = existing]]
           ELSE Done(r)
        /\ UNCHANGED <<storeVars, kubeVars, faults, drawn>>

UpdateAlloc(r) ==
    LET q == req[r]
        given == NextLightningPorts(q.asked)
    IN  /\ At(r, "lnalloc")
        /\ \/ \E f \in given :
                 req' = [req EXCEPT ![r] = [q EXCEPT !.pc = "lnapply",
                            !.ln = [i \in Instance |->
                                IF i \in q.asked THEN f[i] ELSE q.ln[i]]]]
           \/ given = {} /\ Done(r)
        /\ UNCHANGED <<storeVars, kubeVars, faults, drawn>>

\* Instances are applied one after another; one that is already in the
\* namespace is a conflict, and an error keeps those applied before it.
UpdateApply(r) ==
    LET q == req[r]
        fresh == {i \in q.asked : ns[Home(r)].lnd[i] = NoPort}
        part(I) == [i \in Instance |-> IF i \in I THEN q.ln[i] ELSE NoPort]
    IN  /\ At(r, "lnapply")
        /\ \/ /\ Active(Home(r)) /\ fresh = q.asked /\ NoFault
              /\ AddLnd(Home(r), part(q.asked))
              /\ Goto(r, "lnset")
           \/ /\ Active(Home(r)) /\ ((fresh # q.asked /\ NoFault) \/ Fault)
              /\ \E I \in SUBSET fresh : AddLnd(Home(r), part(I))
              /\ Done(r)
           \/ ~Active(Home(r)) /\ NoFault /\ Done(r) /\ UNCHANGED kubeVars
        /\ UNCHANGED <<storeVars, drawn>>

\* A mutant: the list is replaced by the additions alone.
UpdateSetAdditions(r) ==
    /\ At(r, "lnset")
    /\ SetLightning(req[r].env, [i \in Instance |->
           IF i \in req[r].asked THEN req[r].ln[i] ELSE NoPort])
    /\ Done(r)
    /\ UNCHANGED <<kubeVars, faults, drawn>>

UpdateSetLightning(r) ==
    /\ At(r, "lnset")
    /\ SetLightning(req[r].env, req[r].ln)
    /\ Done(r)
    /\ UNCHANGED <<kubeVars, faults, drawn>>

-----------------------------------------------------------------------------

\* The call at hand fails and its error is the answer, or is the last thing
\* logged; or the client hangs up and the handler's future is dropped.
Abandon(r) ==
    /\ ~At(r, "idle")
    /\ Fault
    /\ Done(r)
    /\ UNCHANGED <<storeVars, kubeVars, drawn>>

Arrive(r) ==
    \/ \E o \in Owner, n \in Name, ttl \in Ttl, want \in Want, asked \in Ask :
          CreateLookup(r, o, n, ttl, want, asked)
    \/ \E op \in StoredOps, o \in Owner, e \in Env, asked \in Ask : Lookup(r, op, o, e, asked)

CreateStep(r) ==
    \/ CreatePurge(r) \/ CreateAlloc(r) \/ CreateInsert(r) \/ CreateLnPorts(r)
    \/ CreateNs(r) \/ CreateWorkloads(r) \/ CreateExpose(r)
    \/ CreateSetLightning(r) \/ CreateCleanup(r)

StoredStep(r) ==
    \/ CheckExists(r) \/ Expire(r) \/ CoreReady(r) \/ Promote(r)
    \/ ScaleSts(r) \/ ScaleDep(r) \/ Settle(r)
    \/ DestroyTeardown(r) \/ Condemn(r) \/ DeleteRecord(r)
    \/ UpdateRead(r) \/ UpdateAlloc(r) \/ UpdateApply(r) \/ UpdateSetLightning(r)

Handle(r) == CreateStep(r) \/ StoredStep(r)
=============================================================================
