------------------------------ MODULE Sandbox -------------------------------
(***************************************************************************)
(* The control plane: request handlers and the reaper over one store and   *)
(* one cluster, with crashes of the process, and its correctness           *)
(* properties.                                                             *)
(***************************************************************************)
EXTENDS SandboxApi, Reaper

vars == <<storeVars, kubeVars, faults, apiVars, reaper>>

Init == StoreInit /\ KubeInit /\ ApiInit /\ ReaperInit

ApiStep == \E r \in Request : (Arrive(r) \/ Handle(r) \/ Abandon(r)) /\ UNCHANGED reaper

Reap == ReaperStep /\ UNCHANGED apiVars

ClusterStep ==
    \E s \in ShortId :
        /\ NamespaceGone(s) \/ TtlPasses(s)
        /\ UNCHANGED <<storeVars, faults, apiVars, reaper>>

\* The process dies: handlers and the pass of the reaper are lost, the store
\* and the cluster stay.
Crash ==
    /\ Fault
    /\ req' = [r \in Request |-> Idle]
    /\ reaper' = Asleep
    /\ UNCHANGED <<storeVars, kubeVars, drawn>>

Next == ApiStep \/ Reap \/ ClusterStep \/ Crash

Spec == Init /\ [][Next]_vars

\* The reaper's loop never ends, and the await of a handler that is not
\* dropped returns.  Nothing makes a client call, a deadline pass, a process
\* die, or Kubernetes finish a deletion.
Fairness ==
    /\ WF_vars(Reap)
    /\ \A r \in Request : WF_vars(Handle(r) /\ UNCHANGED reaper)

FairSpec == Spec /\ Fairness

-----------------------------------------------------------------------------
(* Safety. *)

TypeOK == StoreTypeOK /\ KubeTypeOK /\ ApiTypeOK /\ ReaperTypeOK

\* An owner never has two environments of one name, however creates, purges
\* and deletes of that name interleave (rpc.rs environment_create looks the
\* name up long before it inserts).
NameUnique ==
    \A e, f \in Env :
        /\ Stored(e) /\ Stored(f)
        /\ rows[e].owner = rows[f].owner /\ rows[e].name = rows[f].name
        => e = f

\* A record disappears only while it is destroyed or expired, although the
\* handlers that purge it decided on a status read one await earlier
\* (rpc.rs environment_delete, and the purge in environment_create).
PurgeOnlyDead ==
    [][\A e \in Env : Stored(e) /\ ~Stored(e)' => rows[e].status \in Dead]_vars

\* A running namespace is deleted only by a destroy of that environment, by
\* the create that made it when that create fails, or past its deadline
\* (reaper.rs: "the reaper only deletes what it can prove expired").
DeletedWithCause ==
    [][\A s \in ShortId :
          Active(s) /\ ~Active(s)' =>
             \/ ns[s].ttl /\ ns[s].env \in past
             \/ \E r \in Request :
                   /\ req[r].env = ns[s].env
                   /\ req[r].pc \in {"teardown", "cleanup"}]_vars

\* A namespace in use is never taken over by another environment, even by
\* one whose id shares its first 12 hex digits (rpc.rs short_id).
NoTakeover ==
    [][\A s \in ShortId : Exists(s) /\ Exists(s)' => ns'[s].env = ns[s].env]_vars

Overlap(m1, m2) == \E x \in DOMAIN m1, y \in DOMAIN m2 : m1[x] = m2[y] /\ m1[x] # NoPort

\* Two live environments never hold the same explorer, electrum or lightning
\* port (signet-db next_*_port: the lowest port not held by a live one).
PortsDisjoint ==
    \A e, f \in Env :
        e # f /\ LiveRow(e) /\ LiveRow(f) =>
            /\ \A p \in Pool : rows[e].port[p] = rows[f].port[p] => rows[e].port[p] = NoPort
            /\ ~Overlap(lightning[e], lightning[f])

\* A running namespace has a live record (rpc.rs environment_create: "so
\* nothing keeps running unmanaged").
ActiveTracked ==
    \A s \in ShortId : Active(s) => LiveRow(ns[s].env)

Busy(e) == \E r \in Request : req[r].env = e

\* As long as no call failed, and with no request at work on it, a running
\* environment publishes exactly the ports its record reserves (rpc.rs
\* environment_create and environment_update write the store and the cluster
\* in separate calls; a failure between them leaves them apart).
PublishedReserved ==
    \A s \in ShortId :
        faults = 0 /\ Active(s) /\ ~Busy(ns[s].env) =>
            ns[s].lb = rows[ns[s].env].port /\ ns[s].lnd = lightning[ns[s].env]

\* As long as no call failed, and with no request at work on it, a running
\* environment that is recorded ready has all its workloads scaled up, a
\* stopped one none (rpc.rs lifecycle_transition).
SettledReplicas ==
    \A s \in ShortId :
        faults = 0 /\ Active(s) /\ ~Busy(ns[s].env) =>
            LET up == IF rows[ns[s].env].status = "stopped" THEN 0 ELSE 1
            IN  ns[s].sts = up /\ ns[s].dep = up

\* No key is an owner with a name.
ASSUME KeyAssumption == None \notin Owner \X Name

\* The store keeps the promise of Registry, whatever requests do between
\* their lookup, their purge and their insert (rpc.rs environment_create,
\* signet-db purge_environment): no id is used twice, a name passes on only
\* from a dead record, and never to two.
Names == INSTANCE Registry WITH
            Id <- Env, Key <- Owner \X Name, Nobody <- None,
            key <- [e \in Env |-> IF Stored(e) THEN <<rows[e].owner, rows[e].name>>
                                              ELSE None],
            dead <- {e \in Env : rows[e].status \in Dead},
            spent <- drawn

NamesLeased == Names!LeaseSpec

-----------------------------------------------------------------------------
(* Liveness. *)

Due(s) == Active(s) /\ ns[s].ttl /\ ns[s].env \in past

\* An environment past its deadline is eventually torn down, although calls
\* fail and the process dies, up to MaxFaults times (main.rs reaper loop).
DueReaped == \A s \in ShortId : Due(s) ~> ~Active(s)

\* ... and, as long as no call fails, its record stops looking alive
\* (main.rs: "The row must follow the cluster").
DueRecordDies ==
    \A e \in Env :
        Due(Short[e]) /\ ns[Short[e]].env = e /\ faults = 0 ~> ~LiveRow(e) \/ faults > 0

-----------------------------------------------------------------------------
(* What the repository says of the program, and some interleavings refute. *)

\* main.rs: "a reaped env must never look startable in the database".
ReapedNotStartable ==
    [][\A e \in Env :
          rows[e].status = "expired" => rows[e].status' # "stopped"]_vars

\* signet-db purge_environment: "Only records whose cluster state is already
\* gone (destroyed or expired) qualify".
PurgedIsGone ==
    [][\A e \in Env : Stored(e) /\ ~Stored(e)' => ~Active(Short[e])]_vars
=============================================================================
