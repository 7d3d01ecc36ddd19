-------------------------------- MODULE Kube --------------------------------
(***************************************************************************)
(* The cluster as crate signet-orchestrator uses it: one namespace per     *)
(* environment, holding its workloads and the LoadBalancer services that   *)
(* publish its ports on the host.  An operator is one call (or one run of  *)
(* calls into the same namespace); the Kubernetes side is external.        *)
(***************************************************************************)
EXTENDS EnvStore

CONSTANT MaxFaults      \* bound on failed calls, lost clients and crashes
ASSUME MaxFaultsAssumption == MaxFaults \in Nat

VARIABLES
    ns,     \* per namespace id: phase, creator, workloads, published ports
    past,   \* environments whose expires_at has passed
    faults  \* failures so far

kubeVars == <<ns, past>>

Phase == {"absent", "active", "terminating"}

Namespace == [phase: Phase,
              env: Env \cup {None},   \* whose create made it
              ttl: BOOLEAN,           \* carries an expires-at annotation
              sts: 0..1, dep: 0..1,   \* replicas of StatefulSets, Deployments
              lb: Ports, lnd: LnMap]  \* published host ports

NoNamespace == [phase |-> "absent", env |-> None, ttl |-> FALSE,
                sts |-> 0, dep |-> 0,
                lb |-> NoPorts, lnd |-> NoLn]

KubeTypeOK ==
    /\ ns \in [ShortId -> Namespace]
    /\ past \in SUBSET Env
    /\ faults \in 0..MaxFaults

KubeInit ==
    /\ ns = [s \in ShortId |-> NoNamespace]
    /\ past = {}
    /\ faults = 0

\* A call of the cluster or of the store answers, or fails.
NoFault == UNCHANGED faults
Fault == faults < MaxFaults /\ faults' = faults + 1

Active(s) == ns[s].phase = "active"
Exists(s) == ns[s].phase \in {"active", "terminating"}

-----------------------------------------------------------------------------
(* Calls of the orchestrator.  Each fixes ns'; past stays as it is. *)

CreateNamespace(s, e, ttl) ==
    /\ ns' = [ns EXCEPT ![s] =
                 [NoNamespace EXCEPT !.phase = "active", !.env = e, !.ttl = ttl]]
    /\ UNCHANGED past

ApplyWorkloads(s) ==
    /\ ns' = [ns EXCEPT ![s] = [@ EXCEPT !.sts = 1, !.dep = 1]]
    /\ UNCHANGED past

Publish(s, ports, m) ==
    /\ ns' = [ns EXCEPT ![s] = [@ EXCEPT !.lb = ports, !.lnd = m]]
    /\ UNCHANGED past

\* LND instances added to a running environment, beside those it has.
AddLnd(s, added) ==
    /\ ns' = [ns EXCEPT ![s].lnd =
                 [i \in Instance |-> IF added[i] # NoPort THEN added[i] ELSE @[i]]]
    /\ UNCHANGED past

\* Listing a namespace that is gone yields nothing to patch.
ScaleStatefulSets(s, n) ==
    /\ ns' = IF Exists(s) THEN [ns EXCEPT ![s].sts = n] ELSE ns
    /\ UNCHANGED past

\* A mutant: only StatefulSets are scaled.
ScaleNoDeployments(s, n) == UNCHANGED <<ns, past>>

ScaleDeployments(s, n) ==
    /\ ns' = IF Exists(s) THEN [ns EXCEPT ![s].dep = n] ELSE ns
    /\ UNCHANGED past

\* Deleting a namespace that is gone or going succeeds (404 is success).
DeleteNamespace(s) ==
    /\ ns' = IF Active(s) THEN [ns EXCEPT ![s].phase = "terminating"] ELSE ns
    /\ UNCHANGED past

\* A mutant: the annotation is not looked at.
ExpiredNamespacesAny == {s \in ShortId : Exists(s)}

ExpiredNamespaces == {s \in ShortId : Exists(s) /\ ns[s].ttl /\ ns[s].env \in past}

-----------------------------------------------------------------------------
(* Steps of the cluster itself, and of the clock.  Pods come and go unseen:
   only core_ready looks at them. *)

NamespaceGone(s) ==
    /\ ns[s].phase = "terminating"
    /\ ns' = [ns EXCEPT ![s] = NoNamespace]
    /\ UNCHANGED past

\* Only a stamped namespace makes the passing of its time observable.
TtlPasses(s) ==
    /\ Exists(s) /\ ns[s].ttl /\ ns[s].env \in Env \ past
    /\ past' = past \cup {ns[s].env}
    /\ UNCHANGED ns
=============================================================================
