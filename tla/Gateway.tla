------------------------------ MODULE Gateway -------------------------------
(***************************************************************************)
(* DNS mode (signet-orchestrator): explorers are reached through one       *)
(* Gateway in the platform namespace, which every create makes sure of     *)
(* before its own namespace.  Per environment there is an HTTPRoute in its *)
(* namespace, which goes with it, and a ReferenceGrant beside the Gateway, *)
(* which does not.  Every step is one call of the cluster.                 *)
(*                                                                         *)
(* The records, the reaper's choice and the readiness of pods are in       *)
(* Sandbox; here anyone may delete an environment that has a namespace.    *)
(***************************************************************************)
EXTENDS Naturals, FiniteSets

CONSTANTS
    Env,        \* environments, each with a namespace name of its own
    Sweeper,    \* destroy requests and the reaper
    Wishes,     \* what a create may ask to publish
    None,       \* no environment
    MaxFaults   \* bound on failed calls, dropped handlers and crashes

Published == {"explorer", "electrum"}

ASSUME GatewayAssumption ==
    /\ Wishes \subseteq SUBSET Published
    /\ Env # {} /\ None \notin Env
    /\ MaxFaults \in Nat

VARIABLES
    platform,   \* the namespace signet-platform exists
    gateway,    \* the Gateway exists
    home,       \* per environment, the phase of its namespace
    routes,     \* environments that have their HTTPRoute
    grants,     \* environments that have their ReferenceGrant
    maker,      \* per environment, where its create is
    wish,       \* per environment, what it publishes
    sweep,      \* per sweeper, the environment whose grant it still deletes
    faults,
    overtaken   \* ghost: namespaces deleted under a create that was running

shared == <<platform, gateway>>
gatewayVars ==
    <<shared, home, routes, grants, maker, wish, sweep, faults, overtaken>>

Ended == {"ok", "failed", "dropped"}
MakerPc == {"new", "seePlatform", "makePlatform", "seeGateway", "makeGateway", "home",
            "workloads", "route", "lb", "seeGrant", "makeGrant", "cleanHome",
            "cleanGrant"} \cup Ended

\* Types, and what contains what: a Gateway its namespace, a route likewise.
GatewayTypeOK ==
    /\ platform \in BOOLEAN /\ gateway \in BOOLEAN
    /\ home \in [Env -> {"absent", "active", "terminating"}]
    /\ routes \in SUBSET Env /\ grants \in SUBSET Env /\ overtaken \in SUBSET Env
    /\ maker \in [Env -> MakerPc]
    /\ wish \in [Env -> SUBSET Published]
    /\ sweep \in [Sweeper -> Env \cup {None}]
    /\ faults \in 0..MaxFaults
    /\ gateway => platform
    /\ \A e \in routes : home[e] # "absent"

\* A cluster on which nothing is set up, or deploy/dev/gateway-eg.yaml was.
GatewayInit ==
    /\ platform \in BOOLEAN /\ gateway = platform
    /\ home = [e \in Env |-> "absent"]
    /\ routes = {} /\ grants = {} /\ overtaken = {}
    /\ maker = [e \in Env |-> "new"]
    /\ wish = [e \in Env |-> {}]
    /\ sweep = [w \in Sweeper |-> None]
    /\ faults = 0

At(e, pc) == maker[e] = pc
Goto(e, pc) == maker' = [maker EXCEPT ![e] = pc]
Running(e) == maker[e] \notin Ended \cup {"new"}

NoFault == UNCHANGED faults
Fault == faults < MaxFaults /\ faults' = faults + 1

\* A call that answers goes on; one that fails, or whose answer is lost, ends
\* create_environment, and the handler cleans up.
Then(e, pc) ==
    \/ NoFault /\ Goto(e, pc)
    \/ Fault /\ Goto(e, "cleanHome")

Refused(e) == NoFault /\ Goto(e, "cleanHome")
Fails(e) == Fault /\ Goto(e, "cleanHome")

-----------------------------------------------------------------------------
(* create_environment *)

Arrive(e) ==
    /\ At(e, "new")
    /\ \E w \in Wishes : wish' = [wish EXCEPT ![e] = w]
    /\ Goto(e, "seePlatform")
    /\ UNCHANGED <<shared, home, routes, grants, sweep, faults, overtaken>>

\* ensure_gateway looks for each object, and creates it when there is none.
\* A mutant: the namespace is created without looking.
SeePlatformNever(e) ==
    /\ At(e, "seePlatform")
    /\ Then(e, "makePlatform")
    /\ UNCHANGED <<shared, home, routes, grants, wish, sweep, overtaken>>

\* A mutant: a platform namespace is taken to have its Gateway.
SeePlatformOnly(e) ==
    /\ At(e, "seePlatform")
    /\ Then(e, IF platform THEN "home" ELSE "makePlatform")
    /\ UNCHANGED <<shared, home, routes, grants, wish, sweep, overtaken>>

SeePlatform(e) ==
    /\ At(e, "seePlatform")
    /\ Then(e, IF platform THEN "seeGateway" ELSE "makePlatform")
    /\ UNCHANGED <<shared, home, routes, grants, wish, sweep, overtaken>>

\* Creating what another create has made meanwhile is a conflict.
MakePlatform(e) ==
    /\ At(e, "makePlatform")
    /\ \/ ~platform /\ platform' = TRUE /\ Then(e, "seeGateway")
       \/ ((platform /\ Refused(e)) \/ Fails(e)) /\ UNCHANGED platform
    /\ UNCHANGED <<gateway, home, routes, grants, wish, sweep, overtaken>>

SeeGateway(e) ==
    /\ At(e, "seeGateway")
    /\ Then(e, IF gateway THEN "home" ELSE "makeGateway")
    /\ UNCHANGED <<shared, home, routes, grants, wish, sweep, overtaken>>

MakeGateway(e) ==
    /\ At(e, "makeGateway")
    /\ \/ ~gateway /\ gateway' = TRUE /\ Then(e, "home")
       \/ ((gateway /\ Refused(e)) \/ Fails(e)) /\ UNCHANGED gateway
    /\ UNCHANGED <<platform, home, routes, grants, wish, sweep, overtaken>>

MakeHome(e) ==
    /\ At(e, "home")
    /\ \/ home' = [home EXCEPT ![e] = "active"] /\ Then(e, "workloads")
       \/ Fails(e) /\ UNCHANGED home
    /\ UNCHANGED <<shared, routes, grants, wish, sweep, overtaken>>

AfterLb(w) == IF w = {} THEN "ok" ELSE "seeGrant"
AfterRoute(w) == IF "electrum" \in w THEN "lb" ELSE AfterLb(w)
AfterWorkloads(w) == IF "explorer" \in w THEN "route" ELSE AfterRoute(w)

\* New objects are refused by a namespace that is going or gone.
Workloads(e) ==
    /\ At(e, "workloads")
    /\ \/ home[e] = "active" /\ Then(e, AfterWorkloads(wish[e]))
       \/ home[e] # "active" /\ Refused(e)
    /\ UNCHANGED <<shared, home, routes, grants, wish, sweep, overtaken>>

\* A mutant: the route is made in the platform namespace.
RouteInPlatform(e) ==
    /\ At(e, "route")
    /\ \/ routes' = routes \cup {e} /\ Then(e, AfterRoute(wish[e]))
       \/ Fails(e) /\ UNCHANGED routes
    /\ UNCHANGED <<shared, home, grants, wish, sweep, overtaken>>

Route(e) ==
    /\ At(e, "route")
    /\ \/ home[e] = "active" /\ routes' = routes \cup {e} /\ Then(e, AfterRoute(wish[e]))
       \/ ((home[e] # "active" /\ Refused(e)) \/ Fails(e)) /\ UNCHANGED routes
    /\ UNCHANGED <<shared, home, grants, wish, sweep, overtaken>>

ElectrsLb(e) ==
    /\ At(e, "lb")
    /\ \/ home[e] = "active" /\ Then(e, AfterLb(wish[e]))
       \/ home[e] # "active" /\ Refused(e)
    /\ UNCHANGED <<shared, home, routes, grants, wish, sweep, overtaken>>

SeeGrant(e) ==
    /\ At(e, "seeGrant")
    /\ Then(e, IF e \in grants THEN "ok" ELSE "makeGrant")
    /\ UNCHANGED <<shared, home, routes, grants, wish, sweep, overtaken>>

\* The grant lives in the platform namespace: it is created even when the
\* environment's own is already gone.
MakeGrant(e) ==
    /\ At(e, "makeGrant")
    /\ \/ grants' = grants \cup {e} /\ Then(e, "ok")
       \/ Fails(e) /\ UNCHANGED grants
    /\ UNCHANGED <<shared, home, routes, wish, sweep, overtaken>>

-----------------------------------------------------------------------------
(* delete_env_namespace: by the handler of a failed create, and by others. *)

Ask(e) ==
    IF home[e] = "active" THEN home' = [home EXCEPT ![e] = "terminating"]
                          ELSE UNCHANGED home

\* A namespace that is not there ends it: its grant is not looked for.
CleanHome(e) ==
    /\ At(e, "cleanHome")
    /\ \/ home[e] # "absent" /\ NoFault /\ Ask(e) /\ Goto(e, "cleanGrant")
       \/ home[e] = "absent" /\ NoFault /\ UNCHANGED home /\ Goto(e, "failed")
       \/ Fault /\ (Ask(e) \/ UNCHANGED home) /\ Goto(e, "failed")
    /\ UNCHANGED <<shared, routes, grants, wish, sweep, overtaken>>

\* Best effort: a failure is logged.
CleanGrant(e) ==
    /\ At(e, "cleanGrant")
    /\ \/ NoFault /\ grants' = grants \ {e}
       \/ Fault /\ UNCHANGED grants
    /\ Goto(e, "failed")
    /\ UNCHANGED <<shared, home, routes, wish, sweep, overtaken>>

Sweep(w, e) ==
    /\ sweep[w] = None /\ home[e] # "absent"
    /\ Ask(e)
    /\ \/ NoFault /\ sweep' = [sweep EXCEPT ![w] = e]
       \/ Fault /\ UNCHANGED sweep
    /\ overtaken' = IF Running(e) THEN overtaken \cup {e} ELSE overtaken
    /\ UNCHANGED <<shared, routes, grants, maker, wish>>

\* A mutant: the grant is left once the namespace is gone.
DropGrantInTime(w) ==
    /\ sweep[w] # None
    /\ \/ NoFault /\ grants' = IF home[sweep[w]] = "absent" THEN grants
                               ELSE grants \ {sweep[w]}
       \/ Fault /\ UNCHANGED grants
    /\ sweep' = [sweep EXCEPT ![w] = None]
    /\ UNCHANGED <<shared, home, routes, maker, wish, overtaken>>

DropGrant(w) ==
    /\ sweep[w] # None
    /\ \/ NoFault /\ grants' = grants \ {sweep[w]}
       \/ Fault /\ UNCHANGED grants
    /\ sweep' = [sweep EXCEPT ![w] = None]
    /\ UNCHANGED <<shared, home, routes, maker, wish, overtaken>>

-----------------------------------------------------------------------------

\* Kubernetes takes the route with its namespace.
HomeGone(e) ==
    /\ home[e] = "terminating"
    /\ home' = [home EXCEPT ![e] = "absent"]
    /\ routes' = routes \ {e}
    /\ UNCHANGED <<shared, grants, maker, wish, sweep, faults, overtaken>>

\* The client of a create hangs up.
Drop(e) ==
    /\ Running(e) /\ Fault
    /\ Goto(e, "dropped")
    /\ UNCHANGED <<shared, home, routes, grants, wish, sweep, overtaken>>

\* The API dies, and every handler with it.
Crash ==
    /\ Fault
    /\ maker' = [e \in Env |-> IF Running(e) THEN "dropped" ELSE maker[e]]
    /\ sweep' = [w \in Sweeper |-> None]
    /\ UNCHANGED <<shared, home, routes, grants, wish, overtaken>>

Make(e) ==
    \/ Arrive(e) \/ SeePlatform(e) \/ MakePlatform(e) \/ SeeGateway(e) \/ MakeGateway(e)
    \/ MakeHome(e) \/ Workloads(e) \/ Route(e) \/ ElectrsLb(e) \/ SeeGrant(e)
    \/ MakeGrant(e) \/ CleanHome(e) \/ CleanGrant(e)

GatewayNext ==
    \/ \E e \in Env : Make(e) \/ HomeGone(e) \/ Drop(e)
    \/ \E w \in Sweeper : DropGrant(w) \/ \E e \in Env : Sweep(w, e)
    \/ Crash

GatewaySpec == GatewayInit /\ [][GatewayNext]_gatewayVars

-----------------------------------------------------------------------------

\* An environment that was created and not deleted has its whole way in, the
\* shared part included, whoever made that and however earlier creates ended
\* (create_environment; delete_env_namespace takes the grant last).
ServedWhole ==
    \A e \in Env :
        maker[e] = "ok" /\ home[e] = "active" =>
            /\ platform /\ gateway
            /\ "explorer" \in wish[e] => e \in routes
            /\ wish[e] # {} => e \in grants

\* Creates that race for the platform namespace or the Gateway fail each
\* other (ensure_gateway looks and then creates), but never all of them:
\* unless a call fails or someone deletes under them, one gets through.
RaceHasWinner ==
    faults = 0 /\ overtaken = {} => \E e \in Env : maker[e] # "failed"

AtRest(e) == ~Running(e) /\ \A w \in Sweeper : sweep[w] # e

\* Without failed calls, a grant outlives its namespace only when that was
\* deleted while the create still ran, which then granted a way to nothing
\* (reaper.rs delete_env_namespace: "a grant naming a deleted namespace
\* authorizes nothing").
GrantsCollected ==
    \A e \in Env :
        faults = 0 /\ AtRest(e) /\ home[e] = "absent" /\ e \in grants => e \in overtaken
=============================================================================
