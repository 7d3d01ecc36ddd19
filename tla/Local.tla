-------------------------------- MODULE Local --------------------------------
(***************************************************************************)
(* The local stack as the CLI builds it (signet-cli local.rs, profile.rs): *)
(* tools it downloads, a k3d cluster it creates, starts or replaces, the   *)
(* images in its node, the gateway, the API, and the profile with the      *)
(* identity and a token.  A command runs alone, one step after another; a  *)
(* step may fail, and the command may be killed at any point and be given  *)
(* again.                                                                  *)
(*                                                                         *)
(* Abstracted: a token is live or stale, as the database of the API of     *)
(* that moment knows it or not; a loop of probes is one probe; kubectl     *)
(* acts on this cluster.  The commands of main.rs are in Cli.              *)
(***************************************************************************)
EXTENDS Naturals, FiniteSets

CONSTANTS
    Image,
    Upstream,       \* images of docker.io, the others are ours
    OnHost,         \* images the docker of the host has
    OnPath,         \* tools on the PATH
    Wallet,         \* lightning instances of the environment, which has some
    MaxFaults,
    None

ASSUME LocalAssumption ==
    /\ Upstream \subseteq Image /\ OnHost \subseteq Image
    /\ OnPath \subseteq {"k3d", "kubectl"}
    /\ Wallet # {} /\ MaxFaults \in Nat

VARIABLES
    vendored,   \* per tool, the copy in ~/.signet/bin
    cluster,
    profile,    \* ~/.signet/config.toml
    keys,       \* identities generated so far
    cmd,        \* the command, with what it has in memory
    faults

localVars == <<vendored, cluster, profile, keys, cmd, faults>>

Tool == {"k3d", "kubectl"}
\* An unusable copy was written and not yet made executable.
Copy == {"none", "unusable", "old", "good"}

Key == 1..MaxFaults + 1
Token == {"live", "stale", "none"}

\* The environment of the user, as its database row and its pods show it.
Environment == [status: {"none", "provisioning", "ready", "stopped", "expired", "destroyed"},
                core: BOOLEAN, wallets: SUBSET Wallet]
NoEnvironment == [status |-> "none", core |-> FALSE, wallets |-> {}]

Cluster == [exists: BOOLEAN, running: BOOLEAN,
            lb: {"none", "old", "current"},     \* ports of its load balancer
            images: SUBSET Image, gateway: BOOLEAN, api: BOOLEAN, env: Environment]

NoCluster == [exists |-> FALSE, running |-> FALSE, lb |-> "none", images |-> {},
              gateway |-> FALSE, api |-> FALSE, env |-> NoEnvironment]
NewCluster == [NoCluster EXCEPT !.exists = TRUE, !.running = TRUE, !.lb = "current"]
\* Left by a release with other ports.
OldCluster == [NewCluster EXCEPT !.running = FALSE, !.lb = "old", !.gateway = TRUE,
                                 !.api = TRUE]

Profile == [state: {"none", "torn", "whole"}, key: Key \cup {None}, token: Token]
NoProfile == [state |-> "none", key |-> None, token |-> "none"]
Torn == [NoProfile EXCEPT !.state = "torn"]
Whole(k, t) == [state |-> "whole", key |-> k, token |-> t]

Serving(c) == c.running /\ c.lb # "none" /\ c.api

BootstrapPc == {"tools", "get", "inspect", "delete", "create", "start", "node",
                "images", "gateway", "stack", "api", "mint", "save"}

NoCommand == [name |-> "none", pc |-> "ok", creds |-> "none", ui |-> FALSE,
              key |-> None, token |-> "none", todo |-> {}, failed |-> FALSE,
              late |-> FALSE, seen |-> NoEnvironment, hit |-> FALSE, unread |-> FALSE]

LocalInit ==
    /\ vendored = [t \in Tool |-> IF t = "k3d" THEN "old" ELSE "none"]
    /\ \/ cluster \in {OldCluster, [OldCluster EXCEPT !.running = TRUE]}
          /\ profile = Whole(1, "live") /\ keys = 1
       \/ cluster = NoCluster /\ profile = NoProfile /\ keys = 0
    /\ cmd = NoCommand
    /\ faults = 0

-----------------------------------------------------------------------------
(* How a command goes on. *)

At(pc) == cmd.pc = pc

\* A call outside, or the command itself, may fail.
Fault == faults < MaxFaults /\ faults' = faults + 1
NoFault == UNCHANGED faults

Goto(pc) == cmd' = [cmd EXCEPT !.pc = pc]

\* An ended command keeps what is said of it.
Ended(how) == [NoCommand EXCEPT !.name = cmd.name, !.pc = how, !.creds = cmd.creds,
                                !.token = cmd.token, !.seen = cmd.seen, !.hit = cmd.hit]
End(how) == cmd' = Ended(how)
EndHit == cmd' = [Ended("failed") EXCEPT !.hit = TRUE]
GotoHit(pc) == cmd' = [cmd EXCEPT !.pc = pc, !.hit = TRUE]

\* A step either works or, for a fault, ends the command with an error.
Works(effect) == (NoFault /\ effect) \/ (Fault /\ EndHit)

Runs(t) == vendored[t] \in {"old", "good"} \/ (vendored[t] = "none" /\ t \in OnPath)

\* tool: the vendored copy wins, then PATH; else it is downloaded, written
\* and only then made executable.
Resolve(t, next) ==
    \/ /\ vendored[t] # "none" \/ t \in OnPath
       /\ next /\ NoFault /\ UNCHANGED vendored
    \/ /\ vendored[t] = "none" /\ t \notin OnPath
       /\ \/ vendored' = [vendored EXCEPT ![t] = "good"] /\ next /\ NoFault
          \/ /\ Fault /\ EndHit
             /\ vendored' \in {vendored, [vendored EXCEPT ![t] = "unusable"]}

-----------------------------------------------------------------------------
(* bootstrap *)

\* ensure_prerequisites, ensure_k3d_version: an old vendored copy is removed.
Prerequisites ==
    /\ At("tools")
    /\ \/ /\ NoFault
          /\ IF vendored["k3d"] = "unusable"
             THEN End("failed") /\ UNCHANGED vendored
             ELSE /\ Goto("get")
                  /\ vendored' = [vendored EXCEPT !["k3d"] = IF @ = "old" THEN "none" ELSE @]
       \/ Fault /\ EndHit /\ UNCHANGED vendored
    /\ UNCHANGED <<cluster, profile, keys>>

\* ensure_cluster.  A listing that fails reads as no cluster.
GetCluster ==
    /\ At("get")
    /\ \/ Resolve("k3d", Goto(IF cluster.exists THEN "inspect" ELSE "create"))
       \/ Runs("k3d") /\ Fault /\ GotoHit("create") /\ UNCHANGED vendored
    /\ UNCHANGED <<cluster, profile, keys>>

\* A mutant: no drift where it cannot be seen.
InspectLenient ==
    /\ At("inspect")
    /\ \/ Goto(IF cluster.lb = "old" THEN "delete" ELSE "start") /\ NoFault
       \/ GotoHit("start") /\ Fault
    /\ UNCHANGED <<vendored, cluster, profile, keys>>

\* cluster_spec_drifted: other ports, or no answer, and the cluster goes.
\* (Bindings that do not parse would let it stay; docker prints none.)
Inspect ==
    /\ At("inspect")
    /\ \/ Goto(IF cluster.lb = "current" THEN "start" ELSE "delete") /\ NoFault
       \/ GotoHit("delete") /\ Fault
    /\ UNCHANGED <<vendored, cluster, profile, keys>>

\* The database goes with the cluster: no token of it is any good.
Stale(t) == IF t = "live" THEN "stale" ELSE t
Gone ==
    /\ cluster' = NoCluster
    /\ profile' = [profile EXCEPT !.token = Stale(@)]

\* delete_cluster; it may fail before or after the fact.
Delete(next) ==
    /\ \/ Gone /\ NoFault /\ cmd' = [next EXCEPT !.token = Stale(@)]
       \/ Fault /\ EndHit /\ UNCHANGED <<cluster, profile>>
       \/ Fault /\ Gone /\ cmd' = [Ended("failed") EXCEPT !.token = Stale(@), !.hit = TRUE]
    /\ UNCHANGED <<vendored, keys>>

DeleteCluster == At("delete") /\ Delete([cmd EXCEPT !.pc = "create"])

\* create_cluster: k3d refuses a name that is taken.  A creation that is cut
\* off leaves nothing, a cluster without its load balancer, or a whole one.
CreateCluster ==
    /\ At("create")
    /\ IF cluster.exists THEN End("failed") /\ NoFault /\ UNCHANGED cluster
       ELSE \/ cluster' = NewCluster /\ Goto("node") /\ NoFault
            \/ /\ Fault /\ EndHit
               /\ cluster' \in {NoCluster, NewCluster, [NewCluster EXCEPT !.lb = "none"]}
    /\ UNCHANGED <<vendored, profile, keys>>

\* start_cluster: k3d may delete a cluster that does not start.
StartCluster ==
    /\ At("start")
    /\ \/ cluster' = [cluster EXCEPT !.running = TRUE] /\ Goto("node") /\ NoFault
          /\ UNCHANGED profile
       \/ Fault /\ EndHit /\ UNCHANGED <<cluster, profile>>
       \/ /\ Fault /\ Gone
          /\ cmd' = [cmd EXCEPT !.pc = "create", !.token = Stale(@), !.hit = TRUE]
    /\ UNCHANGED <<vendored, keys>>

\* wait_for_node: kubectl that does not run reads as a node that is not ready.
WaitForNode ==
    /\ At("node")
    /\ Resolve("kubectl",
           IF vendored["kubectl"] # "unusable" /\ cluster.running
           THEN cmd' = [cmd EXCEPT !.pc = "images", !.todo = Image]
           ELSE End("failed"))
    /\ UNCHANGED <<cluster, profile, keys>>

\* ensure_images, one image: in the node, from the host, from the registry.
\* An upstream image of the host gets there under a name that cannot be
\* tagged, so the registry is asked all the same.  An image that is not to be
\* had is remembered; a tag, or a listing, that fails may end the command.
EnsureImage(i) ==
    LET imported == cluster.images \cup ({i} \cap Upstream \cap OnHost)
        there(images, c) ==
            /\ cluster' = [cluster EXCEPT !.images = images]
            /\ cmd' = [c EXCEPT !.todo = @ \ {i}]
    IN  /\ \/ i \in cluster.images /\ there(cluster.images, cmd) /\ NoFault
           \/ i \notin cluster.images /\ there(cluster.images \cup {i}, cmd) /\ NoFault
           \/ Fault /\ there(imported, [cmd EXCEPT !.failed = TRUE, !.hit = TRUE])
           \/ Fault /\ EndHit /\ UNCHANGED cluster

EnsureImages ==
    /\ At("images")
    /\ IF cmd.todo # {}
       THEN EnsureImage(CHOOSE i \in cmd.todo : TRUE)
       ELSE /\ UNCHANGED cluster /\ NoFault
            /\ IF cmd.failed THEN End("failed") ELSE Goto("gateway")
    /\ UNCHANGED <<vendored, profile, keys>>

\* install_gateway, deploy_local_stack: applied, then waited for.
Install(part, next) ==
    /\ \/ cluster' = [cluster EXCEPT ![part] = TRUE] /\ NoFault
          /\ IF cluster.running THEN Goto(next) ELSE End("failed")
       \/ Fault /\ EndHit /\ cluster' \in {cluster, [cluster EXCEPT ![part] = TRUE]}
    /\ UNCHANGED <<vendored, profile, keys>>

InstallGateway == At("gateway") /\ Install("gateway", "stack")
DeployStack == At("stack") /\ Install("api", "api")

WaitApi ==
    /\ At("api")
    /\ Works(IF Serving(cluster) THEN Goto("mint") ELSE End("failed"))
    /\ UNCHANGED <<vendored, cluster, profile, keys>>

\* mint_token, then on to the profile.
MintFor(key, token) ==
    IF Serving(cluster)
    THEN cmd' = [cmd EXCEPT !.pc = "save", !.key = key, !.token = token]
    ELSE End("failed")

\* A new identity, in place of a profile that was not read.
MintUnread ==
    /\ Fault /\ keys' = keys + 1
    /\ \/ EndHit
       \/ /\ Serving(cluster)
          /\ cmd' = [cmd EXCEPT !.pc = "save", !.key = keys + 1, !.token = "live",
                                !.hit = TRUE, !.unread = TRUE]

\* A mutant: a profile that is there keeps its token.
EnsureProfileKept ==
    /\ At("mint")
    /\ IF profile.state = "whole"
       THEN \/ NoFault /\ UNCHANGED keys /\ MintFor(profile.key, profile.token)
            \/ MintUnread
       ELSE keys' = keys + 1 /\ Works(MintFor(keys + 1, "live"))
    /\ UNCHANGED <<vendored, cluster, profile>>

\* A mutant: every bootstrap has an identity of its own.
EnsureProfileNew ==
    /\ At("mint")
    /\ keys' = keys + 1 /\ Works(MintFor(keys + 1, "live"))
    /\ UNCHANGED <<vendored, cluster, profile>>

\* ensure_with: a profile that reads keeps its identity; none, a torn one
\* and one whose reading fails get a new one.  The token is minted anew in
\* any case.
EnsureProfile ==
    /\ At("mint")
    /\ IF profile.state = "whole"
       THEN \/ UNCHANGED keys /\ Works(MintFor(profile.key, "live"))
            \/ MintUnread
       ELSE keys' = keys + 1 /\ Works(MintFor(keys + 1, "live"))
    /\ UNCHANGED <<vendored, cluster, profile>>

\* save_to truncates the file and writes it.  `up` goes on from here.
SaveProfile ==
    /\ At("save")
    /\ \/ /\ profile' = Whole(cmd.key, cmd.token) /\ NoFault
          /\ IF cmd.name = "up"
             THEN cmd' = [cmd EXCEPT !.pc = "heal", !.key = None]
             ELSE End("ok")
       \/ Fault /\ EndHit /\ profile' \in {profile, Torn}
    /\ UNCHANGED <<vendored, cluster, keys>>

BootstrapStep ==
    \/ Prerequisites \/ GetCluster \/ Inspect \/ DeleteCluster \/ CreateCluster
    \/ StartCluster \/ WaitForNode \/ EnsureImages \/ InstallGateway \/ DeployStack
    \/ WaitApi \/ EnsureProfile \/ SaveProfile

-----------------------------------------------------------------------------
(* teardown; the profile stays. *)

Teardown ==
    /\ At("teardown")
    /\ IF vendored["k3d"] = "none" /\ "k3d" \notin OnPath
       THEN Resolve("k3d", Goto("teardown")) /\ UNCHANGED <<cluster, profile, keys>>
       ELSE IF Runs("k3d") THEN Delete(Ended("ok"))
       ELSE End("failed") /\ NoFault /\ UNCHANGED <<vendored, cluster, profile, keys>>
=============================================================================
