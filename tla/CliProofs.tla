------------------------------ MODULE CliProofs ------------------------------
(***************************************************************************)
(* The commands of the CLI keep what they promise for every set of images, *)
(* tools, wallets and faults.                                              *)
(***************************************************************************)
EXTENDS Cli, TLAPS

\* Who is in which step.
Owner ==
    /\ cmd.pc \in BootstrapPc => cmd.name \in {"bootstrap", "up"}
    /\ cmd.pc \in UpPc => cmd.name = "up"
    /\ cmd.pc = "teardown" => cmd.name = "teardown"
    /\ cmd.pc \in {"credentials", "call"} => cmd.name = "call"
    /\ cmd.pc = "issue" => cmd.name = "token"

\* Every identity after the first was paid for with a fault: a new one is
\* made only where no whole profile is or where it failed to be read, and its
\* profile is whole unless the save of it fails.
KeysPaid ==
    /\ keys <= faults + 1
    /\ profile.state # "whole" /\ cmd.pc # "save" => keys <= faults
    /\ profile.state # "whole" /\ cmd.pc = "mint" /\ ~Serving(cluster) => keys < faults

\* What is about to be saved is the identity of the profile that is there, if
\* it was read, with a token of the API of this cluster.
Minted ==
    /\ cmd.pc = "save" =>
          /\ cmd.key \in Key /\ cmd.token = "live"
          /\ profile.state = "whole" /\ ~cmd.unread => cmd.key = profile.key
    /\ cmd.pc = "refresh" => profile.state = "whole" /\ cmd.token = "live"

Installing == {"node", "images", "gateway", "stack", "api", "mint", "save"}

\* What the steps of a bootstrap have behind them.
Built ==
    /\ cmd.pc \in Installing \cup {"start"} => cluster.lb = "current"
    /\ cmd.pc = "images" => cmd.failed \/ Image \ cmd.todo \subseteq cluster.images
    /\ cmd.pc \in {"gateway", "stack", "api", "mint", "save"} => cluster.images = Image
    /\ cmd.pc \in {"stack", "api", "mint", "save"} => cluster.gateway
    /\ cmd.pc \in {"api", "mint", "save"} => cluster.api

\* What holds as long as no fault fell into the command.
Undisturbed ==
    ~cmd.hit =>
        /\ cmd.pc = "create" => ~cluster.exists
        /\ cmd.pc \in Installing => cluster.running
        /\ cmd.pc \in UpPc \ {"reach"} => Serving(cluster)
        /\ cmd.pc \in CommandPc => ~cmd.failed

\* Up with the credentials of the profile: its token is good when it is used.
Healed ==
    ~cmd.hit /\ cmd.creds = "none" =>
        /\ cmd.pc = "client" /\ profile.state = "whole" => profile.token = "live"
        /\ cmd.pc \in {"submit", "poll", "wallets", "dashboard"} =>
              profile.state = "whole" /\ profile.token = "live" /\ cmd.token = "live"

Reported ==
    cmd.pc = "dashboard" => cmd.seen.status = "ready" /\ cmd.seen.wallets = Wallet

\* Where a command stands.
Stands == Owner /\ Minted /\ Built /\ Undisturbed /\ Healed /\ Reported

CliInv ==
    /\ TypeOK /\ KeysPaid /\ Stands
    /\ BootstrapDelivers /\ BootstrapRecovers /\ UpAuthenticated /\ UpTruthful

-----------------------------------------------------------------------------
(* How a step touches the command. *)

\* Identities that were paid for are within the bound.
LEMMA WithinBound ==
    ASSUME NEW m \in Nat, NEW f \in 0..m, NEW k \in Nat, k <= f + 1
    PROVE  k \in 0..m + 1
OBVIOUS

\* A fault more does not hurt.
LEMMA StillPaid ==
    ASSUME NEW k \in Nat, NEW f \in Nat, NEW g \in Nat, f <= g
    PROVE  (k <= f + 1 => k <= g + 1) /\ (k <= f => k <= g)
OBVIOUS

\* What the invariant says of the types.
LEMMA Typed ==
    ASSUME CliInv
    PROVE  /\ cmd \in Command /\ cluster \in Cluster /\ profile \in Profile
           /\ profile.state = "whole" => profile.key \in Key
           /\ vendored \in [Tool -> Copy]
           /\ MaxFaults \in Nat /\ faults \in 0..MaxFaults
           /\ keys \in Nat /\ keys <= faults + 1
<1>1. TypeOK /\ MaxFaults \in Nat
  BY LocalAssumption DEF CliInv
<1>2. keys \in 0..MaxFaults + 1
  BY <1>1 DEF TypeOK
<1>3. keys \in Nat
  BY <1>1, <1>2
<1> QED BY <1>1, <1>3 DEF TypeOK, CliInv, KeysPaid

\* The type invariant after a step.
LEMMA TypedAfter ==
    ASSUME MaxFaults \in Nat, cmd' \in Command, cluster' \in Cluster, profile' \in Profile,
           profile'.state = "whole" => profile'.key \in Key,
           vendored' \in [Tool -> Copy], faults' \in 0..MaxFaults, keys' \in Nat, KeysPaid'
    PROVE  TypeOK'
<1>1. keys' <= faults' + 1
  BY DEF KeysPaid
<1>2. keys' \in 0..MaxFaults + 1
  BY <1>1, WithinBound
<1> QED BY <1>2 DEF TypeOK

\* Faults are counted.
LEMMA FaultCounted ==
    ASSUME MaxFaults \in Nat, faults \in 0..MaxFaults, Fault \/ NoFault
    PROVE  faults' \in 0..MaxFaults /\ faults <= faults'
BY DEF Fault, NoFault

\* Steps that generate no identity and spoil no profile need no fault.
LEMMA KeysKept ==
    ASSUME KeysPaid, MaxFaults \in Nat, keys \in Nat, faults \in 0..MaxFaults,
           keys' = keys, faults' \in 0..MaxFaults, faults <= faults',
           profile'.state = profile.state,
           cmd.pc = "save" => cmd'.pc = "save", cmd'.pc = "mint" => Serving(cluster)'
    PROVE  KeysPaid'
<1>1. keys <= faults + 1 /\ (profile.state # "whole" /\ cmd.pc # "save" => keys <= faults)
  BY DEF KeysPaid
<1>0. faults \in Nat /\ faults' \in Nat
  OBVIOUS
<1>2. keys' <= faults' + 1 /\ (keys <= faults => keys' <= faults')
  BY <1>0, <1>1, StillPaid
<1>3. profile'.state # "whole" /\ cmd'.pc # "save" => keys' <= faults'
  BY <1>1, <1>2
<1>4. ~(cmd'.pc = "mint" /\ ~Serving(cluster)')
  OBVIOUS
<1> QED BY <1>2, <1>3, <1>4 DEF KeysPaid

\* A command on its way has nothing to show yet.
LEMMA OnItsWay ==
    ASSUME cmd'.pc \in CommandPc,
           TypeOK', KeysPaid', Stands'
    PROVE  CliInv'
BY DEF CliInv, CommandPc, BootstrapPc, UpPc, BootstrapDelivers, BootstrapRecovers,
       UpAuthenticated, UpTruthful

\* A command that has ended has nothing before it.
LEMMA AtItsEnd ==
    ASSUME cmd'.pc \in EndPc, TypeOK', KeysPaid', BootstrapDelivers', BootstrapRecovers',
           UpAuthenticated', UpTruthful'
    PROVE  CliInv'
BY DEF CliInv, Stands, EndPc, CommandPc, BootstrapPc, UpPc, Installing, Owner, Minted, Built,
       Undisturbed, Healed, Reported

\* An error promises nothing, but that a bootstrap was hit by a fault or
\* found a tool it cannot run.
LEMMA AtItsError ==
    ASSUME cmd'.pc \in {"failed", "timeout"}, TypeOK', KeysPaid', BootstrapRecovers'
    PROVE  CliInv'
<1>1. BootstrapDelivers' /\ UpAuthenticated' /\ UpTruthful' /\ cmd'.pc \in EndPc
  BY DEF BootstrapDelivers, UpAuthenticated, UpTruthful, EndPc
<1> QED BY <1>1, AtItsEnd

\* The steps of a command that goes on leave all but pc and hit.
Carried ==
    /\ cmd'.name = cmd.name /\ cmd'.creds = cmd.creds /\ cmd'.ui = cmd.ui
    /\ cmd'.key = cmd.key /\ cmd'.token = cmd.token /\ cmd'.todo = cmd.todo
    /\ cmd'.failed = cmd.failed /\ cmd'.late = cmd.late /\ cmd'.seen = cmd.seen
    /\ cmd'.unread = cmd.unread

\* Goto moves pc alone, and does not hit the command.
LEMMA GotoFields ==
    ASSUME cmd \in Command, NEW pc \in CommandPc, Goto(pc)
    PROVE  cmd' \in Command /\ Carried /\ cmd'.pc = pc /\ cmd'.hit = cmd.hit
BY DEF Goto, Command, Carried

\* GotoHit moves pc and marks the command as hit.
LEMMA GotoHitFields ==
    ASSUME cmd \in Command, NEW pc \in CommandPc, GotoHit(pc)
    PROVE  cmd' \in Command /\ Carried /\ cmd'.pc = pc /\ cmd'.hit
BY DEF GotoHit, Command, Carried

\* A command that has ended keeps what is said of it.
Told(c, d) ==
    /\ c.name = d.name /\ c.creds = d.creds /\ c.token = d.token /\ c.seen = d.seen

\* A command that is over keeps its name and what it was told; the rest of
\* it is reset.
LEMMA EndedFields ==
    ASSUME cmd \in Command, NEW how \in EndPc
    PROVE  Ended(how) \in Command /\ Told(Ended(how), cmd) /\ Ended(how).pc = how
           /\ Ended(how).hit = cmd.hit
<1> DEFINE e1 == [NoCommand EXCEPT !.name = cmd.name]
           e2 == [e1 EXCEPT !.pc = how]
           e3 == [e2 EXCEPT !.creds = cmd.creds]
           e4 == [e3 EXCEPT !.token = cmd.token]
           e5 == [e4 EXCEPT !.seen = cmd.seen]
           e6 == [e5 EXCEPT !.hit = cmd.hit]
<1>1. NoCommand \in Command
  BY DEF NoCommand, Command, NoEnvironment, Environment, Token, Creds, EndPc
<1>2. e1 \in Command /\ e1.name = cmd.name
  BY <1>1 DEF Command
<1>3. e2 \in Command /\ e2.name = cmd.name /\ e2.pc = how
  BY <1>1, <1>2 DEF Command
<1> HIDE DEF e2
<1>4. e3 \in Command /\ e3.name = cmd.name /\ e3.pc = how /\ e3.creds = cmd.creds
  BY <1>3 DEF Command
<1> HIDE DEF e3
<1>5. /\ e4 \in Command /\ e4.name = cmd.name /\ e4.pc = how /\ e4.creds = cmd.creds
      /\ e4.token = cmd.token
  BY <1>4 DEF Command
<1> HIDE DEF e4
<1>6. e5 \in Command /\ Told(e5, cmd) /\ e5.pc = how
  BY <1>5 DEF Command, Told
<1> HIDE DEF e5
<1>7. e6 \in Command /\ Told(e6, cmd) /\ e6.pc = how /\ e6.hit = cmd.hit
  BY <1>6 DEF Command, Told
<1> HIDE DEF e6
<1>8. Ended(how) = e6
  BY DEF Ended, e2, e3, e4, e5, e6
<1> QED BY <1>7, <1>8

\* End leaves such a command at one of the ends, hit as much as before.
LEMMA EndFields ==
    ASSUME cmd \in Command, NEW how \in EndPc, End(how)
    PROVE  cmd' \in Command /\ Told(cmd', cmd) /\ cmd'.pc = how /\ cmd'.hit = cmd.hit
BY EndedFields DEF End

\* EndHit does so for one that a fault has hit.
LEMMA EndHitFields ==
    ASSUME cmd \in Command, EndHit
    PROVE  cmd' \in Command /\ Told(cmd', cmd) /\ cmd'.pc = "failed" /\ cmd'.hit
<1>1. /\ Ended("failed") \in Command /\ Told(Ended("failed"), cmd)
      /\ Ended("failed").pc = "failed"
  BY EndedFields DEF EndPc
<1> QED BY <1>1 DEF EndHit, Command, Told

\* A fault that ends the command is an excuse for everything.
LEMMA HitOver ==
    ASSUME CliInv, Fault, cmd' \in Command, cmd'.pc = "failed", cmd'.hit,
           cluster' \in Cluster, profile' \in Profile,
           profile'.state = "whole" => profile'.key \in Key,
           vendored' \in [Tool -> Copy], keys' \in Nat, keys' <= faults + 1
    PROVE  CliInv'
<1>1. cmd \in Command /\ faults \in 0..MaxFaults /\ MaxFaults \in Nat
  BY Typed
<1>3. faults' \in 0..MaxFaults /\ faults' = faults + 1
  BY <1>1 DEF Fault
<1>4. KeysPaid'
  BY <1>1, <1>3 DEF KeysPaid
<1>5. TypeOK'
  BY <1>1, <1>3, <1>4, TypedAfter
<1> QED BY <1>4, <1>5, AtItsError DEF BootstrapRecovers

\* A command that a fault ends promises nothing, whatever it left of the
\* cluster and of the profile.
LEMMA EndHitOver ==
    ASSUME CliInv, Fault, EndHit, cluster' \in Cluster, profile' \in Profile,
           profile'.state = "whole" => profile'.key \in Key,
           vendored' \in [Tool -> Copy], keys' \in Nat, keys' <= faults + 1
    PROVE  CliInv'
BY Typed, EndHitFields, HitOver

\* A command ends with an error, without a fault.
LEMMA ErrorOver ==
    ASSUME CliInv, NoFault, NEW how \in {"failed", "timeout"}, End(how), cmd.pc # "save",
           cluster' \in Cluster, profile' = profile, vendored' \in [Tool -> Copy], keys' = keys,
           \/ cmd.hit \/ cmd.name # "bootstrap"
           \/ \E t \in Tool : vendored'[t] = "unusable"
    PROVE  CliInv'
<1>1. /\ cmd \in Command /\ faults \in 0..MaxFaults /\ MaxFaults \in Nat /\ keys \in Nat
      /\ profile \in Profile /\ (profile.state = "whole" => profile.key \in Key)
  BY Typed
<1>2. cmd' \in Command /\ Told(cmd', cmd) /\ cmd'.pc = how /\ cmd'.hit = cmd.hit
  BY <1>1, EndFields DEF EndPc
<1>3. faults' \in 0..MaxFaults /\ faults' = faults
  BY <1>1 DEF NoFault
<1>4. KeysPaid'
  BY <1>1, <1>2, <1>3, KeysKept DEF CliInv
<1>5. TypeOK'
  BY <1>1, <1>2, <1>3, <1>4, TypedAfter
<1> QED BY <1>2, <1>4, <1>5, AtItsError DEF BootstrapRecovers, Told

-----------------------------------------------------------------------------
(* bootstrap *)

\* A tool is there or is downloaded; vendored copies stay what they are.
LEMMA ResolveTyped ==
    ASSUME vendored \in [Tool -> Copy], NEW t \in Tool,
           \/ UNCHANGED vendored
           \/ vendored' \in {[vendored EXCEPT ![t] = "good"], [vendored EXCEPT ![t] = "unusable"],
                             [vendored EXCEPT ![t] = "none"]}
    PROVE  vendored' \in [Tool -> Copy]
BY DEF Copy

\* A command that goes on to another step of bootstrap, with pc and hit.
LEMMA WentOn ==
    ASSUME CliInv, NEW pc \in CommandPc, Goto(pc) \/ GotoHit(pc)
    PROVE  /\ cmd' \in Command /\ Carried /\ cmd'.pc = pc
           /\ cmd'.hit = cmd.hit \/ cmd'.hit = TRUE
           /\ Goto(pc) => cmd'.hit = cmd.hit
           /\ GotoHit(pc) => cmd'.hit
BY Typed, GotoFields, GotoHitFields

\* Steps that leave profile and identities alone keep them typed and paid.
LEMMA LeftAlone ==
    ASSUME CliInv, cmd' \in Command, cmd.pc # "save", cmd'.pc # "mint",
           cluster' \in Cluster, vendored' \in [Tool -> Copy],
           Fault \/ NoFault, profile' = profile, keys' = keys
    PROVE  TypeOK' /\ KeysPaid'
<1>1. /\ MaxFaults \in Nat /\ faults \in 0..MaxFaults /\ keys \in Nat
      /\ profile \in Profile /\ (profile.state = "whole" => profile.key \in Key)
  BY Typed
<1>2. faults' \in 0..MaxFaults /\ faults <= faults'
  BY <1>1, FaultCounted
<1>3. KeysPaid'
  BY <1>1, <1>2, KeysKept DEF CliInv
<1> QED BY <1>1, <1>2, <1>3, TypedAfter

\* Prerequisites fail on a tool that cannot be run.
LEMMA PrerequisitesKeeps == CliInv /\ Prerequisites => CliInv'
<1> SUFFICES ASSUME CliInv, Prerequisites PROVE CliInv'
  OBVIOUS
<1>1. cmd.pc = "tools" /\ cluster' = cluster /\ profile' = profile /\ keys' = keys
  BY DEF Prerequisites, At
<1> USE Typed
<1>2. CASE NoFault /\ vendored["k3d"] = "unusable" /\ End("failed") /\ UNCHANGED vendored
  <2>1. \E t \in Tool : vendored'[t] = "unusable"
    BY <1>2 DEF Tool
  <2> QED BY <1>1, <1>2, <2>1, ErrorOver
<1>3. CASE /\ NoFault /\ Goto("get")
           /\ vendored' = [vendored EXCEPT !["k3d"] = IF @ = "old" THEN "none" ELSE @]
  <2>1. vendored' \in [Tool -> Copy]
    BY <1>1, <1>3 DEF Copy, Tool
  <2>2. "get" \in CommandPc
    BY DEF CommandPc, BootstrapPc
  <2>3. cmd' \in Command /\ Carried /\ cmd'.pc = "get" /\ cmd'.hit = cmd.hit
    BY <1>3, <2>2, WentOn
  <2>4. TypeOK' /\ KeysPaid'
    BY <1>1, <1>3, <2>1, <2>3, LeftAlone
  <2>5. Stands'
    BY <1>1, <2>3 DEF CliInv, Stands, Owner, Minted, Built, Undisturbed, Healed, Reported, Carried,
       CommandPc, BootstrapPc, UpPc, Installing
  <2> QED BY <2>2, <2>3, <2>4, <2>5, OnItsWay
<1>4. CASE Fault /\ EndHit /\ UNCHANGED vendored
  BY <1>1, <1>4, EndHitOver
<1> QED BY <1>2, <1>3, <1>4 DEF Prerequisites

\* Where a step leads, of those that change nothing but the command.
LEMMA Onward ==
    ASSUME CliInv, NEW pc \in CommandPc, Goto(pc) \/ GotoHit(pc), Fault \/ NoFault,
           cluster' = cluster, vendored' \in [Tool -> Copy], profile' = profile, keys' = keys,
           cmd.pc # "save", pc # "mint",
           Stands'
    PROVE  CliInv'
<1>1. cmd' \in Command /\ cmd'.pc = pc
  BY WentOn
<1>2. TypeOK' /\ KeysPaid'
  BY <1>1, Typed, LeftAlone
<1> QED BY <1>1, <1>2, OnItsWay

\* The listing decides: a cluster that is missed is not created again.
LEMMA GetClusterKeeps == CliInv /\ GetCluster => CliInv'
<1> SUFFICES ASSUME CliInv, GetCluster PROVE CliInv'
  OBVIOUS
<1>1. cmd.pc = "get" /\ cluster' = cluster /\ profile' = profile /\ keys' = keys
  BY DEF GetCluster, At
<1> USE Typed
<1>2. vendored' \in [Tool -> Copy]
  BY <1>1, ResolveTyped DEF GetCluster, Resolve, Tool
<1>3. \A pc : pc \in {"inspect", "create"} => pc \in CommandPc
  BY DEF CommandPc, BootstrapPc
<1>4. ASSUME NEW pc \in {"inspect", "create"}, Goto(pc) \/ GotoHit(pc), Fault \/ NoFault,
             cmd'.hit \/ pc = "inspect" \/ ~cluster.exists
      PROVE  CliInv'
  <2>1. /\ cmd' \in Command /\ Carried /\ cmd'.pc = pc
        /\ cmd'.hit = cmd.hit \/ cmd'.hit = TRUE
    BY <1>3, <1>4, WentOn
  <2>2. Stands'
    BY <1>1, <1>4, <2>1 DEF CliInv, Stands, Owner, Minted, Built, Undisturbed, Healed, Reported, Carried,
       CommandPc, BootstrapPc, UpPc, Installing
  <2> QED BY <1>1, <1>2, <1>3, <1>4, <2>2, Onward
<1>5. CASE NoFault /\ Goto(IF cluster.exists THEN "inspect" ELSE "create")
  BY <1>4, <1>5
<1>6. CASE Fault /\ EndHit
  BY <1>1, <1>2, <1>6, EndHitOver
<1>7. CASE Fault /\ GotoHit("create")
  <2>1. cmd'.hit
    BY <1>1, <1>3, <1>7, GotoHitFields
  <2> QED BY <1>4, <1>7, <2>1
<1> QED BY <1>5, <1>6, <1>7 DEF GetCluster, Resolve

\* Only a cluster with the ports of this release is started.
LEMMA InspectKeeps == CliInv /\ Inspect => CliInv'
<1> SUFFICES ASSUME CliInv, Inspect PROVE CliInv'
  OBVIOUS
<1>1. /\ cmd.pc = "inspect" /\ cluster' = cluster /\ profile' = profile /\ keys' = keys
      /\ vendored' = vendored
  BY DEF Inspect, At
<1>2. \A pc : pc \in {"start", "delete"} => pc \in CommandPc
  BY DEF CommandPc, BootstrapPc
<1>3. ASSUME NEW pc \in {"start", "delete"}, Goto(pc) \/ GotoHit(pc), Fault \/ NoFault,
             pc = "start" => cluster.lb = "current"
      PROVE  CliInv'
  <2>1. /\ cmd' \in Command /\ Carried /\ cmd'.pc = pc
        /\ cmd'.hit = cmd.hit \/ cmd'.hit = TRUE
    BY <1>2, <1>3, WentOn
  <2>2. Stands'
    BY <1>1, <1>3, <2>1 DEF CliInv, Stands, Owner, Minted, Built, Undisturbed, Healed, Reported,
       Carried, CommandPc, BootstrapPc, UpPc, Installing
  <2> QED BY <1>1, <1>2, <1>3, <2>2, Typed, Onward
<1>4. CASE cluster.lb = "current" /\ Goto("start") /\ NoFault
  BY <1>3, <1>4
<1>5. CASE Goto("delete") /\ NoFault
  BY <1>3, <1>5
<1>6. CASE GotoHit("delete") /\ Fault
  BY <1>3, <1>6
<1> QED BY <1>4, <1>5, <1>6 DEF Inspect

\* The clusters that commands make.
LEMMA ClustersTyped ==
    /\ NoEnvironment \in Environment
    /\ NoCluster \in Cluster /\ ~NoCluster.exists
    /\ NewCluster \in Cluster /\ NewCluster.lb = "current" /\ NewCluster.running
    /\ [NewCluster EXCEPT !.lb = "none"] \in Cluster
    /\ OldCluster \in Cluster /\ [OldCluster EXCEPT !.running = TRUE] \in Cluster
<1>1. NoEnvironment \in Environment
  BY DEF NoEnvironment, Environment
<1>2. NoCluster \in Cluster /\ ~NoCluster.exists
  BY <1>1 DEF NoCluster, Cluster
<1> DEFINE n1 == [NoCluster EXCEPT !.exists = TRUE]
           n2 == [n1 EXCEPT !.running = TRUE]
           n3 == [n2 EXCEPT !.lb = "current"]
           o1 == [NewCluster EXCEPT !.running = FALSE]
           o2 == [o1 EXCEPT !.lb = "old"]
           o3 == [o2 EXCEPT !.gateway = TRUE]
           o4 == [o3 EXCEPT !.api = TRUE]
<1>3. n1 \in Cluster
  BY <1>2 DEF Cluster
<1> HIDE DEF n1
<1>4. n2 \in Cluster /\ n2.running
  BY <1>3 DEF Cluster
<1> HIDE DEF n2
<1>5. n3 \in Cluster /\ n3.running /\ n3.lb = "current"
  BY <1>4 DEF Cluster
<1> HIDE DEF n3
<1>6. NewCluster = n3
  BY DEF NewCluster, n1, n2, n3
<1>7. NewCluster \in Cluster
  BY <1>5, <1>6
<1>8. [NewCluster EXCEPT !.lb = "none"] \in Cluster
  BY <1>7 DEF Cluster
<1>9. o1 \in Cluster
  BY <1>7 DEF Cluster
<1> HIDE DEF o1
<1>10. o2 \in Cluster
  BY <1>9 DEF Cluster
<1> HIDE DEF o2
<1>11. o3 \in Cluster
  BY <1>10 DEF Cluster
<1> HIDE DEF o3
<1>12. o4 \in Cluster
  BY <1>11 DEF Cluster
<1> HIDE DEF o4
<1>13. OldCluster = o4
  BY DEF OldCluster, o1, o2, o3, o4
<1>14. [OldCluster EXCEPT !.running = TRUE] \in Cluster
  BY <1>12, <1>13 DEF Cluster
<1> QED BY <1>1, <1>2, <1>5, <1>6, <1>7, <1>8, <1>12, <1>13, <1>14

\* With a cluster its tokens are gone, and nothing else of the profile.
LEMMA GoneFields ==
    ASSUME CliInv, Gone
    PROVE  /\ cluster' = NoCluster /\ cluster' \in Cluster /\ ~cluster'.exists
           /\ profile' \in Profile /\ profile'.state = profile.state /\ profile'.key = profile.key
           /\ profile'.state = "whole" => profile'.key \in Key
BY Typed, ClustersTyped DEF Gone, Profile, Stale, Token

\* k3d cluster delete, for a bootstrap and for a teardown.
LEMMA DeleteFields ==
    ASSUME CliInv, NEW next \in Command, next.pc \in {"create", "ok"}, cmd.pc # "save", Delete(next)
    PROVE  \/ /\ Gone /\ NoFault /\ cmd' \in Command /\ cmd'.pc = next.pc /\ cmd'.hit = next.hit
              /\ cmd'.name = next.name /\ cmd'.failed = next.failed
           \/ CliInv'
<1>1. vendored' = vendored /\ keys' = keys
  BY DEF Delete
<1>2. CASE Gone /\ NoFault /\ cmd' = [next EXCEPT !.token = Stale(@)]
  BY <1>2 DEF Command, Stale, Token
<1>3. CASE Fault /\ EndHit /\ UNCHANGED <<cluster, profile>>
  BY <1>1, <1>3, Typed, EndHitOver
<1>4. CASE /\ Fault /\ Gone
           /\ cmd' = [Ended("failed") EXCEPT !.token = Stale(@), !.hit = TRUE]
  <2>1. Ended("failed") \in Command /\ Ended("failed").pc = "failed"
    BY Typed, EndedFields DEF EndPc
  <2> DEFINE e == [Ended("failed") EXCEPT !.token = Stale(@)]
  <2>2. e \in Command /\ e.pc = "failed"
    BY <2>1 DEF Command, Stale, Token
  <2>3. cmd' = [e EXCEPT !.hit = TRUE]
    BY <1>4
  <2> HIDE DEF e
  <2>4. cmd' \in Command /\ cmd'.pc = "failed" /\ cmd'.hit
    BY <2>2, <2>3 DEF Command
  <2> QED BY <1>1, <1>4, <2>4, Typed, GoneFields, HitOver
<1> QED BY <1>2, <1>3, <1>4 DEF Delete

\* A deletion leaves no cluster, so the next creation is not refused.
LEMMA DeleteClusterKeeps == CliInv /\ DeleteCluster => CliInv'
<1> SUFFICES ASSUME CliInv, DeleteCluster PROVE CliInv'
  OBVIOUS
<1> DEFINE next == [cmd EXCEPT !.pc = "create"]
<1>1. cmd.pc = "delete" /\ Delete(next) /\ vendored' = vendored /\ keys' = keys
  BY DEF DeleteCluster, At, Delete
<1>2. next \in Command /\ next.pc = "create" /\ next.hit = cmd.hit /\ next.name = cmd.name
      /\ next.failed = cmd.failed
  BY Typed DEF Command, CommandPc, BootstrapPc
<1> HIDE DEF next
<1>3. CASE /\ Gone /\ NoFault /\ cmd' \in Command /\ cmd'.pc = "create" /\ cmd'.hit = cmd.hit
           /\ cmd'.name = cmd.name /\ cmd'.failed = cmd.failed
  <2>1. /\ MaxFaults \in Nat /\ faults \in 0..MaxFaults /\ keys \in Nat
        /\ faults' \in 0..MaxFaults /\ faults <= faults'
    BY <1>3, Typed, FaultCounted
  <2>2. KeysPaid'
    BY <1>1, <1>3, <2>1, GoneFields, KeysKept DEF CliInv
  <2>3. TypeOK'
    BY <1>1, <1>3, <2>1, <2>2, Typed, GoneFields, TypedAfter
  <2>4. Stands'
    BY <1>1, <1>3, GoneFields DEF CliInv, Stands, Owner, Minted, Built, Undisturbed, Healed,
       Reported, CommandPc, BootstrapPc, UpPc, Installing
  <2>5. cmd'.pc \in CommandPc
    BY <1>3 DEF CommandPc, BootstrapPc
  <2> QED BY <2>2, <2>3, <2>4, <2>5, OnItsWay
<1> QED BY <1>1, <1>2, <1>3, DeleteFields

\* k3d refuses to create what is there, which a fault is behind.
LEMMA CreateClusterKeeps == CliInv /\ CreateCluster => CliInv'
<1> SUFFICES ASSUME CliInv, CreateCluster PROVE CliInv'
  OBVIOUS
<1>1. cmd.pc = "create" /\ vendored' = vendored /\ profile' = profile /\ keys' = keys
  BY DEF CreateCluster, At
<1>2. CASE cluster.exists /\ End("failed") /\ NoFault /\ UNCHANGED cluster
  <2>1. cmd.hit
    BY <1>1, <1>2, Typed DEF CliInv, Stands, Undisturbed, Command
  <2> QED BY <1>1, <1>2, <2>1, Typed, ErrorOver
<1>3. CASE cluster' = NewCluster /\ Goto("node") /\ NoFault
  <2>1. "node" \in CommandPc
    BY DEF CommandPc, BootstrapPc
  <2>2. cmd' \in Command /\ Carried /\ cmd'.pc = "node" /\ cmd'.hit = cmd.hit
    BY <1>3, <2>1, WentOn
  <2>3. TypeOK' /\ KeysPaid'
    BY <1>1, <1>3, <2>2, Typed, ClustersTyped, LeftAlone
  <2>4. Stands'
    BY <1>1, <1>3, <2>2, ClustersTyped DEF CliInv, Stands, Owner, Minted, Built, Undisturbed,
       Healed, Reported, Carried, CommandPc, BootstrapPc, UpPc, Installing
  <2> QED BY <2>1, <2>2, <2>3, <2>4, OnItsWay
<1>4. CASE /\ Fault /\ EndHit
           /\ cluster' \in {NoCluster, NewCluster, [NewCluster EXCEPT !.lb = "none"]}
  BY <1>1, <1>4, Typed, ClustersTyped, EndHitOver
<1> QED BY <1>2, <1>3, <1>4 DEF CreateCluster

\* A cluster that does not start may be gone, and is then created.
LEMMA StartClusterKeeps == CliInv /\ StartCluster => CliInv'
<1> SUFFICES ASSUME CliInv, StartCluster PROVE CliInv'
  OBVIOUS
<1>1. cmd.pc = "start" /\ vendored' = vendored /\ keys' = keys
  BY DEF StartCluster, At
<1>2. CASE cluster' = [cluster EXCEPT !.running = TRUE] /\ Goto("node") /\ NoFault /\ profile' = profile
  <2>1. "node" \in CommandPc
    BY DEF CommandPc, BootstrapPc
  <2>2. cmd' \in Command /\ Carried /\ cmd'.pc = "node" /\ cmd'.hit = cmd.hit
    BY <1>2, <2>1, WentOn
  <2>3. cluster' \in Cluster /\ cluster'.running /\ cluster'.lb = cluster.lb
    BY <1>2, Typed DEF Cluster
  <2>4. TypeOK' /\ KeysPaid'
    BY <1>1, <1>2, <2>2, <2>3, Typed, LeftAlone
  <2>5. Stands'
    BY <1>1, <1>2, <2>2, <2>3 DEF CliInv, Stands, Owner, Minted, Built, Undisturbed,
       Healed, Reported, Carried, CommandPc, BootstrapPc, UpPc, Installing
  <2> QED BY <2>1, <2>2, <2>4, <2>5, OnItsWay
<1>3. CASE Fault /\ EndHit /\ UNCHANGED <<cluster, profile>>
  BY <1>1, <1>3, Typed, EndHitOver
<1>4. CASE /\ Fault /\ Gone
           /\ cmd' = [cmd EXCEPT !.pc = "create", !.token = Stale(@), !.hit = TRUE]
  <2>1. /\ cmd' \in Command /\ cmd'.pc = "create" /\ cmd'.hit /\ cmd'.name = cmd.name
        /\ "create" \in CommandPc
    BY <1>4, Typed DEF Command, CommandPc, BootstrapPc, Stale, Token
  <2>2. /\ MaxFaults \in Nat /\ faults \in 0..MaxFaults /\ keys \in Nat
        /\ faults' \in 0..MaxFaults /\ faults <= faults'
    BY <1>4, Typed, FaultCounted
  <2>3. KeysPaid'
    BY <1>1, <1>4, <2>1, <2>2, GoneFields, KeysKept DEF CliInv
  <2>4. TypeOK'
    BY <1>1, <1>4, <2>1, <2>2, <2>3, Typed, GoneFields, TypedAfter
  <2>5. Stands'
    BY <1>1, <2>1 DEF CliInv, Stands, Owner, Minted, Built, Undisturbed, Healed, Reported,
       CommandPc, BootstrapPc, UpPc, Installing
  <2> QED BY <2>1, <2>3, <2>4, <2>5, OnItsWay
<1> QED BY <1>2, <1>3, <1>4 DEF StartCluster

\* The node of a cluster that runs gets ready, if kubectl can be run.
LEMMA WaitForNodeKeeps == CliInv /\ WaitForNode => CliInv'
<1> SUFFICES ASSUME CliInv, WaitForNode PROVE CliInv'
  OBVIOUS
<1>1. cmd.pc = "node" /\ cluster' = cluster /\ profile' = profile /\ keys' = keys
  BY DEF WaitForNode, At
<1>2. vendored' \in [Tool -> Copy]
  BY Typed, ResolveTyped DEF WaitForNode, Resolve, Tool
<1>3. CASE /\ NoFault /\ cmd' = [cmd EXCEPT !.pc = "images", !.todo = Image]
  <2>1. /\ cmd' \in Command /\ cmd'.pc = "images" /\ cmd'.todo = Image /\ cmd'.hit = cmd.hit
        /\ cmd'.name = cmd.name /\ cmd'.failed = cmd.failed /\ "images" \in CommandPc
    BY <1>3, Typed DEF Command, CommandPc, BootstrapPc
  <2>2. TypeOK' /\ KeysPaid'
    BY <1>1, <1>2, <1>3, <2>1, Typed, LeftAlone
  <2>3. Stands'
    BY <1>1, <2>1 DEF CliInv, Stands, Owner, Minted, Built, Undisturbed, Healed, Reported,
       CommandPc, BootstrapPc, UpPc, Installing
  <2> QED BY <2>1, <2>2, <2>3, OnItsWay
<1>4. CASE /\ NoFault /\ End("failed") /\ ~(vendored["kubectl"] # "unusable" /\ cluster.running)
           /\ (vendored["kubectl"] # "none" => UNCHANGED vendored)
  <2>1. cmd.hit \/ \E t \in Tool : vendored'[t] = "unusable"
    <3>1. CASE vendored["kubectl"] = "unusable"
      BY <1>4, <3>1 DEF Tool
    <3>2. CASE ~cluster.running
      BY <1>1, <3>2, Typed DEF CliInv, Stands, Undisturbed, Installing, Command
    <3> QED BY <1>4, <3>1, <3>2
  <2> QED BY <1>1, <1>2, <1>4, <2>1, Typed, ErrorOver
<1>5. CASE Fault /\ EndHit
  BY <1>1, <1>2, <1>5, Typed, EndHitOver
<1> QED BY <1>3, <1>4, <1>5 DEF WaitForNode, Resolve

\* An image more is in the node, or one that is not to be had is remembered.
LEMMA EnsureImagesKeeps == CliInv /\ EnsureImages => CliInv'
<1> SUFFICES ASSUME CliInv, EnsureImages PROVE CliInv'
  OBVIOUS
<1>1. cmd.pc = "images" /\ vendored' = vendored /\ profile' = profile /\ keys' = keys
  BY DEF EnsureImages, At
<1>2. cmd.todo \subseteq Image /\ cluster.images \subseteq Image
  BY Typed DEF Command, Cluster
<1>3. ASSUME cmd.todo # {}, NEW i \in cmd.todo, EnsureImage(i)
      PROVE  CliInv'
  <2> DEFINE imported == cluster.images \cup ({i} \cap Upstream \cap OnHost)
  <2>1. imported \subseteq Image
    BY <1>2, <1>3
  <2>2. ASSUME NEW images \in SUBSET Image, cluster.images \subseteq images,
               cluster' = [cluster EXCEPT !.images = images], Fault \/ NoFault,
               cmd' \in Command, cmd'.pc = "images", cmd'.name = cmd.name,
               cmd'.todo = cmd.todo \ {i}, cmd'.hit = cmd.hit \/ cmd'.hit = TRUE,
               \/ i \in images /\ cmd'.failed = cmd.failed
               \/ cmd'.failed /\ cmd'.hit
        PROVE  CliInv'
    <3>1. /\ cluster' \in Cluster /\ cluster'.images = images /\ cluster'.lb = cluster.lb
          /\ cluster'.running = cluster.running
      BY <2>2, Typed DEF Cluster
    <3>2. TypeOK' /\ KeysPaid'
      BY <1>1, <2>2, <3>1, Typed, LeftAlone
    <3>3. cmd'.failed \/ Image \ cmd'.todo \subseteq cluster'.images
      BY <1>1, <1>2, <2>2, <3>1 DEF CliInv, Stands, Built
    <3>4. Stands'
      BY <1>1, <2>2, <3>1, <3>3 DEF CliInv, Stands, Owner, Minted, Built, Undisturbed, Healed,
         Reported, CommandPc, BootstrapPc, UpPc, Installing
    <3>5. cmd'.pc \in CommandPc
      BY <2>2 DEF CommandPc, BootstrapPc
    <3> QED BY <3>2, <3>4, <3>5, OnItsWay
  <2>3. CASE /\ i \in cluster.images /\ cluster' = [cluster EXCEPT !.images = cluster.images]
             /\ cmd' = [cmd EXCEPT !.todo = @ \ {i}] /\ NoFault
    <3>1. /\ cmd' \in Command /\ cmd'.pc = "images" /\ cmd'.name = cmd.name
          /\ cmd'.todo = cmd.todo \ {i} /\ cmd'.hit = cmd.hit /\ cmd'.failed = cmd.failed
      BY <1>1, <2>3, Typed DEF Command
    <3> QED BY <1>2, <2>2, <2>3, <3>1
  <2>4. CASE /\ cluster' = [cluster EXCEPT !.images = cluster.images \cup {i}]
             /\ cmd' = [cmd EXCEPT !.todo = @ \ {i}] /\ NoFault
    <3>1. /\ cmd' \in Command /\ cmd'.pc = "images" /\ cmd'.name = cmd.name
          /\ cmd'.todo = cmd.todo \ {i} /\ cmd'.hit = cmd.hit /\ cmd'.failed = cmd.failed
      BY <1>1, <2>4, Typed DEF Command
    <3>2. cluster.images \cup {i} \in SUBSET Image
      BY <1>2, <1>3
    <3> QED BY <2>2, <2>4, <3>1, <3>2
  <2>5. CASE /\ cluster' = [cluster EXCEPT !.images = imported] /\ Fault
             /\ cmd' = [[cmd EXCEPT !.failed = TRUE, !.hit = TRUE] EXCEPT !.todo = @ \ {i}]
    <3> DEFINE c == [cmd EXCEPT !.failed = TRUE, !.hit = TRUE]
    <3>1. /\ c \in Command /\ c.pc = "images" /\ c.name = cmd.name /\ c.todo = cmd.todo
          /\ c.failed /\ c.hit
      BY <1>1, Typed DEF Command
    <3>2. cmd' = [c EXCEPT !.todo = @ \ {i}]
      BY <2>5
    <3> HIDE DEF c
    <3>3. /\ cmd' \in Command /\ cmd'.pc = "images" /\ cmd'.name = cmd.name
          /\ cmd'.todo = cmd.todo \ {i} /\ cmd'.hit = TRUE /\ cmd'.failed
      BY <3>1, <3>2 DEF Command
    <3> QED BY <2>1, <2>2, <2>5, <3>3
  <2>6. CASE Fault /\ EndHit /\ UNCHANGED cluster
    BY <1>1, <2>6, Typed, EndHitOver
  <2> QED BY <1>3, <2>3, <2>4, <2>5, <2>6 DEF EnsureImage
<1>4. CASE cmd.todo # {} /\ EnsureImage(CHOOSE i \in cmd.todo : TRUE)
  BY <1>3, <1>4
<1>5. CASE cmd.todo = {} /\ cmd.failed /\ End("failed") /\ NoFault /\ UNCHANGED cluster
  <2>1. cmd.hit
    BY <1>1, <1>5, Typed DEF CliInv, Stands, Undisturbed, Command, CommandPc, BootstrapPc
  <2> QED BY <1>1, <1>5, <2>1, Typed, ErrorOver
<1>6. CASE cmd.todo = {} /\ ~cmd.failed /\ Goto("gateway") /\ NoFault /\ UNCHANGED cluster
  <2>1. "gateway" \in CommandPc
    BY DEF CommandPc, BootstrapPc
  <2>2. cmd' \in Command /\ Carried /\ cmd'.pc = "gateway" /\ cmd'.hit = cmd.hit
    BY <1>6, <2>1, WentOn
  <2>3. cluster.images = Image
    BY <1>1, <1>2, <1>6 DEF CliInv, Stands, Built
  <2>4. Stands'
    BY <1>1, <1>6, <2>2, <2>3 DEF CliInv, Stands, Owner, Minted, Built, Undisturbed,
       Healed, Reported, Carried, CommandPc, BootstrapPc, UpPc, Installing
  <2> QED BY <1>1, <1>6, <2>1, <2>4, Typed, Onward
<1> QED BY <1>4, <1>5, <1>6 DEF EnsureImages

\* install_gateway and deploy_local_stack: what is applied is there.
LEMMA InstallGatewayKeeps == CliInv /\ InstallGateway => CliInv'
<1> SUFFICES ASSUME CliInv, InstallGateway PROVE CliInv'
  OBVIOUS
<1>1. cmd.pc = "gateway" /\ vendored' = vendored /\ profile' = profile /\ keys' = keys
  BY DEF InstallGateway, At, Install
<1> DEFINE installed == [cluster EXCEPT !["gateway"] = TRUE]
<1>2. /\ installed \in Cluster /\ installed.gateway /\ installed.lb = cluster.lb
      /\ installed.images = cluster.images /\ installed.running = cluster.running
  BY Typed DEF Cluster
<1> HIDE DEF installed
<1>3. CASE cluster' = installed /\ NoFault /\ cluster.running /\ Goto("stack")
  <2>1. "stack" \in CommandPc
    BY DEF CommandPc, BootstrapPc
  <2>2. cmd' \in Command /\ Carried /\ cmd'.pc = "stack" /\ cmd'.hit = cmd.hit
    BY <1>3, <2>1, WentOn
  <2>3. TypeOK' /\ KeysPaid'
    BY <1>1, <1>2, <1>3, <2>2, Typed, LeftAlone
  <2>4. Stands'
    BY <1>1, <1>2, <1>3, <2>2 DEF CliInv, Stands, Owner, Minted, Built, Undisturbed,
       Healed, Reported, Carried, CommandPc, BootstrapPc, UpPc, Installing
  <2> QED BY <2>1, <2>2, <2>3, <2>4, OnItsWay
<1>4. CASE cluster' = installed /\ NoFault /\ ~cluster.running /\ End("failed")
  <2>1. cmd.hit
    BY <1>1, <1>4, Typed DEF CliInv, Stands, Undisturbed, Command, Installing
  <2> QED BY <1>1, <1>2, <1>4, <2>1, Typed, ErrorOver
<1>5. CASE Fault /\ EndHit /\ cluster' \in {cluster, installed}
  BY <1>1, <1>2, <1>5, Typed, EndHitOver
<1> QED BY <1>3, <1>4, <1>5 DEF InstallGateway, Install, installed

\* deploy_stack: each of its calls leaves what the stages before it built.
LEMMA DeployStackKeeps == CliInv /\ DeployStack => CliInv'
<1> SUFFICES ASSUME CliInv, DeployStack PROVE CliInv'
  OBVIOUS
<1>1. cmd.pc = "stack" /\ vendored' = vendored /\ profile' = profile /\ keys' = keys
  BY DEF DeployStack, At, Install
<1> DEFINE installed == [cluster EXCEPT !["api"] = TRUE]
<1>2. /\ installed \in Cluster /\ installed.api /\ installed.lb = cluster.lb
      /\ installed.images = cluster.images /\ installed.running = cluster.running
      /\ installed.gateway = cluster.gateway
  BY Typed DEF Cluster
<1> HIDE DEF installed
<1>3. CASE cluster' = installed /\ NoFault /\ cluster.running /\ Goto("api")
  <2>1. "api" \in CommandPc
    BY DEF CommandPc, BootstrapPc
  <2>2. cmd' \in Command /\ Carried /\ cmd'.pc = "api" /\ cmd'.hit = cmd.hit
    BY <1>3, <2>1, WentOn
  <2>3. TypeOK' /\ KeysPaid'
    BY <1>1, <1>2, <1>3, <2>2, Typed, LeftAlone
  <2>4. Stands'
    BY <1>1, <1>2, <1>3, <2>2 DEF CliInv, Stands, Owner, Minted, Built, Undisturbed,
       Healed, Reported, Carried, CommandPc, BootstrapPc, UpPc, Installing
  <2> QED BY <2>1, <2>2, <2>3, <2>4, OnItsWay
<1>4. CASE cluster' = installed /\ NoFault /\ ~cluster.running /\ End("failed")
  <2>1. cmd.hit
    BY <1>1, <1>4, Typed DEF CliInv, Stands, Undisturbed, Command, Installing
  <2> QED BY <1>1, <1>2, <1>4, <2>1, Typed, ErrorOver
<1>5. CASE Fault /\ EndHit /\ cluster' \in {cluster, installed}
  BY <1>1, <1>2, <1>5, Typed, EndHitOver
<1> QED BY <1>3, <1>4, <1>5 DEF DeployStack, Install, installed

\* A stack that was built serves, unless a fault fell into the command.
LEMMA BuiltServes ==
    ASSUME CliInv, cmd.pc \in {"api", "mint", "save"}
    PROVE  Serving(cluster) \/ cmd.hit
BY Typed DEF CliInv, Stands, Built, Undisturbed, Installing, Serving, Cluster, Command

\* wait_api: the API answers, or the command runs into its deadline.
LEMMA WaitApiKeeps == CliInv /\ WaitApi => CliInv'
<1> SUFFICES ASSUME CliInv, WaitApi PROVE CliInv'
  OBVIOUS
<1>1. /\ cmd.pc = "api" /\ vendored' = vendored /\ cluster' = cluster /\ profile' = profile
      /\ keys' = keys
  BY DEF WaitApi, At
<1>2. CASE NoFault /\ Serving(cluster) /\ Goto("mint")
  <2>1. "mint" \in CommandPc
    BY DEF CommandPc, BootstrapPc
  <2>2. cmd' \in Command /\ Carried /\ cmd'.pc = "mint" /\ cmd'.hit = cmd.hit
    BY <1>2, <2>1, WentOn
  <2>3. faults' \in 0..MaxFaults /\ faults <= faults' /\ Serving(cluster)'
    BY <1>1, <1>2, Typed, FaultCounted
  <2>4. KeysPaid'
    BY <1>1, <2>2, <2>3, Typed, KeysKept DEF CliInv
  <2>5. TypeOK'
    BY <1>1, <2>2, <2>3, <2>4, Typed, TypedAfter
  <2>6. Stands'
    BY <1>1, <2>2 DEF CliInv, Stands, Owner, Minted, Built, Undisturbed,
       Healed, Reported, Carried, CommandPc, BootstrapPc, UpPc, Installing
  <2> QED BY <2>1, <2>2, <2>4, <2>5, <2>6, OnItsWay
<1>3. CASE NoFault /\ ~Serving(cluster) /\ End("failed")
  <2>1. cmd.hit
    BY <1>1, <1>3, BuiltServes
  <2> QED BY <1>1, <1>3, <2>1, Typed, ErrorOver
<1>4. CASE Fault /\ EndHit
  BY <1>1, <1>4, Typed, EndHitOver
<1> QED BY <1>2, <1>3, <1>4 DEF WaitApi, Works

\* ensure_with: the identity that is read, or one more where none is read;
\* where the API is gone by then, a fault has paid for it.
LEMMA EnsureProfileKeeps == CliInv /\ EnsureProfile => CliInv'
<1> SUFFICES ASSUME CliInv, EnsureProfile PROVE CliInv'
  OBVIOUS
<1>1. cmd.pc = "mint" /\ vendored' = vendored /\ cluster' = cluster /\ profile' = profile
  BY DEF EnsureProfile, At
<1>2. /\ faults \in Nat /\ faults <= MaxFaults /\ MaxFaults \in Nat
      /\ keys \in Nat /\ keys <= faults + 1
      /\ profile.state # "whole" => keys <= faults
      /\ profile.state # "whole" /\ ~Serving(cluster) => keys < faults
  BY <1>1, Typed DEF CliInv, KeysPaid
<1>3. ASSUME NEW key \in Key, NEW d \in Command, Fault \/ NoFault, KeysPaid', keys' \in Nat,
             d.name = cmd.name, d.failed = cmd.failed, ~d.hit => ~cmd.hit,
             profile.state = "whole" /\ ~d.unread => key = profile.key,
             cmd' = [d EXCEPT !.pc = "save", !.key = key, !.token = "live"]
      PROVE  CliInv'
  <2>1. /\ cmd' \in Command /\ cmd'.pc = "save" /\ cmd'.name = cmd.name /\ cmd'.hit = d.hit
        /\ cmd'.key = key /\ cmd'.token = "live" /\ cmd'.failed = cmd.failed
        /\ cmd'.unread = d.unread /\ "save" \in CommandPc
    BY <1>3 DEF Command, CommandPc, BootstrapPc, Token
  <2>2. faults' \in 0..MaxFaults
    BY <1>3, Typed, FaultCounted
  <2>3. TypeOK'
    BY <1>1, <1>3, <2>1, <2>2, Typed, TypedAfter
  <2>4. Stands'
    BY <1>1, <1>3, <2>1 DEF CliInv, Stands, Owner, Minted, Built, Undisturbed,
       Healed, Reported, CommandPc, BootstrapPc, UpPc, Installing
  <2> QED BY <1>3, <2>1, <2>3, <2>4, OnItsWay
<1>4. ASSUME NEW key \in Key, NoFault, MintFor(key, "live"), keys' \in Nat, keys' <= faults + 1,
             profile.state = "whole" => key = profile.key,
             profile.state # "whole" /\ ~Serving(cluster) => keys' <= faults
      PROVE  CliInv'
  <2>1. faults' = faults /\ faults' \in 0..MaxFaults
    BY <1>4, Typed DEF NoFault
  <2>2. CASE cmd' = [cmd EXCEPT !.pc = "save", !.key = key, !.token = "live"]
    <3>1. cmd'.pc = "save"
      BY <2>2, Typed DEF Command
    <3>2. KeysPaid'
      BY <1>4, <2>1, <3>1 DEF KeysPaid
    <3> QED BY <1>3, <1>4, <2>2, <3>2, Typed
  <2>3. CASE ~Serving(cluster) /\ End("failed")
    <3>1. cmd' \in Command /\ Told(cmd', cmd) /\ cmd'.pc = "failed" /\ cmd'.hit = cmd.hit
      BY <2>3, Typed, EndFields DEF EndPc
    <3>2. cmd.hit
      BY <1>1, <2>3, BuiltServes
    <3>3. KeysPaid'
      BY <1>1, <1>4, <2>1, <2>3, <3>1 DEF KeysPaid
    <3>4. TypeOK'
      BY <1>1, <1>4, <2>1, <3>1, <3>3, Typed, TypedAfter
    <3> QED BY <3>1, <3>2, <3>3, <3>4, AtItsError DEF BootstrapRecovers
  <2> QED BY <1>4, <2>2, <2>3 DEF MintFor
<1>5. CASE profile.state = "whole" /\ keys' = keys /\ Works(MintFor(profile.key, "live"))
  <2>1. profile.key \in Key /\ keys' \in Nat /\ keys' <= faults + 1
    BY <1>2, <1>5, Typed
  <2>2. CASE NoFault /\ MintFor(profile.key, "live")
    BY <1>4, <1>5, <2>1, <2>2
  <2>3. CASE Fault /\ EndHit
    BY <1>1, <2>1, <2>3, Typed, EndHitOver
  <2> QED BY <1>5, <2>2, <2>3 DEF Works
<1>6. CASE profile.state # "whole" /\ keys' = keys + 1 /\ Works(MintFor(keys + 1, "live"))
  <2>1. keys + 1 \in Key /\ keys' \in Nat /\ keys' <= faults + 1
    BY <1>2, <1>6 DEF Key
  <2>2. ~Serving(cluster) => keys' <= faults
    BY <1>2, <1>6
  <2>3. CASE NoFault /\ MintFor(keys + 1, "live")
    BY <1>4, <1>6, <2>1, <2>2, <2>3
  <2>4. CASE Fault /\ EndHit
    BY <1>1, <2>1, <2>4, Typed, EndHitOver
  <2> QED BY <1>6, <2>3, <2>4 DEF Works
<1>7. CASE profile.state = "whole" /\ MintUnread
  <2>1. /\ Fault /\ faults' = faults + 1 /\ faults' <= MaxFaults
        /\ keys' = keys + 1 /\ keys' \in Nat /\ keys' <= faults' + 1
    BY <1>2, <1>7 DEF MintUnread, Fault
  <2>2. keys + 1 \in Key
    BY <1>2, <2>1 DEF Key
  <2>3. CASE EndHit
    <3>1. cmd' \in Command /\ Told(cmd', cmd) /\ cmd'.pc = "failed" /\ cmd'.hit
      BY <2>3, Typed, EndHitFields
    <3>2. KeysPaid'
      BY <1>1, <1>7, <2>1, <3>1 DEF KeysPaid
    <3>3. faults' \in 0..MaxFaults
      BY <2>1, Typed, FaultCounted
    <3>4. TypeOK'
      BY <1>1, <2>1, <3>1, <3>2, <3>3, Typed, TypedAfter
    <3> QED BY <3>1, <3>2, <3>4, AtItsError DEF BootstrapRecovers
  <2>4. CASE cmd' = [cmd EXCEPT !.pc = "save", !.key = keys + 1, !.token = "live",
                                !.hit = TRUE, !.unread = TRUE]
    <3> DEFINE d == [cmd EXCEPT !.hit = TRUE, !.unread = TRUE]
    <3>1. /\ d \in Command /\ d.name = cmd.name /\ d.failed = cmd.failed
          /\ d.hit /\ d.unread
      BY Typed DEF Command
    <3>2. cmd' = [d EXCEPT !.pc = "save", !.key = keys + 1, !.token = "live"]
      BY <2>4, Typed DEF Command
    <3> HIDE DEF d
    <3>3. cmd'.pc = "save"
      BY <3>1, <3>2 DEF Command
    <3>4. KeysPaid'
      BY <1>1, <1>7, <2>1, <3>3 DEF KeysPaid
    <3> QED BY <1>3, <2>1, <2>2, <3>1, <3>2, <3>4
  <2> QED BY <1>7, <2>3, <2>4 DEF MintUnread
<1> QED BY <1>5, <1>6, <1>7 DEF EnsureProfile

\* What is saved is the identity that is there, with a live token.
LEMMA SaveProfileKeeps == CliInv /\ SaveProfile => CliInv'
<1> SUFFICES ASSUME CliInv, SaveProfile PROVE CliInv'
  OBVIOUS
<1>1. cmd.pc = "save" /\ vendored' = vendored /\ cluster' = cluster /\ keys' = keys
  BY DEF SaveProfile, At
<1>2. cmd.key \in Key /\ cmd.token = "live"
  BY <1>1 DEF CliInv, Stands, Minted
<1>3. ASSUME profile' = Whole(cmd.key, cmd.token), NoFault, cmd' \in Command, cmd'.pc # "mint"
      PROVE  /\ profile'.state = "whole" /\ profile'.key = cmd.key /\ profile'.token = "live"
             /\ TypeOK' /\ KeysPaid'
  <2>1. /\ profile'.state = "whole" /\ profile'.key = cmd.key /\ profile'.token = "live"
        /\ profile' \in Profile
    BY <1>2, <1>3 DEF Whole, Profile, Token
  <2>2. faults' = faults /\ faults' \in 0..MaxFaults
    BY <1>3, Typed DEF NoFault
  <2>3. KeysPaid'
    BY <1>1, <2>1, <2>2, Typed DEF KeysPaid
  <2>4. TypeOK'
    BY <1>1, <1>2, <1>3, <2>1, <2>2, <2>3, Typed, TypedAfter
  <2> QED BY <2>1, <2>3, <2>4
<1>4. CASE /\ profile' = Whole(cmd.key, cmd.token) /\ NoFault
           /\ cmd.name = "up" /\ cmd' = [cmd EXCEPT !.pc = "heal", !.key = None]
  <2>1. /\ cmd' \in Command /\ cmd'.pc = "heal" /\ cmd'.name = "up" /\ cmd'.hit = cmd.hit
        /\ cmd'.failed = cmd.failed /\ "heal" \in CommandPc
    BY <1>4, Typed DEF Command, CommandPc, UpPc
  <2>2. Serving(cluster) \/ cmd.hit
    BY <1>1, BuiltServes
  <2>3. TypeOK' /\ KeysPaid'
    BY <1>3, <1>4, <2>1
  <2>4. Stands'
    BY <1>1, <2>1, <2>2 DEF CliInv, Stands, Owner, Minted, Built, Undisturbed,
       Healed, Reported, CommandPc, BootstrapPc, UpPc, Installing
  <2> QED BY <2>1, <2>3, <2>4, OnItsWay
<1>5. CASE profile' = Whole(cmd.key, cmd.token) /\ NoFault /\ cmd.name # "up" /\ End("ok")
  <2>1. cmd' \in Command /\ Told(cmd', cmd) /\ cmd'.pc = "ok" /\ cmd'.pc \in EndPc
    BY <1>5, Typed, EndFields DEF EndPc
  <2>2. /\ profile'.state = "whole" /\ profile'.token = "live" /\ TypeOK' /\ KeysPaid'
    BY <1>3, <1>5, <2>1
  <2>3. BootstrapDelivers'
    BY <1>1, <2>2 DEF CliInv, Stands, Built, Installing, BootstrapDelivers
  <2>4. BootstrapRecovers' /\ UpAuthenticated' /\ UpTruthful'
    BY <1>5, <2>1 DEF BootstrapRecovers, UpAuthenticated, UpTruthful, Told
  <2> QED BY <2>1, <2>2, <2>3, <2>4, AtItsEnd
<1>6. CASE Fault /\ EndHit /\ profile' \in {profile, Torn}
  <2>1. Torn \in Profile /\ Torn.state = "torn"
    BY DEF Torn, NoProfile, Profile, Token
  <2>2. profile' \in Profile /\ (profile'.state = "whole" => profile'.key \in Key)
    BY <1>6, <2>1, Typed
  <2> QED BY <1>1, <1>6, <2>2, Typed, EndHitOver
<1> QED BY <1>4, <1>5, <1>6 DEF SaveProfile

\* A teardown leaves the profile; its errors are its own.
LEMMA TeardownKeeps == CliInv /\ Teardown => CliInv'
<1> SUFFICES ASSUME CliInv, Teardown PROVE CliInv'
  OBVIOUS
<1>1. cmd.pc = "teardown" /\ cmd.name = "teardown"
  BY DEF Teardown, At, CliInv, Stands, Owner
<1>2. CASE /\ vendored["k3d"] = "none" /\ Resolve("k3d", Goto("teardown"))
           /\ UNCHANGED <<cluster, profile, keys>>
  <2>1. vendored' \in [Tool -> Copy]
    BY <1>2, Typed, ResolveTyped DEF Resolve, Tool
  <2>2. CASE NoFault /\ Goto("teardown")
    <3>1. "teardown" \in CommandPc
      BY DEF CommandPc
    <3>2. cmd' \in Command /\ Carried /\ cmd'.pc = "teardown" /\ cmd'.hit = cmd.hit
      BY <2>2, <3>1, WentOn
    <3>3. Stands'
      BY <1>1, <1>2, <3>2 DEF CliInv, Stands, Owner, Minted, Built, Undisturbed, Healed,
         Reported, Carried, CommandPc, BootstrapPc, UpPc, Installing
    <3> QED BY <1>1, <1>2, <2>1, <2>2, <3>1, <3>3, Typed, Onward
  <2>3. CASE Fault /\ EndHit
    BY <1>2, <2>1, <2>3, Typed, EndHitOver
  <2> QED BY <1>2, <2>2, <2>3 DEF Resolve
<1>3. CASE Delete(Ended("ok"))
  <2>1. /\ Ended("ok") \in Command /\ Ended("ok").pc = "ok" /\ Ended("ok").name = "teardown"
        /\ Ended("ok").hit = cmd.hit
    BY <1>1, Typed, EndedFields DEF EndPc, Told
  <2>2. vendored' = vendored /\ keys' = keys
    BY <1>3 DEF Delete
  <2>3. CASE Gone /\ NoFault /\ cmd' \in Command /\ cmd'.pc = "ok" /\ cmd'.name = "teardown"
    <3>1. /\ MaxFaults \in Nat /\ faults \in 0..MaxFaults /\ keys \in Nat
          /\ faults' \in 0..MaxFaults /\ faults <= faults'
      BY <2>3, Typed, FaultCounted
    <3>2. KeysPaid'
      BY <1>1, <2>2, <2>3, <3>1, GoneFields, KeysKept DEF CliInv
    <3>3. TypeOK'
      BY <2>2, <2>3, <3>1, <3>2, Typed, GoneFields, TypedAfter
    <3>4. BootstrapDelivers' /\ BootstrapRecovers' /\ UpAuthenticated' /\ UpTruthful'
      BY <2>3 DEF BootstrapDelivers, BootstrapRecovers, UpAuthenticated, UpTruthful
    <3> QED BY <2>3, <3>2, <3>3, <3>4, AtItsEnd DEF EndPc
  <2> QED BY <1>1, <1>3, <2>1, <2>3, DeleteFields
<1>4. CASE End("failed") /\ NoFault /\ UNCHANGED <<vendored, cluster, profile, keys>>
  BY <1>1, <1>4, Typed, ErrorOver
<1> QED BY <1>2, <1>3, <1>4 DEF Teardown

-----------------------------------------------------------------------------
(* up *)

\* ensure_local_api goes on with an API that answers, or bootstraps.
LEMMA ReachKeeps == CliInv /\ Reach => CliInv'
<1> SUFFICES ASSUME CliInv, Reach PROVE CliInv'
  OBVIOUS
<1>1. /\ cmd.pc = "reach" /\ vendored' = vendored /\ cluster' = cluster /\ profile' = profile
      /\ keys' = keys
  BY DEF Reach, At
<1>2. \A pc : pc \in {"heal", "tools"} => pc \in CommandPc
  BY DEF CommandPc, BootstrapPc, UpPc
<1>3. ASSUME NEW pc \in {"heal", "tools"}, Goto(pc) \/ GotoHit(pc), Fault \/ NoFault,
             pc = "heal" => Serving(cluster)
      PROVE  CliInv'
  <2>1. /\ cmd' \in Command /\ Carried /\ cmd'.pc = pc
        /\ cmd'.hit = cmd.hit \/ cmd'.hit = TRUE
    BY <1>2, <1>3, WentOn
  <2>2. Stands'
    BY <1>1, <1>3, <2>1 DEF CliInv, Stands, Owner, Minted, Built, Undisturbed, Healed, Reported,
       Carried, CommandPc, BootstrapPc, UpPc, Installing
  <2> QED BY <1>1, <1>2, <1>3, <2>2, Typed, Onward
<1>4. CASE Serving(cluster) /\ Goto("heal") /\ NoFault
  BY <1>3, <1>4
<1>5. CASE Goto("tools") /\ NoFault
  BY <1>3, <1>5
<1>6. CASE GotoHit("tools") /\ Fault
  BY <1>3, <1>6
<1> QED BY <1>4, <1>5, <1>6 DEF Reach

\* heal_stale_token: past it, the token of the profile is good or replaced.
LEMMA HealKeeps == CliInv /\ Heal => CliInv'
<1> SUFFICES ASSUME CliInv, Heal PROVE CliInv'
  OBVIOUS
<1>1. /\ cmd.pc = "heal" /\ vendored' = vendored /\ cluster' = cluster /\ profile' = profile
      /\ keys' = keys /\ "client" \in CommandPc /\ "refresh" \in CommandPc
  BY DEF Heal, At, CommandPc, UpPc
<1>2. CASE /\ Goto("client") /\ NoFault
           /\ \/ cmd.creds # "none" \/ profile.state # "whole"
              \/ ~Serving(cluster) \/ profile.token = "live"
  <2>1. cmd' \in Command /\ Carried /\ cmd'.pc = "client" /\ cmd'.hit = cmd.hit
    BY <1>1, <1>2, WentOn
  <2>2. Stands'
    BY <1>1, <1>2, <2>1 DEF CliInv, Stands, Owner, Minted, Built, Undisturbed, Healed, Reported,
       Carried, CommandPc, BootstrapPc, UpPc, Installing
  <2> QED BY <1>1, <1>2, <2>2, Typed, Onward
<1>3. CASE /\ NoFault /\ profile.state = "whole"
           /\ cmd' = [cmd EXCEPT !.pc = "refresh", !.token = "live"]
  <2>1. /\ cmd' \in Command /\ cmd'.pc = "refresh" /\ cmd'.token = "live"
        /\ cmd'.name = cmd.name /\ cmd'.hit = cmd.hit /\ cmd'.failed = cmd.failed
    BY <1>1, <1>3, Typed DEF Command, Token
  <2>2. TypeOK' /\ KeysPaid'
    BY <1>1, <1>3, <2>1, Typed, LeftAlone
  <2>3. Stands'
    BY <1>1, <1>3, <2>1 DEF CliInv, Stands, Owner, Minted, Built, Undisturbed, Healed, Reported,
       CommandPc, BootstrapPc, UpPc, Installing
  <2> QED BY <1>1, <2>1, <2>2, <2>3, OnItsWay
<1>4. CASE Fault /\ GotoHit("client")
  <2>1. cmd' \in Command /\ Carried /\ cmd'.pc = "client" /\ cmd'.hit
    BY <1>1, <1>4, WentOn
  <2>2. Stands'
    BY <1>1, <2>1 DEF CliInv, Stands, Owner, Minted, Built, Undisturbed, Healed, Reported,
       Carried, CommandPc, BootstrapPc, UpPc, Installing
  <2> QED BY <1>1, <1>4, <2>2, Typed, Onward
<1>5. CASE Fault /\ EndHit
  BY <1>1, <1>5, Typed, EndHitOver
<1> QED BY <1>2, <1>3, <1>4, <1>5 DEF Heal

\* refresh_token: the identity stays, also where the save of it fails.
LEMMA RefreshKeeps == CliInv /\ Refresh => CliInv'
<1> SUFFICES ASSUME CliInv, Refresh PROVE CliInv'
  OBVIOUS
<1>1. /\ cmd.pc = "refresh" /\ vendored' = vendored /\ cluster' = cluster /\ keys' = keys
      /\ "submit" \in CommandPc
  BY DEF Refresh, At, CommandPc, UpPc
<1>2. profile.state = "whole" /\ profile.key \in Key /\ cmd.token = "live"
  BY <1>1, Typed DEF CliInv, Stands, Minted
<1>3. CASE profile' = Whole(profile.key, cmd.token) /\ NoFault /\ Goto("submit")
  <2>1. cmd' \in Command /\ Carried /\ cmd'.pc = "submit" /\ cmd'.hit = cmd.hit
    BY <1>1, <1>3, WentOn
  <2>2. /\ profile'.state = "whole" /\ profile'.key = profile.key /\ profile'.token = "live"
        /\ profile' \in Profile
    BY <1>2, <1>3 DEF Whole, Profile, Token
  <2>3. faults' \in 0..MaxFaults /\ faults <= faults'
    BY <1>3, Typed, FaultCounted
  <2>4. KeysPaid'
    BY <1>1, <1>2, <2>1, <2>2, <2>3, Typed, KeysKept DEF CliInv
  <2>5. TypeOK'
    BY <1>1, <1>2, <2>1, <2>2, <2>3, <2>4, Typed, TypedAfter
  <2>6. Stands'
    BY <1>1, <1>2, <2>1, <2>2 DEF CliInv, Stands, Owner, Minted, Built, Undisturbed, Healed,
       Reported, Carried, CommandPc, BootstrapPc, UpPc, Installing
  <2> QED BY <1>1, <2>1, <2>4, <2>5, <2>6, OnItsWay
<1>4. ASSUME Fault, profile' \in {profile, Torn}
      PROVE  profile' \in Profile /\ (profile'.state = "whole" => profile'.key \in Key)
  BY <1>4, Typed DEF Torn, NoProfile, Profile, Token
<1>5. CASE Fault /\ profile' \in {profile, Torn} /\ GotoHit("submit")
  <2>1. cmd' \in Command /\ Carried /\ cmd'.pc = "submit" /\ cmd'.hit
    BY <1>1, <1>5, WentOn
  <2>2. faults' \in 0..MaxFaults /\ faults' = faults + 1
    BY <1>5, Typed DEF Fault
  <2>3. KeysPaid'
    BY <1>1, <2>1, <2>2, Typed DEF KeysPaid
  <2>4. TypeOK'
    BY <1>1, <1>4, <1>5, <2>1, <2>2, <2>3, Typed, TypedAfter
  <2>5. Stands'
    BY <1>1, <2>1 DEF CliInv, Stands, Owner, Minted, Built, Undisturbed, Healed, Reported,
       Carried, CommandPc, BootstrapPc, UpPc, Installing
  <2> QED BY <1>1, <2>1, <2>3, <2>4, <2>5, OnItsWay
<1>6. CASE Fault /\ profile' \in {profile, Torn} /\ EndHit
  BY <1>1, <1>4, <1>6, Typed, EndHitOver
<1> QED BY <1>3, <1>5, <1>6 DEF Refresh

\* A client has credentials, or the command ends.
LEMMA UpClientKeeps == CliInv /\ UpClient => CliInv'
<1> SUFFICES ASSUME CliInv, UpClient PROVE CliInv'
  OBVIOUS
<1>1. /\ cmd.pc = "client" /\ vendored' = vendored /\ cluster' = cluster /\ profile' = profile
      /\ keys' = keys /\ cmd.name = "up" /\ "submit" \in CommandPc
  BY DEF UpClient, At, CliInv, Stands, Owner, CommandPc, UpPc
<1>2. CASE NoFault /\ cmd.creds \in {"token", "nsec"} /\ Goto("submit")
  <2>1. cmd' \in Command /\ Carried /\ cmd'.pc = "submit" /\ cmd'.hit = cmd.hit
    BY <1>1, <1>2, WentOn
  <2>2. Stands'
    BY <1>1, <1>2, <2>1 DEF CliInv, Stands, Owner, Minted, Built, Undisturbed, Healed, Reported,
       Carried, CommandPc, BootstrapPc, UpPc, Installing
  <2> QED BY <1>1, <1>2, <2>2, Typed, Onward
<1>3. CASE /\ NoFault /\ profile.state = "whole"
           /\ cmd' = [cmd EXCEPT !.pc = "submit", !.token = profile.token]
  <2>1. /\ cmd' \in Command /\ cmd'.pc = "submit" /\ cmd'.token = profile.token
        /\ cmd'.name = cmd.name /\ cmd'.hit = cmd.hit /\ cmd'.failed = cmd.failed
        /\ cmd'.creds = cmd.creds
    BY <1>1, <1>3, Typed DEF Command, Profile
  <2>2. TypeOK' /\ KeysPaid'
    BY <1>1, <1>3, <2>1, Typed, LeftAlone
  <2>3. Stands'
    BY <1>1, <1>3, <2>1 DEF CliInv, Stands, Owner, Minted, Built, Undisturbed, Healed, Reported,
       CommandPc, BootstrapPc, UpPc, Installing
  <2> QED BY <1>1, <2>1, <2>2, <2>3, OnItsWay
<1>4. CASE NoFault /\ End("failed")
  BY <1>1, <1>4, Typed, ErrorOver
<1>5. CASE Fault /\ EndHit
  BY <1>1, <1>5, Typed, EndHitOver
<1> QED BY <1>2, <1>3, <1>4, <1>5 DEF UpClient, Works, Credentials

-----------------------------------------------------------------------------
(* Calls. *)

\* A row may be written; the rest of the cluster is not touched by a call.
LEMMA EnvSet ==
    ASSUME CliInv, NEW env \in Environment, SetEnv(env)
    PROVE  /\ cluster' \in Cluster /\ cluster'.env = env
           /\ cluster'.exists = cluster.exists /\ cluster'.running = cluster.running
           /\ cluster'.lb = cluster.lb /\ cluster'.images = cluster.images
           /\ cluster'.gateway = cluster.gateway /\ cluster'.api = cluster.api
           /\ Serving(cluster') = Serving(cluster)
BY Typed DEF SetEnv, Cluster, Serving

\* What a call may answer or leave is an environment; one that shows wallets
\* is ready.
LEMMA EnvironmentsTyped ==
    ASSUME CliInv
    PROVE  /\ Env \in Environment /\ Promoted(Env) \in Environment /\ Answer \in Environment
           /\ Answer.wallets = Wallet => Answer.status = "ready"
<1>1. Env \in Environment
  BY Typed DEF Env, Cluster
<1>2. Promoted(Env) \in Environment
  BY <1>1 DEF Promoted, Environment
<1> DEFINE env == Promoted(Env)
<1> HIDE DEF env
<1>3. env \in Environment
  BY <1>2 DEF env
<1>4. LightningConnections(env) \in SUBSET Wallet
  BY <1>3 DEF LightningConnections, Environment
<1>5. Bundle(env) \in Environment /\ Bundle(env).status = env.status
      /\ Bundle(env).wallets = LightningConnections(env)
  BY <1>3, <1>4 DEF Bundle, Environment
<1>6. LightningConnections(env) = Wallet => env.status = "ready"
  BY LocalAssumption DEF LightningConnections
<1> QED BY <1>1, <1>2, <1>5, <1>6 DEF Answer, env

\* An answer is kept, or is the last.
LEMMA SeeFields ==
    ASSUME CliInv, NEW bundle \in Environment, NEW pc \in CommandPc, See(bundle, pc)
    PROVE  /\ cmd' \in Command /\ cmd'.pc = pc /\ cmd'.seen = bundle /\ cmd'.name = cmd.name
           /\ cmd'.hit = cmd.hit /\ cmd'.creds = cmd.creds /\ cmd'.token = cmd.token
           /\ cmd'.failed = cmd.failed
BY Typed DEF See, Command

\* The last answer is kept as the command ends.
LEMMA SeeLastFields ==
    ASSUME CliInv, NEW bundle \in Environment, NEW how \in EndPc, SeeLast(bundle, how)
    PROVE  /\ cmd' \in Command /\ cmd'.pc = how /\ cmd'.seen = bundle /\ cmd'.name = cmd.name
           /\ cmd'.hit = cmd.hit /\ cmd'.creds = cmd.creds /\ cmd'.token = cmd.token
<1> DEFINE e == Ended(how)
<1>1. e \in Command /\ Told(e, cmd) /\ e.pc = how /\ e.hit = cmd.hit
  BY Typed, EndedFields
<1>2. cmd' = [e EXCEPT !.seen = bundle]
  BY DEF SeeLast
<1> HIDE DEF e
<1> QED BY <1>1, <1>2 DEF Command, Told

Calling == {"submit", "poll", "wallets", "call"}

\* A call that is not answered ends the command; only one whose credentials
\* are not good is turned away.
LEMMA CallOver ==
    ASSUME CliInv, cmd.pc \in Calling, vendored' = vendored, profile' = profile, keys' = keys,
           cluster' \in Cluster,
           \/ NoFault /\ End("failed")
           \/ NoFault /\ ~Known /\ End("refused")
           \/ Fault /\ EndHit
    PROVE  CliInv'
<1>1. cmd.name \in {"up", "call"} /\ cmd.pc # "save"
  BY DEF Calling, CliInv, Stands, Owner, UpPc
<1>2. CASE NoFault /\ End("failed")
  BY <1>1, <1>2, Typed, ErrorOver
<1>3. CASE NoFault /\ ~Known /\ End("refused")
  <2>1. /\ cmd' \in Command /\ Told(cmd', cmd) /\ cmd'.pc = "refused" /\ cmd'.hit = cmd.hit
        /\ cmd'.pc \in EndPc
    BY <1>3, Typed, EndFields DEF EndPc
  <2>2. TypeOK' /\ KeysPaid'
    BY <1>1, <1>3, <2>1, Typed, LeftAlone
  <2>3. cmd.name = "up" /\ cmd.creds = "none" => cmd.hit
    BY <1>3, Typed DEF CliInv, Stands, Owner, Healed, Calling, Known, Command
  <2>4. BootstrapDelivers' /\ BootstrapRecovers' /\ UpAuthenticated' /\ UpTruthful'
    BY <1>1, <2>1, <2>3 DEF BootstrapDelivers, BootstrapRecovers, UpAuthenticated, UpTruthful,
       Told
  <2> QED BY <2>1, <2>2, <2>4, AtItsEnd
<1>4. CASE Fault /\ EndHit
  BY <1>4, Typed, EndHitOver
<1> QED BY <1>2, <1>3, <1>4

\* environment.create: a row of that name, or an error.
LEMMA UpCreateKeeps == CliInv /\ UpCreate => CliInv'
<1> SUFFICES ASSUME CliInv, UpCreate PROVE CliInv'
  OBVIOUS
<1>1. /\ cmd.pc = "submit" /\ cmd.pc \in Calling /\ vendored' = vendored /\ profile' = profile
      /\ keys' = keys /\ "poll" \in CommandPc
  BY DEF UpCreate, At, Calling, CommandPc, UpPc
<1> DEFINE env == [NoEnvironment EXCEPT !.status = "provisioning"]
<1>2. env \in Environment
  BY DEF NoEnvironment, Environment
<1> HIDE DEF env
<1>3. cluster' = cluster \/ SetEnv(env) => cluster' \in Cluster
  BY <1>2, Typed, EnvSet
<1>4. CASE NoFault /\ SetEnv(env) /\ Goto("poll")
  <2>1. cmd' \in Command /\ Carried /\ cmd'.pc = "poll" /\ cmd'.hit = cmd.hit
    BY <1>1, <1>4, WentOn
  <2>2. TypeOK' /\ KeysPaid'
    BY <1>1, <1>3, <1>4, <2>1, Typed, LeftAlone
  <2>3. Serving(cluster') = Serving(cluster)
    BY <1>2, <1>4, EnvSet
  <2>4. Stands'
    BY <1>1, <2>1, <2>3 DEF CliInv, Stands, Owner, Minted, Built, Undisturbed, Healed, Reported,
       Carried, CommandPc, BootstrapPc, UpPc, Installing
  <2> QED BY <1>1, <2>1, <2>2, <2>4, OnItsWay
<1>5. CASE /\ cluster' = cluster \/ SetEnv(env)
           /\ \/ NoFault /\ End("failed")
              \/ NoFault /\ ~Known /\ End("refused")
              \/ Fault /\ EndHit
  BY <1>1, <1>3, <1>5, CallOver
<1> QED BY <1>4, <1>5 DEF UpCreate, Call, env

\* poll_get of an environment that is there: what is seen is an answer.
LEMMA SeenOn ==
    ASSUME CliInv, cmd.pc \in {"poll", "wallets"}, NEW pc \in {"poll", "wallets", "dashboard"},
           vendored' = vendored, profile' = profile, keys' = keys, NoFault,
           SetEnv(Promoted(Env)), See(Answer, pc),
           pc = "dashboard" => Answer.wallets = Wallet
    PROVE  CliInv'
<1>1. pc \in CommandPc
  BY DEF CommandPc, UpPc
<1>2. /\ cmd' \in Command /\ cmd'.pc = pc /\ cmd'.seen = Answer /\ cmd'.name = cmd.name
      /\ cmd'.hit = cmd.hit /\ cmd'.creds = cmd.creds /\ cmd'.token = cmd.token
      /\ cmd'.failed = cmd.failed
  BY <1>1, EnvironmentsTyped, SeeFields
<1>3. cluster' \in Cluster /\ Serving(cluster') = Serving(cluster)
  BY EnvironmentsTyped, EnvSet
<1>4. TypeOK' /\ KeysPaid'
  BY <1>2, <1>3, Typed, LeftAlone
<1>5. Stands'
  BY <1>2, <1>3, EnvironmentsTyped DEF CliInv, Stands, Owner, Minted, Built, Undisturbed, Healed,
     Reported, CommandPc, BootstrapPc, UpPc, Installing
<1> QED BY <1>1, <1>2, <1>4, <1>5, OnItsWay

\* What up reports is the answer it has just seen, so a report of success
\* is true.
LEMMA SeenLast ==
    ASSUME CliInv, cmd.pc \in {"poll", "wallets"}, NEW how \in {"ok", "failed", "timeout"},
           vendored' = vendored, profile' = profile, keys' = keys, NoFault,
           SetEnv(Promoted(Env)), SeeLast(Answer, how),
           how = "ok" => Answer.wallets = Wallet
    PROVE  CliInv'
<1>1. how \in EndPc
  BY DEF EndPc
<1>2. /\ cmd' \in Command /\ cmd'.pc = how /\ cmd'.seen = Answer /\ cmd'.name = cmd.name
      /\ cmd'.hit = cmd.hit /\ cmd'.creds = cmd.creds /\ cmd'.token = cmd.token
  BY <1>1, EnvironmentsTyped, SeeLastFields
<1>3. cluster' \in Cluster
  BY EnvironmentsTyped, EnvSet
<1>4. TypeOK' /\ KeysPaid'
  BY <1>2, <1>3, Typed, LeftAlone
<1>5. cmd.name = "up" /\ (~cmd.hit /\ cmd.creds = "none" => cmd.token = "live")
  BY DEF CliInv, Stands, Owner, Healed, UpPc
<1>6. BootstrapDelivers' /\ BootstrapRecovers' /\ UpAuthenticated' /\ UpTruthful'
  BY <1>2, <1>5, EnvironmentsTyped DEF BootstrapDelivers, BootstrapRecovers, UpAuthenticated,
     UpTruthful
<1> QED BY <1>1, <1>2, <1>4, <1>6, AtItsEnd

\* The wait for readiness.
LEMMA PollKeeps == CliInv /\ Poll => CliInv'
<1> SUFFICES ASSUME CliInv, Poll PROVE CliInv'
  OBVIOUS
<1>1. cmd.pc = "poll" /\ vendored' = vendored /\ profile' = profile /\ keys' = keys
      /\ cmd.name = "up" /\ cmd.pc \in Calling
  BY DEF Poll, At, CliInv, Stands, Owner, UpPc, Calling
<1>2. cluster' = cluster \/ SetEnv(Promoted(Env)) => cluster' \in Cluster
  BY Typed, EnvironmentsTyped, EnvSet
<1>3. CASE End("timeout") /\ NoFault /\ UNCHANGED cluster
  BY <1>1, <1>3, Typed, ErrorOver
<1>4. CASE NoFault /\ SetEnv(Promoted(Env)) /\ \E pc \in {"poll", "wallets"} : See(Answer, pc)
  BY <1>1, <1>4, SeenOn
<1>5. CASE NoFault /\ SetEnv(Promoted(Env)) /\ SeeLast(Answer, "failed")
  BY <1>1, <1>5, SeenLast
<1>6. CASE /\ cluster' = cluster \/ SetEnv(Promoted(Env))
           /\ \/ NoFault /\ End("failed")
              \/ NoFault /\ ~Known /\ End("refused")
              \/ Fault /\ EndHit
  BY <1>1, <1>2, <1>6, CallOver
<1> QED BY <1>3, <1>4, <1>5, <1>6 DEF Poll, Get, Call

\* The wait for the wallets ends with all of them in one answer.
LEMMA WalletsKeeps == CliInv /\ Wallets => CliInv'
<1> SUFFICES ASSUME CliInv, Wallets PROVE CliInv'
  OBVIOUS
<1>1. cmd.pc = "wallets" /\ vendored' = vendored /\ profile' = profile /\ keys' = keys
      /\ cmd.pc \in Calling
  BY DEF Wallets, At, Calling
<1>2. cluster' = cluster \/ SetEnv(Promoted(Env)) => cluster' \in Cluster
  BY Typed, EnvironmentsTyped, EnvSet
<1>3. CASE NoFault /\ SetEnv(Promoted(Env)) /\ Answer.wallets = Wallet /\ See(Answer, "dashboard")
  BY <1>1, <1>3, SeenOn
<1>4. CASE NoFault /\ SetEnv(Promoted(Env)) /\ Answer.wallets = Wallet /\ SeeLast(Answer, "ok")
  BY <1>1, <1>4, SeenLast
<1>5. CASE NoFault /\ SetEnv(Promoted(Env)) /\ SeeLast(Answer, "timeout")
  BY <1>1, <1>5, SeenLast
<1>6. CASE NoFault /\ SetEnv(Promoted(Env)) /\ See(Answer, "wallets")
  BY <1>1, <1>6, SeenOn
<1>7. CASE /\ cluster' = cluster \/ SetEnv(Promoted(Env))
           /\ \/ NoFault /\ End("failed")
              \/ NoFault /\ ~Known /\ End("refused")
              \/ Fault /\ EndHit
  BY <1>1, <1>2, <1>7, CallOver
<1> QED BY <1>3, <1>4, <1>5, <1>6, <1>7 DEF Wallets, Done, Get, Call

\* open_dashboard: the token it hands on is the one that was just healed.
LEMMA DashboardKeeps == CliInv /\ Dashboard => CliInv'
<1> SUFFICES ASSUME CliInv, Dashboard PROVE CliInv'
  OBVIOUS
<1>1. /\ cmd.pc = "dashboard" /\ vendored' = vendored /\ cluster' = cluster /\ profile' = profile
      /\ keys' = keys /\ cmd.name = "up"
  BY DEF Dashboard, At, CliInv, Stands, Owner, UpPc
<1>2. cmd.seen.status = "ready" /\ cmd.seen.wallets = Wallet
  BY <1>1 DEF CliInv, Stands, Reported
<1>3. ~cmd.hit /\ cmd.creds = "none" =>
         profile.state = "whole" /\ profile.token = "live" /\ cmd.token = "live"
  BY <1>1 DEF CliInv, Stands, Healed
<1>4. ASSUME NEW token \in Token, cmd' = [Ended("ok") EXCEPT !.token = token], NoFault,
             ~cmd.hit /\ cmd.creds = "none" => token = "live"
      PROVE  CliInv'
  <2> DEFINE e == Ended("ok")
  <2>1. e \in Command /\ Told(e, cmd) /\ e.pc = "ok" /\ e.hit = cmd.hit
    BY Typed, EndedFields DEF EndPc
  <2>2. cmd' = [e EXCEPT !.token = token]
    BY <1>4
  <2> HIDE DEF e
  <2>3. /\ cmd' \in Command /\ cmd'.pc = "ok" /\ cmd'.name = cmd.name /\ cmd'.hit = cmd.hit
        /\ cmd'.creds = cmd.creds /\ cmd'.seen = cmd.seen /\ cmd'.token = token
        /\ cmd'.pc \in EndPc
    BY <2>1, <2>2 DEF Command, Told, EndPc
  <2>4. TypeOK' /\ KeysPaid'
    BY <1>1, <1>4, <2>3, Typed, LeftAlone
  <2>5. BootstrapDelivers' /\ BootstrapRecovers' /\ UpAuthenticated' /\ UpTruthful'
    BY <1>1, <1>2, <1>4, <2>3 DEF BootstrapDelivers, BootstrapRecovers, UpAuthenticated, UpTruthful
  <2> QED BY <2>3, <2>4, <2>5, AtItsEnd
<1>5. CASE NoFault /\ End("ok")
  <2>1. /\ cmd' \in Command /\ Told(cmd', cmd) /\ cmd'.pc = "ok" /\ cmd'.hit = cmd.hit
        /\ cmd'.pc \in EndPc
    BY <1>5, Typed, EndFields DEF EndPc
  <2>2. TypeOK' /\ KeysPaid'
    BY <1>1, <1>5, <2>1, Typed, LeftAlone
  <2>3. BootstrapDelivers' /\ BootstrapRecovers' /\ UpAuthenticated' /\ UpTruthful'
    BY <1>1, <1>2, <1>3, <2>1 DEF BootstrapDelivers, BootstrapRecovers, UpAuthenticated,
       UpTruthful, Told
  <2> QED BY <2>1, <2>2, <2>3, AtItsEnd
<1>6. CASE NoFault /\ cmd.creds = "empty" /\ cmd' = [Ended("ok") EXCEPT !.token = "none"]
  BY <1>4, <1>6 DEF Token
<1>7. CASE NoFault /\ cmd' = [Ended("ok") EXCEPT !.token = profile.token]
  BY <1>3, <1>4, <1>7, Typed DEF Profile
<1>8. CASE NoFault /\ cmd' = [Ended("ok") EXCEPT !.token = "live"]
  BY <1>4, <1>8 DEF Token
<1>9. CASE NoFault /\ End("failed")
  BY <1>1, <1>9, Typed, ErrorOver
<1>10. CASE Fault /\ EndHit
  BY <1>1, <1>10, Typed, EndHitOver
<1>11. NoFault => \/ End("ok") \/ End("failed")
                  \/ cmd.creds = "empty" /\ cmd' = [Ended("ok") EXCEPT !.token = "none"]
                  \/ cmd' = [Ended("ok") EXCEPT !.token = profile.token]
                  \/ cmd' = [Ended("ok") EXCEPT !.token = "live"]
                  \/ Fault /\ EndHit
                  \/ Fault /\ cmd' = [Ended("ok") EXCEPT !.token = "live", !.hit = TRUE]
  BY DEF Dashboard, Works
<1>12. CASE Fault /\ cmd' = [Ended("ok") EXCEPT !.token = "live", !.hit = TRUE]
  <2> DEFINE e == Ended("ok")
  <2>1. e \in Command /\ Told(e, cmd) /\ e.pc = "ok"
    BY Typed, EndedFields DEF EndPc
  <2>2. cmd' = [e EXCEPT !.token = "live", !.hit = TRUE]
    BY <1>12
  <2> HIDE DEF e
  <2>3. /\ cmd' \in Command /\ cmd'.pc = "ok" /\ cmd'.name = cmd.name /\ cmd'.hit
        /\ cmd'.seen = cmd.seen /\ cmd'.pc \in EndPc
    BY <2>1, <2>2 DEF Command, Told, EndPc, Token
  <2>4. TypeOK' /\ KeysPaid'
    BY <1>1, <1>12, <2>3, Typed, LeftAlone
  <2>5. BootstrapDelivers' /\ BootstrapRecovers' /\ UpAuthenticated' /\ UpTruthful'
    BY <1>1, <1>2, <2>3 DEF BootstrapDelivers, BootstrapRecovers, UpAuthenticated, UpTruthful
  <2> QED BY <2>3, <2>4, <2>5, AtItsEnd
<1> QED BY <1>5, <1>6, <1>7, <1>8, <1>9, <1>10, <1>11, <1>12 DEF Dashboard, Works

-----------------------------------------------------------------------------
(* Commands of one call, and what happens around a command. *)

\* A command of one call reads its credentials, and promises nothing by it.
LEMMA CallClientKeeps == CliInv /\ CallClient => CliInv'
<1> SUFFICES ASSUME CliInv, CallClient PROVE CliInv'
  OBVIOUS
<1>1. /\ cmd.pc = "credentials" /\ vendored' = vendored /\ cluster' = cluster
      /\ profile' = profile /\ keys' = keys /\ cmd.name = "call"
      /\ "call" \in CommandPc
  BY DEF CallClient, At, CliInv, Stands, Owner, CommandPc
<1>2. CASE NoFault /\ Goto("call")
  <2>1. cmd' \in Command /\ Carried /\ cmd'.pc = "call" /\ cmd'.hit = cmd.hit
    BY <1>1, <1>2, WentOn
  <2>2. Stands'
    BY <1>1, <2>1 DEF CliInv, Stands, Owner, Minted, Built, Undisturbed, Healed, Reported,
       Carried, CommandPc, BootstrapPc, UpPc, Installing
  <2> QED BY <1>1, <1>2, <2>2, Typed, Onward
<1>3. CASE NoFault /\ cmd' = [cmd EXCEPT !.pc = "call", !.token = profile.token]
  <2>1. /\ cmd' \in Command /\ cmd'.pc = "call" /\ cmd'.name = cmd.name
        /\ cmd'.hit = cmd.hit /\ cmd'.failed = cmd.failed
    BY <1>1, <1>3, Typed DEF Command, Profile
  <2>2. TypeOK' /\ KeysPaid'
    BY <1>1, <1>3, <2>1, Typed, LeftAlone
  <2>3. Stands'
    BY <1>1, <2>1 DEF CliInv, Stands, Owner, Minted, Built, Undisturbed, Healed, Reported,
       CommandPc, BootstrapPc, UpPc, Installing
  <2> QED BY <1>1, <2>1, <2>2, <2>3, OnItsWay
<1>4. CASE NoFault /\ End("failed")
  BY <1>1, <1>4, Typed, ErrorOver
<1>5. CASE Fault /\ EndHit
  BY <1>1, <1>5, Typed, EndHitOver
<1> QED BY <1>2, <1>3, <1>4, <1>5 DEF CallClient, Works, Credentials

\* A command that is neither a bootstrap nor an up has promised nothing.
LEMMA OtherOver ==
    ASSUME CliInv, cmd.name \in {"call", "token"}, cmd.pc # "save", NoFault, End("ok"),
           vendored' = vendored, profile' = profile, keys' = keys, cluster' \in Cluster
    PROVE  CliInv'
<1>1. cmd' \in Command /\ Told(cmd', cmd) /\ cmd'.pc = "ok" /\ cmd'.pc \in EndPc
  BY Typed, EndFields DEF EndPc
<1>2. TypeOK' /\ KeysPaid'
  BY <1>1, Typed, LeftAlone
<1>3. BootstrapDelivers' /\ BootstrapRecovers' /\ UpAuthenticated' /\ UpTruthful'
  BY <1>1 DEF BootstrapDelivers, BootstrapRecovers, UpAuthenticated, UpTruthful, Told
<1> QED BY <1>1, <1>2, <1>3, AtItsEnd

\* Any other command: one call that leaves the cluster with an environment.
LEMMA OneCallKeeps == CliInv /\ OneCall => CliInv'
<1> SUFFICES ASSUME CliInv, OneCall PROVE CliInv'
  OBVIOUS
<1>1. /\ cmd.pc = "call" /\ vendored' = vendored /\ profile' = profile /\ keys' = keys
      /\ cmd.name = "call" /\ cmd.pc \in Calling
  BY DEF OneCall, At, CliInv, Stands, Owner, Calling
<1>2. After(Env) \subseteq Environment
  <2>1. Env \in Environment /\ Promoted(Env) \in Environment
    BY EnvironmentsTyped
  <2>2. \A s \in {"stopped", "destroyed", "provisioning"} :
           [Env EXCEPT !.status = s] \in Environment
    BY <2>1 DEF Environment
  <2>3. NoEnvironment \in Environment
    BY DEF Environment, NoEnvironment
  <2> QED BY <2>1, <2>2, <2>3 DEF After
<1>3. PICK env \in After(Env) : Call((End("ok") \/ End("failed")) /\ SetEnv(env), SetEnv(env))
  BY DEF OneCall
<1>4. cluster' = cluster \/ SetEnv(env) => cluster' \in Cluster
  BY <1>2, Typed, EnvSet
<1>5. CASE NoFault /\ End("ok") /\ SetEnv(env)
  BY <1>1, <1>4, <1>5, OtherOver
<1>6. CASE /\ cluster' = cluster \/ SetEnv(env)
           /\ \/ NoFault /\ End("failed")
              \/ NoFault /\ ~Known /\ End("refused")
              \/ Fault /\ EndHit
  BY <1>1, <1>4, <1>6, CallOver
<1> QED BY <1>3, <1>5, <1>6 DEF Call

\* token mints with a key and prints: it promises nothing of what is installed.
LEMMA IssueKeeps == CliInv /\ Issue => CliInv'
<1> SUFFICES ASSUME CliInv, Issue PROVE CliInv'
  OBVIOUS
<1>1. /\ cmd.pc = "issue" /\ vendored' = vendored /\ cluster' = cluster /\ profile' = profile
      /\ keys' = keys /\ cmd.name = "token"
  BY DEF Issue, At, CliInv, Stands, Owner
<1>2. CASE NoFault /\ End("ok")
  BY <1>1, <1>2, Typed, OtherOver
<1>3. CASE NoFault /\ End("failed")
  BY <1>1, <1>3, Typed, ErrorOver
<1>4. CASE Fault /\ EndHit
  BY <1>1, <1>4, Typed, EndHitOver
<1> QED BY <1>2, <1>3, <1>4 DEF Issue, Works

\* The deadline passes while up waits.
LEMMA DeadlineKeeps == CliInv /\ DeadlinePasses => CliInv'
<1> SUFFICES ASSUME CliInv, DeadlinePasses PROVE CliInv'
  OBVIOUS
<1>1. /\ vendored' = vendored /\ cluster' = cluster /\ profile' = profile /\ keys' = keys
      /\ NoFault /\ cmd.pc \in {"submit", "poll", "wallets"}
      /\ cmd' = [cmd EXCEPT !.late = TRUE]
  BY DEF DeadlinePasses, NoFault
<1>2. /\ cmd' \in Command /\ cmd'.pc = cmd.pc /\ cmd'.name = cmd.name /\ cmd'.hit = cmd.hit
      /\ cmd'.creds = cmd.creds /\ cmd'.token = cmd.token /\ cmd'.failed = cmd.failed
      /\ cmd'.pc \in CommandPc
  BY <1>1, Typed DEF Command, CommandPc, UpPc
<1>3. TypeOK' /\ KeysPaid'
  BY <1>1, <1>2, Typed, LeftAlone
<1>4. Stands'
  BY <1>1, <1>2 DEF CliInv, Stands, Owner, Minted, Built, Undisturbed, Healed, Reported,
     CommandPc, BootstrapPc, UpPc, Installing
<1> QED BY <1>2, <1>3, <1>4, OnItsWay

\* A new command starts with nothing in memory.
LEMMA BeginKeeps == CliInv /\ Begin => CliInv'
<1> SUFFICES ASSUME CliInv, Begin PROVE CliInv'
  OBVIOUS
<1>1. /\ vendored' = vendored /\ cluster' = cluster /\ profile' = profile /\ keys' = keys
      /\ NoFault /\ cmd.pc \in EndPc /\ cmd.pc # "save"
  BY DEF Begin, Running, NoFault, EndPc
<1>2. NoCommand \in Command /\ ~NoCommand.hit /\ ~NoCommand.failed
  BY ClustersTyped DEF NoCommand, Command, EndPc, Creds, Token
<1>3. ASSUME NEW name \in {"bootstrap", "teardown", "up", "call", "token"},
             cmd' \in Command, cmd'.name = name, cmd'.pc = First(name), ~cmd'.hit, ~cmd'.failed
      PROVE  CliInv'
  <2>1. /\ name = "bootstrap" => cmd'.pc = "tools"
        /\ name = "teardown" => cmd'.pc = "teardown"
        /\ name = "up" => cmd'.pc = "reach"
        /\ name = "call" => cmd'.pc = "credentials"
        /\ name = "token" => cmd'.pc = "issue"
    BY <1>3 DEF First
  <2>2. cmd'.pc \in CommandPc /\ cmd'.pc # "mint"
    BY <1>3, <2>1 DEF CommandPc, BootstrapPc, UpPc
  <2>3. TypeOK' /\ KeysPaid'
    BY <1>1, <1>3, <2>2, Typed, LeftAlone
  <2>4. Stands'
    BY <1>3, <2>1 DEF Stands, Owner, Minted, Built, Undisturbed, Healed, Reported, CommandPc,
       BootstrapPc, UpPc, Installing
  <2> QED BY <2>2, <2>3, <2>4, OnItsWay
<1> HIDE DEF First
<1>4. ASSUME NEW name \in {"bootstrap", "teardown", "up", "call", "token"}
      PROVE  First(name) \in CommandPc
  BY DEF First, CommandPc, BootstrapPc, UpPc
<1>5. ASSUME NEW name \in {"bootstrap", "teardown"},
             cmd' = [NoCommand EXCEPT !.name = name, !.pc = First(name)]
      PROVE  CliInv'
  <2> DEFINE c == [NoCommand EXCEPT !.name = name]
  <2>1. c \in Command /\ c.name = name /\ ~c.hit /\ ~c.failed
    BY <1>2 DEF Command
  <2>2. cmd' = [c EXCEPT !.pc = First(name)]
    BY <1>5
  <2> HIDE DEF c
  <2>3. cmd' \in Command /\ cmd'.name = name /\ cmd'.pc = First(name) /\ ~cmd'.hit /\ ~cmd'.failed
    BY <1>4, <2>1, <2>2 DEF Command
  <2> QED BY <1>3, <2>3
<1>6. ASSUME NEW n \in {"up", "call", "token"}, NEW c \in Creds, NEW u \in BOOLEAN,
             NEW t \in {"live", "stale"},
             cmd' = [NoCommand EXCEPT !.name = n, !.pc = First(n), !.creds = c, !.ui = u,
                                      !.token = IF c = "token" THEN t ELSE "none"]
      PROVE  CliInv'
  <2> DEFINE c1 == [NoCommand EXCEPT !.name = n]
             c2 == [c1 EXCEPT !.pc = First(n)]
             c3 == [c2 EXCEPT !.creds = c]
             c4 == [c3 EXCEPT !.ui = u]
             c5 == [c4 EXCEPT !.token = IF c = "token" THEN t ELSE "none"]
  <2>1. c1 \in Command /\ c1.name = n /\ ~c1.hit /\ ~c1.failed
    BY <1>2 DEF Command
  <2> HIDE DEF c1
  <2>2. c2 \in Command /\ c2.name = n /\ c2.pc = First(n) /\ ~c2.hit /\ ~c2.failed
    BY <1>4, <2>1 DEF Command
  <2> HIDE DEF c2
  <2>3. c3 \in Command /\ c3.name = n /\ c3.pc = First(n) /\ ~c3.hit /\ ~c3.failed
    BY <2>2 DEF Command
  <2> HIDE DEF c3
  <2>4. c4 \in Command /\ c4.name = n /\ c4.pc = First(n) /\ ~c4.hit /\ ~c4.failed
    BY <2>3 DEF Command
  <2> HIDE DEF c4
  <2>5. c5 \in Command /\ c5.name = n /\ c5.pc = First(n) /\ ~c5.hit /\ ~c5.failed
    BY <2>4 DEF Command, Token
  <2> HIDE DEF c5
  <2>6. cmd' = c5
    BY <1>6 DEF c1, c2, c3, c4, c5
  <2> QED BY <1>3, <2>5, <2>6
<1>7. PICK name \in {"bootstrap", "teardown"} :
         \/ cmd' = [NoCommand EXCEPT !.name = name, !.pc = First(name)]
         \/ \E n \in {"up", "call", "token"}, c \in Creds, u \in BOOLEAN,
               t \in {"live", "stale"} :
            /\ u => n = "up"
            /\ t = "live" => c = "token" /\ Serving(cluster)
            /\ cmd' = [NoCommand EXCEPT !.name = n, !.pc = First(n), !.creds = c, !.ui = u,
                                        !.token = IF c = "token" THEN t ELSE "none"]
  BY DEF Begin
<1>8. CASE cmd' = [NoCommand EXCEPT !.name = name, !.pc = First(name)]
  BY <1>5, <1>8
<1>9. CASE cmd' # [NoCommand EXCEPT !.name = name, !.pc = First(name)]
  <2>1. PICK n \in {"up", "call", "token"}, c \in Creds, u \in BOOLEAN,
             t \in {"live", "stale"} :
            /\ u => n = "up"
            /\ t = "live" => c = "token" /\ Serving(cluster)
            /\ cmd' = [NoCommand EXCEPT !.name = n, !.pc = First(n), !.creds = c, !.ui = u,
                                        !.token = IF c = "token" THEN t ELSE "none"]
    BY <1>7, <1>9
  <2> QED BY <1>6, <2>1
<1> QED BY <1>8, <1>9

\* What becomes of the environment is nothing to the command.
LEMMA EnvironmentMovesKeeps == CliInv /\ EnvironmentMoves => CliInv'
<1> SUFFICES ASSUME CliInv, EnvironmentMoves PROVE CliInv'
  OBVIOUS
<1>1. /\ vendored' = vendored /\ profile' = profile /\ keys' = keys /\ cmd' = cmd
      /\ faults' = faults
  BY DEF EnvironmentMoves
<1>2. Env \in Environment
  BY EnvironmentsTyped
<1>3. \E env \in Environment : SetEnv(env)
  <2>1. [Env EXCEPT !.core = TRUE] \in Environment
    BY <1>2 DEF Environment
  <2>2. \A w \in Wallet : /\ [Env EXCEPT !.wallets = @ \cup {w}] \in Environment
                          /\ [Env EXCEPT !.wallets = @ \ {w}] \in Environment
    BY <1>2 DEF Environment
  <2>3. [Env EXCEPT !.status = "stopped", !.core = FALSE] \in Environment
    BY <1>2 DEF Environment
  <2>4. \A s \in {"expired", "destroyed"} : [NoEnvironment EXCEPT !.status = s] \in Environment
    BY DEF Environment, NoEnvironment
  <2> QED BY <2>1, <2>2, <2>3, <2>4 DEF EnvironmentMoves
<1>4. /\ cluster' \in Cluster /\ Serving(cluster') = Serving(cluster)
      /\ cluster'.exists = cluster.exists /\ cluster'.running = cluster.running
      /\ cluster'.lb = cluster.lb /\ cluster'.images = cluster.images
      /\ cluster'.gateway = cluster.gateway /\ cluster'.api = cluster.api
  BY <1>3, EnvSet
<1>5. KeysPaid'
  BY <1>1, <1>4 DEF CliInv, KeysPaid
<1>6. TypeOK'
  BY <1>1, <1>4, <1>5, Typed, TypedAfter
<1>7. Stands'
  BY <1>1, <1>4 DEF CliInv, Stands, Owner, Minted, Built, Undisturbed, Healed, Reported
<1>8. BootstrapDelivers' /\ BootstrapRecovers' /\ UpAuthenticated' /\ UpTruthful'
  BY <1>1, <1>4 DEF CliInv, BootstrapDelivers, BootstrapRecovers, UpAuthenticated, UpTruthful
<1> QED BY <1>5, <1>6, <1>7, <1>8 DEF CliInv

\* The machine restarts, under a command or between two.
LEMMA RebootKeeps == CliInv /\ Reboot => CliInv'
<1> SUFFICES ASSUME CliInv, Reboot PROVE CliInv'
  OBVIOUS
<1>1. /\ vendored' = vendored /\ profile' = profile /\ keys' = keys
      /\ cluster' = [cluster EXCEPT !.running = FALSE]
      /\ cmd' = IF Running THEN [cmd EXCEPT !.hit = TRUE] ELSE NoCommand
  BY DEF Reboot
<1>2. /\ faults \in Nat /\ faults' \in 0..MaxFaults /\ faults' = faults + 1
      /\ keys \in Nat /\ keys <= faults + 1
  BY Typed DEF Reboot, Fault
<1>3. /\ cluster' \in Cluster /\ cluster'.lb = cluster.lb /\ cluster'.images = cluster.images
      /\ cluster'.gateway = cluster.gateway /\ cluster'.api = cluster.api
  BY <1>1, Typed DEF Cluster
<1>4. CASE Running
  <2>1. /\ cmd' \in Command /\ Carried /\ cmd'.pc = cmd.pc /\ cmd'.hit /\ cmd.pc \in CommandPc
    BY <1>1, <1>4, Typed DEF Command, Carried, Running
  <2>2. profile.state # "whole" /\ cmd.pc # "save" => keys <= faults
    BY DEF CliInv, KeysPaid
  <2>3. KeysPaid'
    BY <1>1, <1>2, <2>1, <2>2 DEF KeysPaid
  <2>4. TypeOK'
    BY <1>1, <1>2, <1>3, <2>1, <2>3, Typed, TypedAfter
  <2>5. Stands'
    BY <1>1, <1>3, <2>1 DEF CliInv, Stands, Owner, Minted, Built, Undisturbed, Healed, Reported,
       Carried, CommandPc
  <2> QED BY <2>1, <2>3, <2>4, <2>5, OnItsWay
<1>5. CASE ~Running
  <2>1. cmd' \in Command /\ cmd'.pc = "ok" /\ cmd'.name = "none" /\ cmd'.pc \in EndPc
    BY <1>1, <1>5, ClustersTyped DEF NoCommand, Command, EndPc, Creds, Token
  <2>2. KeysPaid'
    BY <1>1, <1>2, <2>1 DEF KeysPaid
  <2>3. TypeOK'
    BY <1>1, <1>2, <1>3, <2>1, <2>2, Typed, TypedAfter
  <2>4. BootstrapDelivers' /\ BootstrapRecovers' /\ UpAuthenticated' /\ UpTruthful'
    BY <2>1 DEF BootstrapDelivers, BootstrapRecovers, UpAuthenticated, UpTruthful
  <2> QED BY <2>1, <2>2, <2>3, <2>4, AtItsEnd
<1> QED BY <1>4, <1>5

-----------------------------------------------------------------------------
(* The theorems. *)

\* Nothing is installed and no command has run: nothing has been promised.
LEMMA CliStart == LocalInit => CliInv
<1> SUFFICES ASSUME LocalInit PROVE CliInv
  OBVIOUS
<1>1. /\ NoCommand \in Command /\ NoCommand.pc = "ok" /\ NoCommand.name = "none"
      /\ NoCommand.pc \in EndPc
  BY ClustersTyped DEF NoCommand, Command, EndPc, Creds, Token
<1>2. vendored \in [Tool -> Copy] /\ cmd = NoCommand /\ faults = 0 /\ MaxFaults \in Nat
  BY LocalAssumption DEF LocalInit, Tool, Copy
<1>3. Whole(1, "live") \in Profile /\ Whole(1, "live").key \in Key /\ Whole(1, "live").state = "whole"
      /\ NoProfile \in Profile /\ NoProfile.state = "none"
  BY <1>2 DEF Whole, NoProfile, Profile, Key, Token
<1>4. /\ cluster \in Cluster /\ profile \in Profile /\ (profile.state = "whole" => profile.key \in Key)
      /\ \/ keys = 1 /\ profile.state = "whole"
         \/ keys = 0
  BY <1>3, ClustersTyped DEF LocalInit
<1>5. KeysPaid
  BY <1>1, <1>2, <1>4 DEF KeysPaid
<1>6. TypeOK
  BY <1>1, <1>2, <1>4, <1>5 DEF TypeOK
<1>7. Stands
  BY <1>1, <1>2 DEF Stands, Owner, Minted, Built, Undisturbed, Healed, Reported, EndPc, CommandPc,
     BootstrapPc, UpPc, Installing
<1>8. BootstrapDelivers /\ BootstrapRecovers /\ UpAuthenticated /\ UpTruthful
  BY <1>1, <1>2 DEF BootstrapDelivers, BootstrapRecovers, UpAuthenticated, UpTruthful
<1> QED BY <1>5, <1>6, <1>7, <1>8 DEF CliInv

\* One step of a command, of the cluster or of an owner.
LEMMA CliKept == CliInv /\ [CliNext]_localVars => CliInv'
<1>1. CliInv /\ BootstrapStep => CliInv'
  BY PrerequisitesKeeps, GetClusterKeeps, InspectKeeps, DeleteClusterKeeps, CreateClusterKeeps,
     StartClusterKeeps, WaitForNodeKeeps, EnsureImagesKeeps, InstallGatewayKeeps,
     DeployStackKeeps, WaitApiKeeps, EnsureProfileKeeps, SaveProfileKeeps DEF BootstrapStep
<1>2. CliInv /\ UpStep => CliInv'
  BY ReachKeeps, HealKeeps, RefreshKeeps, UpClientKeeps, UpCreateKeeps, PollKeeps, WalletsKeeps,
     DashboardKeeps DEF UpStep
<1>3. CliInv /\ UNCHANGED localVars => CliInv'
  <2> SUFFICES ASSUME CliInv, UNCHANGED localVars PROVE CliInv'
    OBVIOUS
  <2>1. /\ vendored' = vendored /\ cluster' = cluster /\ profile' = profile /\ keys' = keys
        /\ cmd' = cmd /\ faults' = faults
    BY DEF localVars
  <2>2. TypeOK' /\ KeysPaid'
    BY <2>1 DEF CliInv, TypeOK, KeysPaid
  <2>3. Stands'
    BY <2>1 DEF CliInv, Stands, Owner, Minted, Built, Undisturbed, Healed, Reported
  <2>4. BootstrapDelivers' /\ BootstrapRecovers' /\ UpAuthenticated' /\ UpTruthful'
    BY <2>1 DEF CliInv, BootstrapDelivers, BootstrapRecovers, UpAuthenticated, UpTruthful
  <2> QED BY <2>2, <2>3, <2>4 DEF CliInv
<1> QED BY <1>1, <1>2, <1>3, BeginKeeps, TeardownKeeps, CallClientKeeps, OneCallKeeps, IssueKeeps,
           DeadlineKeeps, EnvironmentMovesKeeps, RebootKeeps DEF CliNext, CommandStep

\* The invariant of all theorems.
THEOREM CliInvariant == CliSpec => []CliInv
<1> QED BY CliStart, CliKept, PTL DEF CliSpec

\* Everything has its type; in particular no command sequence with that many
\* faults generates more identities than faults and one (profile.rs
\* ensure_with).
THEOREM CliTyped == CliSpec => []TypeOK
<1>1. CliInv => TypeOK
  BY DEF CliInv
<1> QED BY <1>1, CliInvariant, PTL

\* A bootstrap that says it is done has left the whole stack and a token that
\* is good, for every set of images and whatever was there before (local.rs
\* bootstrap, profile.rs ensure_with).
THEOREM BootstrapAlwaysDelivers == CliSpec => []BootstrapDelivers
<1>1. CliInv => BootstrapDelivers
  BY DEF CliInv
<1> QED BY <1>1, CliInvariant, PTL

\* The next bootstrap gets over what a killed command left, but for a tool
\* that cannot be run, after any number of faults (local.rs tool,
\* ensure_cluster).
THEOREM BootstrapAlwaysRecovers == CliSpec => []BootstrapRecovers
<1>1. CliInv => BootstrapRecovers
  BY DEF CliInv
<1> QED BY <1>1, CliInvariant, PTL

\* `up` with the credentials of the profile is not turned away (main.rs
\* heal_stale_token, open_dashboard).
THEOREM UpAlwaysAuthenticated == CliSpec => []UpAuthenticated
<1>1. CliInv => UpAuthenticated
  BY DEF CliInv
<1> QED BY <1>1, CliInvariant, PTL

\* What `up` reports in the end was ready with all its wallets in one answer,
\* for every set of wallets (main.rs up, rpc.rs lightning_connections).
THEOREM UpAlwaysTruthful == CliSpec => []UpTruthful
<1>1. CliInv => UpTruthful
  BY DEF CliInv
<1> QED BY <1>1, CliInvariant, PTL

\* A stored identity is lost only to a fault on the file itself, whatever the
\* images, the tools and the number of faults (profile.rs ensure_with,
\* save_to, refresh_token).
THEOREM IdentityAlwaysKept == CliSpec => IdentityKept
<1>1. CliInv /\ [CliNext]_localVars =>
         [\A k \in Key : Keeps(k) /\ ~Keeps(k)' =>
             \/ cmd.pc \in {"save", "refresh"} /\ faults' > faults
             \/ cmd.pc = "save" /\ cmd.unread]_localVars
  <2> SUFFICES ASSUME CliInv, [CliNext]_localVars, NEW k \in Key, Keeps(k), ~Keeps(k)'
               PROVE  \/ cmd.pc \in {"save", "refresh"} /\ faults' > faults
                      \/ cmd.pc = "save" /\ cmd.unread
    OBVIOUS
  <2>0. profile.state = "whole" /\ profile.key = k
    BY DEF Keeps
  <2>1. ~(profile'.state = "whole" /\ profile'.key = k)
    BY DEF Keeps
  <2>2. profile' # profile
    BY <2>0, <2>1
  <2>3. ~Gone
    BY <2>0, <2>1, GoneFields, Typed
  <2>4. Fault => faults' > faults
    BY Typed DEF Fault
  <2>5. CASE SaveProfile
    <3>1. cmd.pc = "save"
      BY <2>5 DEF SaveProfile, At
    <3>2. CASE profile' = Whole(cmd.key, cmd.token)
      <4>1. cmd.key # profile.key
        BY <2>0, <2>1, <3>2 DEF Whole
      <4> QED BY <2>0, <3>1, <4>1 DEF CliInv, Stands, Minted
    <3> QED BY <2>4, <2>5, <3>1, <3>2 DEF SaveProfile
  <2>6. CASE Refresh
    <3>1. profile' # Whole(profile.key, cmd.token)
      BY <2>0, <2>1 DEF Whole
    <3> QED BY <2>4, <2>6, <3>1 DEF Refresh, At
  <2>7. BootstrapStep => profile' = profile \/ Gone \/ SaveProfile
    BY DEF BootstrapStep, Prerequisites, GetCluster, Inspect, DeleteCluster, Delete, CreateCluster,
       StartCluster, WaitForNode, EnsureImages, InstallGateway, DeployStack, Install, WaitApi,
       EnsureProfile
  <2>8. Teardown => profile' = profile \/ Gone
    BY DEF Teardown, Delete
  <2>9. UpStep => profile' = profile \/ Refresh
    BY DEF UpStep, Reach, Heal, UpClient, UpCreate, Poll, Wallets, Dashboard
  <2>10. Begin \/ CallClient \/ OneCall \/ Issue \/ DeadlinePasses \/ EnvironmentMoves \/ Reboot
            \/ UNCHANGED localVars => profile' = profile
    BY DEF Begin, CallClient, OneCall, Issue, DeadlinePasses, EnvironmentMoves, Reboot, localVars
  <2> QED BY <2>2, <2>3, <2>5, <2>6, <2>7, <2>8, <2>9, <2>10 DEF CliNext, CommandStep
<1> QED BY <1>1, CliInvariant, PTL DEF CliSpec, IdentityKept
=============================================================================
