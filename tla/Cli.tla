--------------------------------- MODULE Cli ---------------------------------
(***************************************************************************)
(* The commands of the CLI against the local stack (signet-cli main.rs,    *)
(* auth.rs, rpc.rs): `up`, which bootstraps, heals a stale token, creates  *)
(* an environment and waits for it, and the commands of one call.  What    *)
(* the API answers is environment_get and its bundle (signet-api rpc.rs);  *)
(* around a command, pods start and die, others act on the environment,    *)
(* the machine restarts.                                                   *)
(*                                                                         *)
(* Abstracted: the API the CLI talks to is the local one, the environment  *)
(* has one name, a deadline is a point in time that comes.                 *)
(***************************************************************************)
EXTENDS Local

\* Credentials of the command line: none, an empty token, a token, a secret
\* key of the user.
Creds == {"none", "empty", "token", "nsec"}

UpPc == {"reach", "heal", "refresh", "client", "submit", "poll", "wallets", "dashboard"}
CommandPc == BootstrapPc \cup UpPc \cup {"teardown", "credentials", "call", "issue"}
EndPc == {"ok", "failed", "refused", "timeout"}

Command == [name: {"none", "bootstrap", "teardown", "up", "call", "token"},
            pc: CommandPc \cup EndPc, creds: Creds, ui: BOOLEAN,
            key: Key \cup {None}, token: Token, todo: SUBSET Image,
            failed: BOOLEAN, late: BOOLEAN,
            seen: Environment,  \* the last bundle
            hit: BOOLEAN,       \* ghost: a fault fell into it
            unread: BOOLEAN]    \* ghost: it failed to read a whole profile

TypeOK ==
    /\ vendored \in [Tool -> Copy]
    /\ cluster \in Cluster
    /\ profile \in Profile /\ (profile.state = "whole" => profile.key \in Key)
    /\ keys \in 0..MaxFaults + 1
    /\ cmd \in Command
    /\ faults \in 0..MaxFaults

Running == cmd.pc \notin EndPc

-----------------------------------------------------------------------------
(* Commands are given one after another. *)

First(name) == CASE name = "bootstrap" -> "tools" [] name = "teardown" -> "teardown"
                 [] name = "up" -> "reach" [] name = "call" -> "credentials"
                 [] name = "token" -> "issue"

Begin ==
    /\ ~Running
    /\ \E name \in {"bootstrap", "teardown"} :
          cmd' = [NoCommand EXCEPT !.name = name, !.pc = First(name)]
       \/ \E n \in {"up", "call", "token"}, c \in Creds, u \in BOOLEAN, t \in {"live", "stale"} :
          /\ u => n = "up"
          /\ t = "live" => c = "token" /\ Serving(cluster)
          /\ cmd' = [NoCommand EXCEPT !.name = n, !.pc = First(n), !.creds = c, !.ui = u,
                                      !.token = IF c = "token" THEN t ELSE "none"]
    /\ UNCHANGED <<vendored, cluster, profile, keys, faults>>

-----------------------------------------------------------------------------
(* The API. *)

Env == cluster.env
Alive(status) == status \in {"provisioning", "ready", "stopped"}

\* A mutant: the wallets of an environment in any state are looked up.
LightningConnectionsAny(env) == env.wallets

\* lightning_connections: instances whose wallet answers, of a ready one.
LightningConnections(env) == IF env.status = "ready" THEN env.wallets ELSE {}

\* environment_get promotes a row whose bitcoind is ready.
Promoted(env) ==
    IF env.status = "provisioning" /\ env.core THEN [env EXCEPT !.status = "ready"] ELSE env

Bundle(env) == [env EXCEPT !.wallets = LightningConnections(env)]

\* Client::call.  A signer is known, a token if it is live; a call may get
\* lost, or its answer.
Known == cmd.creds = "nsec" \/ cmd.token = "live"

Call(answered, effect) ==
    \/ NoFault /\ ~Serving(cluster) /\ End("failed") /\ UNCHANGED cluster
    \/ NoFault /\ Serving(cluster) /\ ~Known /\ End("refused") /\ UNCHANGED cluster
    \/ NoFault /\ Serving(cluster) /\ Known /\ answered
    \/ Fault /\ EndHit /\ (UNCHANGED cluster \/ (Serving(cluster) /\ Known /\ effect))

SetEnv(env) == cluster' = [cluster EXCEPT !.env = env]

-----------------------------------------------------------------------------
(* up *)

\* ensure_local_api: the default API that does not answer is bootstrapped.
Reach ==
    /\ At("reach")
    /\ \/ Goto(IF Serving(cluster) THEN "heal" ELSE "tools") /\ NoFault
       \/ GotoHit("tools") /\ Fault
    /\ UNCHANGED <<vendored, cluster, profile, keys>>

\* A mutant: what the profile holds is not probed.
HealTrusting ==
    /\ At("heal") /\ Goto("client") /\ NoFault
    /\ UNCHANGED <<vendored, cluster, profile, keys>>

\* heal_stale_token: with no flag at all and a profile that reads, its token
\* is probed, and replaced if it is rejected; any other error is let pass.
Heal ==
    /\ At("heal")
    /\ IF cmd.creds # "none" \/ profile.state # "whole"
       THEN Goto("client") /\ NoFault
       ELSE \/ /\ NoFault
               /\ IF ~Serving(cluster) \/ profile.token = "live" THEN Goto("client")
                  ELSE cmd' = [cmd EXCEPT !.pc = "refresh", !.token = "live"]
            \/ Fault /\ (GotoHit("client") \/ EndHit)
    /\ UNCHANGED <<vendored, cluster, profile, keys>>

\* refresh_token: an error in saving is ignored, a kill in it is not.
Refresh ==
    /\ At("refresh")
    /\ \/ profile' = Whole(profile.key, cmd.token) /\ NoFault /\ Goto("submit")
       \/ Fault /\ profile' \in {profile, Torn} /\ (GotoHit("submit") \/ EndHit)
    /\ UNCHANGED <<vendored, cluster, keys>>

\* client: explicit credentials, or the token of the profile.
Credentials(next) ==
    IF cmd.creds \in {"token", "nsec"} THEN Goto(next)
    ELSE IF profile.state = "whole"
         THEN cmd' = [cmd EXCEPT !.pc = next, !.token = profile.token]
         ELSE End("failed")

UpClient ==
    /\ At("client") /\ Works(Credentials("submit"))
    /\ UNCHANGED <<vendored, cluster, profile, keys>>

\* environment.create; a name that is alive is refused.  The answer says
\* provisioning, whatever runs already.
UpCreate ==
    /\ At("submit")
    /\ LET made == SetEnv([NoEnvironment EXCEPT !.status = "provisioning"])
           free == ~Alive(Env.status)
       IN  Call(IF free THEN made /\ Goto("poll")
                ELSE End("failed") /\ UNCHANGED cluster,
                free /\ made)
    /\ UNCHANGED <<vendored, profile, keys>>

\* poll_get: what the API answers, and what that call does to the row.
Answer == Bundle(Promoted(Env))
Get(seen) ==
    LET promote == SetEnv(Promoted(Env))
    IN  Call(IF Env.status = "none" THEN End("failed") /\ UNCHANGED cluster
             ELSE promote /\ seen,
             promote)

See(bundle, pc) == cmd' = [cmd EXCEPT !.pc = pc, !.seen = bundle]
SeeLast(bundle, how) == cmd' = [Ended(how) EXCEPT !.seen = bundle]

\* Waiting for readiness: until it is there, another state, or the deadline.
Poll ==
    /\ At("poll")
    /\ IF cmd.late THEN End("timeout") /\ NoFault /\ UNCHANGED cluster
       ELSE Get(CASE Answer.status = "ready" -> See(Answer, "wallets")
                  [] Answer.status = "provisioning" -> See(Answer, "poll")
                  [] OTHER -> SeeLast(Answer, "failed"))
    /\ UNCHANGED <<vendored, profile, keys>>

Done(b) == IF cmd.ui THEN See(b, "dashboard") ELSE SeeLast(b, "ok")

\* A mutant: the deadline does not count here.
WalletsEndless ==
    /\ At("wallets")
    /\ Get(IF Answer.wallets = Wallet THEN Done(Answer) ELSE See(Answer, "wallets"))
    /\ UNCHANGED <<vendored, profile, keys>>

\* Waiting for the wallets: until the bundle has them all, or the deadline,
\* whatever becomes of the environment.
Wallets ==
    /\ At("wallets")
    /\ Get(IF Answer.wallets = Wallet THEN Done(Answer)
           ELSE IF cmd.late THEN SeeLast(Answer, "timeout")
           ELSE See(Answer, "wallets"))
    /\ UNCHANGED <<vendored, profile, keys>>

\* open_dashboard hands on the token that was given, an empty one too, that
\* of the profile, or a new one for a key; a profile that does not read at
\* first leaves the key given, or that of a second try.
Dashboard ==
    /\ At("dashboard")
    /\ LET hand(token) == cmd' = [Ended("ok") EXCEPT !.token = token]
       IN  \/ Works(CASE cmd.creds = "token" -> End("ok")
                      [] cmd.creds = "empty" -> hand("none")
                      [] cmd.creds \in {"none", "nsec"} /\ profile.state = "whole"
                           -> hand(profile.token)
                      [] cmd.creds = "nsec" /\ profile.state # "whole" /\ Serving(cluster)
                           -> hand("live")
                      [] OTHER -> End("failed"))
           \/ /\ cmd.creds \in {"none", "nsec"} /\ profile.state = "whole"
              /\ Fault /\ Serving(cluster)
              /\ cmd' = [Ended("ok") EXCEPT !.token = "live", !.hit = TRUE]
    /\ UNCHANGED <<vendored, cluster, profile, keys>>

DeadlinePasses ==
    /\ cmd.pc \in {"submit", "poll", "wallets"} /\ ~cmd.late
    /\ cmd' = [cmd EXCEPT !.late = TRUE]
    /\ UNCHANGED <<vendored, cluster, profile, keys, faults>>

-----------------------------------------------------------------------------
(* Commands of one call: get, ls, stop, start, fund, down, delete. *)

CallClient ==
    /\ At("credentials") /\ Works(Credentials("call"))
    /\ UNCHANGED <<vendored, cluster, profile, keys>>

\* What the method leaves of the environment.
After(env) ==
    {env, Promoted(env)}
    \cup (IF Alive(env.status) THEN {[env EXCEPT !.status = "stopped"],
                                     [env EXCEPT !.status = "destroyed"]} ELSE {})
    \cup (IF env.status = "stopped" THEN {[env EXCEPT !.status = "provisioning"]} ELSE {})
    \cup (IF env.status \in {"destroyed", "expired"} THEN {NoEnvironment} ELSE {})

OneCall ==
    /\ At("call")
    /\ \E env \in After(Env) : Call((End("ok") \/ End("failed")) /\ SetEnv(env), SetEnv(env))
    /\ UNCHANGED <<vendored, profile, keys>>

\* token: mints with the key of the user, or of the profile, and prints it.
Issue ==
    /\ At("issue")
    /\ Works(IF Serving(cluster) /\ (cmd.creds = "nsec" \/ profile.state = "whole")
             THEN End("ok") ELSE End("failed"))
    /\ UNCHANGED <<vendored, cluster, profile, keys>>

UpStep ==
    \/ Reach \/ Heal \/ Refresh \/ UpClient \/ UpCreate \/ Poll \/ Wallets \/ Dashboard

CommandStep == BootstrapStep \/ Teardown \/ UpStep \/ CallClient \/ OneCall \/ Issue

-----------------------------------------------------------------------------
(* Around the command. *)

\* The pods of the environment, other callers, the reaper.
EnvironmentMoves ==
    /\ Serving(cluster) /\ Alive(Env.status)
    /\ \/ Env.status # "stopped" /\ ~Env.core /\ SetEnv([Env EXCEPT !.core = TRUE])
       \/ \E w \in Wallet :
             \/ Env.core /\ Env.status # "stopped" /\ w \notin Env.wallets
                /\ SetEnv([Env EXCEPT !.wallets = @ \cup {w}])
             \/ w \in Env.wallets /\ SetEnv([Env EXCEPT !.wallets = @ \ {w}])
       \/ SetEnv([Env EXCEPT !.status = "stopped", !.core = FALSE])
       \/ \E s \in {"expired", "destroyed"} :
             SetEnv([NoEnvironment EXCEPT !.status = s])
    /\ UNCHANGED <<vendored, profile, keys, cmd, faults>>

\* The machine, or its docker, restarts; a command that runs may see it.
Reboot ==
    /\ Fault /\ cluster.running
    /\ cluster' = [cluster EXCEPT !.running = FALSE]
    /\ cmd' = IF Running THEN [cmd EXCEPT !.hit = TRUE] ELSE NoCommand
    /\ UNCHANGED <<vendored, profile, keys>>

CliNext == Begin \/ CommandStep \/ DeadlinePasses \/ EnvironmentMoves \/ Reboot

CliSpec == LocalInit /\ [][CliNext]_localVars

\* A command that was given goes on, and time passes.
CliFairSpec ==
    CliSpec /\ WF_localVars(CommandStep) /\ WF_localVars(DeadlinePasses)

-----------------------------------------------------------------------------

\* A bootstrap that says it is done has left a stack of the current ports
\* with all its images, and an identity with a token that the API of this
\* cluster knows, whatever was there before (local.rs bootstrap, profile.rs
\* ensure_with: "stored tokens do not survive a cluster recreate").
BootstrapDelivers ==
    cmd.name = "bootstrap" /\ cmd.pc = "ok" =>
        /\ cluster.lb = "current" /\ cluster.images = Image
        /\ cluster.gateway /\ cluster.api
        /\ profile.state = "whole" /\ profile.token = "live"

\* Whatever a killed command left behind (a cluster half made, a torn
\* profile, images in part) the next bootstrap gets over, unless something
\* fails again; only a tool that was written and not made executable stays
\* in its way for ever (local.rs tool, ensure_cluster).
BootstrapRecovers ==
    cmd.name = "bootstrap" /\ cmd.pc = "failed" /\ ~cmd.hit =>
        \E t \in Tool : vendored[t] = "unusable"

\* The stored identity outlives every command, every cluster and every
\* restart.  It is lost only to a fault on the file itself: a write of it
\* that is cut off, or a bootstrap that failed to read it and puts another
\* in its place (profile.rs ensure_with, save_to; DEV.md: "the identity is
\* stable", which those two make untrue).
Keeps(k) == profile.state = "whole" /\ profile.key = k

IdentityKept ==
    [][\A k \in Key : Keeps(k) /\ ~Keeps(k)' =>
          \/ cmd.pc \in {"save", "refresh"} /\ faults' > faults
          \/ cmd.pc = "save" /\ cmd.unread]_localVars

\* `up` with the credentials of the profile is not turned away, however many
\* clusters the profile has seen, and hands the dashboard a token the API
\* knows (main.rs heal_stale_token, open_dashboard: "just healed by the
\* pre-flight probe").
UpAuthenticated ==
    cmd.name = "up" /\ cmd.creds = "none" /\ ~cmd.hit =>
        /\ cmd.pc # "refused"
        /\ cmd.pc = "ok" => cmd.token = "live"

\* What `up` reports in the end is an environment that was ready with all
\* its wallets in one and the same answer, although the wait for the wallets
\* never looks at the status (main.rs up, rpc.rs lightning_connections).
UpTruthful ==
    cmd.name = "up" /\ cmd.pc = "ok" =>
        cmd.seen.status = "ready" /\ cmd.seen.wallets = Wallet

\* Every command comes to an end, also `up` for an environment that another
\* caller stops or destroys under it (main.rs up, both deadlines).
CommandEnds == Running ~> ~Running
=============================================================================
