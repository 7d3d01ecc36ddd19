-------------------------------- MODULE Mesh --------------------------------
(***************************************************************************)
(* Peering of the lightning instances of one environment.  Public peers do *)
(* not exist on its chain, so the API cross-connects siblings over exec:   *)
(* once in the background after a create or update (a task that retries),  *)
(* and for ever in the reconciler of main.rs.  Both run the same pass,     *)
(* mesh_lightning_peers, one exec at a time, over names they read earlier; *)
(* pods restart, environments stop and grow, and passes overlap.           *)
(*                                                                         *)
(* Abstracted: the order of a list of names (a pass takes them in any      *)
(* order), node ids (an lnd keeps its own on its volume), the intervals.   *)
(* A connection ends for both sides when either pod does.                  *)
(***************************************************************************)
EXTENDS Naturals, FiniteSets

CONSTANTS
    Env, Instance,
    Asks,           \* per environment, the lists its owner's calls may carry
    Sound,          \* per environment, the instances whose wallet can come up
    Task,           \* slots for background tasks
    Reconciler,     \* the reconciler of main.rs
    Attempts,       \* passes of a task (80 in the code)
    MaxFaults,      \* failed calls and crashes of the API
    None

ASSUME MeshAssumption ==
    /\ Asks \in [Env -> SUBSET SUBSET Instance]
    /\ Sound \in [Env -> SUBSET Instance]
    /\ Reconciler \notin Task
    /\ Attempts \in Nat \ {0} /\ MaxFaults \in Nat
    /\ None \notin Env \cup Instance

VARIABLES
    status,     \* per environment: as its row says
    deployed,   \* instances that have a StatefulSet
    recorded,   \* rows of environment_lightning
    up,         \* instances whose lncli answers
    peered,     \* connections, as sets of two instances
    pass,       \* per worker: the pass it is in
    todo,       \* environments the reconciler still has to visit, with names
    faults

clusterVars == <<deployed, up>>
storeVars == <<status, recorded>>
meshVars == <<status, deployed, recorded, up, peered, pass, todo, faults>>

Worker == Task \cup {Reconciler}
EnvState == {"none", "live", "stopped", "gone"}
PassPc == {"off", "ids", "list", "pair", "recheck", "wait"}

Pass == [pc: PassPc, env: Env \cup {None}, names: SUBSET Instance,
         left: SUBSET Instance,         \* to ask for its id; then, to be `a`
         a: Instance \cup {None}, b: Instance \cup {None},
         bs: SUBSET Instance,           \* to pair with `a`
         tries: 0..Attempts,
         lost: SUBSET SUBSET Instance]  \* ghost: connections lost since its first list

NoPass == [pc |-> "off", env |-> None, names |-> {}, left |-> {}, a |-> None,
           b |-> None, bs |-> {}, tries |-> 0, lost |-> {}]

NoTargets == [e \in Env |-> {}]

MeshTypeOK ==
    /\ status \in [Env -> EnvState]
    /\ deployed \in [Env -> SUBSET Instance]
    /\ recorded \in [Env -> SUBSET Instance]
    /\ up \in [Env -> SUBSET Instance]
    /\ peered \in [Env -> SUBSET SUBSET Instance]
    /\ pass \in [Worker -> Pass]
    /\ todo \in [Env -> SUBSET Instance]
    /\ faults \in 0..MaxFaults

MeshInit ==
    /\ status = [e \in Env |-> "none"]
    /\ deployed = NoTargets /\ recorded = NoTargets /\ up = NoTargets
    /\ peered = NoTargets
    /\ pass = [w \in Worker |-> NoPass]
    /\ todo = NoTargets
    /\ faults = 0

Fault == faults < MaxFaults /\ faults' = faults + 1
NoFault == UNCHANGED faults

-----------------------------------------------------------------------------
(* Environments, as far as peering sees them. *)

Start(e, names, tries) ==
    [NoPass EXCEPT !.pc = "ids", !.env = e, !.names = names, !.left = names,
                   !.tries = tries]

\* spawn_lightning_mesh: fewer than two names need no task.
Spawn(e, names) ==
    IF Cardinality(names) < 2
    THEN UNCHANGED pass
    ELSE \E t \in Task : pass[t].pc = "off"
                         /\ pass' = [pass EXCEPT ![t] = Start(e, names, Attempts)]

Deploy(e, names) == deployed' = [deployed EXCEPT ![e] = @ \cup names]

\* The tail of environment_create and environment_update: the instances are
\* there, their record may fail to persist, the task is spawned anyway.
Record(e, names) ==
    /\ \/ recorded' = [recorded EXCEPT ![e] = names] /\ NoFault
       \/ Fault /\ UNCHANGED recorded
    /\ Spawn(e, names)

Create(e) ==
    /\ status[e] = "none"
    /\ status' = [status EXCEPT ![e] = "live"]
    /\ \E names \in Asks[e] : Deploy(e, names) /\ Record(e, names)
    /\ UNCHANGED <<up, peered, todo>>

\* The list must name what the record does; the rest of it is added.
\* Manifests are created: an instance the record has lost is a conflict.
Update(e) ==
    /\ status[e] \in {"live", "stopped"}
    /\ \E names \in Asks[e] :
          LET more == names \ recorded[e]
              conflict == more \cap deployed[e] # {}
          IN  /\ recorded[e] \subseteq names /\ more # {}
              /\ \/ ~conflict /\ Deploy(e, more) /\ Record(e, names)
                 \/ /\ (conflict /\ NoFault) \/ Fault
                    /\ \E made \in SUBSET more : Deploy(e, made)
                    /\ UNCHANGED <<recorded, pass>>
    /\ UNCHANGED <<status, up, peered, todo>>

Stop(e) ==
    /\ status[e] = "live"
    /\ status' = [status EXCEPT ![e] = "stopped"]
    /\ UNCHANGED <<deployed, recorded, up, peered, pass, todo, faults>>

Restart(e) ==
    /\ status[e] = "stopped"
    /\ status' = [status EXCEPT ![e] = "live"]
    /\ UNCHANGED <<deployed, recorded, up, peered, pass, todo, faults>>

Listing(p) == p.pc \in {"list", "pair", "recheck"}

\* Connections end; passes that look at them take note, for HandledPeered.
Lose(e, cut) ==
    /\ peered' = [peered EXCEPT ![e] = @ \ cut]
    /\ pass' = [w \in Worker |->
                   IF pass[w].env = e /\ Listing(pass[w])
                   THEN [pass[w] EXCEPT !.lost = @ \cup cut]
                   ELSE pass[w]]

Destroy(e) ==
    /\ status[e] \in {"live", "stopped"}
    /\ status' = [status EXCEPT ![e] = "gone"]
    /\ deployed' = [deployed EXCEPT ![e] = {}]
    /\ up' = [up EXCEPT ![e] = {}]
    /\ Lose(e, peered[e])
    /\ UNCHANGED <<recorded, todo, faults>>

\* The wallet is created, or unlocked again; lnd needs its bitcoind for it.
WalletUp(e, i) ==
    /\ status[e] = "live" /\ i \in (deployed[e] \cap Sound[e]) \ up[e]
    /\ up' = [up EXCEPT ![e] = @ \cup {i}]
    /\ UNCHANGED <<status, deployed, recorded, peered, pass, todo, faults>>

PodDies(e, i) ==
    /\ i \in up[e]
    /\ up' = [up EXCEPT ![e] = @ \ {i}]
    /\ Lose(e, {c \in peered[e] : i \in c})
    /\ UNCHANGED <<status, deployed, recorded, todo, faults>>

-----------------------------------------------------------------------------
(* mesh_lightning_peers, one exec per step.  An exec into a pod that does
   not answer, or whose answer is lost, is an error. *)

\* Where the loop of the reconciler goes on: an environment with two names
\* or more, or the end of its round.
Onward(targets) ==
    \/ \E e \in Env :
          /\ Cardinality(targets[e]) > 1
          /\ pass' = [pass EXCEPT ![Reconciler] = Start(e, targets[e], 0)]
          /\ todo' = [targets EXCEPT ![e] = {}]
    \/ /\ \A e \in Env : Cardinality(targets[e]) < 2
       /\ pass' = [pass EXCEPT ![Reconciler] = NoPass]
       /\ todo' = NoTargets

Ended(w) ==
    IF w = Reconciler THEN Onward(todo)
    ELSE pass' = [pass EXCEPT ![w] = NoPass] /\ UNCHANGED todo

Later(w, tries) ==
    /\ pass' = [pass EXCEPT ![w] =
                   [Start(pass[w].env, pass[w].names, tries) EXCEPT !.pc = "wait"]]
    /\ UNCHANGED todo

\* A mutant: the reconciler's round ends where a pass fails.
FailedRound(w) ==
    IF w = Reconciler
    THEN pass' = [pass EXCEPT ![w] = NoPass] /\ todo' = NoTargets
    ELSE IF pass[w].tries = 1 THEN Ended(w)
    ELSE Later(w, pass[w].tries - 1)

\* A mutant: the attempts run out unnoticed.
FailedUncounted(w) ==
    IF w = Reconciler THEN Ended(w) ELSE Later(w, pass[w].tries - 1)

\* A mutant: a task that never gives up.
FailedEndless(w) ==
    IF w = Reconciler THEN Ended(w) ELSE Later(w, pass[w].tries)

\* The reconciler goes on to the next environment; a task waits for its next
\* attempt, or gives up.
Failed(w) ==
    IF w = Reconciler \/ pass[w].tries = 1 THEN Ended(w)
    ELSE Later(w, pass[w].tries - 1)

Answers(w, i) == i \in up[pass[w].env]
Peers(w, i) == {j \in Instance : {i, j} \in peered[pass[w].env] /\ i # j}
Move(w, p) == pass' = [pass EXCEPT ![w] = p] /\ UNCHANGED todo

\* lightning_node_id of every name in turn, before anything else.
ReadId(w) ==
    LET p == pass[w] IN
    /\ p.pc = "ids"
    /\ LET i == CHOOSE x \in p.left : TRUE
       IN  \/ /\ Answers(w, i) /\ NoFault
              /\ Move(w, IF p.left = {i} THEN [p EXCEPT !.pc = "list", !.left = p.names]
                         ELSE [p EXCEPT !.left = @ \ {i}])
           \/ ((~Answers(w, i) /\ NoFault) \/ Fault) /\ Failed(w)
    /\ UNCHANGED <<storeVars, clusterVars, peered>>

\* With bs empty, the next `a` is listed, or the pass is over.
Paired(w, p) ==
    IF p.bs # {} THEN Move(w, [p EXCEPT !.pc = "pair", !.b = None])
    ELSE IF p.left # {} THEN Move(w, [p EXCEPT !.pc = "list", !.a = None, !.b = None])
    ELSE Ended(w)

\* lightning_peer_keys of the next `a`, also of the last, that has no pair;
\* the pairs it shows are passed over.
ListPeers(w) ==
    LET p == pass[w] IN
    /\ p.pc = "list"
    /\ \E a \in p.left :
          \/ /\ Answers(w, a) /\ NoFault
             /\ Paired(w, [p EXCEPT !.a = a, !.left = @ \ {a},
                                    !.bs = p.left \ ({a} \cup Peers(w, a))])
          \/ ((~Answers(w, a) /\ NoFault) \/ Fault) /\ Failed(w)
    /\ UNCHANGED <<storeVars, clusterVars, peered>>

\* lncli connect fails on a peer that is there already; its answer may be
\* lost, or the call.
Connect(w) ==
    LET p == pass[w] IN
    /\ p.pc = "pair"
    /\ \E b \in p.bs :
          LET connects == Answers(w, p.a) /\ Answers(w, b) /\ b \notin Peers(w, p.a)
              joined == [peered EXCEPT ![p.env] = @ \cup {{p.a, b}}]
          IN  \/ connects /\ NoFault /\ peered' = joined /\ Paired(w, [p EXCEPT !.bs = @ \ {b}])
              \/ /\ \/ ~connects /\ NoFault /\ UNCHANGED peered
                    \/ Fault /\ UNCHANGED peered
                    \/ Fault /\ connects /\ peered' = joined
                 /\ Move(w, [p EXCEPT !.pc = "recheck", !.b = b])
    /\ UNCHANGED <<storeVars, clusterVars>>

\* A mutant: an error of connect is taken for a peer that is there already.
RecheckTrusting(w) ==
    LET p == pass[w] IN
    /\ p.pc = "recheck"
    /\ NoFault /\ Paired(w, [p EXCEPT !.bs = @ \ {p.b}])
    /\ UNCHANGED <<storeVars, clusterVars, peered>>

\* Already peered is success, any other error ends the pass.
Recheck(w) ==
    LET p == pass[w]
        there == Answers(w, p.a) /\ p.b \in Peers(w, p.a)
    IN
    /\ p.pc = "recheck"
    /\ \/ there /\ NoFault /\ Paired(w, [p EXCEPT !.bs = @ \ {p.b}])
       \/ ((~there /\ NoFault) \/ Fault) /\ Failed(w)
    /\ UNCHANGED <<storeVars, clusterVars, peered>>

MeshPass(w) == ReadId(w) \/ ListPeers(w) \/ Connect(w) \/ Recheck(w)

-----------------------------------------------------------------------------
(* The two callers. *)

\* A task sleeps between attempts.
Retry(t) ==
    /\ pass[t].pc = "wait"
    /\ pass' = [pass EXCEPT ![t].pc = "ids"]
    /\ UNCHANGED <<storeVars, clusterVars, peered, todo, faults>>

\* lightning_mesh_targets: live environments only.  It may fail.
Targets ==
    /\ pass[Reconciler].pc = "off"
    /\ \/ /\ NoFault
          /\ Onward([e \in Env |-> IF status[e] = "live" THEN recorded[e] ELSE {}])
       \/ Fault /\ UNCHANGED <<pass, todo>>
    /\ UNCHANGED <<storeVars, clusterVars, peered>>

Reconcile == Targets \/ MeshPass(Reconciler)
Background(t) == MeshPass(t) \/ Retry(t)

\* The API restarts: tasks are lost, the reconciler starts over.
ApiDies ==
    /\ Fault
    /\ pass' = [w \in Worker |-> NoPass]
    /\ todo' = NoTargets
    /\ UNCHANGED <<storeVars, clusterVars, peered>>

Around(e) ==
    \/ Create(e) \/ Update(e) \/ Stop(e) \/ Restart(e) \/ Destroy(e)
    \/ \E i \in Instance : WalletUp(e, i) \/ PodDies(e, i)

MeshNext ==
    \/ \E e \in Env : Around(e)
    \/ Reconcile
    \/ \E t \in Task : Background(t)
    \/ ApiDies

MeshSpec == MeshInit /\ [][MeshNext]_meshVars

\* The reconciler's loop never ends and a task runs on: an exec answers or
\* fails.  Nothing makes a wallet come up or an owner call.
MeshFairSpec ==
    /\ MeshSpec
    /\ WF_meshVars(Reconcile)
    /\ \A t \in Task : WF_meshVars(Background(t))

-----------------------------------------------------------------------------

Pairs(names) == {c \in SUBSET names : \E i, j \in c : i # j /\ c = {i, j}}

\* The pairs a pass has behind it: all of the instances that have been `a`,
\* and of the present one with those no longer in bs.
Behind(p) ==
    IF ~Listing(p) THEN {}
    ELSE {c \in Pairs(p.names) :
             \/ \E x \in c : x \notin p.left \cup {p.a}
             \/ p.a \in c /\ c \cap p.bs = {}}

\* A pair that a pass has behind it is peered, unless that connection was
\* there and was lost since the pass began to list peers: neither the stale list of peers nor an error
\* of `connect` that a concurrent pass caused makes it leave one out
\* (lib.rs mesh_lightning_peers).
HandledPeered ==
    \A w \in Worker : \A c \in Behind(pass[w]) :
        c \in pass[w].lost \cup peered[pass[w].env]

\* However often pods restarted before and however many calls failed, once
\* the recorded instances of a live environment stay up they are all peered
\* for good, although the wallets of another environment may never come up
\* (main.rs: "so a restarted pod (or a slow wallet) regains its peers").
MeshHeals ==
    \A e \in Env :
        <>[](status[e] = "live" /\ recorded[e] \subseteq up[e])
            => <>[](Pairs(recorded[e]) \subseteq peered[e])

\* A background task comes to an end, also when its environment is stopped
\* or destroyed under it (rpc.rs spawn_lightning_mesh).
TasksEnd == \A t \in Task : pass[t].pc # "off" ~> pass[t].pc = "off"
=============================================================================
