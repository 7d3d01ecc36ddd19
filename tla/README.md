# TLA+ models of signet-sandbox

Signet Sandbox provisions isolated Bitcoin signet environments on Kubernetes
behind a JSON-RPC API. This directory models the control plane of the API (what
the Postgres store holds, which namespaces run, and what happens when requests,
the reaper, failures and restarts interleave), the peering of lightning nodes,
the decisions the API makes before it acts (who asks, which versions go
together, which ports are free), the signer of an environment, and the CLI with
the local stack it builds. TLC checks small instances; TLAPS proves the central
facts for every instance.

## Inventory

| component | state | operations | where |
|---|---|---|---|
| environment store | tables `environments`, `environment_lightning` | insert, status update, guarded delete, list replacement, port allocation | `signet-db/src/lib.rs`, migrations |
| orchestrator | one namespace per environment: workloads, replicas, published ports, expiry annotation | create, add lnd, scale, delete, exists, core_ready | `signet-orchestrator/src/lib.rs` |
| shared gateway (DNS mode) | the platform namespace and Gateway; per environment a route and a grant | ensure_gateway, route, grant, and the grant's deletion | orchestrator, `reaper.rs` |
| environment handlers | per request: what it read so far | create, get, stop, start, update, destroy, delete, list, faucet | `signet-api/src/rpc.rs` |
| reaper | the pass it is in | list expired, delete, mark rows | `signet-api/src/main.rs`, `signet-orchestrator/src/reaper.rs` |
| lightning mesh | the passes in progress; peers are lnd's | peering passes after create and update, and periodically | `rpc.rs`, `main.rs`, orchestrator |
| authentication | table `api_tokens` | NIP-98 and bearer verification, token.create | `rpc.rs`, `signet-nostr` |
| signer | bitcoind's wallet and chain | wallet setup, premine, mining loop, block solution | `signet-signer` |
| faucet | none | amount check, send | `signet-faucet` |
| version catalog | `versions.toml` | selection, constraints | `signet-core/src/versions.rs` |
| CLI | profile with identity and token | up, get, ls, stop, start, fund, down, delete, token | `signet-cli` |
| CLI local bootstrap | downloaded tools, the k3d cluster and its images | bootstrap, teardown, status | `signet-cli/src/local.rs`, `profile.rs` |
| bitcoind client, JSON-RPC envelope, TLS material, dashboard, deployment | none | serialization, I/O, generated material | the rest |

How they interact: a client's request becomes one async handler in the API.
A handler alternates statements on the store with calls of the orchestrator,
and holds no lock across any of them. The reaper is a task of the same process
that does the same. The store and the cluster agree only because each handler
writes both, one after the other; `reconcile_reaped` repairs a row whose
namespace is gone when a request next touches it. The mesh only reads the
store, and acts on pods by `exec`. The CLI is a process of its own: it sees the
API through calls that may be lost, and its own files and docker directly.

What is hard: handlers act on rows they read several awaits ago; ports and
names are chosen before they are reserved; a failure between two writes leaves
the store and the cluster apart; a client that hangs up drops its handler; the
process may die anywhere; the deadline of an environment may pass during its
own create. Mesh passes overlap and trust a list of peers while pods restart.
A CLI command may fail or be killed between any two of its steps, and the next
one starts from what it left: a file half written, a cluster half made, a token
whose database is gone.

What makes each part correct:

* store: an owner has one environment of a name; records vanish only when dead;
  live environments hold different ports;
* orchestrator and handlers: what runs has a live record, publishes the ports
  the record reserves, and has the replicas its status says;
* reaper: it deletes only what is past its deadline, and does so eventually;
* shared gateway: a finished create has its whole way in; creates that race for
  the shared objects do not all fail; grants do not outlive their environments;
* signer: it mines at the block policy, across restarts of bitcoind;
* authentication: a request is accepted exactly within its time window or with
  an issued token, and a token never begets a token;
* catalog: what is deployed fits together, and is what was asked for and needed;
* mesh: a pass leaves out no pair, and siblings of a live environment end up peers;
* CLI: a bootstrap delivers a working stack from whatever it finds, the identity
  is lost to nothing but a fault on its own file, `up` tells the truth and ends.

## Modules

* `EnvStore`: the two tables and one operator per SQL statement. Every operator
  is atomic, as the statement (or transaction) is; nothing else is. The unique
  index is the guard of `InsertRow`. `rows[e].status = "none"` is an absent row.
  `Short` is `short_id`: it is a constant function because it depends on the id
  alone; the runs choose it injective or not. A lightning port stands for its
  aligned triple, and the pools are small sets.
* `Kube`: the cluster as the orchestrator uses it, one operator per call. A
  namespace is absent, active or terminating; new objects are refused unless it
  is active, deleting twice is a success, and scaling a missing namespace
  patches nothing. StatefulSets and Deployments are scaled by separate calls
  and keep separate replicas. Kubernetes itself is external.
* `SandboxApi`: the handlers. `req[r]` is the handler in slot `r`: its program
  counter and the locals that survive an await. Each action is one await.
  Errors that only end the request are one action, `Abandon`, which is also a
  client hanging up: both stop the handler between two awaits. A call that took
  effect and lost its answer is the action followed by `Abandon`. Errors the
  code carries on from (the cleanup of a failed create, an existence check that
  fails) are disjuncts of the action itself.
* `Reaper`: the pass as a snapshot, a set of deletes, and a set of marks.
* `Sandbox`: the composition with cluster steps and `Crash`, which drops all
  handlers and the pass and keeps the store and the cluster; the properties.
* `PortScan`, `TripleScan`: the loops of the port allocators, one turn per
  step, over given arguments. They touch no shared state, so `EnvStore` takes
  their answers in one step, and counts whole triples.
* `Grind`: `grind_nonce`, the threads that share a flag and a mutex. Which nonces
  meet the target is a set chosen per block. The flag is read with relaxed
  ordering, so `Check` may miss that it is set.
* `Signer`: the mining loop of `signet-signer` over `Grind`, one action per call
  of bitcoind, and bitcoind itself as far as the loop sees it: running or not,
  the height of its chain, and a wallet that is missing, on the volume, or
  loaded. `assemble_block` is the search and `Assembled`. Either process dies
  and is started again; a submission of a signer that died may still land
  (`WireLands`), and the answer of one that took effect may be lost. External
  and assumed: bitcoind refuses `createwallet` for a wallet on its volume, and
  after a start loads only wallets that its configuration names; the
  configuration the orchestrator writes names none.
* `Registry`: what the store promises about names, as an abstract specification of
  leases: a key is claimed by an id that never held one, and passes on only from
  a record that is dead. `Sandbox` implements it: `Names` substitutes what the
  rows say for its variables, and `NamesLeased` is its specification.
* `Mesh`: `mesh_lightning_peers` with one exec per step (`ReadId`, `ListPeers`,
  `Connect`, `Recheck`), run by the reconciler of `main.rs` (`Targets`, `Onward`)
  and by background tasks (`Spawn`, `Retry`, `Failed` counts the attempts). A
  pass holds the names it was given, what it still has to do, and nothing else;
  `lost` is a ghost for one invariant. Around it, environments are created,
  grow, stop, start and go, wallets come up, pods die, the API restarts. `up`
  are the pods whose `lncli` answers. Records and StatefulSets may differ, as a
  failed persist leaves them.
* `Gateway`: DNS mode, where explorers share one Gateway in a namespace of their
  own. `maker[e]` is where the create of `e` is (`create_environment`, one action
  per call of the cluster, then the handler's cleanup), `sweep[w]` a destroy or
  the reaper between its two calls in `delete_env_namespace`. `platform`,
  `gateway`, `home`, `routes` and `grants` are the objects in the cluster. The
  records and the reaper's choice are left to `Sandbox`: here any environment
  that has a namespace may be deleted at any time. A call that fails before it
  reaches the cluster and one whose answer is lost are both there.
* `Catalog`: `validate_selection`, `resolve_images` and `selected_specs`, one
  component per step; versions are sequences of numbers.
* `Auth`: `authenticate`, `verify_http_auth`, `verify_bearer` and who may have
  `token.create`. That an event parses and its signature verifies is a yes or no.
* `Local`: `bootstrap` and `teardown`. `vendored` is `~/.signet/bin`, `profile` is
  `~/.signet/config.toml`, `cluster` is docker and what runs in it, `cmd` is the
  command with its locals. One action per step of `bootstrap`; each works, fails,
  or is cut off after it took effect in part. Two failures do not end the command
  but read as an answer: a `k3d cluster get` that fails as no cluster
  (`GetCluster`), a profile that cannot be read as none (`EnsureProfile`,
  `MintUnread`), which puts a new identity in the place of the old one. The ghost
  `cmd.unread` remembers the latter for `IdentityKept`. `Inspect` leaves out bindings
  that do not parse (local.rs:476), which docker does not print.
* `Cli`: the commands of `main.rs` over `Local`: `up` step by step, the commands of
  one call, `token`. The API is there as far as the CLI sees it: a call is lost,
  refused, or answered with the bundle of the environment (`Answer`).
* `MCSandbox`, `MCMesh`, `MCCli`: values of constants for TLC, and symmetry.
  `MCCalls` puts `PortScan`, `TripleScan`, `Catalog`, `Auth` and `Gateway` side by
  side, which share no state: a behaviour is one call of one of the first four,
  whose arguments are enumerated there, or the creates that share a gateway.
* `SandboxProofs`, `NamespaceProofs`, `RecordProofs`, `CallProofs`, `GatewayProofs`,
  `SignerProofs`, `CliProofs`, `MeshProofs`: the theorems.

Definitions that say "A mutant" are plausible bugs of the definition that
follows them. No specification uses them; each breaks a property of a run.

`PROJECT.json` maps every definition to the lines it models.

### Abstractions

* Columns, secrets and manifests nothing branches on are left out. Parameter
  parsing and image resolution happen before the first await and change
  nothing, so a request that fails there does not appear. The lightning list is
  validated after the stale record was purged, so that failure does.
* Workloads are applied as one step and exposed as another; a failed step may
  have left all its objects or none, and the cleanup follows either way.
* `core_ready` may answer yes whenever bitcoind's StatefulSet has a replica.
* A replaced instance list is one transaction, modelled as atomic: two of them
  in flight on one environment can also make the second fail in Postgres, which
  is `Abandon`.
* Mesh: names of a list are taken in any order (a set), node ids are the
  instances themselves, since an lnd keeps its key on its volume; a connection
  ends for both sides when either pod does; an exec answers or fails.
* Auth: timestamps saturate at both ends, which is what the nostr crate's do.
* CLI: one command at a time, against the local API and one environment; a token
  is live or stale, as the database of the running API knows it; a loop of probes
  is one probe with the answer it ends on; kubectl acts on this cluster; a
  deadline is a point in time that comes. Credentials are none, an empty token, a
  token, or a secret key.
* Environments may have deadlines, modelled by the clock step `TtlPasses`, which
  can happen at any time after the namespace was stamped.

## Runs

The runs of the control plane use module `MCSandbox`. Deadlock is not checked
where the system may stop: once every id is used and every environment is gone,
when a call is answered, or at a bound (the chain of the signer).

| run | instance | shows |
|---|---|---|
| `names_race` | 2 requests, 2 ids with one namespace id, 2 names, 1 failure; with and without a deadline | `NameUnique`, `PurgeOnlyDead`, `NoTakeover`, and the refinement `NamesLeased`, under any interleaving of create, get, destroy, delete and the reaper |
| `settled` | 1 request, 2 ids, 2 names, pools of 1 web port and 2 lightning slots, 2 instances, 1 failure, all methods | `TypeOK`, `PortsDisjoint`, `ActiveTracked`, `PublishedReserved`, `SettledReplicas`; every pool is exhausted on the way |
| `reap_live` | 1 request, 2 ids, 2 names, 1 failure, create, get and destroy, deadlines, fairness | `DueReaped`, `DueRecordDies`, `DeletedWithCause`, and `ActiveTracked` beside a reaper with work |
| `calls` | every pool within 1..4 and held ports in 0..5; pools of up to 3 triples at every alignment with 64 sets of held instances; 3 components, up to 4 versions, every operator, every dependency graph; every clock, age and event time in 0..5 with an event that is right but for one thing; 2 creates in DNS mode, with and without exposure, 1 other deleter, 1 failed call, lost client or crash, a fresh cluster or one set up | `Answered`, `TriplesFit`, `AllOrExhausted`, `LowestFirst`, `ScansEnd`, `DeployedCompatible`, `RefusedForCause`, `SelectionLeast`, `AdmissionExact`, `GatewayTypeOK`, `ServedWhole`, `RaceHasWinner`, `GrantsCollected` |
| `mesh` | 2 environments of 2 instances, one that grows and one whose wallets never come up, the reconciler and 1 task of 2 attempts, 1 failed call or crash, fairness | `MeshTypeOK`, `HandledPeered`, `MeshHeals`, `TasksEnd` |
| `cli` | any sequence of commands, 2 images, 1 wallet, 2 failures, kills or reboots, from an old cluster or none, fairness | `TypeOK`, `BootstrapDelivers`, `BootstrapRecovers`, `IdentityKept`, `UpAuthenticated`, `UpTruthful`, `CommandEnds` |
| `signer` | 2 threads, 4 nonces, premine 3, chain of 4, 3 failures, fairness | `GrindSound`, `PaceKept`, `MinesOn` |

Bounds. Two environments are what every property here relates, or an
environment and its successor of the same name. Two requests are enough for one
to act between two steps of the other. One failure reaches every error path
once; the properties that need none are said to. `MaxFaults` counts failed
calls, dropped clients and crashes together. `Env` bounds the creates.

In `mesh` a pair is what a pass works on, so two instances; pods may die any
number of times, failed calls add nothing a dead pod does not do but lost
answers and the crash, so one; two attempts of a task are one that fails and one
that follows. Of two creates in DNS mode one can
lose the race for the namespace or the one for the Gateway; that a third would
change nothing is proved. In `cli` two failures let one spoil a command and another its
repetition; a torn profile, a half-made cluster and a stale token need one each.
In `calls` a failing edge is an edge of a pool, a window or a comparison, and all
of those lie within the bounds; the theorems say so for the scans.

Why some runs take one request at a time: with two, `PortsDisjoint`,
`ActiveTracked`, `PublishedReserved` and `SettledReplicas` are false, because
the handlers take no locks (see below). That they hold for one request beside
the reaper says that each handler by itself, and the reaper against each
handler, keeps them. For the first two `RecordProofs` says more: with any number of
requests they are broken by the races it names, and by nothing else. Two updates
that write their lists over each other, and a promotion over a stop, are in the
model but in no passing run. `ActiveTracked` needs at most one failure: a create that
fails and whose cleanup fails too is marked destroyed all the same
(rpc.rs:555-564) and leaves its namespace running.
`PublishedReserved` and `SettledReplicas` need none: a failed write of the
store after the cluster was changed is only logged.

Symmetry: ids (with their namespace ids), names, instances and slots are interchangeable
in the safety runs; liveness runs use no symmetry.

Fairness. The reaper is a loop without exit, so `Reap` is weakly fair; an
await of a handler that was not dropped returns, so `Handle(r)` is. Arrivals,
failures, crashes, the clock and Kubernetes' own deletions are not fair.
`DueReaped` allows boundedly many failures: with unboundedly many, nothing
would be left to show. `DueRecordDies` speaks of behaviours without one: a mark
that failed is not retried. It says that the record is marked, not that it stays
so: a stop, start or get can write a live status over the mark (`bug_reaped`).

The reconciler of the mesh is a loop without exit, and a task runs until its
attempts are used up; an exec answers or fails, so `Reconcile` and each
`Background` task are weakly fair (`exec_in_pod` sets no time limit of its own;
that a broken connection surfaces as an error is assumed). Nothing makes a wallet
come up or an owner act. `MeshHeals` therefore supposes that, from some point on,
the recorded instances of the environment stay up, and says nothing of pods that
keep dying; the other environment may do anything.

A CLI command is a process that goes on (`CommandStep`): its HTTP calls time out
after 600 s and its waits for kubectl are bounded; its docker and k3d
commands are assumed to return. Time passes, so `DeadlinePasses` is weakly fair. Commands, reboots and
the environment's pods are not.

The signer's loop has no exit and its calls return, threads are scheduled, and
Kubernetes starts bitcoind again, so these are weakly fair; deaths and failures
are bounded. Two threads over four nonces let each find one, run out, or read a
stale flag; the chain goes on for one block after the premine, so the change of
pace lies within the bound. `MinesOn` excepts the state `Stranded`, which `bug_wallet`
reaches; it is not left again.

### Disagreements between the code and what it says

Each of these runs ends in a counterexample, a legal interleaving of the code.

* `bug_ports`: two creates in flight get the same explorer and electrum ports.
* `bug_purge`: a get between a create's insert and its namespace marks the row
  expired; the create goes on, and its record can be purged while it runs.
* `bug_reaped`: a stop in flight writes `stopped` over a reaped environment's
  `expired`; it looks startable again.
* `bug_shared_id`: two creates within one millisecond share a namespace, and
  the second one's cleanup deletes the first one's environment.
* `bug_wallet`: the signer's wallet is created once and never loaded. When
  bitcoind restarts while the signer has no address (a stop and start restarts
  both), no block is mined any more.

### Noted while modelling

Places where code and comment differ, or where a reader may expect otherwise,
that no run refutes; the models follow the code.

* `cluster_spec_drifted` (local.rs:455-477): any failure of `docker inspect` counts
  as drift and the cluster is deleted, although the comment says "Uninspectable
  state counts as no drift". It may mean unparsable bindings only, which do.
* An empty `SIGNET_TOKEN` "counts as unset" (auth.rs:15, local.rs:36) and yet
  skips `heal_stale_token` (main.rs:434) and is handed to the dashboard
  (main.rs:461). `UpAuthenticated` is stated for no flag at all.
* With `--nsec`, the dashboard is given the profile's token, which is not probed.
* Images of docker.io on the host are imported under a name that is then not
  found (local.rs:561, 654), so the registry is asked all the same.
* A tool that was written but not made executable blocks every later bootstrap
  (local.rs:281-295); `BootstrapRecovers` excepts exactly that state.
* `fetch_with_retries` retries bad statuses too, which a comment says fail fast.
* `update` answers `ready` also for a stopped environment (rpc.rs:957).
* Of creates that race in `ensure_gateway` the losers fail with a conflict and
  have to be repeated; `RaceHasWinner` says that one gets through.
* A ReferenceGrant whose deletion failed, or that was made after its namespace had
  been deleted, stays for ever: a later delete returns at the missing namespace
  (reaper.rs:43). The comment there says why it does no harm.
* A comment has the orchestrator append electrum listeners to the Gateway
  (deploy/dev/gateway-eg.yaml:2-3); it makes LoadBalancers (lib.rs:1132).
* DEV.md:227 says "the identity is stable". It is lost when the write of the profile
  is cut off (`std::fs::write` truncates first, profile.rs:58), and when a bootstrap
  cannot read a profile that is there (`load_from(path).ok()`, profile.rs:33) and
  saves a new identity over it. `IdentityKept` says that nothing else loses it.
* `up` with another `--api` and no credentials probes the profile's token there, and
  when it is rejected writes the one it mints at that API into the profile
  (main.rs:447-450): the local API then rejects it, until it is healed in turn.
* A failed persist of lightning instances is only logged (rpc.rs:571); a later
  update of the same instances conflicts with what is deployed.

## Proofs

`SandboxProofs` proves for all constants that satisfy the named assumptions
of the modules (ports are positive, `Short` maps ids to namespace ids, `None`
is no id, owner or name, `MaxFaults` is a natural number, the request constants
are in range):

* `TypeCorrect`: `Spec => []TypeOK`. `TypeOK` is inductive as it stands because
  it says that every handler past its lookup knows an environment
  (`AtWork`); without that a status write could not be typed. The proof has
  one lemma per statement of the store and per call of the cluster, one for a
  changed field of a handler, and then one step per action.
* `NamesStayUnique`: `Spec => []NameUnique`. `OneStatement` shows that every
  step changes the records by at most one statement of the store;
  `NameUniqueStep` shows that no statement breaks uniqueness.
* `PurgesOnlyDead`: `Spec => PurgeOnlyDead`, from the same lemma.
* `NamespaceProofs!NeverTakenOver`: `Spec => NoTakeover`. `OneCall` shows that
  every step makes at most one call of the cluster; a namespace gets an owner
  only in the call that creates it, which is refused while one exists.
* `NamespaceProofs!LeasesKept`: `Spec => NamesLeased`, the refinement of `Registry`,
  assuming that `None` is no pair of an owner and a name. An insert is `Claim`, a
  status update `Turn`, a purge that finds a dead row `Release`; all other steps
  stutter. The store alone does not give it: that an insert takes an id never used,
  and leaves the dead records alone, rests on `LeaseInv`, which says that creates hold
  ids of their own (`IdsApart`), remember whose name they insert (`Claimant`), and
  that every stored record has a key and an id that is used up (`RowsDrawn`).
* `NamespaceProofs!DeletedForCause`: `Spec => DeletedWithCause`, assuming
  `ShortInjective`: no two ids share their first 12 hex digits. Without it the
  theorem is false (`bug_shared_id`). The deletion of a failed create, and of
  the reaper, acts on a name; that it hits the right environment needs
  `OwnerInv`, proved inductive in `Owners`: creates that have not inserted hold
  ids nobody has drawn, and creates before their namespace hold different ids
  (`IdsApart`); a namespace belongs to the drawn id it is named after, and so
  does an entry of the reaper's list (`NamedAfter`); a create before its
  namespace finds neither a namespace nor an entry of the list under its name
  (`NotYet`); hence what the reaper is about to delete is still past its
  deadline (`DueIsPast`).
* `RecordProofs!PortsAlwaysDisjoint`:
  `Spec /\ []ChoicesApart /\ [][NoRevival]_vars => []PortsDisjoint`, for any number of
  requests, faults and crashes, and whether or not ids share namespaces. Without the
  hypotheses it is false. `ChoicesApart` says that no two handlers hold the same port
  that neither has recorded yet, which is the race of `bug_ports`; `NoRevival` that no
  late status brings a dead record back, which is that of `bug_reaped`. The theorem
  shows that there is no third way: a choice made while others insert, update,
  stop, start, purge and delete stays clear of every live record, through
  failures, dropped handlers and crashes. The invariant `PortInv` adds `Chosen` (what
  a handler has picked no other live record holds), `Known` (a handler past its
  insert works for an id that is used up, so an insert cannot meet it) and `Bare` (a
  record that is gone has left no instances). Every step either shrinks what the
  records hold (`ShrinkingStatements`), picks what no live record holds
  (`AllocPorts`, `FreeTriples`), or records what its handler has picked
  (`InsertPorts`, `ListPorts`).
* `RecordProofs!TrackedUntilTwoFail`:
  `Spec /\ []CreatesAlone => [](faults <= 1 => ActiveTracked)`, for any number of
  requests, assuming `ShortInjective` (`bug_shared_id`). `CreatesAlone` says that nobody
  else works for an environment whose row is there and whose namespace is
  not yet: that is the race of `bug_purge`, in which a request takes the
  record for a reaped one. Any other requests may overlap, on the same environment
  too. The invariant `LifeInv` says that a namespace the reaper deleted is gone for
  good and is not that of a create under way, so its mark hits no record that is
  about to run (`ReapedGone`, `ReapedElse`), and that a handler that writes off a
  record has seen its namespace go, or the failures that kept it from that are
  counted (`WritesOff`): one to enter the cleanup of a create and a second one in
  the cleanup itself.
* `CallProofs!LowestPortFound`: the answer of `lowest_free_port`. The loop
  invariant says that everything from base up to the candidate is held and that
  what was looked at lies below the candidate; `CandidateLowest` draws the
  conclusion at the end of the loop.
* `CallProofs!TriplesAlwaysFit`, `AllOrTrulyExhausted` and `LowestTriplesFirst`,
  from one invariant over both loops: the ports held are
  those of the arguments and of the triples given, and every aligned triple the
  inner scan has passed is blocked. `AlignedApart` is the arithmetic behind it.
  Assumed of the arguments: they are natural numbers.
* `CallProofs!DeployedAlwaysCompatible`, `RefusedAlwaysForCause`, `SelectionAlwaysLeast`:
  the three properties of `Catalog` for any components, any catalog, any graph
  of dependencies and versions of any length. `CatalogInv` says what the checks
  have established of the components they have passed, and that the worklist
  of `selected_specs` only ever takes what a closed set must have. That
  `Compare` meets the reference order of versions is proved from the position
  of the first difference, without induction. Assumed of a
  catalog: the default of a component is one of its entries, or there is none,
  which is what `versions.rs` derives it from.
* `CallProofs!AdmittedExactly`: for any clock, window, event and token. The
  timestamps saturate at both ends of their width, whatever the width.
* `SignerProofs!SearchSound`: `Spec => []GrindSound` for any number of threads and
  any range of nonces. `GrindInv` says that no thread passes a nonce of its own
  that meets the target, and that one that returned has passed all its own
  unless something was found. `HasOwner` and `NextOwned` are the arithmetic: the
  threads' progressions cover every nonce and a step skips none.
* `SignerProofs!QuickOnlyForPremine`: `Spec => []PaceKept`. `PaceInv` bounds how
  far the signer's height lags: every submission on the wire extends a tip the
  signer already knows of, so at most one of them lands before its own block.

* `GatewayProofs`: the four properties of `Gateway` for any number of creates,
  deleters and faults (`GatewayTyped`, `ServedAlways`, `RaceAlwaysWon`,
  `GrantsAlwaysCollected`), from one invariant with five parts. `HomeInv` says that
  a create inside its namespace has it until others delete it, and that what is
  swept is not active; `WayInv` says how much of the way in exists at each step;
  `RaceInv` that while nothing fails and nothing is deleted, some create has the
  Gateway, or there is none and some create is about to make it, or none has got
  beyond the first look; `GrantInv` that a grant has its namespace or a
  collector; `RouteInv` that a route has its namespace. That a create leaves
  `HomeInv` intact rests on environments having namespaces of their own.

* `CliProofs`: the five invariants of `Cli`, and `IdentityKept` with the two faults
  it names as the only losses of an identity, for any images,
  tools, wallets and number of faults (`CliTyped`, `BootstrapAlwaysDelivers`,
  `BootstrapAlwaysRecovers`, `UpAlwaysAuthenticated`, `UpAlwaysTruthful`,
  `IdentityAlwaysKept`). `TypeOK` bounds the identities ever generated by the faults,
  which is not inductive: `KeysPaid` adds that where no whole profile is, the
  next identity is already paid for. `Minted` says what is about to be saved:
  a token of the API of this cluster and the identity that is there.
  `Built` says which stages a step of the bootstrap has behind it whatever
  happens, `Undisturbed` which hold only while no fault fell into the command,
  and `Healed` that the token `up` goes on with is good, which
  `heal_stale_token` establishes only for the credentials of the profile. A reboot,
  a failed step and a kill each leave `CliInv` intact, so a command may begin
  from any of them.
* `MeshProofs`: `MeshTyped` and `HandledAlwaysPeered`, for any environments,
  instances, tasks, attempts and faults, with rows and pods that change under
  a pass. `Kept` says of each worker that the instance it is at is not among those it
  still has to pair, and that every pair behind it is peered or was lost since
  it began; what the passes of other workers do only adds peers, and
  what takes them away (`Lose`) enters into every pass's `lost`.

Every safety property the passing runs check is stated by a theorem but two,
`PublishedReserved` and `SettledReplicas`: they hold only while nothing overlaps and
nothing fails, where a theorem would add little to the run. `PortsDisjoint` and
`ActiveTracked` are proved under hypotheses that name the races of the code.
Liveness (`ScansEnd`, `DueReaped`, `DueRecordDies`, `MeshHeals`,
`TasksEnd`, `CommandEnds`, `MinesOn`) is out of the prover's reach and only
model-checked.

## Not modelled, and the plan

To prove next: that the answers of `EnvStore` (`LowestFreePort`,
`NextLightningPorts`) are those of the scans `PortScan` and `TripleScan` arrive at,
which today rests on reading the two side by side; and what publishing and recording
keep in agreement when requests do overlap.

Not modelled:

* TLS secrets, `read_pod_file`, URLs and secrets of a bundle: data nothing branches
  on. The faucet: an amount check and one call, no state.
* `environment.list`, `catalog.list` and `environment.faucet`: they read or forward.
* The CLI's configuration file, `status`, output formats; `--api` other than the
  local one, which is never bootstrapped, and whose token may end up in the
  profile (see above); two commands at once, which
  race for the profile file like two creates race for a port.
* The JSON-RPC envelope, the dashboard, the site and deployment files.
