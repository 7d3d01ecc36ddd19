------------------------------- MODULE MCCalls ------------------------------
(***************************************************************************)
(* What happens on the way to an environment apart from its records, one   *)
(* at a time: a behaviour is one call of one of the pure algorithms, or    *)
(* the creates that share a gateway; the variables of the others idle.     *)
(***************************************************************************)
EXTENDS PortScan, TripleScan, Catalog, Auth, Gateway, TLC

CONSTANTS a, b, c

\* Every pool within 1..4, empty ones included, and held ports around it.
AllPortCalls == [base: 1..4, max: 0..4, held: SUBSET (0..5)]

\* Pools of up to three triples at every alignment; held instances may
\* straddle two triples or lie at the edges of the pool.
AllTripleCalls == [base: 1..5, max: 6..12, held: SUBSET {1, 3, 5, 6, 9, 11}, triples: 0..3]

\* 1 and 1.0 are the same version under two tags, 1.1 lies above both.
Versions == {<<1>>, <<1, 0>>, <<1, 1>>, <<2>>}

\* Two components with versions (c has one), at most one rule.
Listed == {f \in [Component -> {{}, {<<1>>}, {<<1>>, <<1, 1>>}, {<<1, 0>>, <<2>>}}] :
              f[a] # {<<1, 0>>, <<2>>} /\ f[c] = {<<1>>}}
Defaults == {f \in [Component -> Versions \cup {NoVersion}] : f[c] = <<1>>}
Pins == {f \in [Component -> {<<1>>, <<1, 1>>, <<2>>, NoVersion}] : f[c] = NoVersion}
OneRule == {{}} \cup
    {{[of |-> a, at |-> v, on |-> b, op |-> o, target |-> t]} :
        v \in {<<1>>, <<1, 1>>}, o \in {">=", "<=", ">", "<", "="},
        t \in {<<1>>, <<1, 1>>, <<2>>}}
NoDeps == [x \in Component |-> {}]

VersionCalls ==
    {v \in [entries: Listed, default: Defaults, rules: OneRule, pins: Pins,
            asked: {{c}}, deps: {NoDeps}] :
        \A x \in Component : v.default[x] \in v.entries[x] \cup {NoVersion}}

\* Three components, every dependency among them.
SelectCalls ==
    {[entries |-> [x \in Component |-> {<<1>>}], default |-> [x \in Component |-> <<1>>],
      rules |-> {}, pins |-> [x \in Component |-> NoVersion], asked |-> s, deps |-> d] :
        s \in SUBSET Component, d \in [Component -> SUBSET Component]}

AllCatalogCalls == VersionCalls \cup SelectCalls

\* Every clock and every age with an event that is right but for one thing.
GoodEvent == [parses |-> TRUE, signed |-> TRUE, kind |-> TRUE, created |-> 0,
              url |-> "same", method |-> "same"]
Spoilt == {GoodEvent} \cup
    {[GoodEvent EXCEPT !.parses = FALSE], [GoodEvent EXCEPT !.signed = FALSE],
     [GoodEvent EXCEPT !.kind = FALSE]} \cup
    {[GoodEvent EXCEPT !.url = t] : t \in {"other", "missing"}} \cup
    {[GoodEvent EXCEPT !.method = t] : t \in {"other", "missing"}}
Events == {[e EXCEPT !.created = t] : e \in Spoilt, t \in 0..Top}

SignedCalls ==
    [scheme: {"nostr"}, event: Events, token: {"unknown"}, now: 0..Top,
     maxAge: (0..Top) \cup {Unlimited}, rpc: {"token.create", "another"},
     database: BOOLEAN]

OtherCalls ==
    [scheme: {"none", "bearer", "other"}, event: {GoodEvent},
     token: {"malformed", "unknown", "revoked", "issued"}, now: {0},
     maxAge: {0}, rpc: {"token.create", "another"}, database: BOOLEAN]

AllAuthCalls == SignedCalls \cup OtherCalls

\* A create that grants a way in, and one that needs none.
SomeWishes == {{}, Published}

-----------------------------------------------------------------------------

IdlePort == portCall = [base |-> 1, max |-> 0, held |-> {}] /\ PortInit

IdleTriple ==
    tripleCall = [base |-> 1, max |-> 6, held |-> {}, triples |-> 0] /\ TripleInit

NoChoice == [entries |-> [x \in Component |-> {}], default |-> [x \in Component |-> NoVersion],
             rules |-> {}, pins |-> [x \in Component |-> NoVersion], asked |-> {},
             deps |-> NoDeps]

IdleCatalog ==
    /\ choice = NoChoice /\ stage = "pins" /\ todo = {} /\ wanted = {}
    /\ image = [x \in Component |-> NoVersion]

NoLogin == [scheme |-> "none", event |-> GoodEvent, token |-> "malformed", now |-> 0,
            maxAge |-> 0, rpc |-> "another", database |-> FALSE]

IdleAuth == login = NoLogin /\ AuthInit

\* No create ever came: none was dropped without a fault.
NoCreate == [e \in Env |-> "dropped"]

IdleGateway ==
    /\ platform = FALSE /\ gateway = FALSE
    /\ home = [e \in Env |-> "absent"]
    /\ routes = {} /\ grants = {} /\ overtaken = {} /\ faults = 0
    /\ maker = NoCreate
    /\ wish = [e \in Env |-> {}]
    /\ sweep = [w \in Sweeper |-> None]

IdleCalls == IdlePort /\ IdleTriple /\ IdleCatalog /\ IdleAuth

Init ==
    \/ PortInit /\ IdleTriple /\ IdleCatalog /\ IdleAuth /\ IdleGateway
    \/ IdlePort /\ TripleInit /\ IdleCatalog /\ IdleAuth /\ IdleGateway
    \/ IdlePort /\ IdleTriple /\ CatalogInit /\ IdleAuth /\ IdleGateway
    \/ IdlePort /\ IdleTriple /\ IdleCatalog /\ AuthInit /\ IdleGateway
    \/ IdleCalls /\ GatewayInit

PortStep == PortNext /\ UNCHANGED <<tripleVars, catalogVars, authVars, gatewayVars>>
TripleStep == TripleNext /\ UNCHANGED <<portVars, catalogVars, authVars, gatewayVars>>
CatalogStep ==
    /\ choice # NoChoice /\ CatalogNext
    /\ UNCHANGED <<portVars, tripleVars, authVars, gatewayVars>>
AuthStep ==
    /\ login # NoLogin /\ AuthNext
    /\ UNCHANGED <<portVars, tripleVars, catalogVars, gatewayVars>>
GatewayStep ==
    /\ ~IdleGateway /\ GatewayNext
    /\ UNCHANGED <<portVars, tripleVars, catalogVars, authVars>>

Next == PortStep \/ TripleStep \/ CatalogStep \/ AuthStep \/ GatewayStep

vars == <<portVars, tripleVars, catalogVars, authVars, gatewayVars>>

Spec == Init /\ [][Next]_vars /\ WF_vars(PortStep) /\ WF_vars(TripleStep)

\* Both allocators come to an end (lib.rs lowest_free_port, free_port_triple
\* and next_lightning_ports).
ScansEnd == ScanEnds /\ CallEnds
=============================================================================
