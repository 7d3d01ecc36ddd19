------------------------------ MODULE EnvStore ------------------------------
(***************************************************************************)
(* The Postgres store of crate signet-db: the tables `environments` and    *)
(* `environment_lightning`, and one operator per statement the API runs.   *)
(* Every operator is one SQL statement (or one transaction), so it is      *)
(* atomic; everything between two of them is not.                          *)
(*                                                                         *)
(* Abstracted: the columns nothing branches on (challenge, policy,         *)
(* versions, timestamps).  A port is a number of its pool; a lightning     *)
(* port stands for the aligned triple REST, gRPC, p2p that starts at it.   *)
(* PortScan and TripleScan are the scans behind the port choices here.     *)
(***************************************************************************)
EXTENDS Naturals, FiniteSets

CONSTANTS
    Env,        \* environment ids (Uuid::now_v7); the bound on creates
    Owner,      \* npubs
    Name,       \* environment names
    Port,       \* ports of the electrum pool, and of the explorer pool
    Instance,   \* lightning instance names
    LnPort,     \* first ports of the aligned triples of the lightning pool
    ShortId,    \* 12-hex namespace ids
    Short,      \* rpc.rs short_id: the environment's namespace id
    None        \* no owner, no name, no environment

ASSUME PortAssumption == Port \subseteq Nat \ {0} /\ LnPort \subseteq Nat \ {0}
ASSUME ShortAssumption == Short \in [Env -> ShortId]
ASSUME NoneAssumption == None \notin Env \cup Owner \cup Name

VARIABLES
    rows,       \* environments: one record per id, status "none" when absent
    lightning   \* environment_lightning: per environment, instance -> port

storeVars == <<rows, lightning>>

Pool == {"explorer", "electrum"}
NoPort == 0

Live == {"provisioning", "ready", "stopped"}
Dead == {"expired", "destroyed"}
Status == Live \cup Dead \cup {"none"}

Ports == [Pool -> Port \cup {NoPort}]
LnMap == [Instance -> LnPort \cup {NoPort}]
Row == [status: Status, owner: Owner \cup {None}, name: Name \cup {None},
        port: Ports]

NoPorts == [p \in Pool |-> NoPort]
NoLn == [i \in Instance |-> NoPort]
NoRow == [status |-> "none", owner |-> None, name |-> None, port |-> NoPorts]

StoreTypeOK ==
    /\ rows \in [Env -> Row]
    /\ lightning \in [Env -> LnMap]

StoreInit ==
    /\ rows = [e \in Env |-> NoRow]
    /\ lightning = [e \in Env |-> NoLn]

-----------------------------------------------------------------------------
(* Reads. *)

Stored(e) == rows[e].status # "none"
LiveRow(e) == rows[e].status \in Live

\* The instances an instance list names, and the ports it carries.
Named(m) == {i \in Instance : m[i] # NoPort}
PortsOf(m) == {m[i] : i \in Named(m)}

RowsNamed(o, n) ==
    {e \in Env : Stored(e) /\ rows[e].owner = o /\ rows[e].name = n}

\* A mutant: the scan runs on past the end of the pool.
LowestFreePortUnbounded(held) ==
    LET free == (1..(1 + Cardinality(Port))) \ held
    IN  {p \in free : \A q \in free : p <= q}

\* The one lowest port that is not held; none when the pool is exhausted.
LowestFreePort(held) ==
    {p \in Port \ held : \A q \in Port \ held : p <= q}

\* A mutant: stopped environments give their ports back.
NextPortRunning(pool) ==
    LowestFreePort({rows[e].port[pool] :
                       e \in {f \in Env : rows[f].status \in {"provisioning", "ready"}}})

NextPort(pool) ==
    LowestFreePort({rows[e].port[pool] : e \in {f \in Env : LiveRow(f)}})

HeldLightningPorts ==
    UNION {PortsOf(lightning[e]) : e \in {f \in Env : LiveRow(f)}}

\* Every way to give the requested instances the lowest free triples: one
\* triple each, none skipped.  Empty when the pool is exhausted.
NextLightningPorts(L) ==
    LET free == LnPort \ HeldLightningPorts
    IN  {f \in [L -> free] :
            /\ \A i, j \in L : f[i] = f[j] => i = j
            /\ \A p \in free, i \in L :
                  p < f[i] => \E j \in L : f[j] = p}

-----------------------------------------------------------------------------
(* Writes.  Each fixes rows' and lightning'. *)

\* A mutant: an insert that no unique index guards.
InsertUnguarded(e, o, n, ports) ==
    rows' = [rows EXCEPT ![e] = [status |-> "provisioning", owner |-> o,
                                 name |-> n, port |-> ports]]

\* The unique index on (npub_owner, name) refuses a taken name.
InsertRow(e, o, n, ports) ==
    /\ RowsNamed(o, n) = {}
    /\ rows' = [rows EXCEPT ![e] = [status |-> "provisioning", owner |-> o,
                                    name |-> n, port |-> ports]]

SetStatus(e, s) ==
    /\ rows' = IF Stored(e) THEN [rows EXCEPT ![e].status = s] ELSE rows
    /\ UNCHANGED lightning

\* A mutant: the delete without its status guard.
PurgeAny(e) ==
    /\ rows' = [rows EXCEPT ![e] = NoRow]
    /\ lightning' = [lightning EXCEPT ![e] = NoLn]

\* The status guard is inside the statement; lightning rows cascade.
Purge(e) ==
    IF rows[e].status \in Dead
    THEN /\ rows' = [rows EXCEPT ![e] = NoRow]
         /\ lightning' = [lightning EXCEPT ![e] = NoLn]
    ELSE UNCHANGED storeVars

\* A mutant: only rows that are ready.
MarkExpiredReady(s) ==
    /\ rows' = [e \in Env |->
                   IF Short[e] = s /\ rows[e].status = "ready"
                   THEN [rows[e] EXCEPT !.status = "expired"]
                   ELSE rows[e]]
    /\ UNCHANGED lightning

MarkExpired(s) ==
    /\ rows' = [e \in Env |->
                   IF Short[e] = s /\ rows[e].status \notin {"none", "destroyed"}
                   THEN [rows[e] EXCEPT !.status = "expired"]
                   ELSE rows[e]]
    /\ UNCHANGED lightning

\* One transaction replaces the whole list; the foreign key refuses it once
\* the environment's row is gone.
SetLightning(e, m) ==
    /\ lightning' = IF Stored(e) THEN [lightning EXCEPT ![e] = m] ELSE lightning
    /\ UNCHANGED rows
=============================================================================
