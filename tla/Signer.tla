------------------------------- MODULE Signer -------------------------------
(***************************************************************************)
(* The mining loop of crate signet-signer against one bitcoind: wallet     *)
(* setup, block template, nonce search, submission.  Every call is a step, *)
(* and either process may die between two; Kubernetes starts it again.     *)
(*                                                                         *)
(* bitcoind is external.  Its chain and its wallet files are on a volume;  *)
(* a wallet is loaded by createwallet, until bitcoind stops.  The key fits *)
(* the challenge (one generate_key made both) and templates decode.        *)
(***************************************************************************)
EXTENDS Grind

CONSTANTS
    Premine,    \* premine_blocks
    MaxHeight,  \* bound on the chain
    MaxFaults   \* bound on deaths, lost answers and unlucky headers

ASSUME SignerAssumption == Premine \in Nat /\ MaxHeight \in Nat /\ MaxFaults \in Nat

VARIABLES
    node,   \* bitcoind: running, height of its chain, the faucet wallet
    signer, \* the loop: where it is, and its local variables
    wire,   \* heights of the tips that submissions of dead signers extend
    faults

signerVars == <<node, signer, wire, faults>>
vars == <<grindVars, signerVars>>

Height == 0..MaxHeight

SignerTypeOK ==
    /\ node \in [up: BOOLEAN, height: Height, wallet: {"none", "unloaded", "loaded"}]
    /\ signer \in [pc: {"tick", "info", "walletinfo", "createwallet", "address",
                        "template", "grind", "submit"},
                   spk: BOOLEAN,                    \* the reward address is known
                   blocks: Height, prev: Height,    \* heights it was told
                   delay: {"interval", "quick"}]    \* until the next tick
    /\ wire \in SUBSET Height
    /\ faults \in 0..MaxFaults

Started == [pc |-> "tick", spk |-> FALSE, blocks |-> 0, prev |-> 0, delay |-> "interval"]

Init ==
    /\ GrindInit
    /\ node = [up |-> FALSE, height |-> 0, wallet |-> "none"]
    /\ signer = Started
    /\ wire = {} /\ faults = 0

Fault == faults < MaxFaults /\ faults' = faults + 1
NoFault == UNCHANGED faults

At(pc) == signer.pc = pc
Goto(pc) == signer' = [signer EXCEPT !.pc = pc]
WalletAnswers == node.up /\ node.wallet = "loaded"

-----------------------------------------------------------------------------
(* The loop.  An error goes back to the tick. *)

Tick ==
    /\ At("tick")
    /\ signer' = [signer EXCEPT !.pc = "info", !.delay = "interval"]
    /\ UNCHANGED <<grindVars, node, wire, faults>>

GetInfo ==
    /\ At("info")
    /\ IF node.up
       THEN signer' = [signer EXCEPT !.blocks = node.height,
                           !.pc = IF signer.spk THEN "template" ELSE "walletinfo"]
       ELSE Goto("tick")
    /\ UNCHANGED <<grindVars, node, wire, faults>>

\* A mutant: the wallet is created without asking for it.
GetWalletInfoBlind ==
    /\ At("walletinfo")
    /\ Goto("createwallet")
    /\ UNCHANGED <<grindVars, node, wire, faults>>

\* Whatever the error, the wallet is taken for missing.
GetWalletInfo ==
    /\ At("walletinfo")
    /\ Goto(IF WalletAnswers THEN "address" ELSE "createwallet")
    /\ UNCHANGED <<grindVars, node, wire, faults>>

\* bitcoind refuses a name that is on its volume, loaded or not.  The answer
\* of a success may be lost.
CreateWallet ==
    /\ At("createwallet")
    /\ IF node.up /\ node.wallet = "none"
       THEN /\ node' = [node EXCEPT !.wallet = "loaded"]
            /\ (Goto("address") /\ NoFault) \/ (Goto("tick") /\ Fault)
       ELSE Goto("tick") /\ NoFault /\ UNCHANGED node
    /\ UNCHANGED <<grindVars, wire>>

\* getnewaddress, getaddressinfo.
GetAddress ==
    /\ At("address")
    /\ IF WalletAnswers
       THEN signer' = [signer EXCEPT !.spk = TRUE, !.pc = "template"]
       ELSE Goto("tick")
    /\ UNCHANGED <<grindVars, node, wire, faults>>

\* No template is asked for at the bound of the chain.
GetTemplate ==
    /\ At("template") /\ node.height < MaxHeight
    /\ \/ /\ node.up
          /\ \E v \in SUBSET Nonce : Spawn(v) /\ (IF v = {} THEN Fault ELSE NoFault)
          /\ signer' = [signer EXCEPT !.prev = node.height, !.pc = "grind"]
       \/ ~node.up /\ Goto("tick") /\ NoFault /\ UNCHANGED grindVars
    /\ UNCHANGED <<node, wire>>

Grinding(t) ==
    /\ At("grind") /\ GrindStep(t)
    /\ UNCHANGED signerVars

\* assemble_block returns a block, or NoNonce.
Assembled ==
    /\ At("grind") /\ Joined
    /\ Goto(IF found = {} THEN "tick" ELSE "submit")
    /\ UNCHANGED <<grindVars, node, wire, faults>>

\* A mutant: one quick tick too many.
NextDelayLong(blocks) == IF blocks + 1 <= Premine THEN "quick" ELSE "interval"

NextDelay(blocks) == IF blocks + 1 < Premine THEN "quick" ELSE "interval"

\* bitcoind extends its tip, and nothing else, with the block.
Extends(prev) == node.up /\ prev = node.height /\ node.height < MaxHeight
Extended == node' = [node EXCEPT !.height = @ + 1]

\* Accepted; accepted with the answer lost; rejected or not reachable.
Submit ==
    /\ At("submit")
    /\ \/ /\ Extends(signer.prev) /\ Extended /\ NoFault
          /\ signer' = [signer EXCEPT !.pc = "tick", !.delay = NextDelay(signer.blocks)]
       \/ Extends(signer.prev) /\ Extended /\ Fault /\ Goto("tick")
       \/ ~Extends(signer.prev) /\ Goto("tick") /\ NoFault /\ UNCHANGED node
    /\ UNCHANGED <<grindVars, wire>>

\* A call that fails although bitcoind runs, without effect.
CallFails ==
    /\ signer.pc \notin {"tick", "grind"} /\ Fault
    /\ Goto(IF At("walletinfo") THEN "createwallet" ELSE "tick")
    /\ UNCHANGED <<grindVars, node, wire>>

-----------------------------------------------------------------------------
(* Processes die and start again; stop and start of the environment are    *)
(* the two deaths in a row.                                                *)

NodeDies ==
    /\ node.up /\ Fault
    /\ node' = [node EXCEPT !.up = FALSE,
                            !.wallet = IF @ = "none" THEN "none" ELSE "unloaded"]
    /\ wire' = {}
    /\ UNCHANGED <<grindVars, signer>>

NodeStarts ==
    /\ ~node.up
    /\ node' = [node EXCEPT !.up = TRUE]
    /\ UNCHANGED <<grindVars, signer, wire, faults>>

\* Its submission may be on the wire.
SignerDies ==
    /\ Fault /\ Kill
    /\ signer' = Started
    /\ \/ At("submit") /\ node.up /\ wire' = wire \cup {signer.prev}
       \/ UNCHANGED wire
    /\ UNCHANGED node

WireLands ==
    /\ node.up
    /\ \E prev \in wire :
          /\ IF Extends(prev) THEN Extended ELSE UNCHANGED node
          /\ wire' = wire \ {prev}
    /\ UNCHANGED <<grindVars, signer, faults>>

Loop ==
    \/ Tick \/ GetInfo \/ GetWalletInfo \/ CreateWallet \/ GetAddress
    \/ GetTemplate \/ Assembled \/ Submit

Next ==
    \/ Loop
    \/ \E t \in Thread : Grinding(t)
    \/ CallFails \/ NodeDies \/ NodeStarts \/ SignerDies \/ WireLands

Spec == Init /\ [][Next]_vars

\* Calls return, threads run, and Kubernetes starts bitcoind.
FairSpec ==
    /\ Spec
    /\ WF_vars(Loop) /\ WF_vars(NodeStarts)
    /\ \A t \in Thread : WF_vars(Grinding(t))

-----------------------------------------------------------------------------

\* The short delay is for the premine: the signer never waits it once the
\* chain is longer, even if a submission of its predecessor landed between
\* its look at the height and its own block (main.rs run).
PaceKept == signer.delay = "quick" => node.height <= Premine

\* The wallet is on the volume, not loaded, and the signer has no address.
Stranded == node.wallet = "unloaded" /\ ~signer.spk

\* Blocks keep coming whatever dies and whichever answers are lost, unless a
\* death of bitcoind strands the wallet (main.rs run, ensure_wallet).
MinesOn == <>(node.height = MaxHeight \/ Stranded)

\* README.md: "The signer premines 101 blocks and then follows the block
\* policy."  A death of bitcoind, or a stop and start, refutes it (main.rs
\* ensure_wallet).
KeepsMining == <>(node.height = MaxHeight)
=============================================================================
