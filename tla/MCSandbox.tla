----------------------------- MODULE MCSandbox ------------------------------
(***************************************************************************)
(* Instances of Sandbox for TLC: sets of model values come from the .cfg,  *)
(* values that need an expression are defined here.                        *)
(***************************************************************************)
EXTENDS Sandbox, TLC

\* Each environment has a namespace id of its own: ShortId = Env.
ShortOwn == [e \in Env |-> e]

\* Ids drawn in one millisecond share their first 12 hex digits.
ShortClash == [e \in Env |-> CHOOSE s \in ShortId : TRUE]

NoPool == {{}}
BothPools == {Pool}
OnePool == {{"electrum"}}
AnyPools == {{}, Pool}
NoAsk == {{}}
AnyAsk == SUBSET Instance
SomeAsk == SUBSET Instance \ {{}}

Symmetry == Permutations(Env) \cup Permutations(Request) \cup Permutations(Name)
            \cup Permutations(Instance)
=============================================================================
