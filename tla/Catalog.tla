------------------------------- MODULE Catalog ------------------------------
(***************************************************************************)
(* What environment.create decides before it touches anything: whether the *)
(* pinned versions go together (signet-core versions.rs), which image each *)
(* component runs, and which components are deployed (signet-orchestrator  *)
(* resolve_images, selected_specs).                                        *)
(*                                                                         *)
(* A version is the sequence of its numeric segments, the rest of the tag  *)
(* does not take part; a call is one catalog, one selection, one wish.     *)
(***************************************************************************)
EXTENDS Integers, Sequences, FiniteSets

CONSTANTS
    Component,
    Version,        \* sequences of numbers
    NoVersion,
    CatalogCalls    \* catalogs with the pins and the components asked for

Rule == [of: Component, at: Version, on: Component,
         op: {">=", "<=", ">", "<", "="}, target: Version]

ASSUME CatalogAssumption ==
    /\ Version \subseteq Seq(Nat) /\ NoVersion \notin Version
    /\ CatalogCalls \subseteq
         [entries: [Component -> SUBSET Version],
          default: [Component -> Version \cup {NoVersion}],
          rules: SUBSET Rule,                       \* `requires`
          pins: [Component -> Version \cup {NoVersion}],
          asked: SUBSET Component,
          deps: [Component -> SUBSET Component]]
    \* The default of a component is one of its entries (default_version).
    /\ \A v \in CatalogCalls : \A c \in Component :
          v.default[c] \in v.entries[c] \cup {NoVersion}

VARIABLES
    choice,     \* the call
    stage,
    todo,       \* components the loop of this stage has not looked at
    image,      \* per component, the version its image has
    wanted      \* components to deploy

catalogVars == <<choice, stage, todo, image, wanted>>

Segment(v, i) == IF i <= Len(v) THEN v[i] ELSE 0

\* compare_segments: the first segment that differs decides; a missing one
\* counts as zero.
Compare(a, b) ==
    LET longer == IF Len(a) > Len(b) THEN Len(a) ELSE Len(b)
        differ == {i \in 1..longer : Segment(a, i) # Segment(b, i)}
    IN  IF differ = {} THEN 0
        ELSE LET i == CHOOSE x \in differ : \A y \in differ : x <= y
             IN  IF Segment(a, i) < Segment(b, i) THEN -1 ELSE 1

\* A mutant: the target's own length decides how much is compared.
SatisfiesPrefix(v, op, target) ==
    LET order == Compare(SubSeq(v, 1, IF Len(v) < Len(target) THEN Len(v) ELSE Len(target)),
                         target)
    IN  CASE op = ">=" -> order # -1
          [] op = "<=" -> order # 1
          [] op = ">" -> order = 1
          [] op = "<" -> order = -1
          [] op = "=" -> order = 0

Satisfies(v, op, target) ==
    LET order == Compare(v, target)
    IN  CASE op = ">=" -> order # -1
          [] op = "<=" -> order # 1
          [] op = ">" -> order = 1
          [] op = "<" -> order = -1
          [] op = "=" -> order = 0

\* The pin, or the default where there is none.
Effective(c) == IF choice.pins[c] # NoVersion THEN choice.pins[c] ELSE choice.default[c]

Pinned == {c \in Component : choice.pins[c] # NoVersion}

CatalogInit ==
    /\ choice \in CatalogCalls
    /\ stage = "pins"
    /\ todo = Pinned
    /\ image = [c \in Component |-> NoVersion]
    /\ wanted = choice.asked

To(next, components) == stage' = next /\ todo' = components
Refuse == To("refused", {}) /\ UNCHANGED <<choice, image, wanted>>

\* Every pinned version must exist.
CheckPin ==
    /\ stage = "pins"
    /\ \/ \E c \in todo :
             IF choice.pins[c] \in choice.entries[c]
             THEN To("pins", todo \ {c}) /\ UNCHANGED <<choice, image, wanted>>
             ELSE Refuse
       \/ todo = {} /\ To("rules", Component) /\ UNCHANGED <<choice, image, wanted>>

\* A mutant: requirements of versions that were not selected count too.
BrokenAny(rule) ==
    /\ Effective(rule.on) # NoVersion
    /\ ~Satisfies(Effective(rule.on), rule.op, rule.target)

\* What entry Effective(c) requires must hold of the effective selection; a
\* component without one is passed over.
Broken(rule) ==
    /\ rule.at = Effective(rule.of) /\ rule.at \in choice.entries[rule.of]
    /\ Effective(rule.on) # NoVersion
    /\ ~Satisfies(Effective(rule.on), rule.op, rule.target)

CheckRules ==
    /\ stage = "rules"
    /\ \/ \E c \in todo :
             IF \E rule \in choice.rules : rule.of = c /\ Broken(rule)
             THEN Refuse
             ELSE To("rules", todo \ {c}) /\ UNCHANGED <<choice, image, wanted>>
       \/ todo = {} /\ To("images", Component) /\ UNCHANGED <<choice, image, wanted>>

\* resolve_images needs a version of every component.
Resolve ==
    /\ stage = "images"
    /\ \/ \E c \in todo :
             IF Effective(c) = NoVersion THEN Refuse
             ELSE /\ image' = [image EXCEPT ![c] = Effective(c)]
                  /\ To("images", todo \ {c}) /\ UNCHANGED <<choice, wanted>>
       \/ todo = {} /\ To("select", wanted) /\ UNCHANGED <<choice, image, wanted>>

\* A mutant: what a dependency needs is not looked at.
SelectOnce ==
    /\ stage = "select"
    /\ \/ \E c \in todo :
             /\ wanted' = wanted \cup choice.deps[c]
             /\ To("select", todo \ {c})
       \/ todo = {} /\ To("ok", {}) /\ UNCHANGED wanted
    /\ UNCHANGED <<choice, image>>

\* selected_specs: the worklist grows by what its members depend on.
Select ==
    /\ stage = "select"
    /\ \/ \E c \in todo :
             /\ wanted' = wanted \cup choice.deps[c]
             /\ To("select", (todo \cup (choice.deps[c] \ wanted)) \ {c})
       \/ todo = {} /\ To("ok", {}) /\ UNCHANGED wanted
    /\ UNCHANGED <<choice, image>>

CatalogNext == CheckPin \/ CheckRules \/ Resolve \/ Select

CatalogSpec == CatalogInit /\ [][CatalogNext]_catalogVars

-----------------------------------------------------------------------------

\* The reference order of versions: v is the same as w if all segments are,
\* above it if its segment is the larger one where they first differ.
Same(v, w) == \A i \in DOMAIN v \cup DOMAIN w : Segment(v, i) = Segment(w, i)

Above(v, w) ==
    \E i \in DOMAIN v :
        /\ Segment(v, i) > Segment(w, i)
        /\ \A j \in 1..(i - 1) : Segment(v, j) = Segment(w, j)

Meets(v, op, target) ==
    \/ op \in {">=", "<=", "="} /\ Same(v, target)
    \/ op \in {">=", ">"} /\ Above(v, target)
    \/ op \in {"<=", "<"} /\ Above(target, v)

\* No environment is deployed with images that a `requires` of the catalog
\* excludes, and none with a version the catalog does not list, however pins
\* and defaults mix (versions.rs validate_selection; lib.rs resolve_images
\* takes pins and defaults a second time, on its own).
DeployedCompatible ==
    stage = "ok" =>
        /\ \A c \in Component : image[c] \in choice.entries[c]
        /\ \A rule \in choice.rules :
              image[rule.of] = rule.at => Meets(image[rule.on], rule.op, rule.target)

\* A selection is refused only for a reason: a pin that is not listed, a
\* requirement that the selection breaks, or a component with no version.
RefusedForCause ==
    stage = "refused" =>
        \/ \E c \in Pinned : choice.pins[c] \notin choice.entries[c]
        \/ \E c \in Component : choice.pins[c] = NoVersion /\ choice.default[c] = NoVersion
        \/ \E rule \in choice.rules :
              LET sel(c) == IF c \in Pinned THEN choice.pins[c] ELSE choice.default[c]
              IN  sel(rule.of) = rule.at /\ ~Meets(sel(rule.on), rule.op, rule.target)

Closed(S) == \A c \in S : choice.deps[c] \subseteq S

\* What is deployed is what was asked for and all it needs, through any
\* number of dependencies, and nothing else (lib.rs selected_specs).
SelectionLeast ==
    stage = "ok" =>
        /\ choice.asked \subseteq wanted /\ Closed(wanted)
        /\ \A S \in SUBSET Component :
              choice.asked \subseteq S /\ Closed(S) => wanted \subseteq S
=============================================================================
