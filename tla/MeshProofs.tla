----------------------------- MODULE MeshProofs -----------------------------
(***************************************************************************)
(* Peering keeps its books for any number of environments, instances,      *)
(* tasks, attempts and faults: passes overlap, pods die and rows move      *)
(* under them, and what a pass has behind it is still peered.              *)
(***************************************************************************)
EXTENDS Mesh, TLAPS

\* What a worker may have decided: the environment its pass is over, the
\* attempts a task has left, the instance whose peers it has listed, and the
\* pairs it has behind it.
Kept(w, p, net) ==
    /\ p \in Pass
    /\ p.pc # "off" => p.env \in Env
    /\ p.pc # "off" /\ w \in Task => p.tries >= 1
    /\ p.pc \in {"ids", "wait", "list"} => p.a = None
    /\ p.pc \in {"pair", "recheck"} => p.a \in Instance /\ p.a \notin p.bs
    /\ \A c \in Behind(p) : c \in p.lost \cup net[p.env]

MeshInv == MeshTypeOK /\ \A w \in Worker : Kept(w, pass[w], peered)

-----------------------------------------------------------------------------
(* Where a worker goes. *)

\* A pair is two instances: with one of them known, the other is found.
LEMMA PairsAre ==
    ASSUME NEW names \in SUBSET Instance, NEW c \in Pairs(names), NEW a \in c
    PROVE  /\ c \subseteq names
           /\ \E b \in names : b # a /\ c = {a, b}
BY DEF Pairs

\* A pass begins with its ids, whatever it is over.
LEMMA StartFields ==
    ASSUME NEW e \in Env, NEW names \in SUBSET Instance, NEW tries \in 0..Attempts
    PROVE  LET p == Start(e, names, tries) IN
           p \in Pass /\ p.pc = "ids" /\ p.env = e /\ p.tries = tries /\ p.a = None
<1> DEFINE s1 == [NoPass EXCEPT !.pc = "ids"]
           s2 == [s1 EXCEPT !.env = e]
           s3 == [s2 EXCEPT !.names = names]
           s4 == [s3 EXCEPT !.left = names]
           s5 == [s4 EXCEPT !.tries = tries]
<1>1. NoPass \in Pass /\ NoPass.a = None
  BY MeshAssumption DEF NoPass, Pass, PassPc
<1>2. s1 \in Pass /\ s1.pc = "ids" /\ s1.a = None
  BY <1>1 DEF Pass, PassPc
<1> HIDE DEF s1
<1>3. s2 \in Pass /\ s2.pc = "ids" /\ s2.env = e /\ s2.a = None
  BY <1>2 DEF Pass
<1> HIDE DEF s2
<1>4. s3 \in Pass /\ s3.pc = "ids" /\ s3.env = e /\ s3.a = None
  BY <1>3 DEF Pass
<1> HIDE DEF s3
<1>5. s4 \in Pass /\ s4.pc = "ids" /\ s4.env = e /\ s4.a = None
  BY <1>4 DEF Pass
<1> HIDE DEF s4
<1>6. s5 \in Pass /\ s5.pc = "ids" /\ s5.env = e /\ s5.tries = tries /\ s5.a = None
  BY <1>5 DEF Pass
<1> HIDE DEF s5
<1>7. Start(e, names, tries) = s5
  BY DEF Start, s1, s2, s3, s4, s5
<1> QED BY <1>6, <1>7

\* A pass that does not look at connections yet has nothing behind it.
LEMMA NothingBehind ==
    ASSUME NEW w, NEW net, NEW p \in Pass, p.pc \in {"ids", "wait"}, p.env \in Env, p.a = None,
           w \in Task => p.tries >= 1
    PROVE  Kept(w, p, net)
BY DEF Kept, Behind, Listing

\* A worker without a pass is in order.
LEMMA NoPassKept == ASSUME NEW w, NEW net PROVE Kept(w, NoPass, net)
<1>1. NoPass \in Pass /\ NoPass.pc = "off"
  BY MeshAssumption DEF NoPass, Pass, PassPc
<1> QED BY <1>1 DEF Kept, Behind, Listing

\* The worker has a next pass that is in order.
Goes(w) ==
    /\ todo' \in [Env -> SUBSET Instance]
    /\ \E q : Kept(w, q, peered') /\ pass' = [pass EXCEPT ![w] = q]

\* The reconciler goes on to an environment, or ends its round.
LEMMA OnwardGoes ==
    ASSUME NEW targets \in [Env -> SUBSET Instance], Onward(targets)
    PROVE  Goes(Reconciler)
<1>1. CASE \E e \in Env :
              /\ pass' = [pass EXCEPT ![Reconciler] = Start(e, targets[e], 0)]
              /\ todo' = [targets EXCEPT ![e] = {}]
  <2>1. PICK e \in Env :
              /\ pass' = [pass EXCEPT ![Reconciler] = Start(e, targets[e], 0)]
              /\ todo' = [targets EXCEPT ![e] = {}]
    BY <1>1
  <2> DEFINE q == Start(e, targets[e], 0)
  <2>2. q \in Pass /\ q.pc = "ids" /\ q.env = e /\ q.a = None
    BY StartFields, MeshAssumption
  <2> HIDE DEF q
  <2>3. Kept(Reconciler, q, peered')
    BY <2>2, NothingBehind, MeshAssumption
  <2>4. todo' \in [Env -> SUBSET Instance]
    BY <2>1
  <2>5. pass' = [pass EXCEPT ![Reconciler] = q]
    BY <2>1 DEF q
  <2> QED BY <2>3, <2>4, <2>5 DEF Goes
<1>2. CASE pass' = [pass EXCEPT ![Reconciler] = NoPass] /\ todo' = NoTargets
  <2>1. todo' \in [Env -> SUBSET Instance]
    BY <1>2 DEF NoTargets
  <2> QED BY <1>2, <2>1, NoPassKept DEF Goes
<1> QED BY <1>1, <1>2 DEF Onward

\* A pass is over.
LEMMA EndedGoes == ASSUME MeshInv, NEW w \in Worker, Ended(w) PROVE Goes(w)
<1>1. todo \in [Env -> SUBSET Instance]
  BY DEF MeshInv, MeshTypeOK
<1>2. CASE w = Reconciler
  BY <1>1, <1>2, OnwardGoes DEF Ended
<1>3. CASE w # Reconciler
  <2>1. pass' = [pass EXCEPT ![w] = NoPass] /\ todo' = todo
    BY <1>3 DEF Ended
  <2> QED BY <1>1, <2>1, NoPassKept DEF Goes
<1> QED BY <1>2, <1>3

\* A pass fails: a task that has attempts left waits, with one less.
LEMMA FailedGoes ==
    ASSUME MeshInv, NEW w \in Worker, pass[w].pc # "off", Failed(w)
    PROVE  Goes(w)
<1>1. CASE w = Reconciler \/ pass[w].tries = 1
  BY <1>1, EndedGoes DEF Failed
<1>2. CASE w # Reconciler /\ pass[w].tries # 1
  <2> DEFINE p == pass[w]
             s == Start(p.env, p.names, p.tries - 1)
             q == [s EXCEPT !.pc = "wait"]
  <2>1. p \in Pass /\ p.env \in Env /\ w \in Task /\ p.tries >= 1
    BY <1>2 DEF MeshInv, MeshTypeOK, Kept, Worker
  <2>2. p.names \in SUBSET Instance /\ p.tries \in 0..Attempts
    BY <2>1 DEF Pass
  <2>3. p.tries - 1 \in 0..Attempts /\ p.tries - 1 >= 1
    BY <1>2, <2>1, <2>2, MeshAssumption
  <2>4. pass' = [pass EXCEPT ![w] = q] /\ todo' = todo
    BY <1>2 DEF Failed, Later
  <2> HIDE DEF p
  <2>5. s \in Pass /\ s.env = p.env /\ s.tries = p.tries - 1 /\ s.a = None
    BY <2>1, <2>2, <2>3, StartFields
  <2> HIDE DEF s
  <2>6. q \in Pass /\ q.pc = "wait" /\ q.env \in Env /\ q.tries >= 1 /\ q.a = None
    BY <2>1, <2>3, <2>5 DEF Pass, PassPc
  <2> HIDE DEF q
  <2>7. Kept(w, q, peered')
    BY <2>6, NothingBehind
  <2> QED BY <2>4, <2>7 DEF Goes, MeshInv, MeshTypeOK
<1> QED BY <1>1, <1>2

\* A pair is dealt with: the next b, the next a, or the end.  What is behind
\* the pass after it was behind it before.
LEMMA PairedGoes ==
    ASSUME MeshInv, NEW w \in Worker, NEW p \in Pass,
           p.env \in Env, p.pc \in {"list", "pair", "recheck"},
           w \in Task => p.tries >= 1, p.a \in Instance, p.a \notin p.bs,
           \A c \in Pairs(p.names) :
              (\E x \in c : x \notin p.left \cup {p.a}) \/ (p.a \in c /\ c \cap p.bs = {})
                 => c \in p.lost \cup peered'[p.env],
           Paired(w, p)
    PROVE  Goes(w)
<1>1. todo \in [Env -> SUBSET Instance]
  BY DEF MeshInv, MeshTypeOK
<1>2. CASE p.bs # {}
  <2> DEFINE p1 == [p EXCEPT !.pc = "pair"]
             q == [p1 EXCEPT !.b = None]
  <2>1. /\ p1 \in Pass /\ p1.pc = "pair" /\ p1.env = p.env /\ p1.names = p.names
        /\ p1.left = p.left /\ p1.a = p.a /\ p1.bs = p.bs /\ p1.tries = p.tries
        /\ p1.lost = p.lost
    BY DEF Pass, PassPc
  <2>2. pass' = [pass EXCEPT ![w] = q] /\ todo' = todo
    BY <1>2 DEF Paired, Move
  <2> HIDE DEF p1
  <2>3. /\ q \in Pass /\ q.pc = "pair" /\ q.env = p.env /\ q.names = p.names
        /\ q.left = p.left /\ q.a = p.a /\ q.bs = p.bs /\ q.tries = p.tries
        /\ q.lost = p.lost
    BY <2>1 DEF Pass
  <2> HIDE DEF q
  <2>4. Kept(w, q, peered')
    BY <2>3 DEF Kept, Behind, Listing
  <2> QED BY <1>1, <2>2, <2>4 DEF Goes
<1>3. CASE p.bs = {} /\ p.left # {}
  <2> DEFINE p1 == [p EXCEPT !.pc = "list"]
             p2 == [p1 EXCEPT !.a = None]
             q == [p2 EXCEPT !.b = None]
  <2>1. /\ p1 \in Pass /\ p1.pc = "list" /\ p1.env = p.env /\ p1.names = p.names
        /\ p1.left = p.left /\ p1.bs = p.bs /\ p1.tries = p.tries /\ p1.lost = p.lost
    BY DEF Pass, PassPc
  <2>2. pass' = [pass EXCEPT ![w] = q] /\ todo' = todo
    BY <1>3 DEF Paired, Move
  <2> HIDE DEF p1
  <2>3. /\ p2 \in Pass /\ p2.pc = "list" /\ p2.env = p.env /\ p2.names = p.names
        /\ p2.left = p.left /\ p2.bs = p.bs /\ p2.tries = p.tries /\ p2.lost = p.lost
        /\ p2.a = None
    BY <2>1 DEF Pass
  <2> HIDE DEF p2
  <2>4. /\ q \in Pass /\ q.pc = "list" /\ q.env = p.env /\ q.names = p.names
        /\ q.left = p.left /\ q.bs = p.bs /\ q.tries = p.tries /\ q.lost = p.lost
        /\ q.a = None
    BY <2>3 DEF Pass
  <2> HIDE DEF q
  <2>5. ASSUME NEW c \in Behind(q) PROVE c \in p.lost \cup peered'[p.env]
    <3>1. c \in Pairs(p.names) /\ c \subseteq Instance
      BY <2>4 DEF Behind, Pairs, Pass
    <3>2. \E x \in c : x \notin p.left
      BY <2>4, <3>1, MeshAssumption DEF Behind
    <3> QED BY <1>3, <3>1, <3>2
  <2>6. Kept(w, q, peered')
    BY <2>4, <2>5 DEF Kept
  <2> QED BY <1>1, <2>2, <2>6 DEF Goes
<1>4. CASE p.bs = {} /\ p.left = {}
  BY <1>4, EndedGoes DEF Paired
<1> QED BY <1>2, <1>3, <1>4

-----------------------------------------------------------------------------
(* The steps of a pass. *)

\* A step of one worker: no connection is lost by it, and the other passes
\* stay as they are.
LEMMA OnePass ==
    ASSUME MeshInv, NEW w \in Worker, Goes(w), NoFault \/ Fault,
           UNCHANGED <<storeVars, clusterVars>>,
           peered' \in [Env -> SUBSET SUBSET Instance],
           \A e \in Env : peered[e] \subseteq peered'[e]
    PROVE  MeshInv'
<1>1. PICK q : Kept(w, q, peered') /\ pass' = [pass EXCEPT ![w] = q]
  BY DEF Goes
<1>2. faults' \in 0..MaxFaults
  BY MeshAssumption DEF MeshInv, MeshTypeOK, NoFault, Fault
<1>3. pass \in [Worker -> Pass] /\ q \in Pass
  BY <1>1 DEF MeshInv, MeshTypeOK, Kept
<1>4. MeshTypeOK'
  BY <1>1, <1>2, <1>3 DEF MeshInv, MeshTypeOK, Goes, storeVars, clusterVars
<1>5. ASSUME NEW v \in Worker PROVE Kept(v, pass'[v], peered')
  <2>1. CASE v = w
    BY <1>1, <1>3, <2>1
  <2>2. CASE v # w
    <3>1. pass'[v] = pass[v] /\ Kept(v, pass[v], peered)
      BY <1>1, <1>3, <2>2 DEF MeshInv
    <3>2. CASE pass[v].pc = "off"
      BY <3>1, <3>2 DEF Kept, Behind, Listing
    <3>3. CASE pass[v].pc # "off"
      BY <3>1, <3>3 DEF Kept
    <3> QED BY <3>2, <3>3
  <2> QED BY <2>1, <2>2
<1>6. \A v \in Worker : Kept(v, pass[v], peered)'
  BY <1>5
<1> QED BY <1>4, <1>6 DEF MeshInv

\* What is known of the pass of a worker that runs.
LEMMA RunningPass ==
    ASSUME MeshInv, NEW w \in Worker, pass[w].pc # "off"
    PROVE  /\ pass[w] \in Pass /\ pass[w].env \in Env
           /\ w \in Task => pass[w].tries >= 1
           /\ pass \in [Worker -> Pass] /\ todo \in [Env -> SUBSET Instance]
           /\ peered \in [Env -> SUBSET SUBSET Instance]
BY DEF MeshInv, MeshTypeOK, Kept

\* The ids are read: then the pass starts to list, with nothing behind it.
LEMMA ReadIdKeeps == ASSUME MeshInv, NEW w \in Worker, ReadId(w) PROVE MeshInv'
<1> DEFINE p == pass[w]
           i == CHOOSE x \in p.left : TRUE
<1>1. p.pc = "ids" /\ UNCHANGED <<storeVars, clusterVars, peered>>
  BY DEF ReadId
<1>2. /\ p \in Pass /\ p.env \in Env /\ p.a = None
      /\ w \in Task => p.tries >= 1
      /\ pass \in [Worker -> Pass] /\ todo \in [Env -> SUBSET Instance]
      /\ peered \in [Env -> SUBSET SUBSET Instance]
  BY <1>1, RunningPass DEF MeshInv, Kept
<1>3. \/ /\ NoFault
         /\ Move(w, IF p.left = {i} THEN [p EXCEPT !.pc = "list", !.left = p.names]
                    ELSE [p EXCEPT !.left = @ \ {i}])
      \/ (NoFault \/ Fault) /\ Failed(w)
  BY DEF ReadId
<1>4. ASSUME Move(w, [p EXCEPT !.pc = "list", !.left = p.names])
      PROVE  Goes(w)
  <2> DEFINE p1 == [p EXCEPT !.pc = "list"]
             q == [p1 EXCEPT !.left = p.names]
  <2>1. /\ p1 \in Pass /\ p1.pc = "list" /\ p1.env = p.env /\ p1.names = p.names
        /\ p1.tries = p.tries /\ p1.a = None
    BY <1>2 DEF Pass, PassPc
  <2>2. pass' = [pass EXCEPT ![w] = q] /\ todo' = todo
    BY <1>4 DEF Move
  <2> HIDE DEF p1
  <2>3. /\ q \in Pass /\ q.pc = "list" /\ q.env = p.env /\ q.names = p.names
        /\ q.left = p.names /\ q.tries = p.tries /\ q.a = None
    BY <1>2, <2>1 DEF Pass
  <2> HIDE DEF q
  <2>4. ASSUME NEW c \in Behind(q) PROVE FALSE
    <3>1. c \in Pairs(q.names)
      BY <2>3 DEF Behind
    <3>2. c \subseteq q.names /\ q.names \subseteq Instance
      BY <2>3, <3>1 DEF Pairs, Pass
    <3> QED BY <2>3, <3>2, MeshAssumption DEF Behind
  <2>5. Kept(w, q, peered')
    BY <1>2, <2>3, <2>4 DEF Kept
  <2> QED BY <1>2, <2>2, <2>5 DEF Goes
<1>5. ASSUME Move(w, [p EXCEPT !.left = @ \ {i}]) PROVE Goes(w)
  <2> DEFINE q == [p EXCEPT !.left = @ \ {i}]
  <2>1. /\ q \in Pass /\ q.pc = "ids" /\ q.env = p.env /\ q.tries = p.tries /\ q.a = None
        /\ pass' = [pass EXCEPT ![w] = q] /\ todo' = todo
    BY <1>1, <1>2, <1>5 DEF Pass, Move
  <2> HIDE DEF q
  <2>2. Kept(w, q, peered')
    BY <1>2, <2>1, NothingBehind
  <2> QED BY <1>2, <2>1, <2>2 DEF Goes
<1>6. ASSUME Failed(w) PROVE Goes(w)
  BY <1>1, <1>6, FailedGoes
<1>7. Goes(w)
  BY <1>3, <1>4, <1>5, <1>6
<1> QED BY <1>1, <1>2, <1>3, <1>7, OnePass

\* The peers of the next `a` are read: a pair that the pass has behind it now
\* and had not before is one that this list shows.
LEMMA ListPeersKeeps == ASSUME MeshInv, NEW w \in Worker, ListPeers(w) PROVE MeshInv'
<1> DEFINE p == pass[w]
<1>1. p.pc = "list" /\ UNCHANGED <<storeVars, clusterVars, peered>>
  BY DEF ListPeers
<1>2. /\ p \in Pass /\ p.env \in Env /\ p.a = None
      /\ w \in Task => p.tries >= 1
      /\ peered \in [Env -> SUBSET SUBSET Instance]
      /\ \A c \in Behind(p) : c \in p.lost \cup peered[p.env]
  BY <1>1, RunningPass DEF MeshInv, Kept
<1>3. PICK a \in p.left :
         \/ /\ NoFault
            /\ Paired(w, [p EXCEPT !.a = a, !.left = @ \ {a},
                                   !.bs = p.left \ ({a} \cup Peers(w, a))])
         \/ (NoFault \/ Fault) /\ Failed(w)
  BY DEF ListPeers
<1>4. ASSUME Paired(w, [p EXCEPT !.a = a, !.left = @ \ {a},
                                 !.bs = p.left \ ({a} \cup Peers(w, a))])
      PROVE  Goes(w)
  <2> DEFINE p1 == [p EXCEPT !.a = a]
             p2 == [p1 EXCEPT !.left = @ \ {a}]
             q == [p2 EXCEPT !.bs = p.left \ ({a} \cup Peers(w, a))]
  <2>1. a \in Instance
    BY <1>2, <1>3 DEF Pass
  <2>2. /\ p1 \in Pass /\ p1.pc = "list" /\ p1.env = p.env /\ p1.names = p.names
        /\ p1.left = p.left /\ p1.a = a /\ p1.tries = p.tries /\ p1.lost = p.lost
    BY <1>1, <1>2, <2>1 DEF Pass
  <2>3. Paired(w, q)
    BY <1>4
  <2> HIDE DEF p1
  <2>4. /\ p2 \in Pass /\ p2.pc = "list" /\ p2.env = p.env /\ p2.names = p.names
        /\ p2.left = p.left \ {a} /\ p2.a = a /\ p2.tries = p.tries /\ p2.lost = p.lost
    BY <2>2 DEF Pass
  <2> HIDE DEF p2
  <2>5. /\ q \in Pass /\ q.pc = "list" /\ q.env = p.env /\ q.names = p.names
        /\ q.left = p.left \ {a} /\ q.a = a /\ q.tries = p.tries /\ q.lost = p.lost
        /\ q.bs = p.left \ ({a} \cup Peers(w, a))
    BY <1>2, <2>4 DEF Pass
  <2> HIDE DEF q
  <2>6. ASSUME NEW c \in Pairs(q.names),
               (\E x \in c : x \notin q.left \cup {q.a}) \/ (q.a \in c /\ c \cap q.bs = {})
        PROVE  c \in q.lost \cup peered'[q.env]
    <3>1. c \in Pairs(p.names) /\ p.names \in SUBSET Instance
      BY <1>2, <2>5 DEF Pass
    <3>2. CASE \E x \in c : x \notin p.left
      <4>1. \A x \in c : x \in Instance
        BY <3>1, PairsAre
      <4>2. c \in Behind(p)
        BY <1>1, <1>2, <3>1, <3>2, <4>1, MeshAssumption DEF Behind, Listing
      <4> QED BY <1>1, <1>2, <2>5, <4>2
    <3>3. CASE c \subseteq p.left
      <4>1. a \in c /\ c \cap (p.left \ ({a} \cup Peers(w, a))) = {}
        BY <2>5, <2>6, <3>3
      <4>2. PICK b \in p.names : b # a /\ c = {a, b}
        BY <3>1, <4>1, PairsAre
      <4>3. b \in Peers(w, a)
        BY <3>3, <4>1, <4>2
      <4> QED BY <1>1, <2>5, <4>2, <4>3 DEF Peers
    <3> QED BY <3>2, <3>3
  <2> QED BY <1>2, <2>1, <2>3, <2>5, <2>6, PairedGoes
<1>5. ASSUME Failed(w) PROVE Goes(w)
  BY <1>1, <1>5, FailedGoes
<1>6. Goes(w)
  BY <1>3, <1>4, <1>5
<1> QED BY <1>1, <1>2, <1>3, <1>6, OnePass

\* With b taken from bs, {a, b} is all that comes to be behind the pass.
LEMMA OneBehind ==
    ASSUME MeshInv, NEW w \in Worker, pass[w].pc \in {"pair", "recheck"}, NEW b \in Instance,
           \A e \in Env : peered[e] \subseteq peered'[e],
           {pass[w].a, b} \in peered'[pass[w].env],
           Paired(w, [pass[w] EXCEPT !.bs = @ \ {b}])
    PROVE  Goes(w)
<1> DEFINE p == pass[w]
           q == [p EXCEPT !.bs = @ \ {b}]
<1>1. /\ p \in Pass /\ p.env \in Env /\ p.a \in Instance /\ p.a \notin p.bs
      /\ w \in Task => p.tries >= 1
      /\ \A c \in Behind(p) : c \in p.lost \cup peered[p.env]
  BY RunningPass DEF MeshInv, Kept
<1>2. /\ q \in Pass /\ q.pc = p.pc /\ q.env = p.env /\ q.names = p.names /\ q.left = p.left
      /\ q.a = p.a /\ q.bs = p.bs \ {b} /\ q.tries = p.tries /\ q.lost = p.lost
  BY <1>1 DEF Pass
<1> HIDE DEF q
<1>3. ASSUME NEW c \in Pairs(q.names),
             (\E x \in c : x \notin q.left \cup {q.a}) \/ (q.a \in c /\ c \cap q.bs = {})
      PROVE  c \in q.lost \cup peered'[q.env]
  <2>1. c \in Pairs(p.names) /\ p.names \in SUBSET Instance
    BY <1>1, <1>2 DEF Pass
  <2>2. CASE c \in Behind(p)
    BY <1>1, <1>2, <2>2
  <2>3. CASE c \notin Behind(p)
    <3>1. p.a \in c /\ c \cap (p.bs \ {b}) = {} /\ c \cap p.bs # {}
      BY <1>2, <1>3, <2>1, <2>3 DEF Behind, Listing
    <3>2. PICK x \in p.names : x # p.a /\ c = {p.a, x}
      BY <2>1, <3>1, PairsAre
    <3>3. x = b
      BY <1>1, <3>1, <3>2
    <3> QED BY <1>2, <3>2, <3>3
  <2> QED BY <2>2, <2>3
<1>4. Paired(w, q)
  BY DEF q
<1> QED BY <1>1, <1>2, <1>3, <1>4, PairedGoes

\* connect joins a and b, or says it did not: then the pass looks again.
LEMMA ConnectKeeps == ASSUME MeshInv, NEW w \in Worker, Connect(w) PROVE MeshInv'
<1> DEFINE p == pass[w]
<1>1. p.pc = "pair" /\ UNCHANGED <<storeVars, clusterVars>>
  BY DEF Connect
<1>2. /\ p \in Pass /\ p.env \in Env /\ p.a \in Instance /\ p.a \notin p.bs
      /\ w \in Task => p.tries >= 1
      /\ pass \in [Worker -> Pass] /\ todo \in [Env -> SUBSET Instance]
      /\ peered \in [Env -> SUBSET SUBSET Instance]
      /\ \A c \in Behind(p) : c \in p.lost \cup peered[p.env]
  BY <1>1, RunningPass DEF MeshInv, Kept
<1>3. PICK b \in p.bs :
         LET joined == [peered EXCEPT ![p.env] = @ \cup {{p.a, b}}]
         IN  \/ /\ NoFault /\ peered' = joined
                /\ Paired(w, [p EXCEPT !.bs = @ \ {b}])
             \/ /\ NoFault \/ Fault
                /\ peered' = peered \/ peered' = joined
                /\ Move(w, [p EXCEPT !.pc = "recheck", !.b = b])
  BY DEF Connect
<1>4. b \in Instance
  BY <1>2, <1>3 DEF Pass
<1>5. /\ peered' \in [Env -> SUBSET SUBSET Instance]
      /\ \A e \in Env : peered[e] \subseteq peered'[e]
  BY <1>2, <1>3, <1>4
<1>6. ASSUME peered' = [peered EXCEPT ![p.env] = @ \cup {{p.a, b}}],
             Paired(w, [p EXCEPT !.bs = @ \ {b}])
      PROVE  Goes(w)
  <2>1. {p.a, b} \in peered'[p.env]
    BY <1>2, <1>6
  <2> QED BY <1>1, <1>4, <1>5, <1>6, <2>1, OneBehind
<1>7. ASSUME Move(w, [p EXCEPT !.pc = "recheck", !.b = b]) PROVE Goes(w)
  <2> DEFINE p1 == [p EXCEPT !.pc = "recheck"]
             q == [p1 EXCEPT !.b = b]
  <2>1. /\ p1 \in Pass /\ p1.pc = "recheck" /\ p1.env = p.env /\ p1.names = p.names
        /\ p1.left = p.left /\ p1.a = p.a /\ p1.bs = p.bs /\ p1.tries = p.tries
        /\ p1.lost = p.lost
    BY <1>2 DEF Pass, PassPc
  <2>2. pass' = [pass EXCEPT ![w] = q] /\ todo' = todo
    BY <1>7 DEF Move
  <2> HIDE DEF p1
  <2>3. /\ q \in Pass /\ q.pc = "recheck" /\ q.env = p.env /\ q.names = p.names
        /\ q.left = p.left /\ q.a = p.a /\ q.bs = p.bs /\ q.tries = p.tries
        /\ q.lost = p.lost
    BY <1>4, <2>1 DEF Pass
  <2> HIDE DEF q
  <2>4. Behind(q) = Behind(p)
    BY <1>1, <2>3 DEF Behind, Listing
  <2>5. Kept(w, q, peered')
    BY <1>2, <1>5, <2>3, <2>4 DEF Kept
  <2> QED BY <1>2, <2>2, <2>5 DEF Goes
<1>8. Goes(w)
  BY <1>3, <1>6, <1>7
<1> QED BY <1>1, <1>3, <1>5, <1>8, OnePass

\* Already peered is success: a and b are.
LEMMA RecheckKeeps == ASSUME MeshInv, NEW w \in Worker, Recheck(w) PROVE MeshInv'
<1> DEFINE p == pass[w]
<1>1. p.pc = "recheck" /\ UNCHANGED <<storeVars, clusterVars, peered>>
  BY DEF Recheck
<1>2. peered \in [Env -> SUBSET SUBSET Instance]
  BY <1>1, RunningPass
<1>3. CASE p.b \in Peers(w, p.a) /\ NoFault /\ Paired(w, [p EXCEPT !.bs = @ \ {p.b}])
  <2>1. p.b \in Instance /\ {p.a, p.b} \in peered'[p.env]
    BY <1>1, <1>3 DEF Peers
  <2>2. Goes(w)
    BY <1>1, <1>3, <2>1, OneBehind
  <2> QED BY <1>1, <1>2, <1>3, <2>2, OnePass
<1>4. CASE (NoFault \/ Fault) /\ Failed(w)
  <2>1. Goes(w)
    BY <1>1, <1>4, FailedGoes
  <2> QED BY <1>1, <1>2, <1>4, <2>1, OnePass
<1> QED BY <1>3, <1>4 DEF Recheck

\* A task wakes up for its next attempt.
LEMMA RetryKeeps == ASSUME MeshInv, NEW t \in Task, Retry(t) PROVE MeshInv'
<1> DEFINE p == pass[t]
           q == [p EXCEPT !.pc = "ids"]
<1>1. t \in Worker /\ p.pc = "wait" /\ UNCHANGED <<storeVars, clusterVars, peered, faults>>
      /\ todo' = todo /\ pass' = [pass EXCEPT ![t].pc = "ids"]
  BY DEF Retry, Worker
<1>2. /\ p \in Pass /\ p.env \in Env /\ p.a = None /\ p.tries >= 1
      /\ pass \in [Worker -> Pass] /\ todo \in [Env -> SUBSET Instance]
      /\ peered \in [Env -> SUBSET SUBSET Instance]
  BY <1>1, RunningPass DEF MeshInv, Kept
<1>3. pass' = [pass EXCEPT ![t] = q]
  BY <1>1
<1>4. q \in Pass /\ q.pc = "ids" /\ q.env \in Env /\ q.a = None /\ q.tries >= 1
  BY <1>2 DEF Pass, PassPc
<1> HIDE DEF q
<1>5. Kept(t, q, peered')
  BY <1>4, NothingBehind
<1>6. Goes(t)
  BY <1>1, <1>2, <1>3, <1>5 DEF Goes
<1> QED BY <1>1, <1>2, <1>6, OnePass DEF NoFault

\* The reconciler reads what is live and recorded, and starts a round.
LEMMA TargetsKeeps == ASSUME MeshInv, Targets PROVE MeshInv'
<1> DEFINE targets == [e \in Env |-> IF status[e] = "live" THEN recorded[e] ELSE {}]
<1>1. /\ UNCHANGED <<storeVars, clusterVars, peered>>
      /\ peered \in [Env -> SUBSET SUBSET Instance]
      /\ targets \in [Env -> SUBSET Instance] /\ todo \in [Env -> SUBSET Instance]
      /\ Reconciler \in Worker
  BY DEF Targets, MeshInv, MeshTypeOK, Worker
<1>2. CASE NoFault /\ Onward(targets)
  <2>1. Goes(Reconciler)
    BY <1>1, <1>2, OnwardGoes
  <2> QED BY <1>1, <1>2, <2>1, OnePass
<1>3. CASE Fault /\ UNCHANGED <<pass, todo>>
  <2>1. Kept(Reconciler, pass[Reconciler], peered') /\ pass \in [Worker -> Pass]
    BY <1>1, <1>3 DEF MeshInv, MeshTypeOK
  <2>2. Goes(Reconciler)
    BY <1>1, <1>3, <2>1 DEF Goes
  <2> QED BY <1>1, <1>3, <2>2, OnePass
<1> QED BY <1>2, <1>3 DEF Targets

-----------------------------------------------------------------------------
(* Around the passes. *)

\* Connections end: every pass that looks at them has taken note.
LEMMA LoseKeeps ==
    ASSUME MeshInv, NEW e \in Env, NEW cut \in SUBSET SUBSET Instance, Lose(e, cut)
    PROVE  /\ pass' \in [Worker -> Pass]
           /\ peered' \in [Env -> SUBSET SUBSET Instance]
           /\ \A w \in Worker : Kept(w, pass'[w], peered')
<1>1. pass \in [Worker -> Pass] /\ peered \in [Env -> SUBSET SUBSET Instance]
  BY DEF MeshInv, MeshTypeOK
<1>2. peered' = [peered EXCEPT ![e] = @ \ cut]
  BY DEF Lose
<1>3. ASSUME NEW w \in Worker PROVE Kept(w, pass'[w], peered') /\ pass'[w] \in Pass
  <2> DEFINE p == pass[w]
             q == [p EXCEPT !.lost = @ \cup cut]
  <2>1. p \in Pass /\ Kept(w, p, peered)
    BY <1>1 DEF MeshInv
  <2>2. CASE p.env = e /\ Listing(p)
    <3>1. /\ q \in Pass /\ q.pc = p.pc /\ q.env = p.env /\ q.names = p.names
          /\ q.left = p.left /\ q.a = p.a /\ q.bs = p.bs /\ q.tries = p.tries
          /\ q.lost = p.lost \cup cut
      BY <2>1 DEF Pass
    <3>2. pass'[w] = q
      BY <2>2 DEF Lose
    <3> HIDE DEF q
    <3>3. Behind(q) = Behind(p)
      BY <3>1 DEF Behind, Listing
    <3>4. \A c \in Behind(q) : c \in q.lost \cup peered'[q.env]
      BY <1>1, <1>2, <2>1, <2>2, <3>1, <3>3 DEF Kept
    <3> QED BY <2>1, <3>1, <3>2, <3>4 DEF Kept
  <2>3. CASE ~(p.env = e /\ Listing(p))
    <3>1. pass'[w] = p
      BY <2>3 DEF Lose
    <3>2. CASE ~Listing(p)
      BY <2>1, <3>1, <3>2 DEF Kept, Behind
    <3>3. CASE Listing(p) /\ p.env # e
      <4>1. peered'[p.env] = peered[p.env]
        BY <1>1, <1>2, <2>1, <3>3 DEF Kept, Listing
      <4> QED BY <2>1, <3>1, <4>1 DEF Kept
    <3> QED BY <2>3, <3>2, <3>3
  <2> QED BY <2>2, <2>3
<1>4. pass' \in [Worker -> Pass]
  BY <1>3 DEF Lose
<1> QED BY <1>1, <1>2, <1>3, <1>4

\* The task that a create or an update spawns begins with its ids.
LEMMA SpawnKeeps ==
    ASSUME MeshInv, NEW e \in Env, NEW names \in SUBSET Instance, Spawn(e, names),
           peered' = peered
    PROVE  pass' \in [Worker -> Pass] /\ \A w \in Worker : Kept(w, pass'[w], peered')
<1>1. pass \in [Worker -> Pass] /\ \A w \in Worker : Kept(w, pass[w], peered)
  BY DEF MeshInv, MeshTypeOK
<1>2. CASE UNCHANGED pass
  BY <1>1, <1>2
<1>3. CASE \E t \in Task : pass' = [pass EXCEPT ![t] = Start(e, names, Attempts)]
  <2> DEFINE q == Start(e, names, Attempts)
  <2>1. PICK t \in Task : pass' = [pass EXCEPT ![t] = q]
    BY <1>3
  <2>2. Attempts \in 0..Attempts /\ Attempts >= 1
    BY MeshAssumption
  <2>3. q \in Pass /\ q.pc = "ids" /\ q.env = e /\ q.tries = Attempts /\ q.a = None
    BY <2>2, StartFields
  <2> HIDE DEF q
  <2>4. Kept(t, q, peered')
    BY <2>2, <2>3, NothingBehind
  <2> QED BY <1>1, <2>1, <2>3, <2>4 DEF Worker
<1> QED BY <1>2, <1>3 DEF Spawn

\* What an owner, a pod or the controller does around the passes.
LEMMA AroundKeeps == ASSUME MeshInv, NEW e \in Env, Around(e) PROVE MeshInv'
<1>1. /\ MeshTypeOK
      /\ \A w \in Worker : Kept(w, pass[w], peered)
      /\ \A names \in Asks[e] : names \in SUBSET Instance
  BY MeshAssumption DEF MeshInv
<1>2. CASE Create(e) \/ Update(e)
  <2>1. PICK names \in Asks[e] :
           /\ peered' = peered /\ up' = up /\ todo' = todo
           /\ status' \in [Env -> EnvState]
           /\ \E made \in SUBSET names : Deploy(e, made)
           /\ recorded' = recorded \/ recorded' = [recorded EXCEPT ![e] = names]
           /\ NoFault \/ Fault
           /\ Spawn(e, names) \/ UNCHANGED pass
    <3>1. CASE Create(e)
      BY <1>1, <3>1 DEF Create, Record, MeshTypeOK, EnvState
    <3>2. CASE Update(e)
      BY <1>1, <3>2 DEF Update, Record, MeshTypeOK
    <3> QED BY <1>2, <3>1, <3>2
  <2>2. /\ deployed' \in [Env -> SUBSET Instance] /\ recorded' \in [Env -> SUBSET Instance]
        /\ faults' \in 0..MaxFaults
    BY <1>1, <2>1, MeshAssumption DEF Deploy, MeshTypeOK, NoFault, Fault
  <2>3. pass' \in [Worker -> Pass] /\ \A w \in Worker : Kept(w, pass'[w], peered')
    BY <1>1, <2>1, SpawnKeeps DEF MeshTypeOK
  <2> QED BY <1>1, <2>1, <2>2, <2>3 DEF MeshInv, MeshTypeOK
<1>3. CASE Stop(e) \/ Restart(e)
  <2>1. /\ status' \in [Env -> EnvState]
        /\ UNCHANGED <<deployed, recorded, up, peered, pass, todo, faults>>
    BY <1>1, <1>3 DEF Stop, Restart, MeshTypeOK, EnvState
  <2> QED BY <1>1, <2>1 DEF MeshInv, MeshTypeOK
<1>4. CASE Destroy(e)
  <2>1. /\ pass' \in [Worker -> Pass] /\ peered' \in [Env -> SUBSET SUBSET Instance]
        /\ \A w \in Worker : Kept(w, pass'[w], peered')
    BY <1>1, <1>4, LoseKeeps DEF Destroy, MeshTypeOK
  <2> QED BY <1>1, <1>4, <2>1 DEF Destroy, MeshInv, MeshTypeOK, EnvState
<1>5. CASE \E i \in Instance : WalletUp(e, i)
  <2>1. /\ up' \in [Env -> SUBSET Instance]
        /\ UNCHANGED <<status, deployed, recorded, peered, pass, todo, faults>>
    BY <1>1, <1>5 DEF WalletUp, MeshTypeOK
  <2> QED BY <1>1, <2>1 DEF MeshInv, MeshTypeOK
<1>6. CASE \E i \in Instance : PodDies(e, i)
  <2>1. PICK i \in Instance : PodDies(e, i)
    BY <1>6
  <2> DEFINE cut == {c \in peered[e] : i \in c}
  <2>2. cut \in SUBSET SUBSET Instance /\ Lose(e, cut)
    BY <1>1, <2>1 DEF PodDies, MeshTypeOK
  <2>3. /\ pass' \in [Worker -> Pass] /\ peered' \in [Env -> SUBSET SUBSET Instance]
        /\ \A w \in Worker : Kept(w, pass'[w], peered')
    BY <2>2, LoseKeeps
  <2> QED BY <1>1, <2>1, <2>3 DEF PodDies, MeshInv, MeshTypeOK
<1> QED BY <1>2, <1>3, <1>4, <1>5, <1>6 DEF Around

\* The API dies, and with it every pass.
LEMMA ApiDiesKeeps == ASSUME MeshInv, ApiDies PROVE MeshInv'
<1>1. \A w \in Worker : Kept(w, NoPass, peered')
  BY NoPassKept
<1>2. NoPass \in Pass
  BY NoPassKept DEF Kept
<1>3. /\ pass' = [w \in Worker |-> NoPass] /\ faults' \in 0..MaxFaults
      /\ UNCHANGED <<storeVars, clusterVars, peered>> /\ todo' \in [Env -> SUBSET Instance]
  BY MeshAssumption DEF ApiDies, Fault, NoTargets, MeshInv, MeshTypeOK
<1> QED BY <1>1, <1>2, <1>3 DEF MeshInv, MeshTypeOK, storeVars, clusterVars

-----------------------------------------------------------------------------
(* Theorems. *)

\* No environment and no pass is there: nothing is behind anybody.
LEMMA MeshStart == MeshInit => MeshInv
<1> SUFFICES ASSUME MeshInit PROVE MeshInv
  OBVIOUS
<1>1. \A w \in Worker : Kept(w, NoPass, peered) /\ NoPass \in Pass
  BY NoPassKept DEF Kept
<1>2. MeshTypeOK
  BY <1>1, MeshAssumption DEF MeshInit, MeshTypeOK, NoTargets, EnvState
<1>3. \A w \in Worker : pass[w] = NoPass
  BY DEF MeshInit
<1> QED BY <1>1, <1>2, <1>3 DEF MeshInv

\* One step of a worker, of an owner, of the cluster or of the API.
LEMMA MeshKept == MeshInv /\ [MeshNext]_meshVars => MeshInv'
<1> SUFFICES ASSUME MeshInv, [MeshNext]_meshVars PROVE MeshInv'
  OBVIOUS
<1>1. ASSUME NEW w \in Worker, MeshPass(w) PROVE MeshInv'
  BY <1>1, ReadIdKeeps, ListPeersKeeps, ConnectKeeps, RecheckKeeps DEF MeshPass
<1>2. CASE \E e \in Env : Around(e)
  BY <1>2, AroundKeeps
<1>3. CASE Reconcile
  BY <1>1, <1>3, TargetsKeeps DEF Reconcile, Worker
<1>4. CASE \E t \in Task : Background(t)
  BY <1>1, <1>4, RetryKeeps DEF Background, Worker
<1>5. CASE ApiDies
  BY <1>5, ApiDiesKeeps
<1>6. CASE UNCHANGED meshVars
  BY <1>6 DEF MeshInv, MeshTypeOK, meshVars
<1> QED BY <1>2, <1>3, <1>4, <1>5, <1>6 DEF MeshNext

\* The invariant of the peering.
THEOREM MeshInvariant == MeshSpec => []MeshInv
<1> QED BY MeshStart, MeshKept, PTL DEF MeshSpec

\* The state of the peering keeps its types.
THEOREM MeshTyped == MeshSpec => []MeshTypeOK
<1>1. MeshInv => MeshTypeOK
  BY DEF MeshInv
<1> QED BY <1>1, MeshInvariant, PTL

\* mesh_lightning_peers never counts a pair as done that is not peered, but
\* for one whose connection was lost after the pass began to list: not by a
\* stale list, not by a connect that another pass overtook, not by an answer
\* that was lost.
THEOREM HandledAlwaysPeered == MeshSpec => []HandledPeered
<1>1. MeshInv => HandledPeered
  BY DEF MeshInv, Kept, HandledPeered
<1> QED BY <1>1, MeshInvariant, PTL
=============================================================================
