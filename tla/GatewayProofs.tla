---------------------------- MODULE GatewayProofs ---------------------------
(***************************************************************************)
(* Theorems about Gateway, for any number of creates, sweepers and faults. *)
(***************************************************************************)
EXTENDS Gateway, TLAPS

Early == {"new", "seePlatform", "makePlatform", "seeGateway", "makeGateway", "home"}
Inside == {"workloads", "route", "lb", "seeGrant", "makeGrant"}
Past == {"home", "ok"} \cup Inside      \* a create that has its Gateway

-----------------------------------------------------------------------------
(* Types. *)

\* The types alone, without what contains what.
Typed ==
    /\ platform \in BOOLEAN /\ gateway \in BOOLEAN
    /\ home \in [Env -> {"absent", "active", "terminating"}]
    /\ routes \in SUBSET Env /\ grants \in SUBSET Env /\ overtaken \in SUBSET Env
    /\ maker \in [Env -> MakerPc]
    /\ wish \in [Env -> SUBSET Published]
    /\ sweep \in [Sweeper -> Env \cup {None}]
    /\ faults \in 0..MaxFaults

\* Where a create goes next is one of its steps.
LEMMA NextPc ==
    ASSUME NEW w
    PROVE  AfterWorkloads(w) \in {"route", "lb", "seeGrant", "ok"}
           /\ AfterRoute(w) \in {"lb", "seeGrant", "ok"} /\ AfterLb(w) \in {"seeGrant", "ok"}
BY DEF AfterWorkloads, AfterRoute, AfterLb

\* What a step of a create does to its program counter: it goes on, or, when
\* a call fails or is refused, to the cleanup.
MakesMove(e) ==
    /\ maker[e] \notin Ended
    /\ \E pc \in MakerPc : maker' = [maker EXCEPT ![e] = pc]
    /\ faults' \in 0..MaxFaults /\ (faults' = faults \/ faults' = faults + 1)
    /\ UNCHANGED <<sweep, overtaken>>

\* Every step of a create moves it alone.
LEMMA MakeMoves ==
    ASSUME Typed, NEW e \in Env, Make(e)
    PROVE  MakesMove(e)
<1>f. ASSUME NoFault \/ Fault
      PROVE  faults' \in 0..MaxFaults /\ (faults' = faults \/ faults' = faults + 1)
  BY <1>f, GatewayAssumption DEF Typed, NoFault, Fault
<1>1. CASE Arrive(e)
  BY <1>1 DEF Arrive, At, Goto, Ended, MakerPc, MakesMove, Typed
<1>2. CASE SeePlatform(e) \/ MakePlatform(e) \/ SeeGateway(e) \/ MakeGateway(e) \/ MakeHome(e)
           \/ SeeGrant(e) \/ MakeGrant(e)
  BY <1>2, <1>f DEF SeePlatform, MakePlatform, SeeGateway, MakeGateway, MakeHome, SeeGrant,
     MakeGrant, Then, Refused, Fails, At, Goto, Ended, MakerPc, MakesMove
<1>3. CASE Workloads(e) \/ Route(e) \/ ElectrsLb(e)
  BY <1>3, <1>f, NextPc DEF Workloads, Route, ElectrsLb, Then, Refused, Fails, At, Goto, Ended,
     MakerPc, MakesMove
<1>4. CASE CleanHome(e) \/ CleanGrant(e)
  BY <1>4, <1>f DEF CleanHome, CleanGrant, At, Goto, Ended, MakerPc, MakesMove
<1> QED BY <1>1, <1>2, <1>3, <1>4 DEF Make

\* Every state is well typed.
LEMMA TypedStep == Typed /\ [GatewayNext]_gatewayVars => Typed'
<1> SUFFICES ASSUME Typed, [GatewayNext]_gatewayVars PROVE Typed'
  OBVIOUS
<1>1. ASSUME NEW e \in Env, Make(e) PROVE Typed'
  <2>1. MakesMove(e)
    BY <1>1, MakeMoves
  <2>2. /\ platform' \in BOOLEAN /\ gateway' \in BOOLEAN
        /\ routes' \in SUBSET Env /\ grants' \in SUBSET Env
    BY <1>1 DEF Make, Arrive, SeePlatform, MakePlatform, SeeGateway, MakeGateway, MakeHome,
       Workloads, Route, ElectrsLb, SeeGrant, MakeGrant, CleanHome, CleanGrant, shared, Typed
  <2>3. home' \in [Env -> {"absent", "active", "terminating"}]
    BY <1>1 DEF Make, Arrive, SeePlatform, MakePlatform, SeeGateway, MakeGateway, MakeHome,
       Workloads, Route, ElectrsLb, SeeGrant, MakeGrant, CleanHome, CleanGrant, Ask, Typed
  <2>4. wish' \in [Env -> SUBSET Published]
    BY <1>1, GatewayAssumption DEF Make, Arrive, SeePlatform, MakePlatform, SeeGateway,
       MakeGateway, MakeHome, Workloads, Route, ElectrsLb, SeeGrant, MakeGrant, CleanHome,
       CleanGrant, Typed
  <2> QED BY <2>1, <2>2, <2>3, <2>4 DEF MakesMove, Typed
<1>2. ASSUME NEW e \in Env, HomeGone(e) \/ Drop(e) PROVE Typed'
  BY <1>2, GatewayAssumption
  DEF HomeGone, Drop, Typed, shared, Fault, Goto, MakerPc, Ended
<1>3. ASSUME NEW w \in Sweeper, NEW e \in Env, Sweep(w, e) PROVE Typed'
  BY <1>3, GatewayAssumption DEF Sweep, Ask, Typed, shared, Fault, NoFault
<1>4. ASSUME NEW w \in Sweeper, DropGrant(w) PROVE Typed'
  BY <1>4, GatewayAssumption DEF DropGrant, Typed, shared, Fault, NoFault
<1>5. CASE Crash
  BY <1>5, GatewayAssumption DEF Crash, Typed, shared, Fault, MakerPc, Ended
<1>6. CASE UNCHANGED gatewayVars
  BY <1>6 DEF gatewayVars, shared, Typed
<1> QED BY <1>1, <1>2, <1>3, <1>4, <1>5, <1>6 DEF GatewayNext

-----------------------------------------------------------------------------
(* The invariant. *)

\* A create before its namespace has none, one inside it has it until others
\* delete it, and what is swept is not active.
HomeInv ==
    /\ \A e \in Env :
          /\ home[e] # "absent" => maker[e] \notin Early
          /\ maker[e] \in Inside => home[e] = "active" \/ e \in overtaken
    /\ \A w \in Sweeper, e \in Env :
          sweep[w] = e => home[e] # "active" /\ maker[e] \notin Early

\* The way in, as far as the create has come.
WayInv ==
    /\ gateway => platform
    /\ \A e \in Env :
          /\ maker[e] \in Past \cup {"seeGateway", "makeGateway"} => platform
          /\ maker[e] \in Past => gateway
          /\ home[e] = "active" /\ "explorer" \in wish[e]
               /\ maker[e] \in {"lb", "seeGrant", "makeGrant", "ok"} => e \in routes
          /\ home[e] = "active" /\ wish[e] # {} /\ maker[e] = "ok" => e \in grants

\* Without failed calls, a grant has its namespace, or someone to collect it.
GrantInv ==
    faults = 0 =>
        \A e \in Env :
            e \in grants /\ e \notin overtaken =>
                \/ home[e] = "active" \/ maker[e] = "cleanGrant"
                \/ \E w \in Sweeper : sweep[w] = e

\* Without failed calls and deletes, someone has the Gateway, or someone may
\* still make it, or no create has made anything that another did not see.
RaceInv ==
    faults = 0 /\ overtaken = {} =>
        \/ \E e \in Env : maker[e] \in Past
        \/ ~gateway /\ \E e \in Env : maker[e] \in {"seeGateway", "makeGateway"}
        \/ \A e \in Env : maker[e] \in {"new", "seePlatform"} \cup
              (IF platform THEN {"seeGateway"} ELSE {"makePlatform"})

\* A route lives in its namespace.
RouteInv == \A e \in routes : home[e] # "absent"

GatewayInv == HomeInv /\ WayInv /\ GrantInv /\ RaceInv /\ RouteInv

\* A step of a create keeps HomeInv: it acts on its own namespace only.
LEMMA MakeKeepsHome ==
    ASSUME Typed, HomeInv, NEW e \in Env, Make(e)
    PROVE  HomeInv'
<1>m. MakesMove(e)
  BY MakeMoves
<1>o. \A f \in Env \ {e} : maker'[f] = maker[f] /\ home'[f] = home[f]
  <2>1. \A f \in Env \ {e} : home'[f] = home[f]
    BY DEF Make, Arrive, SeePlatform, MakePlatform, SeeGateway, MakeGateway, MakeHome,
       Workloads, Route, ElectrsLb, SeeGrant, MakeGrant, CleanHome, CleanGrant, Ask, Typed
  <2> QED BY <1>m, <2>1 DEF MakesMove, Typed
<1>1. /\ home'[e] # "absent" => maker'[e] \notin Early
      /\ maker'[e] \in Inside => home'[e] = "active" \/ e \in overtaken
      /\ \A w \in Sweeper : sweep[w] = e => home'[e] # "active" /\ maker'[e] \notin Early
  <2>1. CASE Arrive(e) \/ SeePlatform(e) \/ MakePlatform(e) \/ SeeGateway(e) \/ MakeGateway(e)
    BY <2>1 DEF Arrive, SeePlatform, MakePlatform, SeeGateway, MakeGateway, Then, Refused,
       Fails, At, Goto, HomeInv, Early, Inside, Typed
  <2>2. CASE MakeHome(e)
    BY <2>2 DEF MakeHome, Then, Fails, At, Goto, HomeInv, Early, Inside, Typed
  <2>3. CASE Workloads(e) \/ Route(e) \/ ElectrsLb(e)
    BY <2>3, NextPc DEF Workloads, Route, ElectrsLb, Then, Refused, Fails, At, Goto, HomeInv,
       Early, Inside, Typed
  <2>4. CASE SeeGrant(e) \/ MakeGrant(e)
    BY <2>4 DEF SeeGrant, MakeGrant, Then, Fails, At, Goto, HomeInv, Early, Inside, Typed
  <2>5. CASE CleanHome(e) \/ CleanGrant(e)
    BY <2>5 DEF CleanHome, CleanGrant, Ask, At, Goto, HomeInv, Early, Inside, Typed
  <2> QED BY <2>1, <2>2, <2>3, <2>4, <2>5 DEF Make
<1> QED BY <1>m, <1>o, <1>1 DEF MakesMove, HomeInv

\* So do the steps of everyone else.
LEMMA HomeStep == Typed /\ HomeInv /\ [GatewayNext]_gatewayVars => HomeInv'
<1> SUFFICES ASSUME Typed, HomeInv, [GatewayNext]_gatewayVars PROVE HomeInv'
  OBVIOUS
<1>1. ASSUME NEW e \in Env, HomeGone(e) \/ Drop(e) PROVE HomeInv'
  BY <1>1 DEF HomeGone, Drop, Running, Ended, Goto, HomeInv, Early, Inside, Typed
<1>2. ASSUME NEW w \in Sweeper, NEW e \in Env, Sweep(w, e) PROVE HomeInv'
  BY <1>2, GatewayAssumption DEF Sweep, Ask, Running, Ended, HomeInv, Early, Inside, Typed
<1>3. ASSUME NEW w \in Sweeper, DropGrant(w) PROVE HomeInv'
  BY <1>3, GatewayAssumption DEF DropGrant, HomeInv, Typed
<1>4. CASE Crash
  BY <1>4, GatewayAssumption DEF Crash, Running, Ended, HomeInv, Early, Inside, Typed
<1>5. CASE UNCHANGED gatewayVars
  BY <1>5 DEF gatewayVars, HomeInv
<1> QED BY <1>1, <1>2, <1>3, <1>4, <1>5, MakeKeepsHome DEF GatewayNext

\* A step of a create keeps the way in of all.
LEMMA MakeKeepsWay ==
    ASSUME Typed, HomeInv, WayInv, NEW e \in Env, Make(e)
    PROVE  WayInv'
<1>m. MakesMove(e)
  BY MakeMoves
<1>g. (platform => platform') /\ (gateway => gateway')
  BY DEF Make, Arrive, SeePlatform, MakePlatform, SeeGateway, MakeGateway, MakeHome, Workloads,
     Route, ElectrsLb, SeeGrant, MakeGrant, CleanHome, CleanGrant, shared
<1>o. ASSUME NEW f \in Env \ {e}
      PROVE  /\ maker'[f] = maker[f] /\ home'[f] = home[f] /\ wish'[f] = wish[f]
             /\ f \in routes => f \in routes'
             /\ f \in grants => f \in grants'
  <2>1. maker'[f] = maker[f]
    BY <1>m DEF MakesMove, Typed
  <2> QED
    BY <2>1 DEF Make, Arrive, SeePlatform, MakePlatform, SeeGateway, MakeGateway, MakeHome,
       Workloads, Route, ElectrsLb, SeeGrant, MakeGrant, CleanHome, CleanGrant, Ask, Typed
<1>1. /\ maker'[e] \in Past \cup {"seeGateway", "makeGateway"} => platform'
      /\ maker'[e] \in Past => gateway'
      /\ home'[e] = "active" /\ "explorer" \in wish'[e]
           /\ maker'[e] \in {"lb", "seeGrant", "makeGrant", "ok"} => e \in routes'
      /\ home'[e] = "active" /\ wish'[e] # {} /\ maker'[e] = "ok" => e \in grants'
  <2>1. CASE Arrive(e) \/ SeePlatform(e) \/ MakePlatform(e) \/ SeeGateway(e) \/ MakeGateway(e)
    BY <2>1 DEF Arrive, SeePlatform, MakePlatform, SeeGateway, MakeGateway, Then, Refused,
       Fails, At, Goto, WayInv, Past, Inside, Typed, shared
  <2>2. CASE MakeHome(e)
    BY <2>2 DEF MakeHome, Then, Fails, At, Goto, WayInv, Past, Inside, Typed, shared
  <2>3. CASE Workloads(e)
    BY <2>3 DEF Workloads, AfterWorkloads, AfterRoute, AfterLb, Then, Refused, At, Goto, WayInv,
       Past, Inside, Typed, shared
  <2>4. CASE Route(e)
    BY <2>4 DEF Route, AfterRoute, AfterLb, Then, Refused, Fails, At, Goto, WayInv, Past,
       Inside, Typed, shared
  <2>5. CASE ElectrsLb(e)
    BY <2>5 DEF ElectrsLb, AfterLb, Then, Refused, At, Goto, WayInv, Past, Inside, Typed, shared
  <2>6. CASE SeeGrant(e) \/ MakeGrant(e)
    BY <2>6 DEF SeeGrant, MakeGrant, Then, Fails, At, Goto, WayInv, Past, Inside, Typed, shared
  <2>7. CASE CleanHome(e) \/ CleanGrant(e)
    BY <2>7 DEF CleanHome, CleanGrant, At, Goto, Past, Inside, Typed
  <2> QED BY <2>1, <2>2, <2>3, <2>4, <2>5, <2>6, <2>7 DEF Make
<1>2. ASSUME NEW f \in Env \ {e}
      PROVE  /\ maker'[f] \in Past \cup {"seeGateway", "makeGateway"} => platform'
             /\ maker'[f] \in Past => gateway'
             /\ home'[f] = "active" /\ "explorer" \in wish'[f]
                  /\ maker'[f] \in {"lb", "seeGrant", "makeGrant", "ok"} => f \in routes'
             /\ home'[f] = "active" /\ wish'[f] # {} /\ maker'[f] = "ok" => f \in grants'
  BY <1>g, <1>o DEF WayInv
<1>3. gateway' => platform'
  BY <1>g DEF WayInv, Make, Arrive, SeePlatform, MakePlatform, SeeGateway, MakeGateway, MakeHome,
     Workloads, Route, ElectrsLb, SeeGrant, MakeGrant, CleanHome, CleanGrant, shared, At
<1> QED BY <1>1, <1>2, <1>3 DEF WayInv

\* So do the steps of everyone else: a grant is swept after its namespace.
LEMMA WayStep == Typed /\ HomeInv /\ WayInv /\ [GatewayNext]_gatewayVars => WayInv'
<1> SUFFICES ASSUME Typed, HomeInv, WayInv, [GatewayNext]_gatewayVars PROVE WayInv'
  OBVIOUS
<1>1. ASSUME NEW e \in Env, HomeGone(e) \/ Drop(e) PROVE WayInv'
  BY <1>1 DEF HomeGone, Drop, Goto, WayInv, Past, Inside, Typed, shared
<1>2. ASSUME NEW w \in Sweeper, NEW e \in Env, Sweep(w, e) PROVE WayInv'
  BY <1>2 DEF Sweep, Ask, WayInv, Typed, shared
<1>3. ASSUME NEW w \in Sweeper, DropGrant(w) PROVE WayInv'
  BY <1>3 DEF DropGrant, WayInv, HomeInv, Typed, shared
<1>4. CASE Crash
  BY <1>4 DEF Crash, WayInv, Past, Inside, Typed, shared
<1>5. CASE UNCHANGED gatewayVars
  BY <1>5 DEF gatewayVars, shared, WayInv
<1> QED BY <1>1, <1>2, <1>3, <1>4, <1>5, MakeKeepsWay DEF GatewayNext

\* Grants keep their namespace or their collector.
LEMMA GrantStep ==
    Typed /\ HomeInv /\ GrantInv /\ [GatewayNext]_gatewayVars => GrantInv'
<1> SUFFICES ASSUME Typed, HomeInv, GrantInv, [GatewayNext]_gatewayVars, faults' = 0,
                    NEW e \in Env, e \in grants', e \notin overtaken'
             PROVE  \/ home'[e] = "active" \/ maker'[e] = "cleanGrant"
                    \/ \E w \in Sweeper : sweep'[w] = e
  BY DEF GrantInv
<1>f. ~Fault
  BY DEF Fault, Typed
<1>1. ASSUME NEW f \in Env, Make(f)
      PROVE  \/ home'[e] = "active" \/ maker'[e] = "cleanGrant"
             \/ \E w \in Sweeper : sweep'[w] = e
  <2>m. MakesMove(f)
    BY <1>1, MakeMoves
  <2>0. faults = 0 /\ overtaken' = overtaken /\ sweep' = sweep
    BY <2>m DEF MakesMove, Typed
  <2>1. CASE f # e
    <3>1. maker'[e] = maker[e] /\ home'[e] = home[e] /\ e \in grants
      <4>1. maker'[e] = maker[e]
        BY <2>1, <2>m DEF MakesMove, Typed
      <4> QED
        BY <1>1, <2>1, <4>1 DEF Make, Arrive, SeePlatform, MakePlatform, SeeGateway,
           MakeGateway, MakeHome, Workloads, Route, ElectrsLb, SeeGrant, MakeGrant, CleanHome,
           CleanGrant, Ask, Typed
    <3> QED BY <2>0, <3>1 DEF GrantInv
  <2>2. CASE f = e /\ (Arrive(f) \/ SeePlatform(f) \/ MakePlatform(f) \/ SeeGateway(f)
                        \/ MakeGateway(f) \/ Workloads(f) \/ Route(f) \/ ElectrsLb(f)
                        \/ SeeGrant(f))
    BY <2>0, <2>2 DEF Arrive, SeePlatform, MakePlatform, SeeGateway, MakeGateway, Workloads,
       Route, ElectrsLb, SeeGrant, At, GrantInv
  <2>3. CASE f = e /\ MakeHome(f)
    BY <1>f, <2>3 DEF MakeHome, Fails, Typed
  <2>4. CASE f = e /\ MakeGrant(f)
    BY <2>0, <2>4 DEF MakeGrant, At, HomeInv, Inside
  <2>5. CASE f = e /\ CleanHome(f)
    BY <1>f, <2>0, <2>5 DEF CleanHome, Ask, Goto, At, GrantInv, Typed
  <2>6. CASE f = e /\ CleanGrant(f)
    BY <1>f, <2>6 DEF CleanGrant
  <2> QED BY <1>1, <2>1, <2>2, <2>3, <2>4, <2>5, <2>6 DEF Make
<1>2. ASSUME NEW f \in Env, HomeGone(f)
      PROVE  \/ home'[e] = "active" \/ maker'[e] = "cleanGrant"
             \/ \E w \in Sweeper : sweep'[w] = e
  BY <1>2 DEF HomeGone, GrantInv, Typed
<1>3. ASSUME NEW w \in Sweeper, NEW f \in Env, Sweep(w, f)
      PROVE  \/ home'[e] = "active" \/ maker'[e] = "cleanGrant"
             \/ \E v \in Sweeper : sweep'[v] = e
  <2>1. /\ faults = 0 /\ sweep[w] = None /\ sweep' = [sweep EXCEPT ![w] = f]
        /\ e \in grants /\ e \notin overtaken /\ maker' = maker
    BY <1>3, <1>f DEF Sweep, NoFault
  <2>2. CASE e = f
    BY <2>1, <2>2 DEF Typed
  <2>3. CASE e # f
    <3>1. home'[e] = home[e]
      BY <1>3, <2>3 DEF Sweep, Ask, Typed
    <3>2. ASSUME NEW v \in Sweeper, sweep[v] = e PROVE sweep'[v] = e
      BY <2>1, <3>2, GatewayAssumption DEF Typed
    <3> QED BY <2>1, <3>1, <3>2 DEF GrantInv
  <2> QED BY <2>2, <2>3
<1>4. ASSUME NEW w \in Sweeper, DropGrant(w)
      PROVE  \/ home'[e] = "active" \/ maker'[e] = "cleanGrant"
             \/ \E v \in Sweeper : sweep'[v] = e
  <2>1. /\ faults = 0 /\ sweep' = [sweep EXCEPT ![w] = None] /\ e \in grants /\ e # sweep[w]
        /\ UNCHANGED <<home, maker, overtaken>>
    BY <1>4, <1>f DEF DropGrant, NoFault
  <2>2. ASSUME NEW v \in Sweeper, sweep[v] = e PROVE sweep'[v] = e
    BY <2>1, <2>2 DEF Typed
  <2> QED BY <2>1, <2>2 DEF GrantInv
<1>5. CASE UNCHANGED gatewayVars
  BY <1>5 DEF gatewayVars, GrantInv
<1> QED BY <1>1, <1>2, <1>3, <1>4, <1>5, <1>f DEF GatewayNext, Drop, Crash

\* A step of a create keeps a winner in the race.
LEMMA MakeKeepsRace ==
    ASSUME Typed, HomeInv, WayInv, RaceInv, NEW e \in Env, Make(e)
    PROVE  RaceInv'
<1> SUFFICES ASSUME faults' = 0, overtaken' = {}
             PROVE  \/ \E f \in Env : maker'[f] \in Past
                    \/ ~gateway' /\ \E f \in Env : maker'[f] \in {"seeGateway", "makeGateway"}
                    \/ \A f \in Env : maker'[f] \in {"new", "seePlatform"} \cup
                          (IF platform' THEN {"seeGateway"} ELSE {"makePlatform"})
  BY DEF RaceInv
<1>m. MakesMove(e)
  BY MakeMoves
<1>0. faults = 0 /\ overtaken = {} /\ ~Fault
  BY <1>m DEF MakesMove, Fault, Typed
<1>o. \A f \in Env \ {e} : maker'[f] = maker[f]
  BY <1>m DEF MakesMove, Typed
<1>1. ASSUME NEW f \in Env, maker[f] \in Past
      PROVE  \E g \in Env : maker'[g] \in Past
  <2>1. CASE f # e
    BY <1>1, <1>o, <2>1
  <2>2. CASE f = e
    <3>1. maker[e] \in Inside => home[e] = "active"
      BY <1>0 DEF HomeInv
    <3>2. CASE MakeHome(e) \/ SeeGrant(e) \/ MakeGrant(e)
      BY <1>0, <3>2 DEF MakeHome, SeeGrant, MakeGrant, Then, Fails, Goto, Past, Inside, Typed
    <3>3. CASE Workloads(e) \/ Route(e) \/ ElectrsLb(e)
      BY <1>0, <3>1, <3>3, NextPc DEF Workloads, Route, ElectrsLb, At, Then, Fails, Goto, Past,
         Inside, Typed
    <3> QED BY <1>1, <2>2, <3>2, <3>3 DEF Make, Arrive, SeePlatform, MakePlatform, SeeGateway,
               MakeGateway, CleanHome, CleanGrant, At, Past, Inside
  <2> QED BY <2>1, <2>2
<1>2. ASSUME ~gateway, NEW f \in Env, maker[f] \in {"seeGateway", "makeGateway"}
      PROVE  \/ \E g \in Env : maker'[g] \in Past
             \/ ~gateway' /\ \E g \in Env : maker'[g] \in {"seeGateway", "makeGateway"}
  <2>1. CASE MakeGateway(e)
    BY <1>0, <1>2, <2>1 DEF MakeGateway, Then, Fails, Goto, Past, Typed
  <2>2. CASE SeeGateway(e)
    BY <1>0, <1>2, <2>2 DEF SeeGateway, Then, Goto, Typed, shared
  <2>3. CASE ~MakeGateway(e) /\ ~SeeGateway(e)
    <3>1. f # e /\ gateway' = gateway
      BY <1>2, <2>3 DEF Make, Arrive, SeePlatform, MakePlatform, MakeHome, Workloads, Route,
         ElectrsLb, SeeGrant, MakeGrant, CleanHome, CleanGrant, At, shared
    <3> QED BY <1>2, <1>o, <3>1
  <2> QED BY <2>1, <2>2, <2>3
<1>3. ASSUME \A f \in Env : maker[f] \in {"new", "seePlatform"} \cup
                 (IF platform THEN {"seeGateway"} ELSE {"makePlatform"})
      PROVE  \/ \E f \in Env : maker'[f] \in Past
             \/ ~gateway' /\ \E f \in Env : maker'[f] \in {"seeGateway", "makeGateway"}
             \/ \A f \in Env : maker'[f] \in {"new", "seePlatform"} \cup
                   (IF platform' THEN {"seeGateway"} ELSE {"makePlatform"})
  <2>1. CASE Arrive(e) \/ SeePlatform(e)
    BY <1>0, <1>3, <1>o, <2>1 DEF Arrive, SeePlatform, Then, Goto, Typed, shared
  <2>2. CASE MakePlatform(e)
    <3>1. ~platform
      BY <1>3, <2>2 DEF MakePlatform, At
    <3>2. maker'[e] = "seeGateway" /\ gateway' = gateway
      BY <1>0, <2>2, <3>1 DEF MakePlatform, Then, Fails, Goto, Typed
    <3> QED BY <3>1, <3>2 DEF WayInv
  <2>3. CASE SeeGateway(e)
    BY <1>0, <2>3 DEF SeeGateway, Then, Goto, Past, Typed, shared
  <2> QED BY <1>3, <2>1, <2>2, <2>3 DEF Make, MakeGateway, MakeHome, Workloads, Route,
             ElectrsLb, SeeGrant, MakeGrant, CleanHome, CleanGrant, At
<1> QED BY <1>0, <1>1, <1>2, <1>3 DEF RaceInv

\* So do the steps of everyone else, when none is a fault or a deletion.
LEMMA RaceStep ==
    Typed /\ HomeInv /\ WayInv /\ RaceInv /\ [GatewayNext]_gatewayVars => RaceInv'
<1> SUFFICES ASSUME Typed, HomeInv, WayInv, RaceInv, [GatewayNext]_gatewayVars PROVE RaceInv'
  OBVIOUS
<1>1. ASSUME NEW e \in Env, HomeGone(e) PROVE RaceInv'
  BY <1>1 DEF HomeGone, RaceInv, shared
<1>2. ASSUME NEW w \in Sweeper, NEW e \in Env, Sweep(w, e) PROVE RaceInv'
  <2>1. /\ faults' = 0 => faults = 0
        /\ overtaken' = {} => overtaken = {}
        /\ UNCHANGED <<platform, gateway, maker>>
    BY <1>2 DEF Sweep, NoFault, Fault, Typed, shared
  <2> QED BY <2>1 DEF RaceInv
<1>3. ASSUME NEW w \in Sweeper, DropGrant(w) PROVE RaceInv'
  <2>1. /\ faults' = 0 => faults = 0
        /\ UNCHANGED <<platform, gateway, maker, overtaken>>
    BY <1>3 DEF DropGrant, NoFault, Fault, Typed, shared
  <2> QED BY <2>1 DEF RaceInv
<1>4. ASSUME Fault PROVE RaceInv'
  BY <1>4 DEF Fault, RaceInv, Typed
<1>5. CASE UNCHANGED gatewayVars
  BY <1>5 DEF gatewayVars, shared, RaceInv
<1> QED BY <1>1, <1>2, <1>3, <1>4, <1>5, MakeKeepsRace DEF GatewayNext, Drop, Crash

\* Routes are made inside an active namespace and go with it.
LEMMA RouteStep == Typed /\ RouteInv /\ [GatewayNext]_gatewayVars => RouteInv'
<1> SUFFICES ASSUME Typed, RouteInv, [GatewayNext]_gatewayVars PROVE RouteInv'
  OBVIOUS
<1>1. ASSUME NEW e \in Env, Make(e) PROVE RouteInv'
  <2>1. /\ \A f \in Env : home[f] # "absent" => home'[f] # "absent"
        /\ routes' = routes \/ (home[e] = "active" /\ routes' = routes \cup {e})
    BY <1>1 DEF Make, Arrive, SeePlatform, MakePlatform, SeeGateway, MakeGateway, MakeHome,
       Workloads, Route, ElectrsLb, SeeGrant, MakeGrant, CleanHome, CleanGrant, Ask, Typed
  <2> QED BY <2>1 DEF RouteInv, Typed
<1>2. ASSUME NEW e \in Env, HomeGone(e) PROVE RouteInv'
  BY <1>2 DEF HomeGone, RouteInv, Typed
<1>3. ASSUME NEW w \in Sweeper, NEW e \in Env, Sweep(w, e) PROVE RouteInv'
  BY <1>3 DEF Sweep, Ask, RouteInv, Typed
<1>4. CASE UNCHANGED <<home, routes>>
  BY <1>4 DEF RouteInv
<1> QED BY <1>1, <1>2, <1>3, <1>4 DEF GatewayNext, Drop, DropGrant, Crash, gatewayVars

-----------------------------------------------------------------------------
(* The theorems. *)

\* The invariant, step by step.
LEMMA GatewayInvariant == GatewaySpec => [](Typed /\ GatewayInv)
<1>1. GatewayInit => Typed /\ GatewayInv
  <2> SUFFICES ASSUME GatewayInit PROVE Typed /\ GatewayInv
    OBVIOUS
  <2>1. Typed
    BY GatewayAssumption DEF GatewayInit, Typed, MakerPc
  <2>2. HomeInv
    BY GatewayAssumption DEF GatewayInit, HomeInv, Early, Inside
  <2>3. WayInv /\ GrantInv /\ RaceInv /\ RouteInv
    BY DEF GatewayInit, WayInv, GrantInv, RaceInv, RouteInv, Past, Inside
  <2> QED BY <2>1, <2>2, <2>3 DEF GatewayInv
<1>2. Typed /\ GatewayInv /\ [GatewayNext]_gatewayVars => (Typed /\ GatewayInv)'
  BY TypedStep, HomeStep, WayStep, GrantStep, RaceStep, RouteStep DEF GatewayInv
<1> QED BY <1>1, <1>2, PTL DEF GatewaySpec

\* The objects of the cluster keep their types and their containers.
THEOREM GatewayTyped == GatewaySpec => []GatewayTypeOK
<1>1. Typed /\ GatewayInv => GatewayTypeOK
  BY DEF Typed, GatewayInv, WayInv, RouteInv, GatewayTypeOK
<1> QED BY GatewayInvariant, <1>1, PTL

\* Whatever races, fails or is dropped, an environment that create_environment
\* reported made, and nobody deleted, has its way in: the shared Gateway of
\* ensure_gateway, its route, and the grant of ensure_route_grant.
THEOREM ServedAlways == GatewaySpec => []ServedWhole
<1>1. Typed /\ GatewayInv => ServedWhole
  BY DEF Typed, GatewayInv, WayInv, ServedWhole, Past
<1> QED BY GatewayInvariant, <1>1, PTL

\* Any number of creates that race in ensure_gateway never all lose.
THEOREM RaceAlwaysWon == GatewaySpec => []RaceHasWinner
<1>1. Typed /\ GatewayInv => RaceHasWinner
  BY GatewayAssumption DEF Typed, GatewayInv, RaceInv, RaceHasWinner, Past, Inside
<1> QED BY GatewayInvariant, <1>1, PTL

\* delete_env_namespace collects every grant but those that a create made
\* after its namespace was deleted under it.
THEOREM GrantsAlwaysCollected == GatewaySpec => []GrantsCollected
<1>1. Typed /\ GatewayInv => GrantsCollected
  BY DEF Typed, GatewayInv, GrantInv, GrantsCollected, AtRest, Running, Ended
<1> QED BY GatewayInvariant, <1>1, PTL
=============================================================================
