--------------------------- MODULE GatewayProofs ---------------------------
(***************************************************************************)
(* The safety of the two daemons of a gateway: of PrefixDelegation for     *)
(* every plan, every set of prefixes and any number of moves of the        *)
(* environment, of WanFailover for all thresholds and any number of        *)
(* faults.  They share no state.                                           *)
(*                                                                         *)
(* QuietIsCurrent is not inductive: between the read and the wait, what    *)
(* was read may be out of date, the pools may be those of a Kea that       *)
(* restarted and a route may be lost with its link.  IInv says for every   *)
(* point of a reconcile what is already done and what would have to be     *)
(* known, announced or unannounced, for that to be undone.                 *)
(*                                                                         *)
(* What the policy rules are between two cycles of the watchdog depends on *)
(* what each command of a switch found and left: WanInv follows the rules, *)
(* and the flows made under them, through every point of the script.       *)
(***************************************************************************)
EXTENDS PrefixDelegation, WanFailover, TLAPS

----------------------------------------------------------------------------
(* The binder                                                              *)

\* What was read is still the lease, unless a change is announced or lost.
ReadInv ==
  pc \in {"get", "set", "route", "wait"} /\ events = 0 /\ "lease" \notin unseen =>
    lease = IF seen = NoPrefix THEN {} ELSE {seen}

\* The reconcile got past Kea.
Bound == pc = "route" \/ (pc = "wait" /\ seen # NoPrefix)

\* Kea has the prefix, unless it is another Kea.
PoolsInv == Bound /\ kea = "up" /\ "kea" \notin unseen => \A n \in Names : pools[n] = seen

\* The slices handled so far are routed, unless a link went away.
RoutesInv ==
  /\ pc = "set" => todo = Names
  /\ Bound /\ "link" \notin unseen =>
       \A n \in Names : <<n, seen>> \in routes \/ (pc = "route" /\ n \in todo)

\* The monitor listens to all reconciles but the first.
FirstInv ==
  /\ events > 0 => subscribed
  /\ pc \in {"read", "get", "set", "route"} => first \/ subscribed
  /\ pc \in {"get", "set", "route"} /\ "lease" \in unseen => first

IInv == TypeOK /\ ReadInv /\ PoolsInv /\ RoutesInv /\ FirstInv

----------------------------------------------------------------------------
(* The binder, initially and in every step                                 *)

LEMMA InitInv == Init => IInv
<1> SUFFICES ASSUME Init PROVE IInv
  OBVIOUS
<1>1. TypeOK
  BY DelegationAssumption DEF Init, TypeOK
<1>2. ReadInv /\ PoolsInv /\ RoutesInv /\ FirstInv
  BY DEF Init, ReadInv, PoolsInv, RoutesInv, FirstInv, Bound
<1>. QED
  BY <1>1, <1>2 DEF IInv

\* A binder that dies leaves the world alone and claims nothing.
LEMMA DieInv ==
  ASSUME IInv, Die, unseen' \in {unseen, {}}, moves' \in {moves, moves + 1}
  PROVE  IInv'
<1>1. TypeOK'
  <2>1. lease' = lease /\ kea' = kea /\ pools' = pools /\ routes' = routes
    BY DEF Die, world
  <2>2. /\ pc' \in {"dead", "get"} /\ (pc' = "get" => seen' \in Usable)
        /\ first' \in BOOLEAN /\ subscribed' \in BOOLEAN
        /\ seen' \in Usable \union {NoPrefix} /\ todo' \subseteq Names
    BY DEF Die, IInv, TypeOK
  <2>3. events' \in Nat /\ moves' \in Nat
    BY DEF Die, IInv, TypeOK
  <2>4. unseen' \subseteq {"lease", "kea", "link"}
    BY DEF Die, IInv, TypeOK
  <2>. QED
    BY <2>1, <2>2, <2>3, <2>4 DEF IInv, TypeOK
<1>2. ReadInv'
  BY DEF Die, ReadInv
<1>3. PoolsInv'
  BY DEF Die, PoolsInv, Bound
<1>4. RoutesInv'
  BY DEF Die, RoutesInv, Bound
<1>5. FirstInv'
  BY DEF Die, FirstInv, IInv, world
<1>. QED
  BY <1>1, <1>2, <1>3, <1>4, <1>5 DEF IInv

LEMMA StepInv == IInv /\ [Next]_vars => IInv'
<1> SUFFICES ASSUME IInv, [Next]_vars PROVE IInv'
  OBVIOUS
<1>1. CASE Read
  <2>1. CASE lease = {}
    <3>1. TypeOK'
      BY <1>1, <2>1, DelegationAssumption DEF Read, TypeOK, IInv, Return,
         world
    <3>2. ReadInv'
      BY <1>1, <2>1 DEF Read, ReadInv, TypeOK, IInv, Return, world
    <3>3. PoolsInv'
      BY <1>1, <2>1 DEF Read, PoolsInv, TypeOK, IInv, Return, world, Bound
    <3>4. RoutesInv'
      BY <1>1, <2>1 DEF Read, RoutesInv, TypeOK, IInv, Return, world,
         Bound
    <3>5. FirstInv'
      BY <1>1, <2>1 DEF Read, FirstInv, TypeOK, IInv, Return, world
    <3>. QED
      BY <3>1, <3>2, <3>3, <3>4, <3>5 DEF IInv
  <2>2. ASSUME NEW p \in Usable, lease = {p}, seen' = p PROVE IInv'
    <3>0. /\ pc = "read" /\ pc' = "get" /\ unseen' = {}
          /\ UNCHANGED <<world, first, todo, subscribed, events, moves>>
      BY <1>1, <2>2 DEF Read, Die, Return
    <3>1. TypeOK'
      <4>1. lease' = lease /\ kea' = kea /\ pools' = pools /\ routes' = routes
        BY <3>0, <2>2 DEF world
      <4>2. /\ pc' \in {"dead", "get"} /\ (pc' = "get" => seen' \in Usable)
            /\ first' \in BOOLEAN /\ subscribed' \in BOOLEAN
            /\ seen' \in Usable \union {NoPrefix} /\ todo' \subseteq Names
        BY <3>0, <2>2 DEF IInv, TypeOK
      <4>3. events' \in Nat /\ moves' \in Nat
        BY <3>0, <2>2 DEF IInv, TypeOK
      <4>4. unseen' \subseteq {"lease", "kea", "link"}
        BY <3>0, <2>2 DEF IInv, TypeOK
      <4>. QED
        BY <4>1, <4>2, <4>3, <4>4 DEF IInv, TypeOK
    <3>2. ReadInv'
      BY <3>0, <2>2, DelegationAssumption DEF world, ReadInv
    <3>3. PoolsInv'
      BY <3>0, <2>2 DEF world, PoolsInv, TypeOK, IInv, Bound
    <3>4. RoutesInv'
      BY <3>0, <2>2 DEF world, RoutesInv, TypeOK, IInv, Bound
    <3>5. FirstInv'
      BY <3>0, <2>2 DEF world, FirstInv, TypeOK, IInv
    <3>. QED
      BY <3>1, <3>2, <3>3, <3>4, <3>5 DEF IInv
  <2>3. CASE lease # {} /\ \A p \in Usable : lease # {p}
    BY <1>1, <2>3, DieInv DEF Read
  <2>. QED
    BY <1>1, <2>1, <2>2, <2>3 DEF Read
<1>2. CASE Get
  <2>1. CASE kea = "down"
    BY <1>2, <2>1, DieInv DEF Get
  <2>2. CASE kea = "up"
    <3>1. TypeOK'
      BY <1>2, <2>2, DelegationAssumption DEF Get, TypeOK, IInv, world
    <3>2. ReadInv'
      BY <1>2, <2>2 DEF Get, ReadInv, TypeOK, IInv, world
    <3>3. PoolsInv'
      BY <1>2, <2>2 DEF Get, PoolsInv, TypeOK, IInv, world, Bound
    <3>4. RoutesInv'
      BY <1>2, <2>2 DEF Get, RoutesInv, TypeOK, IInv, world, Bound
    <3>5. FirstInv'
      BY <1>2, <2>2 DEF Get, FirstInv, TypeOK, IInv, world
    <3>. QED
      BY <3>1, <3>2, <3>3, <3>4, <3>5 DEF IInv
  <2>. QED
    BY <2>1, <2>2 DEF IInv, TypeOK
<1>3. CASE Set
  <2>1. CASE kea = "down"
    BY <1>3, <2>1, DieInv DEF Set
  <2>2. CASE kea = "up"
    <3>1. TypeOK'
      BY <1>3, <2>2, DelegationAssumption DEF Set, TypeOK, IInv, world
    <3>2. ReadInv'
      BY <1>3, <2>2 DEF Set, ReadInv, TypeOK, IInv, world
    <3>3. PoolsInv'
      BY <1>3, <2>2 DEF Set, PoolsInv, TypeOK, IInv, Bound, world
    <3>4. RoutesInv'
      BY <1>3, <2>2 DEF Set, RoutesInv, TypeOK, IInv, Bound, world
    <3>5. FirstInv'
      BY <1>3, <2>2 DEF Set, FirstInv, TypeOK, IInv, world
    <3>. QED
      BY <3>1, <3>2, <3>3, <3>4, <3>5 DEF IInv
  <2>. QED
    BY <2>1, <2>2 DEF IInv, TypeOK
<1>4. CASE Route
  <2>1. TypeOK'
    BY <1>4, DelegationAssumption DEF Route, TypeOK, IInv
  <2>2. ReadInv'
    BY <1>4 DEF Route, ReadInv, TypeOK, IInv
  <2>3. PoolsInv'
    BY <1>4 DEF Route, PoolsInv, TypeOK, IInv, Bound
  <2>4. RoutesInv'
    BY <1>4 DEF Route, RoutesInv, TypeOK, IInv, Bound
  <2>5. FirstInv'
    BY <1>4 DEF Route, FirstInv, TypeOK, IInv
  <2>. QED
    BY <2>1, <2>2, <2>3, <2>4, <2>5 DEF IInv
<1>5. CASE Routed
  <2>1. TypeOK'
    BY <1>5, DelegationAssumption DEF Routed, TypeOK, IInv, Return, world
  <2>2. ReadInv'
    BY <1>5 DEF Routed, ReadInv, TypeOK, IInv, Return, world
  <2>3. PoolsInv'
    BY <1>5 DEF Routed, PoolsInv, TypeOK, IInv, Return, world, Bound
  <2>4. RoutesInv'
    BY <1>5 DEF Routed, RoutesInv, TypeOK, IInv, Return, world, Bound
  <2>5. FirstInv'
    BY <1>5 DEF Routed, FirstInv, TypeOK, IInv, Return, world
  <2>. QED
    BY <2>1, <2>2, <2>3, <2>4, <2>5 DEF IInv
<1>6. CASE Event
  <2>1. TypeOK'
    BY <1>6, DelegationAssumption DEF Event, TypeOK, IInv, world
  <2>2. ReadInv'
    BY <1>6 DEF Event, ReadInv, TypeOK, IInv, world
  <2>3. PoolsInv'
    BY <1>6 DEF Event, PoolsInv, TypeOK, IInv, world, Bound
  <2>4. RoutesInv'
    BY <1>6 DEF Event, RoutesInv, TypeOK, IInv, world, Bound
  <2>5. FirstInv'
    BY <1>6 DEF Event, FirstInv, TypeOK, IInv, world
  <2>. QED
    BY <2>1, <2>2, <2>3, <2>4, <2>5 DEF IInv
<1>7. CASE Start
  <2>1. TypeOK'
    BY <1>7, DelegationAssumption DEF Start, TypeOK, IInv, world
  <2>2. ReadInv'
    BY <1>7 DEF Start, ReadInv, TypeOK, IInv, world
  <2>3. PoolsInv'
    BY <1>7 DEF Start, PoolsInv, TypeOK, IInv, world, Bound
  <2>4. RoutesInv'
    BY <1>7 DEF Start, RoutesInv, TypeOK, IInv, world, Bound
  <2>5. FirstInv'
    BY <1>7 DEF Start, FirstInv, TypeOK, IInv, world
  <2>. QED
    BY <2>1, <2>2, <2>3, <2>4, <2>5 DEF IInv
<1>8. CASE Subscribe
  <2>1. TypeOK'
    BY <1>8, DelegationAssumption DEF Subscribe, TypeOK, IInv, world
  <2>2. ReadInv'
    BY <1>8 DEF Subscribe, ReadInv, TypeOK, IInv, world
  <2>3. PoolsInv'
    BY <1>8 DEF Subscribe, PoolsInv, TypeOK, IInv, world, Bound
  <2>4. RoutesInv'
    BY <1>8 DEF Subscribe, RoutesInv, TypeOK, IInv, world, Bound
  <2>5. FirstInv'
    BY <1>8 DEF Subscribe, FirstInv, TypeOK, IInv, world
  <2>. QED
    BY <2>1, <2>2, <2>3, <2>4, <2>5 DEF IInv
<1>9. ASSUME NEW p \in Prefixes, Leased(p) PROVE IInv'
  <2>1. TypeOK'
    BY <1>9, DelegationAssumption DEF Leased, TypeOK, IInv, Move, Notify
  <2>2. ReadInv'
    BY <1>9 DEF Leased, ReadInv, TypeOK, IInv, Move, Notify
  <2>3. PoolsInv'
    BY <1>9 DEF Leased, PoolsInv, TypeOK, IInv, Move, Notify, Bound
  <2>4. RoutesInv'
    BY <1>9 DEF Leased, RoutesInv, TypeOK, IInv, Move, Notify, Bound
  <2>5. FirstInv'
    BY <1>9 DEF Leased, FirstInv, TypeOK, IInv, Move, Notify
  <2>. QED
    BY <2>1, <2>2, <2>3, <2>4, <2>5 DEF IInv
<1>10. ASSUME NEW p \in Prefixes, Withdrawn(p) PROVE IInv'
  <2>1. TypeOK'
    BY <1>10, DelegationAssumption DEF Withdrawn, TypeOK, IInv, Move, Notify
  <2>2. ReadInv'
    BY <1>10 DEF Withdrawn, ReadInv, TypeOK, IInv, Move, Notify
  <2>3. PoolsInv'
    BY <1>10 DEF Withdrawn, PoolsInv, TypeOK, IInv, Move, Notify, Bound
  <2>4. RoutesInv'
    BY <1>10 DEF Withdrawn, RoutesInv, TypeOK, IInv, Move, Notify, Bound
  <2>5. FirstInv'
    BY <1>10 DEF Withdrawn, FirstInv, TypeOK, IInv, Move, Notify
  <2>. QED
    BY <2>1, <2>2, <2>3, <2>4, <2>5 DEF IInv
<1>11. CASE KeaStops
  <2>1. TypeOK'
    BY <1>11, DelegationAssumption DEF KeaStops, TypeOK, IInv, Move, binder
  <2>2. ReadInv'
    BY <1>11 DEF KeaStops, ReadInv, TypeOK, IInv, Move, binder
  <2>3. PoolsInv'
    BY <1>11 DEF KeaStops, PoolsInv, TypeOK, IInv, Move, binder, Bound
  <2>4. RoutesInv'
    BY <1>11 DEF KeaStops, RoutesInv, TypeOK, IInv, Move, binder, Bound
  <2>5. FirstInv'
    BY <1>11 DEF KeaStops, FirstInv, TypeOK, IInv, Move, binder
  <2>. QED
    BY <2>1, <2>2, <2>3, <2>4, <2>5 DEF IInv
<1>12. CASE KeaStarts
  <2>1. TypeOK'
    BY <1>12, DelegationAssumption DEF KeaStarts, TypeOK, IInv, binder
  <2>2. ReadInv'
    BY <1>12 DEF KeaStarts, ReadInv, TypeOK, IInv, binder
  <2>3. PoolsInv'
    BY <1>12 DEF KeaStarts, PoolsInv, TypeOK, IInv, binder, Bound
  <2>4. RoutesInv'
    BY <1>12 DEF KeaStarts, RoutesInv, TypeOK, IInv, binder, Bound
  <2>5. FirstInv'
    BY <1>12 DEF KeaStarts, FirstInv, TypeOK, IInv, binder
  <2>. QED
    BY <2>1, <2>2, <2>3, <2>4, <2>5 DEF IInv
<1>13. ASSUME NEW n \in Names, LinkFlaps(n) PROVE IInv'
  <2>1. TypeOK'
    BY <1>13, DelegationAssumption DEF LinkFlaps, TypeOK, IInv, Move, binder
  <2>2. ReadInv'
    BY <1>13 DEF LinkFlaps, ReadInv, TypeOK, IInv, Move, binder
  <2>3. PoolsInv'
    BY <1>13 DEF LinkFlaps, PoolsInv, TypeOK, IInv, Move, binder, Bound
  <2>4. RoutesInv'
    BY <1>13 DEF LinkFlaps, RoutesInv, TypeOK, IInv, Move, binder, Bound
  <2>5. FirstInv'
    BY <1>13 DEF LinkFlaps, FirstInv, TypeOK, IInv, Move, binder
  <2>. QED
    BY <2>1, <2>2, <2>3, <2>4, <2>5 DEF IInv
<1>14. CASE Fails
  BY <1>14, DieInv DEF Fails, Move
<1>15. CASE UNCHANGED vars
  BY <1>15 DEF vars, IInv, binder, world, FirstInv, PoolsInv, ReadInv,
     RoutesInv, TypeOK, Bound
<1>. QED
  BY <1>1, <1>2, <1>3, <1>4, <1>5, <1>6, <1>7, <1>8, <1>9, <1>10, <1>11, <1>12, <1>13, <1>14, <1>15
     DEF Next, Binder, Environment

----------------------------------------------------------------------------
(* The theorems about the binder                                           *)

\* IInv holds in every reachable state.
THEOREM Invariance == Spec => []IInv
BY InitInv, StepInv, PTL DEF Spec

\* The variables keep their types: only prefixes the plan fits reach Kea or
\* the kernel, whatever networkd is leased.
THEOREM TypeCorrect == Spec => []TypeOK
<1>1. IInv => TypeOK
  BY DEF IInv
<1>. QED
  BY <1>1, Invariance, PTL

\* A binder at rest has applied the current lease, unless something changed
\* that no netlink line tells it of.
THEOREM RestIsCurrent == Spec => []QuietIsCurrent
<1>1. IInv => QuietIsCurrent
  <2> SUFFICES ASSUME IInv, pc = "wait", events = 0, unseen = {}, kea = "up",
                      NEW p \in Prefixes, lease = {p}
               PROVE  Applied(p)
    BY DEF QuietIsCurrent
  <2>1. seen = p /\ seen # NoPrefix
    BY DelegationAssumption DEF IInv, ReadInv
  <2>2. \A n \in Names : pools[n] = p
    BY <2>1 DEF IInv, PoolsInv, Bound
  <2>3. \A n \in Names : <<n, p>> \in routes
    BY <2>1 DEF IInv, RoutesInv, Bound
  <2>. QED
    BY <2>2, <2>3 DEF Applied
<1>. QED
  BY <1>1, Invariance, PTL

\* Every prefix written is leased, or its successor is announced; for every
\* plan and any number of moves.
THEOREM WritesAreAnnounced == Spec => WrittenIsLeased
<1>1. IInv /\ [Next]_vars =>
        ((Set \/ Route) /\ (pools' # pools \/ routes' # routes) =>
           lease = {seen} \/ events > 0 \/ (first /\ "lease" \in unseen))
  <2> SUFFICES ASSUME IInv, Set \/ Route, events = 0, ~(first /\ "lease" \in unseen)
               PROVE  lease = {seen}
    BY DEF IInv, TypeOK
  <2>1. pc \in {"set", "route"}
    BY DEF Set, Route
  <2>2. seen \in Usable /\ seen # NoPrefix
    BY <2>1, DelegationAssumption DEF IInv, TypeOK
  <2>3. "lease" \notin unseen
    BY <2>1 DEF IInv, FirstInv
  <2>. QED
    BY <2>1, <2>2, <2>3 DEF IInv, ReadInv
<1>. QED
  BY <1>1, Invariance, PTL DEF Spec, WrittenIsLeased

----------------------------------------------------------------------------
(* The watchdog                                                            *)

\* Which switch is under way tells which state it leaves.
ModeInv ==
  /\ at \in {"againsup", "againsel"} => state = "up"
  /\ at \in {"addsup", "addsel", "flushup"} => state # "up"
  /\ at \in {"delsup", "delsel", "flushdown"} => state # "down"
  /\ at = "stopped" => faults > 0

AtUp == state = "up" /\ at \in {"probe", "sleep", "againsup", "againsel", "delsup"}
AtDown == state = "down" /\ at \in {"probe", "sleep", "addsup"}

\* With no purge, the way up builds both rules and the state up has them.
UpInv ==
  "purge" \notin lapses =>
    /\ AtUp \/ at = "flushup" => rules = Both
    /\ at = "addsel" => "psup" \in rules

\* With no removal failed, the way down leaves none and the state down has none.
DownInv ==
  "delfail" \notin lapses =>
    /\ AtDown \/ at = "flushdown" => rules = {}
    /\ at = "delsel" => "psup" \notin rules

\* Until the first fault a script in state unknown has not touched the rules.
FreshInv ==
  faults = 0 /\ state = "unknown" /\ at \in {"probe", "sleep", "addsup", "delsup"} =>
    rules = {}

\* With no lapse, flows made in a state are on the uplink it selects.
FlowsInv ==
  lapses = {} =>
    /\ AtUp /\ route => flows \subseteq {"primary"}
    /\ AtDown => flows \subseteq {"fallback"}

WanInv == WanTypeOK /\ ModeInv /\ UpInv /\ DownInv /\ FreshInv /\ FlowsInv

----------------------------------------------------------------------------
(* The watchdog, initially and in every step                               *)

LEMMA WanInitInv == WanInit => WanInv
BY WanAssumption DEF WanInit, WanInv, DownInv, FlowsInv, FreshInv, ModeInv, WanTypeOK,
   UpInv, AtDown, AtUp, Both

\* One ip command keeps the types, whether it works or not.
LEMMA AddType ==
  ASSUME WanTypeOK, NEW rule \in Both, NEW next \in {"addsel", "flushup", "againsel", "sleep"},
         Add(rule, next)
  PROVE  WanTypeOK'
<1>1. rules' \subseteq Both /\ faults' \in 0 .. MaxFaults /\ lapses' = lapses
  BY WanAssumption DEF WanTypeOK, Add, Fault
<1>2. at' \in {next, "stopped"} /\ UNCHANGED <<uplink, flows, up, down, state>>
  BY DEF Add, Goto
<1>. QED
  BY <1>1, <1>2 DEF WanTypeOK, uplink

LEMMA DelType ==
  ASSUME WanTypeOK, NEW rule \in Both, NEW next \in {"delsel", "flushdown"}, Del(rule, next)
  PROVE  WanTypeOK'
<1>1. rules' \subseteq Both /\ faults' \in 0 .. MaxFaults
  BY WanAssumption DEF WanTypeOK, Del, Fault
<1>2. lapses' \subseteq lapses \union {"delfail"}
  BY DEF Del
<1>3. at' = next /\ UNCHANGED <<uplink, flows, up, down, state>>
  BY DEF Del, Goto
<1>. QED
  BY <1>1, <1>2, <1>3 DEF WanTypeOK, uplink

LEMMA WanStepInv == WanInv /\ [WanNext]_wanVars => WanInv'
<1> SUFFICES ASSUME WanInv, [WanNext]_wanVars PROVE WanInv'
  OBVIOUS
<1>0. WanTypeOK /\ ModeInv /\ UpInv /\ DownInv /\ FreshInv /\ FlowsInv
  BY DEF WanInv
<1>1. CASE Probe
  <2>1. WanTypeOK'
    BY <1>0, <1>1, WanAssumption DEF Probe, WanTypeOK, Count, Decide, uplink, Both
  <2>2. ModeInv'
    BY <1>0, <1>1 DEF Probe, ModeInv, WanTypeOK, Count, Decide, uplink, Both
  <2>3. UpInv'
    BY <1>0, <1>1 DEF Probe, UpInv, WanTypeOK, ModeInv, Count, Decide, uplink,
       AtUp, Both
  <2>4. DownInv'
    BY <1>0, <1>1 DEF Probe, DownInv, WanTypeOK, ModeInv, Count, Decide, uplink,
       AtDown, Both
  <2>5. FreshInv'
    BY <1>0, <1>1 DEF Probe, FreshInv, WanTypeOK, ModeInv, Count, Decide, uplink,
       Both
  <2>6. FlowsInv'
    BY <1>0, <1>1 DEF Probe, FlowsInv, WanTypeOK, ModeInv, UpInv, DownInv, Count,
       Decide, uplink, AtDown, AtUp, Both
  <2>. QED
    BY <2>1, <2>2, <2>3, <2>4, <2>5, <2>6 DEF WanInv
<1>2. CASE AddSup
  <2>1. WanTypeOK'
    BY <1>0, <1>2, AddType DEF AddSup, Both
  <2>2. ModeInv'
    BY <1>0, <1>2 DEF AddSup, ModeInv, WanTypeOK, Add, Both, Fault, Goto, uplink
  <2>3. UpInv'
    BY <1>0, <1>2 DEF AddSup, UpInv, WanTypeOK, ModeInv, Add, AtUp, Both, Fault,
       Goto, uplink
  <2>4. DownInv'
    BY <1>0, <1>2 DEF AddSup, DownInv, WanTypeOK, ModeInv, Add, AtDown, Both,
       Fault, Goto, uplink
  <2>5. FreshInv'
    BY <1>0, <1>2 DEF AddSup, FreshInv, WanTypeOK, ModeInv, Add, Both, Fault,
       Goto, uplink
  <2>6. FlowsInv'
    BY <1>0, <1>2 DEF AddSup, FlowsInv, WanTypeOK, ModeInv, UpInv, DownInv, Add,
       AtDown, AtUp, Both, Fault, Goto, uplink
  <2>. QED
    BY <2>1, <2>2, <2>3, <2>4, <2>5, <2>6 DEF WanInv
<1>3. CASE AddSel
  <2>1. WanTypeOK'
    BY <1>0, <1>3, AddType DEF AddSel, Both
  <2>2. ModeInv'
    BY <1>0, <1>3 DEF AddSel, ModeInv, WanTypeOK, Add, Both, Fault, Goto, uplink
  <2>3. UpInv'
    BY <1>0, <1>3 DEF AddSel, UpInv, WanTypeOK, ModeInv, Add, AtUp, Both, Fault,
       Goto, uplink
  <2>4. DownInv'
    BY <1>0, <1>3 DEF AddSel, DownInv, WanTypeOK, ModeInv, Add, AtDown, Both,
       Fault, Goto, uplink
  <2>5. FreshInv'
    BY <1>0, <1>3 DEF AddSel, FreshInv, WanTypeOK, ModeInv, Add, Both, Fault,
       Goto, uplink
  <2>6. FlowsInv'
    BY <1>0, <1>3 DEF AddSel, FlowsInv, WanTypeOK, ModeInv, UpInv, DownInv, Add,
       AtDown, AtUp, Both, Fault, Goto, uplink
  <2>. QED
    BY <2>1, <2>2, <2>3, <2>4, <2>5, <2>6 DEF WanInv
<1>4. CASE AgainSup
  <2>1. WanTypeOK'
    BY <1>0, <1>4, AddType DEF AgainSup, Both
  <2>2. ModeInv'
    BY <1>0, <1>4 DEF AgainSup, ModeInv, WanTypeOK, Add, Both, Fault, Goto, uplink
  <2>3. UpInv'
    BY <1>0, <1>4 DEF AgainSup, UpInv, WanTypeOK, ModeInv, Add, AtUp, Both, Fault,
       Goto, uplink
  <2>4. DownInv'
    BY <1>0, <1>4 DEF AgainSup, DownInv, WanTypeOK, ModeInv, Add, AtDown, Both,
       Fault, Goto, uplink
  <2>5. FreshInv'
    BY <1>0, <1>4 DEF AgainSup, FreshInv, WanTypeOK, ModeInv, Add, Both, Fault,
       Goto, uplink
  <2>6. FlowsInv'
    BY <1>0, <1>4 DEF AgainSup, FlowsInv, WanTypeOK, ModeInv, UpInv, DownInv, Add,
       AtDown, AtUp, Both, Fault, Goto, uplink
  <2>. QED
    BY <2>1, <2>2, <2>3, <2>4, <2>5, <2>6 DEF WanInv
<1>5. CASE AgainSel
  <2>1. WanTypeOK'
    BY <1>0, <1>5, AddType DEF AgainSel, Both
  <2>2. ModeInv'
    BY <1>0, <1>5 DEF AgainSel, ModeInv, WanTypeOK, Add, Both, Fault, Goto, uplink
  <2>3. UpInv'
    BY <1>0, <1>5 DEF AgainSel, UpInv, WanTypeOK, ModeInv, Add, AtUp, Both, Fault,
       Goto, uplink
  <2>4. DownInv'
    BY <1>0, <1>5 DEF AgainSel, DownInv, WanTypeOK, ModeInv, Add, AtDown, Both,
       Fault, Goto, uplink
  <2>5. FreshInv'
    BY <1>0, <1>5 DEF AgainSel, FreshInv, WanTypeOK, ModeInv, Add, Both, Fault,
       Goto, uplink
  <2>6. FlowsInv'
    BY <1>0, <1>5 DEF AgainSel, FlowsInv, WanTypeOK, ModeInv, UpInv, DownInv, Add,
       AtDown, AtUp, Both, Fault, Goto, uplink
  <2>. QED
    BY <2>1, <2>2, <2>3, <2>4, <2>5, <2>6 DEF WanInv
<1>6. CASE DelSup
  <2>1. WanTypeOK'
    BY <1>0, <1>6, DelType DEF DelSup, Both
  <2>2. ModeInv'
    BY <1>0, <1>6 DEF DelSup, ModeInv, WanTypeOK, Del, Both, Fault, Goto, uplink
  <2>3. UpInv'
    BY <1>0, <1>6 DEF DelSup, UpInv, WanTypeOK, ModeInv, Del, AtUp, Both, Fault,
       Goto, uplink
  <2>4. DownInv'
    BY <1>0, <1>6 DEF DelSup, DownInv, WanTypeOK, ModeInv, Del, AtDown, Both,
       Fault, Goto, uplink
  <2>5. FreshInv'
    BY <1>0, <1>6 DEF DelSup, FreshInv, WanTypeOK, ModeInv, Del, Both, Fault,
       Goto, uplink
  <2>6. FlowsInv'
    BY <1>0, <1>6 DEF DelSup, FlowsInv, WanTypeOK, ModeInv, UpInv, DownInv, Del,
       AtDown, AtUp, Both, Fault, Goto, uplink
  <2>. QED
    BY <2>1, <2>2, <2>3, <2>4, <2>5, <2>6 DEF WanInv
<1>7. CASE DelSel
  <2>1. WanTypeOK'
    BY <1>0, <1>7, DelType DEF DelSel, Both
  <2>2. ModeInv'
    BY <1>0, <1>7 DEF DelSel, ModeInv, WanTypeOK, Del, Both, Fault, Goto, uplink
  <2>3. UpInv'
    BY <1>0, <1>7 DEF DelSel, UpInv, WanTypeOK, ModeInv, Del, AtUp, Both, Fault,
       Goto, uplink
  <2>4. DownInv'
    BY <1>0, <1>7 DEF DelSel, DownInv, WanTypeOK, ModeInv, Del, AtDown, Both,
       Fault, Goto, uplink
  <2>5. FreshInv'
    BY <1>0, <1>7 DEF DelSel, FreshInv, WanTypeOK, ModeInv, Del, Both, Fault,
       Goto, uplink
  <2>6. FlowsInv'
    BY <1>0, <1>7 DEF DelSel, FlowsInv, WanTypeOK, ModeInv, UpInv, DownInv, Del,
       AtDown, AtUp, Both, Fault, Goto, uplink
  <2>. QED
    BY <2>1, <2>2, <2>3, <2>4, <2>5, <2>6 DEF WanInv
<1>8. CASE Flush
  <2>1. WanTypeOK'
    <3>1. faults' \in 0 .. MaxFaults
      BY <1>0, <1>8, WanAssumption DEF Flush, Fault, WanTypeOK
    <3>2. /\ flows' \subseteq flows /\ lapses' \subseteq lapses \union {"flushfail"}
          /\ state' \in {"up", "down"} /\ at' = "sleep"
          /\ UNCHANGED <<uplink, rules, up, down>>
      BY <1>8 DEF Flush
    <3>. QED
      BY <1>0, <3>1, <3>2 DEF WanTypeOK, uplink
  <2>2. ModeInv'
    BY <1>0, <1>8 DEF Flush, Fault, ModeInv, WanTypeOK, uplink, Both
  <2>3. UpInv'
    BY <1>0, <1>8 DEF Flush, Fault, UpInv, WanTypeOK, ModeInv, uplink, AtUp, Both
  <2>4. DownInv'
    BY <1>0, <1>8 DEF Flush, Fault, DownInv, WanTypeOK, ModeInv, uplink, AtDown, Both
  <2>5. FreshInv'
    BY <1>0, <1>8 DEF Flush, Fault, FreshInv, WanTypeOK, ModeInv, uplink, Both
  <2>6. FlowsInv'
    BY <1>0, <1>8 DEF Flush, Fault, FlowsInv, WanTypeOK, ModeInv, UpInv, DownInv, uplink,
       AtDown, AtUp, Both
  <2>. QED
    BY <2>1, <2>2, <2>3, <2>4, <2>5, <2>6 DEF WanInv
<1>9. CASE Wake
  <2>1. WanTypeOK'
    BY <1>0, <1>9, WanAssumption DEF Wake, WanTypeOK, Goto, Both, uplink
  <2>2. ModeInv'
    BY <1>0, <1>9 DEF Wake, ModeInv, WanTypeOK, Goto, Both, uplink
  <2>3. UpInv'
    BY <1>0, <1>9 DEF Wake, UpInv, WanTypeOK, ModeInv, Goto, AtUp, Both, uplink
  <2>4. DownInv'
    BY <1>0, <1>9 DEF Wake, DownInv, WanTypeOK, ModeInv, Goto, AtDown, Both,
       uplink
  <2>5. FreshInv'
    BY <1>0, <1>9 DEF Wake, FreshInv, WanTypeOK, ModeInv, Goto, Both, uplink
  <2>6. FlowsInv'
    BY <1>0, <1>9 DEF Wake, FlowsInv, WanTypeOK, ModeInv, UpInv, DownInv, Goto,
       AtDown, AtUp, Both, uplink
  <2>. QED
    BY <2>1, <2>2, <2>3, <2>4, <2>5, <2>6 DEF WanInv
<1>10. CASE Restart
  <2>1. WanTypeOK'
    BY <1>0, <1>10, WanAssumption DEF Restart, WanTypeOK, uplink, Both
  <2>2. ModeInv'
    BY <1>0, <1>10 DEF Restart, ModeInv, WanTypeOK, uplink, Both
  <2>3. UpInv'
    BY <1>0, <1>10 DEF Restart, UpInv, WanTypeOK, ModeInv, uplink, AtUp, Both
  <2>4. DownInv'
    BY <1>0, <1>10 DEF Restart, DownInv, WanTypeOK, ModeInv, uplink, AtDown, Both
  <2>5. FreshInv'
    BY <1>0, <1>10 DEF Restart, FreshInv, WanTypeOK, ModeInv, uplink, Both
  <2>6. FlowsInv'
    BY <1>0, <1>10 DEF Restart, FlowsInv, WanTypeOK, ModeInv, UpInv, DownInv,
       uplink, AtDown, AtUp, Both
  <2>. QED
    BY <2>1, <2>2, <2>3, <2>4, <2>5, <2>6 DEF WanInv
<1>11. CASE PathChanges
  <2>1. WanTypeOK'
    BY <1>0, <1>11, WanAssumption DEF PathChanges, WanTypeOK, script, Both
  <2>2. ModeInv'
    BY <1>0, <1>11 DEF PathChanges, ModeInv, WanTypeOK, script, Both
  <2>3. UpInv'
    BY <1>0, <1>11 DEF PathChanges, UpInv, WanTypeOK, ModeInv, script, AtUp, Both
  <2>4. DownInv'
    BY <1>0, <1>11 DEF PathChanges, DownInv, WanTypeOK, ModeInv, script, AtDown,
       Both
  <2>5. FreshInv'
    BY <1>0, <1>11 DEF PathChanges, FreshInv, WanTypeOK, ModeInv, script, Both
  <2>6. FlowsInv'
    BY <1>0, <1>11 DEF PathChanges, FlowsInv, WanTypeOK, ModeInv, UpInv, DownInv,
       script, AtDown, AtUp, Both
  <2>. QED
    BY <2>1, <2>2, <2>3, <2>4, <2>5, <2>6 DEF WanInv
<1>12. CASE RouteChanges
  <2>1. WanTypeOK'
    BY <1>0, <1>12, WanAssumption DEF RouteChanges, WanTypeOK, script, Both
  <2>2. ModeInv'
    BY <1>0, <1>12 DEF RouteChanges, ModeInv, WanTypeOK, script, Both
  <2>3. UpInv'
    BY <1>0, <1>12 DEF RouteChanges, UpInv, WanTypeOK, ModeInv, script, AtUp, Both
  <2>4. DownInv'
    BY <1>0, <1>12 DEF RouteChanges, DownInv, WanTypeOK, ModeInv, script, AtDown,
       Both
  <2>5. FreshInv'
    BY <1>0, <1>12 DEF RouteChanges, FreshInv, WanTypeOK, ModeInv, script, Both
  <2>6. FlowsInv'
    BY <1>0, <1>12 DEF RouteChanges, FlowsInv, WanTypeOK, ModeInv, UpInv, DownInv,
       script, AtDown, AtUp, Both
  <2>. QED
    BY <2>1, <2>2, <2>3, <2>4, <2>5, <2>6 DEF WanInv
<1>13. CASE Flow
  <2>1. WanTypeOK'
    BY <1>0, <1>13, WanAssumption DEF Flow, WanTypeOK, Egress, script, uplink,
       Both
  <2>2. ModeInv'
    BY <1>0, <1>13 DEF Flow, ModeInv, WanTypeOK, Egress, script, uplink, Both
  <2>3. UpInv'
    BY <1>0, <1>13 DEF Flow, UpInv, WanTypeOK, ModeInv, Egress, script, uplink,
       AtUp, Both
  <2>4. DownInv'
    BY <1>0, <1>13 DEF Flow, DownInv, WanTypeOK, ModeInv, Egress, script, uplink,
       AtDown, Both
  <2>5. FreshInv'
    BY <1>0, <1>13 DEF Flow, FreshInv, WanTypeOK, ModeInv, Egress, script, uplink,
       Both
  <2>6. FlowsInv'
    BY <1>0, <1>13 DEF Flow, FlowsInv, WanTypeOK, ModeInv, UpInv, DownInv, Egress,
       script, uplink, AtDown, AtUp, Both
  <2>. QED
    BY <2>1, <2>2, <2>3, <2>4, <2>5, <2>6 DEF WanInv
<1>14. CASE Killed
  <2>1. WanTypeOK'
    BY <1>0, <1>14, WanAssumption DEF Killed, WanTypeOK, Fault, uplink, Both
  <2>2. ModeInv'
    BY <1>0, <1>14 DEF Killed, ModeInv, WanTypeOK, Fault, uplink, Both
  <2>3. UpInv'
    BY <1>0, <1>14 DEF Killed, UpInv, WanTypeOK, ModeInv, Fault, uplink, AtUp,
       Both
  <2>4. DownInv'
    BY <1>0, <1>14 DEF Killed, DownInv, WanTypeOK, ModeInv, Fault, uplink, AtDown,
       Both
  <2>5. FreshInv'
    BY <1>0, <1>14 DEF Killed, FreshInv, WanTypeOK, ModeInv, Fault, uplink, Both
  <2>6. FlowsInv'
    BY <1>0, <1>14 DEF Killed, FlowsInv, WanTypeOK, ModeInv, UpInv, DownInv,
       Fault, uplink, AtDown, AtUp, Both
  <2>. QED
    BY <2>1, <2>2, <2>3, <2>4, <2>5, <2>6 DEF WanInv
<1>15. CASE Purge
  <2>1. WanTypeOK'
    BY <1>0, <1>15, WanAssumption DEF Purge, WanTypeOK, Fault, script, uplink,
       Both
  <2>2. ModeInv'
    BY <1>0, <1>15 DEF Purge, ModeInv, WanTypeOK, Fault, script, uplink, Both
  <2>3. UpInv'
    BY <1>0, <1>15 DEF Purge, UpInv, WanTypeOK, ModeInv, Fault, script, uplink,
       AtUp, Both
  <2>4. DownInv'
    BY <1>0, <1>15 DEF Purge, DownInv, WanTypeOK, ModeInv, Fault, script, uplink,
       AtDown, Both
  <2>5. FreshInv'
    BY <1>0, <1>15 DEF Purge, FreshInv, WanTypeOK, ModeInv, Fault, script, uplink,
       Both
  <2>6. FlowsInv'
    BY <1>0, <1>15 DEF Purge, FlowsInv, WanTypeOK, ModeInv, UpInv, DownInv, Fault,
       script, uplink, AtDown, AtUp, Both
  <2>. QED
    BY <2>1, <2>2, <2>3, <2>4, <2>5, <2>6 DEF WanInv
<1>16. CASE UNCHANGED wanVars
  BY <1>16 DEF wanVars, WanInv, script, uplink, DownInv, FlowsInv, FreshInv,
     ModeInv, WanTypeOK, UpInv, AtDown, AtUp, Both
<1>. QED
  BY <1>1, <1>2, <1>3, <1>4, <1>5, <1>6, <1>7, <1>8, <1>9, <1>10, <1>11, <1>12, <1>13, <1>14, <1>15, <1>16
     DEF WanNext, Script

----------------------------------------------------------------------------
(* The theorems about the watchdog                                         *)

\* WanInv holds in every reachable state.
THEOREM WanInvariance == WanSpec => []WanInv
BY WanInitInv, WanStepInv, PTL DEF WanSpec

\* The variables keep their types, for all thresholds.
THEOREM WanTypeCorrect == WanSpec => []WanTypeOK
<1>1. WanInv => WanTypeOK
  BY DEF WanInv
<1>. QED
  BY <1>1, WanInvariance, PTL

\* Between cycles the kernel's rules are what the watchdog's state says.
THEOREM StateTellsTheRules == WanSpec => []StateIsTruth
<1>1. WanInv => StateIsTruth
  BY DEF WanInv, UpInv, DownInv, AtUp, AtDown, StateIsTruth
<1>. QED
  BY <1>1, WanInvariance, PTL

\* Without faults the main table is shadowed only between the two removals.
THEOREM ShadowIsBrief == WanSpec => []ShadowOnlyInFailover
<1>1. WanInv => ShadowOnlyInFailover
  BY DEF WanInv, WanTypeOK, ModeInv, UpInv, DownInv, FreshInv, AtUp, AtDown,
     ShadowOnlyInFailover, Shadow, Both
<1>. QED
  BY <1>1, WanInvariance, PTL

\* No flow stays on the uplink a finished switch has left.
THEOREM FlowsFollow == WanSpec => []NoStaleFlows
<1>1. WanInv => NoStaleFlows
  BY DEF WanInv, FlowsInv, AtUp, AtDown, NoStaleFlows
<1>. QED
  BY <1>1, WanInvariance, PTL

=============================================================================
