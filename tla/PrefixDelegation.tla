-------------------------- MODULE PrefixDelegation --------------------------
(***************************************************************************)
(* modules/nixos/network/prefix-delegation-bind.py and the unit that runs  *)
(* it.  networkd publishes the DHCPv6-PD lease as an unreachable route;    *)
(* the binder reads it, puts the prefix into the delegation pools of a     *)
(* running Kea and routes each slice to its downstream router.  It does so *)
(* once at start and then for every matching line of `ip monitor'.         *)
(*                                                                         *)
(* A slice is named by its downstream router and the prefix it is cut      *)
(* from.  networkd, Kea and the links are the environment; MaxMoves bounds *)
(* what they do in a behaviour.                                            *)
(***************************************************************************)
EXTENDS Naturals, FiniteSets

CONSTANTS
  Names,      \* downstream routers of the plan, each with a marked Kea pool
  Prefixes,   \* prefixes that may be leased
  Usable,     \* those that hold every slice of the plan
  NoPrefix,   \* the placeholder in Kea's configuration file; nothing read
  MaxMoves    \* bound on moves of the environment

ASSUME DelegationAssumption ==
  /\ Usable \subseteq Prefixes /\ NoPrefix \notin Prefixes
  /\ IsFiniteSet(Names) /\ Names # {}
  /\ MaxMoves \in Nat

VARIABLES
  lease,       \* destinations of the unreachable dhcp routes
  kea,         \* "up" or "down"
  pools,       \* the prefix of each pool in the running Kea
  routes,      \* kernel routes: pairs of a router and the prefix of its slice
  pc,          \* where the binder is; "dead" while systemd waits to restart it
  first,       \* the reconcile before the monitor is spawned
  seen,        \* pd of the current or last reconcile
  todo,        \* routers whose route this reconcile has still to replace
  subscribed,  \* ip monitor listens
  events,      \* matching lines in the monitor's pipe
  unseen,      \* history: what changed since the last read and will announce
               \* itself to no one: "lease", "kea", "link"
  moves        \* moves of the environment so far

binder == <<pc, first, seen, todo, subscribed, events>>
world == <<lease, kea, pools, routes>>
vars == <<world, binder, unseen, moves>>

Init ==
  /\ lease = {} /\ kea = "up" /\ pools = [n \in Names |-> NoPrefix] /\ routes = {}
  /\ pc = "read" /\ first = TRUE /\ seen = NoPrefix /\ todo = {}
  /\ subscribed = FALSE /\ events = 0
  /\ unseen = {} /\ moves = 0

----------------------------------------------------------------------------
(* The binder                                                              *)

\* SystemExit, an exception, or the end of the monitor: the unit's processes
\* are gone with everything they had read.
Die ==
  /\ pc' = "dead" /\ subscribed' = FALSE /\ events' = 0 /\ todo' = {}
  /\ UNCHANGED <<world, first, seen>>

\* Restart=always; also the start that Kea's unit asks for.
Start ==
  /\ pc = "dead"
  /\ pc' = "read" /\ first' = TRUE
  /\ UNCHANGED <<world, seen, todo, subscribed, events, unseen, moves>>

\* reconcile returns; after the first one the monitor is spawned.
Return ==
  /\ pc' = "wait" /\ first' = FALSE
  /\ UNCHANGED <<subscribed, events>>

\* Variant: the first of several leases is taken.
ReadFirst ==
  /\ pc = "read"
  /\ unseen' = {}
  /\ \/ /\ lease = {}
        /\ Return /\ seen' = NoPrefix
        /\ UNCHANGED <<world, todo>>
     \/ /\ \E p \in Usable : p \in lease /\ seen' = p
        /\ pc' = "get"
        /\ UNCHANGED <<world, first, todo, subscribed, events>>
     \/ /\ lease # {} /\ lease \intersect Usable = {}
        /\ Die
  /\ UNCHANGED moves

\* ip -6 route show, and the slices of what it shows.
Read ==
  /\ pc = "read"
  /\ unseen' = {}
  /\ \/ /\ lease = {}
        /\ Return /\ seen' = NoPrefix
        /\ UNCHANGED <<world, todo>>
     \/ /\ \E p \in Usable : lease = {p} /\ seen' = p
        /\ pc' = "get"
        /\ UNCHANGED <<world, first, todo, subscribed, events>>
     \/ /\ lease # {} /\ \A p \in Usable : lease # {p}
        /\ Die
  /\ UNCHANGED moves

\* Variant: nothing is left to do when the pools are right.
GetReturnsEarly ==
  /\ pc = "get" /\ UNCHANGED <<unseen, moves>>
  /\ \/ /\ kea = "down" /\ Die
     \/ /\ kea = "up"
        /\ IF \E n \in Names : pools[n] # seen
             THEN pc' = "set" /\ UNCHANGED <<first, subscribed, events>> ELSE Return
        /\ todo' = Names
        /\ UNCHANGED <<world, seen>>

\* config-get; the set is skipped when every marked pool has its slice.
Get ==
  /\ pc = "get" /\ UNCHANGED <<unseen, moves>>
  /\ \/ /\ kea = "down" /\ Die
     \/ /\ kea = "up"
        /\ pc' = IF \E n \in Names : pools[n] # seen THEN "set" ELSE "route"
        /\ todo' = Names
        /\ UNCHANGED <<world, first, seen, subscribed, events>>

\* config-set of the whole configuration, in the Kea that is running now.
Set ==
  /\ pc = "set" /\ UNCHANGED <<unseen, moves>>
  /\ \/ /\ kea = "down" /\ Die
     \/ /\ kea = "up"
        /\ pools' = [n \in Names |-> seen] /\ pc' = "route"
        /\ UNCHANGED <<lease, kea, routes, first, seen, todo, subscribed, events>>

\* ip -6 route replace for one router; the route of an earlier slice stays.
Route ==
  /\ pc = "route" /\ todo # {}
  /\ \E n \in todo : todo' = todo \ {n} /\ routes' = routes \union {<<n, seen>>}
  /\ UNCHANGED <<lease, kea, pools, pc, first, seen, subscribed, events, unseen, moves>>

Routed ==
  /\ pc = "route" /\ todo = {}
  /\ Return
  /\ UNCHANGED <<world, seen, todo, unseen, moves>>

\* ip monitor has joined the multicast group.
Subscribe ==
  /\ pc = "wait" /\ ~subscribed
  /\ subscribed' = TRUE
  /\ UNCHANGED <<world, pc, first, seen, todo, events, unseen, moves>>

\* Variant: the line is read and nothing is done.
EventIgnored ==
  /\ pc = "wait" /\ events > 0
  /\ events' = events - 1
  /\ UNCHANGED <<world, pc, first, seen, todo, subscribed, unseen, moves>>

\* A matching line, of an added or a deleted route alike.
Event ==
  /\ pc = "wait" /\ events > 0
  /\ events' = events - 1 /\ pc' = "read"
  /\ UNCHANGED <<world, first, seen, todo, subscribed, unseen, moves>>

----------------------------------------------------------------------------
(* The environment                                                         *)

Move == moves < MaxMoves /\ moves' = moves + 1

\* A route notification goes to a listening monitor; otherwise it is news
\* only to a reconcile that has still to read.
Notify ==
  /\ events' = IF subscribed THEN events + 1 ELSE events
  /\ unseen' = IF subscribed \/ pc \in {"dead", "read"} THEN unseen ELSE unseen \union {"lease"}
  /\ UNCHANGED <<kea, pools, routes, pc, first, seen, todo, subscribed>>

Leased(p) == Move /\ p \notin lease /\ lease' = lease \union {p} /\ Notify

Withdrawn(p) == Move /\ p \in lease /\ lease' = lease \ {p} /\ Notify

KeaStops ==
  /\ Move /\ kea = "up" /\ kea' = "down"
  /\ UNCHANGED <<lease, pools, routes, binder, unseen>>

\* Kea loads its configuration file.  Its unit wants the binder's, which does
\* nothing to a binder that is running.
KeaStarts ==
  /\ kea = "down" /\ kea' = "up"
  /\ pools' = [n \in Names |-> NoPrefix]
  /\ unseen' = IF pc \in {"route", "wait"} THEN unseen \union {"kea"} ELSE unseen
  /\ UNCHANGED <<lease, routes, binder, moves>>

\* The link to a router goes down and up; the kernel drops the routes over it.
LinkFlaps(n) ==
  /\ Move
  /\ routes' = {r \in routes : r[1] # n}
  /\ unseen' = IF pc = "wait" \/ (pc = "route" /\ n \notin todo)
                 THEN unseen \union {"link"} ELSE unseen
  /\ UNCHANGED <<lease, kea, pools, binder>>

\* A command fails, the process is killed, or ip monitor ends.
Fails ==
  /\ Move /\ pc # "dead" /\ Die /\ UNCHANGED unseen

----------------------------------------------------------------------------
Binder == Read \/ Get \/ Set \/ Route \/ Routed \/ Event

Environment ==
  \/ \E p \in Prefixes : Leased(p) \/ Withdrawn(p)
  \/ KeaStops \/ KeaStarts \/ Fails
  \/ \E n \in Names : LinkFlaps(n)

Next == Binder \/ Start \/ Subscribe \/ Environment

\* The binder runs, systemd restarts it, ip monitor gets to listen.
Fairness == WF_vars(Binder) /\ WF_vars(Start) /\ WF_vars(Subscribe)

Spec == Init /\ [][Next]_vars /\ Fairness

----------------------------------------------------------------------------
(* Properties                                                              *)

\* Types; Kea and the routes are given only a prefix the plan fits.
TypeOK ==
  /\ lease \subseteq Prefixes /\ kea \in {"up", "down"}
  /\ pools \in [Names -> Usable \union {NoPrefix}] /\ routes \subseteq Names \X Usable
  /\ pc \in {"dead", "read", "get", "set", "route", "wait"}
  /\ first \in BOOLEAN /\ subscribed \in BOOLEAN
  /\ seen \in Usable \union {NoPrefix}
  /\ pc \in {"get", "set", "route"} => seen \in Usable
  /\ todo \subseteq Names /\ events \in Nat
  /\ unseen \subseteq {"lease", "kea", "link"} /\ moves \in Nat

Applied(p) == /\ \A n \in Names : pools[n] = p
              /\ Names \X {p} \subseteq routes

\* A prefix that was read a while ago is written to Kea or to the kernel only if
\* it is the one lease still, or else news of that is in the pipe and the write
\* is not the last word.  Only the reconcile that precedes the monitor can be
\* overtaken for good.  (One read per reconcile, several leases refused, the
\* pipe that outlasts a reconcile.)
WrittenIsLeased ==
  [][ (Set \/ Route) /\ (pools' # pools \/ routes' # routes) =>
        lease = {seen} \/ events > 0 \/ (first /\ "lease" \in unseen) ]_vars

\* A binder that waits with nothing in the pipe has applied the lease as it is
\* now: what it read was not overtaken, except by changes nobody announces.
QuietIsCurrent ==
  pc = "wait" /\ events = 0 /\ unseen = {} /\ kea = "up" =>
    \A p \in Prefixes : lease = {p} => Applied(p)

\* A lease that stays, of a prefix the plan fits, is applied in the end and
\* stays applied, through failures, double leases and Kea's absences, if no
\* unannounced change comes last.
Converges ==
  \A p \in Usable :
    <>[](lease = {p} /\ kea = "up" /\ unseen = {}) => <>[]Applied(p)

\* prefix-delegation.nix: "config-set does not persist, so every Kea start needs
\* the prefix re-applied.  `wantedBy` on the Kea unit is what makes that happen."
Unapplied(p) == /\ kea = "up" /\ lease = {p} /\ "lease" \notin unseen
                /\ \A n \in Names : pools[n] = NoPrefix
KeaStartIsReapplied == \A p \in Usable : Unapplied(p) ~> ~Unapplied(p)
=============================================================================
