---------------------------- MODULE SodolaDeploy ----------------------------
(***************************************************************************)
(* A Sodola switch, configured two ways: the deploy script of the fleet    *)
(* pushes the document that modules/sodola/projection.nix makes of the     *)
(* declared ports, and somebody at a desk pulls the switch's document,     *)
(* edits it and pushes it back (lib/platform/sodola/cli).                  *)
(*                                                                         *)
(* A push generates the whole image, logs in, restores it and asks for a   *)
(* reboot, each a request of its own; the switch stores the image at the   *)
(* restore and runs it from the next boot on.  A request may get lost, or  *)
(* its answer may.  MaxPushes bounds the pushes, MaxEdits the edits.       *)
(***************************************************************************)
EXTENDS SodolaCodec

CONSTANTS
  Vids,       \* the VLANs of the fleet
  MgmtVlan,   \* that of the management network
  Fleets,     \* declarations of the switch's ports the fleet may hold
  NoVlan,     \* the vlan of a port without one
  MaxPushes, MaxEdits

ASSUME FleetAssumption ==
  /\ Vids \subseteq Nat \ {0} /\ IsFiniteSet(Vids) /\ MgmtVlan \in Vids
  /\ Fleets \subseteq [Ports -> [vlan : Vids \union {NoVlan}, vlans : SUBSET Vids]]
  /\ MaxPushes \in Nat /\ MaxEdits \in Nat

VARIABLES
  desk,     \* the document at the desk
  stored,   \* the image the switch holds
  running,  \* the image it booted
  push,     \* push[w]: where the script of deploy and of the desk is
  origin,   \* history: what the stored image was made from
  missed,   \* history: the last restore's push ended without a reboot
  pushes, edits

vars == <<desk, stored, running, push, origin, missed, pushes, edits>>

Pushers == {"deploy", "desk"}

-----------------------------------------------------------------------------
(* modules/egregore/lib/switch-port.nix and modules/sodola/projection.nix. *)

PortType(p) ==
  IF p.vlan # NoVlan THEN "access" ELSE IF p.vlans # {} THEN "trunk" ELSE "unused"

SwitchVlans(f) ==
  {1, MgmtVlan} \union {f[p].vlan : p \in {q \in Ports : f[q].vlan # NoVlan}}
                \union UNION {f[p].vlans : p \in Ports}

\* The uplink is a member of its native VLAN too, or its byte would say
\* nothing of it.
VlanMembersDeclared(f, vid) ==
  {p \in Ports :
     \/ PortType(f[p]) = "access" /\ f[p].vlan = vid
     \/ PortType(f[p]) = "trunk" /\ vid \in f[p].vlans}
VlanMembers(f, vid) ==
  {p \in Ports :
     \/ PortType(f[p]) = "access" /\ f[p].vlan = vid
     \/ PortType(f[p]) = "trunk" /\ vid \in f[p].vlans
     \/ /\ p = Uplink /\ PortType(f[p]) # "unused"
        /\ vid = IF f[p].vlan # NoVlan THEN f[p].vlan ELSE 1}

MkPort(p) ==
  [mode      |-> IF PortType(p) = "access" THEN "access" ELSE "trunk",
   native    |-> IF PortType(p) = "access" THEN p.vlan ELSE 1,
   speed     |-> "auto",
   limit     |-> NoLimit,
   isolation |-> NoMask]

\* The rendered document: limits, masks and the password are not in it.
Project(f) ==
  [ports |-> [p \in Ports |-> MkPort(f[p])],
   vlans |-> [i \in 1 .. Cardinality(SwitchVlans(f)) |->
                LET vid == Ascending(SwitchVlans(f))[i]
                IN  [id |-> vid, members |-> VlanMembers(f, vid), name |-> NoName]],
   hash  |-> DefaultHash,
   misc  |-> "fleet"]

-----------------------------------------------------------------------------

FromFleet(f) == [by |-> "deploy", fleet |-> f, doc |-> Project(f)]
FromDesk(d) == [by |-> "desk", doc |-> d]

Idle == [at |-> "idle"]

\* A switch as the fleet left it, with a password of its own.
Init ==
  /\ \E f \in Fleets :
       /\ desk = [Project(f) EXCEPT !.hash = "own"]
       /\ origin = FromDesk(desk)
  /\ stored = Generate(desk) /\ running = stored
  /\ push = [w \in Pushers |-> Idle]
  /\ missed = FALSE /\ pushes = 0 /\ edits = 0

At(w, at) == push[w].at = at
Goto(w, at) == push' = [push EXCEPT ![w].at = at]
End(w) == push' = [push EXCEPT ![w] = Idle]

-----------------------------------------------------------------------------
(* The desk. *)

Pull ==
  /\ At("desk", "idle")
  /\ desk' = Parse(stored)
  /\ UNCHANGED <<stored, running, push, origin, missed, pushes, edits>>

WithVlan(d, v) == [d EXCEPT !.vlans = Append(@, v)]
WithoutVlan(d, i) == [d EXCEPT !.vlans = RemoveAt(@, i)]

EditVlans ==
  \/ \E v \in Vids \ Ids(desk.vlans), m \in {Ports, {1}} :
       desk' = WithVlan(desk, [id |-> v, members |-> m, name |-> "lab"])
  \/ \E i \in DOMAIN desk.vlans : desk' = WithoutVlan(desk, i)
  \/ \E i \in DOMAIN desk.vlans, p \in {1, Uplink} :
       desk' = [desk EXCEPT !.vlans[i].members = (@ \ {p}) \union ({p} \ @)]

EditPorts ==
  \/ \E p \in {1, Uplink}, v \in Vids : desk' = [desk EXCEPT !.ports[p].native = v]
  \/ \E p \in {1, Uplink} : desk' = [desk EXCEPT !.ports[p].mode = "access"]
  \/ desk' = [desk EXCEPT !.ports[1] = [@ EXCEPT !.limit = 100, !.speed = "manual",
                                                !.isolation = {Uplink}]]

Edit ==
  /\ At("desk", "idle") /\ edits < MaxEdits
  /\ EditVlans \/ EditPorts
  /\ edits' = edits + 1
  /\ UNCHANGED <<stored, running, push, origin, missed, pushes>>

-----------------------------------------------------------------------------
(* A push: sodola-config generate, the login, the restore, the reboot.     *)

Begin(w, from) ==
  /\ At(w, "idle") /\ pushes < MaxPushes
  /\ push' = [push EXCEPT ![w] =
                [at |-> "login", bin |-> Generate(from.doc), from |-> from]]
  /\ pushes' = pushes + 1
  /\ UNCHANGED <<desk, stored, running, origin, missed, edits>>

Login(w) ==
  /\ At(w, "login")
  /\ Goto(w, "restore")
  /\ UNCHANGED <<desk, stored, running, origin, missed, pushes, edits>>

Stored(w) == stored' = push[w].bin /\ origin' = push[w].from

RestoreOnly(w) ==
  /\ At(w, "restore")
  /\ Stored(w) /\ End(w) /\ missed' = FALSE
  /\ UNCHANGED <<desk, running, pushes, edits>>
Restore(w) ==
  /\ At(w, "restore")
  /\ Stored(w) /\ Goto(w, "reboot") /\ missed' = FALSE
  /\ UNCHANGED <<desk, running, pushes, edits>>

\* The switch stores the image; the script fails for want of an answer and asks
\* for no reboot.
RestoreUnheard(w) ==
  /\ At(w, "restore")
  /\ Stored(w) /\ End(w) /\ missed' = TRUE
  /\ UNCHANGED <<desk, running, pushes, edits>>

\* curl -f under errexit.
Fails(w) ==
  /\ push[w].at \in {"login", "restore"}
  /\ End(w)
  /\ UNCHANGED <<desk, stored, running, origin, missed, pushes, edits>>

Reboot(w) ==
  /\ At(w, "reboot")
  /\ running' = stored /\ missed' = FALSE /\ End(w)
  /\ UNCHANGED <<desk, stored, origin, pushes, edits>>

\* || true: the script reports the reboot all the same.
RebootLost(w) ==
  /\ At(w, "reboot")
  /\ missed' = TRUE /\ End(w)
  /\ UNCHANGED <<desk, stored, running, origin, pushes, edits>>

PowerCycle ==
  /\ running' = stored /\ missed' = FALSE
  /\ UNCHANGED <<desk, stored, push, origin, pushes, edits>>

Script(w) ==
  \/ Login(w) \/ Restore(w) \/ RestoreUnheard(w) \/ Fails(w)
  \/ Reboot(w) \/ RebootLost(w)

Next ==
  \/ Pull \/ Edit \/ PowerCycle
  \/ \E f \in Fleets : Begin("deploy", FromFleet(f))
  \/ Begin("desk", FromDesk(desk))
  \/ \E w \in Pushers : Script(w)

Spec == Init /\ [][Next]_vars
-----------------------------------------------------------------------------
(* Properties. *)

VlanIds == Vids \union {1}
VlanDocs == [id : VlanIds, members : SUBSET Ports, name : {NoName, "lab"}]
PortDocs ==
  [mode : {"access", "trunk"}, native : VlanIds, speed : {"auto", "manual"},
   limit : {NoLimit, 100}, isolation : (SUBSET Ports) \union {NoMask}]
Docs ==
  [ports : [Ports -> PortDocs],
   vlans : Seq(VlanDocs),
   hash : {DefaultHash, "own"}, misc : {"fleet"}]

Images ==
  [vid : [0 .. Slots - 1 -> VlanIds \union {Blank}], first : {NoName, "lab"},
   block : [0 .. Slots - 3 ->
              [copper : SUBSET (Ports \ {Uplink}), uplink : 0 .. 2,
               name : {NoName, "lab"}]],
   port : [Ports -> [native : VlanIds, access : BOOLEAN, auto : BOOLEAN,
                     limit : {100, Unlimited}, isolation : SUBSET Ports]],
   hash : {DefaultHash, "own"}, misc : {"fleet"}]

\* Every image is one the switch can be given: each field in its range, the
\* uplink's byte with one bit at most.
TypeOK ==
  /\ desk \in Docs /\ stored \in Images /\ running \in Images
  /\ \A w \in Pushers :
       \/ push[w] = Idle
       \/ push[w].at \in {"login", "restore", "reboot"} /\ push[w].bin \in Images
  /\ origin.doc \in Docs /\ missed \in BOOLEAN
  /\ pushes \in 0 .. MaxPushes /\ edits \in 0 .. MaxEdits

Back == Parse(stored)
BackMembers(vid) == MembersOf(Back.vlans, vid)

\* The VLANs whose members fit an image: the lowest Slots - 3 besides 1.
Fitting(d) ==
  {v \in Ids(d.vlans) : Cardinality(Below(Ids(d.vlans) \ {1}, v)) < Slots - 3}

\* A port leaves no trace of a membership if it is the uplink, an access port
\* and native in another VLAN.
Traceless(d, vid) ==
  {p \in {Uplink} : d.ports[p].mode = "access" /\ d.ports[p].native # vid}

VlansReadBack ==
  LET d == origin.doc IN
  /\ Fitting(d) \subseteq Ids(Back.vlans) /\ Ids(Back.vlans) \subseteq Ids(d.vlans) \union {1}
  /\ \A i \in DOMAIN d.vlans :
       LET v == d.vlans[i] IN
       /\ BackMembers(v.id) \subseteq v.members
       /\ v.id \in Fitting(d) =>
            /\ BackMembers(v.id) = v.members \ Traceless(d, v.id)
            /\ NameOf(Back.vlans, v.id) = v.name

PortsReadBack ==
  \A p \in Ports :
    LET made == origin.doc.ports[p]
        back == Back.ports[p]
    IN  /\ back.mode = made.mode /\ back.native = made.native
        /\ back.speed = made.speed /\ back.limit = made.limit
        /\ made.isolation # NoMask => back.isolation = made.isolation

\* An image reads back as the document it was made from: each VLAN that fits
\* with its name and its members, all others with none that were not asked for,
\* and every port as declared.  (generate and parse, the slots and their
\* interleaved blocks.)
ReadsBack == VlansReadBack /\ PortsReadBack

\* What the fleet declares of a port is what the switch does with it, after a
\* deploy and whatever the switch held before: an access port is in its VLAN
\* and untagged there, a trunk carries its VLANs and an unused port none, if
\* the VLANs fit.  (projection.nix through generate.)
FleetReachesPorts ==
  origin.by = "deploy" =>
    LET f == origin.fleet
        Carried(p) == {v \in Fitting(origin.doc) : p \in BackMembers(v)}
        Fit(S) == S \intersect Fitting(origin.doc)
    IN  \A p \in Ports :
          CASE PortType(f[p]) = "access" ->
                 Carried(p) = Fit({f[p].vlan}) /\ Back.ports[p].native = f[p].vlan
            [] PortType(f[p]) = "trunk" ->
                 /\ Carried(p) = Fit(f[p].vlans \union IF p = Uplink THEN {1} ELSE {})
                 /\ Back.ports[p].mode = "trunk"
            [] OTHER -> Carried(p) = {}

\* Pulling the document of any image, and pushing it back unedited, gives the
\* same image, VLANs that do not fit included.
PullPushIsQuiet == Generate(Parse(stored)) = stored /\ Generate(Parse(running)) = running

\* The switch runs another image than it holds only while a push is on its way
\* to the reboot, or after one that ended without it.
BehindOnlyIfMissed ==
  running # stored => missed \/ \E w \in Pushers : At(w, "reboot")
=============================================================================
