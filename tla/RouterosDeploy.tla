--------------------------- MODULE RouterosDeploy ---------------------------
(***************************************************************************)
(* Deploys to a RouterOS switch (lib/platform/routeros/modules/deploy.nix) *)
(* of the scripts of RouterosConfig: save a backup, fetch it, upload the   *)
(* script, reset the switch with the script to run after the reset.  The   *)
(* switch comes back wiped, but for its users and its files, and imports   *)
(* the script line by line up to the first line it refuses.                *)
(*                                                                         *)
(* Several operators deploy, over one file name, from checkouts that hold  *)
(* different declarations; the firmware is upgraded and its schema         *)
(* captured now and then.  A script is named by the declaration it is of,  *)
(* a schema by the firmware it was captured from, and a configuration is   *)
(* how much of a script has been imported.  Lapses:                        *)
(* "overlap" (a deploy or a recovery during a deploy or its import), "cut" *)
(* (power lost during an import).                                          *)
(***************************************************************************)
EXTENDS RouterosConfig

CONSTANTS
  Operators,
  Declared,    \* declarations of the switch, by name
  Lacks,       \* what each firmware that may run lacks
  Cuts,        \* lengths at which an unfinished upload may be met
  Nothing,     \* no file, nobody, no schema
  MaxDeploys, MaxCuts, MaxUpgrades

Fleets == DOMAIN Declared
Firmwares == DOMAIN Lacks

ASSUME DeclarationAssumption == \A f \in Fleets : IsDeclaration(Declared[f])

ScriptOf == [f \in Fleets |-> Generate(Project(Declared[f]))]
SchemaOf ==
  [fw \in Firmwares \union {Nothing} |-> IF fw = Nothing THEN <<>> ELSE ParseSchema(Lacks[fw])]
PortsOf == [f \in Fleets |-> KnownPorts(Project(Declared[f]))]
Full(f) == Len(ScriptOf[f])

VARIABLES
  firmware,   \* the switch's firmware
  schema,     \* schema.json of the repository
  job,        \* job[o]: where o's routeros-deploy is, what it was built from
  rsc,        \* <identity>.rsc on the switch: the first len lines of f's script
  device,     \* the configuration: the first upto of the len lines it was given
  state,      \* "up", "importing" or "halted"
  files,      \* key files on the flash
  fetched,    \* the backups the operators hold
  by,         \* history: the job that reset the switch last
  lapses,     \* history
  deploys, cuts, upgrades

switch == <<firmware, rsc, device, state, files>>
bounds == <<deploys, cuts, upgrades>>
vars == <<switch, schema, job, fetched, by, lapses, bounds>>

Idle == [at |-> "idle"]
At(o, at) == job[o].at = at
Goto(o, at) == job' = [job EXCEPT ![o].at = at]
End(o) == job' = [job EXCEPT ![o] = Idle]
Deploying == {o \in Operators : ~At(o, "idle")}
Lapse(cond, name) == lapses' = IF cond THEN lapses \union {name} ELSE lapses

Done == SubSeq(ScriptOf[device.of], 1, device.upto)
NextLine == ScriptOf[device.of][device.upto + 1]
Rows(menu) == {Done[i].row : i \in {k \in DOMAIN Done : Done[k].menu = menu}}

\* What a line can refer to; hardware, users and files outlive a reset.
Objects ==
  {Port(p) : p \in PortsOf[device.of]} \union {Chip, User} \union files
  \union ((UNION {Done[i].makes : i \in DOMAIN Done}) \ {File(k) : k \in Keys})

Unknown(l) ==
  LET lacks == Lacks[firmware]
  IN  l.menu \in lacks.menus \/ \E p \in l.props : <<l.menu, p>> \in lacks.props

\* An unknown property, a reference to nothing, a name that is taken.
Refuses(l) ==
  ~l.caught /\ (Unknown(l) \/ ~(l.uses \subseteq Objects) \/ l.makes \intersect Objects # {})

\* Over the management network, by key; otherwise somebody has to go there.
Reachable ==
  "ssh" \in Rows("/ip service") /\ [net |-> MgmtNet] \in Rows("/ip address")

Init ==
  /\ firmware \in Firmwares
  /\ schema \in {firmware, Nothing}
  /\ job = [o \in Operators |-> Idle] /\ rsc = Nothing
  /\ \E f \in Fleets : device = [of |-> f, len |-> Full(f), upto |-> Full(f)]
  /\ state = "up" /\ files = {} /\ fetched = {}
  /\ by = Nothing /\ lapses = {}
  /\ deploys = 0 /\ cuts = 0 /\ upgrades = 0

-----------------------------------------------------------------------------
(* The repository: learn-schema and the build of a script.                 *)

LearnSchema ==
  /\ Reachable
  /\ schema' = firmware
  /\ UNCHANGED <<switch, job, fetched, by, lapses, bounds>>

\* generate refuses a script whose sections name what the schema lacks; what it
\* emits is part of the deploy script that o then runs.
Build(o, f) ==
  /\ At(o, "idle") /\ deploys < MaxDeploys
  /\ SchemaViolations(SchemaOf[schema]) = {}
  /\ job' = [job EXCEPT ![o] = [at |-> "save", of |-> f, schema |-> schema]]
  /\ deploys' = deploys + 1
  /\ Lapse(Deploying # {}, "overlap")
  /\ UNCHANGED <<switch, schema, fetched, by, cuts, upgrades>>

-----------------------------------------------------------------------------
(* routeros-deploy.                                                        *)

\* /system backup save
Save(o) ==
  /\ At(o, "save") /\ Reachable
  /\ job' = [job EXCEPT ![o] = [at |-> "fetch", of |-> @.of, schema |-> @.schema,
                                saved |-> device]]
  /\ Lapse(state = "importing", "overlap")
  /\ UNCHANGED <<switch, schema, fetched, by, bounds>>

\* Variant: a backup that could not be fetched does not end the script.
FetchOrNot(o) ==
  /\ At(o, "fetch") /\ Reachable
  /\ fetched' \in {fetched, fetched \union {job[o].saved}}
  /\ Goto(o, "upload")
  /\ UNCHANGED <<switch, schema, by, lapses, bounds>>
Fetch(o) ==
  /\ At(o, "fetch") /\ Reachable
  /\ fetched' = fetched \union {job[o].saved}
  /\ Goto(o, "upload")
  /\ UNCHANGED <<switch, schema, by, lapses, bounds>>

\* scp writes over the file of that name while it is under way.
Upload(o) ==
  /\ At(o, "upload") /\ Reachable
  /\ \E n \in Cuts \intersect (0 .. Full(job[o].of) - 1) : rsc' = [of |-> job[o].of, len |-> n]
  /\ Goto(o, "uploading")
  /\ UNCHANGED <<firmware, device, state, files, schema, fetched, by, lapses, bounds>>
\* Variant: an upload resumes where another one stopped.
UploadedResumed(o) ==
  /\ At(o, "uploading") /\ Reachable
  /\ rsc' = [of |-> job[o].of, len |-> rsc.len + Full(job[o].of)]
  /\ Goto(o, "reset")
  /\ UNCHANGED <<firmware, device, state, files, schema, fetched, by, lapses, bounds>>
Uploaded(o) ==
  /\ At(o, "uploading") /\ Reachable
  /\ rsc' = [of |-> job[o].of, len |-> Full(job[o].of)]
  /\ Goto(o, "reset")
  /\ UNCHANGED <<firmware, device, state, files, schema, fetched, by, lapses, bounds>>

\* reset-configuration keep-users=yes no-defaults=yes run-after-reset: the
\* script ends, whether it hears of it or not.
Reset(o) ==
  /\ At(o, "reset") /\ Reachable
  /\ device' = [of |-> rsc.of, len |-> rsc.len, upto |-> 0] /\ state' = "importing"
  /\ by' = [op |-> o, of |-> job[o].of, schema |-> job[o].schema]
  /\ End(o)
  /\ UNCHANGED <<firmware, rsc, files, schema, fetched, lapses, bounds>>

\* Any of the four commands fails: errexit.
Fails(o) ==
  /\ ~At(o, "idle")
  /\ End(o)
  /\ UNCHANGED <<switch, schema, fetched, by, lapses, bounds>>

-----------------------------------------------------------------------------
(* The switch.                                                             *)

ImportLine ==
  /\ state = "importing" /\ device.upto < device.len
  /\ ~Refuses(NextLine)
  /\ device' = [device EXCEPT !.upto = @ + 1]
  /\ files' = (files \union (NextLine.makes \intersect {File(k) : k \in Keys})) \ NextLine.drops
  /\ UNCHANGED <<firmware, rsc, state, schema, job, fetched, by, lapses, bounds>>

\* /import stops at the first error, and leaves what it has done.
ImportHalts ==
  /\ state = "importing" /\ device.upto < device.len
  /\ Refuses(NextLine)
  /\ state' = "halted"
  /\ UNCHANGED <<firmware, rsc, device, files, schema, job, fetched, by, lapses, bounds>>

ImportEnds ==
  /\ state = "importing" /\ device.upto = device.len
  /\ state' = "up"
  /\ UNCHANGED <<firmware, rsc, device, files, schema, job, fetched, by, lapses, bounds>>

\* Nothing resumes an import after a power cut.
PowerCut ==
  /\ state = "importing" /\ cuts < MaxCuts
  /\ state' = "up" /\ cuts' = cuts + 1
  /\ Lapse(TRUE, "cut")
  /\ UNCHANGED <<firmware, rsc, device, files, schema, job, fetched, by, deploys, upgrades>>

Upgrade ==
  /\ state # "importing" /\ upgrades < MaxUpgrades
  /\ firmware' \in Firmwares \ {firmware}
  /\ upgrades' = upgrades + 1
  /\ UNCHANGED <<rsc, device, state, files, schema, job, fetched, by, lapses, deploys, cuts>>

\* The script's parting advice: /system backup load, at a console if need be.
Load ==
  /\ state # "importing"
  /\ device' \in fetched /\ state' = "up"
  /\ Lapse(Deploying # {}, "overlap")
  /\ UNCHANGED <<firmware, rsc, files, schema, job, fetched, by, bounds>>

Deploy(o) ==
  \/ Save(o) \/ Fetch(o) \/ Upload(o) \/ Uploaded(o) \/ Reset(o) \/ Fails(o)

Next ==
  \/ LearnSchema
  \/ \E o \in Operators : Deploy(o) \/ \E f \in Fleets : Build(o, f)
  \/ ImportLine \/ ImportHalts \/ ImportEnds \/ PowerCut \/ Upgrade \/ Load

Spec == Init /\ [][Next]_vars

-----------------------------------------------------------------------------
(* Properties.                                                             *)

Configurations ==
  UNION {[of : {f}, len : 0 .. Full(f), upto : 0 .. Full(f)] : f \in Fleets}

\* No import goes beyond what the switch was given.
TypeOK ==
  /\ firmware \in Firmwares /\ state \in {"up", "importing", "halted"}
  /\ \A o \in Operators :
       \/ job[o] = Idle
       \/ /\ job[o].at \in {"save", "fetch", "upload", "uploading", "reset"}
          /\ job[o].of \in Fleets
  /\ \/ rsc = Nothing
     \/ rsc.of \in Fleets /\ rsc.len \in 0 .. Full(rsc.of)
  /\ device \in Configurations /\ device.upto <= device.len
  /\ fetched \subseteq Configurations
  /\ files \subseteq {File(k) : k \in Keys} /\ lapses \subseteq {"overlap", "cut"}

Whole == device.upto = Full(device.of)

\* Ports that carry a VLAN, by declaration.
Carriers(f, v) ==
  {p \in ActivePorts(f) :
     \/ PortCfg(f, p).vlan = v
     \/ PortType(PortCfg(f, p)) = "trunk" /\ v \in PortCfg(f, p).vlans}

\* What the projection takes for granted of a declaration and nothing checks:
\* slaves of a bond are declared, alike, and in one bond; names are of one
\* interface; a known model has the ports it is declared with; the delegation
\* comes over a network the switch has an address in, as has the management;
\* there are keys; a policy has a chip to enforce it.
Sound(f) ==
  /\ \A b \in DOMAIN f.bonds :
       /\ Range(f.bonds[b]) \subseteq ActivePorts(f)
       /\ \A p, q \in Range(f.bonds[b]) : f.ports[p] = f.ports[q]
       /\ \A c \in DOMAIN f.bonds \ {b} : Range(f.bonds[b]) \intersect Range(f.bonds[c]) = {}
  /\ DOMAIN f.bonds \intersect HwPorts(f) = {}
  /\ "bridge1" \notin DOMAIN f.bonds \union HwPorts(f)
  /\ f.model \in DOMAIN ModelPorts => DOMAIN f.ports \subseteq ModelPorts[f.model]
  /\ f.over \in f.addresses \union {NoNet}
  /\ MgmtNet \in f.addresses /\ Carriers(f, VlanOf[MgmtNet]) # {} /\ f.keys # {}
  /\ f.denied # {} => f.chip

\* A key that was put on the flash is not imported, by some firmware.
KeysStick ==
  \E fw \in Firmwares :
    \/ "/user ssh-keys" \in Lacks[fw].menus
    \/ \E p \in {"public-key-file", "user"} : <<"/user ssh-keys", p>> \in Lacks[fw].props

\* Each line finds what it refers to, and no name taken.  An import halts only
\* for the declaration; or since the firmware lacks what the line names, and
\* the schema it was checked against was not that firmware's, or did not know
\* the line's menu, or was not asked, since generate spells the property out
\* by hand; or at a key file that an earlier import left, which was cut short,
\* was of part of a script or could not import the key.  (generate's order,
\* the schema check, run-after-reset.)
HaltsAreExplained ==
  [][ ImportHalts =>
        \/ ~Sound(Declared[device.of])
        \/ /\ Unknown(NextLine)
           /\ \/ SchemaOf[by.schema] # SchemaOf[firmware]
              \/ NextLine.menu \notin DOMAIN SchemaOf[by.schema]
              \/ \E p \in NextLine.props \ Sections[NextLine.menu] :
                   <<NextLine.menu, p>> \in Lacks[firmware].props
        \/ NextLine.menu = "/file" /\ (lapses # {} \/ KeysStick) ]_vars

\* A destination is the declared prefixes that it is in, of its family.
Destinations ==
  SUBSET {Inside4(p) : p \in NetPrefixes} \union SUBSET {Inside6(p) : p \in NetPrefixes}
Inside(f) ==
  {Inside4(p) : p \in Range(f.internal4)} \union {Inside6(p) : p \in {f.ula} \ {NoPrefix}}

\* The first of the rules that match is the one that drops.
Matching(v, dst) ==
  LET lines == Done
  IN  {i \in DOMAIN lines : /\ lines[i].menu = "/interface ethernet switch rule"
                            /\ lines[i].row.vlan = v
                            /\ lines[i].row.says \in dst \union {Drop}}
Dropped(v, dst) ==
  LET matching == Matching(v, dst)
  IN  \E i \in matching : Done[i].row.says = Drop /\ \A k \in matching : i <= k

Disabled(p) == [disabled |-> p] \in Rows("/interface ethernet")

\* The interface a port is reached by.
Carrier(p) ==
  LET bonds == {r \in Rows("/interface bonding") : p \in r.slaves}
  IN  IF bonds = {} THEN p ELSE (CHOOSE r \in bonds : TRUE).bond
Pvids(i) == {r.pvid : r \in {r \in Rows("/interface bridge port") : r.iface = i}}
VlanRows == Rows("/interface bridge vlan")
Tagged(i) == {r.vlan : r \in {r \in VlanRows : i \in r.tagged}}
Untagged(i) == {r.vlan : r \in {r \in VlanRows : i \in r.untagged}}

\* A switch that has taken in a script does what was declared: an access port
\* is in its VLAN, a trunk carries its VLANs, a spare port of a known model is
\* off, and none in use is; frames of a routed network fit; and the chip drops
\* what a network that is denied a way off-site sends to anywhere but the
\* prefixes the fleet declares to be its own, and nothing else.
DeclaredIsConfigured ==
  LET f == Declared[device.of] IN
  Whole /\ Sound(f) =>
    /\ \A p \in HwPorts(f) :
         LET c == PortCfg(f, p)
             i == Carrier(p)
         IN  CASE PortType(c) = "access" ->
                    ~Disabled(p) /\ Pvids(i) = {c.vlan} /\ Untagged(i) = {c.vlan} /\ Tagged(i) = {}
               [] PortType(c) = "trunk" ->
                    ~Disabled(p) /\ Pvids(i) = {1} /\ Untagged(i) = {} /\ Tagged(i) = c.vlans
               [] OTHER -> Pvids(i) = {} /\ (f.model \in DOMAIN ModelPorts => Disabled(p))
    /\ \A p \in ActivePorts(f), n \in f.addresses :
         MtuOf[n] > 1500 => \E r \in Rows("/interface ethernet") :
                              "l2mtu" \in DOMAIN r /\ r.port = p /\ r.l2mtu >= MtuOf[n] + 4
    /\ \A n \in Nets, dst \in Destinations :
         Dropped(VlanOf[n], dst)
           <=> n \in f.denied \intersect f.addresses /\ dst \intersect Inside(f) = {}

\* Wherever an import stops, it leaves the way in that it has made: an address
\* comes with the ssh service and a key; once VLANs are told apart, the
\* management VLAN has a port, the bridge and an address; and no rule is in
\* that drops what is sent to a declared prefix, as a later one would let it.
StaysManageable ==
  LET f == Declared[device.of]
      v == VlanOf[MgmtNet]
  IN  Sound(f) =>
    /\ Rows("/ip address") # {} => "ssh" \in Rows("/ip service") /\ "key" \in Rows("/user ssh-keys")
    /\ "filtering" \in Rows("/interface bridge") =>
         /\ Reachable /\ v \in Tagged("bridge1")
         /\ \E p \in Carriers(f, v) : v \in Tagged(Carrier(p)) \union Untagged(Carrier(p))
    /\ \A n \in f.addresses, dst \in Destinations :
         dst \intersect Inside(f) # {} => ~Dropped(VlanOf[n], dst)

\* A reset interrupts no import, what it wipes is in a backup that has been
\* fetched, and what comes up in its place is the script of the deploy that
\* asked for it, all of it.  None of this holds of deploys that overlap.
WipedIsFetched ==
  [][ \A o \in Operators :
        Reset(o) /\ "overlap" \notin lapses =>
          /\ state # "importing" /\ device \in fetched
          /\ device' = [of |-> job[o].of, len |-> Full(job[o].of), upto |-> 0] ]_vars
=============================================================================
