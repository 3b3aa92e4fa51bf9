--------------------------- MODULE RouterosConfig ---------------------------
(***************************************************************************)
(* What a RouterOS switch is given: the projection of the fleet's          *)
(* declaration (modules/routeros/projection.nix), the script generate      *)
(* makes of that document, and the check of property names against a       *)
(* captured schema (lib/platform/routeros/render/routeros_config.py).      *)
(*                                                                         *)
(* A script is a sequence of lines.  A line is its menu, the properties it *)
(* names, the objects it refers to, creates and removes, whether an error  *)
(* of it is caught, and as its row what of its values the properties tell  *)
(* apart.  Addresses, comments and the names of users are left out.        *)
(***************************************************************************)
EXTENDS Integers, SequencesExt

CONSTANTS
  ModelPorts,       \* MODEL_PORTS: the ports of each model generate knows
  ProjectedModels,  \* the models the projection knows as well
  Nets,             \* networks of the fleet
  VlanOf, MtuOf,    \* their VLANs and MTUs
  MgmtNet,          \* the management network
  Keys,             \* the administrators' ssh keys
  NetPrefixes,         \* prefixes a fleet may declare to be internal
  NoVlan, NoNet, NoPrefix

ASSUME NetAssumption ==
  /\ ProjectedModels \subseteq DOMAIN ModelPorts
  /\ MgmtNet \in Nets /\ NoNet \notin Nets /\ NoVlan \notin {VlanOf[n] : n \in Nets}
  /\ VlanOf \in [Nets -> Nat \ {0, 1}] /\ MtuOf \in [Nets -> Nat]
  /\ \A m, n \in Nets : VlanOf[m] = VlanOf[n] => m = n
  /\ IsFiniteSet(Nets) /\ IsFiniteSet(Keys)
  /\ \A m \in DOMAIN ModelPorts : IsFiniteSet(ModelPorts[m])

\* A line, or three lines, for each member of a set.
ListOf(S, F(_)) == LET s == SetToSeq(S) IN [i \in DOMAIN s |-> F(s[i])]
ThreeOf(S, F(_)) ==
  LET s == SetToSeq(S) IN [i \in 1 .. 3 * Len(s) |-> F(s[(i + 2) \div 3])[1 + ((i - 1) % 3)]]
Vlans(S) == {VlanOf[n] : n \in S}

-----------------------------------------------------------------------------
(* switch-port.nix and projection.nix.  A declaration f has a model, ports *)
(* with a vlan or vlans, bonds of ports, the networks it has an address    *)
(* in, those of them with an IPv6 address (v6), with hosts that ask for    *)
(* leases (relays), with a delegated prefix (pd, received over the network *)
(* over) and without a way off-site (denied), the families of its default  *)
(* routes and whether it has a switch chip.  The fleet's IPv4 prefixes     *)
(* (internal4) and its IPv6 prefix (ula) are those it declares, if any.    *)

IsDeclaration(f) ==
  /\ IsFiniteSet(DOMAIN f.ports) /\ IsFiniteSet(UNION {f.ports[p].vlans : p \in DOMAIN f.ports})
  /\ IsFiniteSet(DOMAIN f.bonds)
  /\ \A b \in DOMAIN f.bonds : f.bonds[b] \in Seq(Range(f.bonds[b])) \ {<<>>}
  /\ f.addresses \subseteq Nets /\ f.v6 \subseteq f.addresses
  /\ f.keys \subseteq Keys /\ f.chip \in BOOLEAN
  /\ f.internal4 \in Seq(NetPrefixes) /\ f.ula \in NetPrefixes \union {NoPrefix}

PortType(p) ==
  IF p.vlan # NoVlan THEN "access" ELSE IF p.vlans # {} THEN "trunk" ELSE "unused"

HwPorts(f) == IF f.model \in ProjectedModels THEN ModelPorts[f.model] ELSE DOMAIN f.ports
PortCfg(f, p) == IF p \in DOMAIN f.ports THEN f.ports[p] ELSE [vlan |-> NoVlan, vlans |-> {}]
TypedPorts(f, type) == {p \in HwPorts(f) : PortType(PortCfg(f, p)) = type}
ActivePorts(f) == HwPorts(f) \ TypedPorts(f, "unused")

BridgeIface(f, p) ==
  LET bonds == {b \in DOMAIN f.bonds : p \in Range(f.bonds[b])}
  IN  IF bonds = {} THEN p ELSE CHOOSE b \in bonds : TRUE
BridgeIfaces(f, S) == {BridgeIface(f, p) : p \in S}

\* A bond is what its first slave is declared to be.
BridgePvid(f, iface) ==
  LET p == PortCfg(f, IF iface \in DOMAIN f.bonds THEN Head(f.bonds[iface]) ELSE iface)
  IN  IF PortType(p) = "access" THEN p.vlan ELSE 1

UsedVlans(f) ==
  {PortCfg(f, p).vlan : p \in TypedPorts(f, "access")}
  \union (UNION {PortCfg(f, p).vlans : p \in TypedPorts(f, "trunk")})
  \union {VlanOf[MgmtNet]}

VlanEntry(f, v) ==
  [untagged |-> BridgeIfaces(f, {p \in TypedPorts(f, "access") : PortCfg(f, p).vlan = v}),
   tagged   |-> BridgeIfaces(f, {p \in TypedPorts(f, "trunk") : v \in PortCfg(f, p).vlans})
                \union IF v \in Vlans(f.addresses) THEN {"bridge1"} ELSE {}]

\* 0: the ports keep the MTU the hardware has.
PortL2mtu(f) ==
  LET jumbo == {MtuOf[n] : n \in f.addresses} \ (0 .. 1500)
  IN  IF jumbo = {} THEN 0 ELSE 4 + CHOOSE m \in jumbo : \A k \in jumbo : k <= m

\* What a VLAN's rules match, in order, and the first match wins: the declared
\* prefixes, then everything, spelt as no port to go out by.
Drop == <<"new-dst-ports", NoPrefix>>
Inside4(p) == <<"dst-address", p>>
Inside6(p) == <<"dst-address6", p>>
Matches(f) ==
  [i \in DOMAIN f.internal4 |-> Inside4(f.internal4[i])]
  \o (IF f.ula = NoPrefix THEN <<>> ELSE <<Inside6(f.ula)>>)
  \o <<Drop>>

SwitchRules(f) ==
  LET vlans == SetToSeq(Vlans(f.denied \intersect f.addresses))
      k == Len(Matches(f))
  IN  IF f.chip
      THEN [i \in 1 .. k * Len(vlans) |-> [vlan |-> vlans[1 + ((i - 1) \div k)],
                                          says |-> Matches(f)[1 + ((i - 1) % k)]]]
      ELSE <<>>

Project(f) ==
  [model      |-> f.model,
   keys       |-> f.keys,
   interfaces |-> [p \in ActivePorts(f) |-> [enabled |-> TRUE, l2mtu |-> PortL2mtu(f)]],
   bonds      |-> f.bonds,
   ports      |-> [i \in BridgeIfaces(f, ActivePorts(f)) |-> BridgePvid(f, i)],
   vlans      |-> [v \in UsedVlans(f) |-> VlanEntry(f, v)],
   filtering  |-> TRUE,
   svis       |-> f.addresses,
   chip       |-> f.chip,
   l3hw       |-> {"ipv6-hw"},
   settings   |-> {},
   settings6  |-> {"forward"},
   addresses  |-> f.addresses,
   routes     |-> f.routes \intersect {"ipv4"},
   relays     |-> IF "ipv4" \in f.routes THEN f.relays \intersect f.addresses ELSE {},
   addresses6 |-> f.v6,
   pooled     |-> IF f.over = NoNet THEN {} ELSE f.pd \intersect f.addresses,
   nd         |-> IF "ipv6" \in f.routes THEN {} ELSE f.v6,
   routes6    |-> f.routes \intersect {"ipv6"},
   clients    |-> {f.over} \ {NoNet},
   rules      |-> SwitchRules(f)]

-----------------------------------------------------------------------------
(* SECTIONS: the menus the schema is asked about and the properties        *)
(* generate's tables may write there.                                      *)

RouteFields == {"disabled", "dst-address", "gateway", "distance", "routing-table",
                "scope", "target-scope", "pref-src", "comment"}
Sections ==
  [i \in {"/ip route", "/ipv6 route"} |-> RouteFields] @@
  ("/interface vlan" :> {"interface", "name", "vlan-id", "mtu", "comment"} @@
   "/interface bridge vlan" :> {"bridge", "vlan-ids", "tagged", "untagged"} @@
   "/ip address" :> {"address", "interface", "network", "comment"} @@
   "/ip dhcp-relay" :> {"name", "interface", "dhcp-server", "local-address", "disabled"} @@
   "/ipv6 address" :> {"address", "interface", "from-pool", "advertise", "eui-64",
                       "no-dad", "comment"} @@
   "/ipv6 dhcp-client" :> {"interface", "request", "pool-name", "pool-prefix-length",
                           "add-default-route", "comment"} @@
   "/ipv6 nd" :> {"interface", "ra-lifetime", "comment"} @@
   "/interface ethernet switch" :> {"name", "l3-hw-offloading", "qos-hw-offloading"} @@
   "/interface ethernet switch rule" :>
      {"switch", "vlan-id", "src-address", "dst-address", "src-address6", "dst-address6",
       "protocol", "dst-port", "new-dst-ports", "comment"} @@
   "/interface ethernet switch l3hw-settings" :> {"ipv6-hw", "icmp-reply-on-error"} @@
   "/ipv6 settings" :> {"forward", "accept-redirects"} @@
   "/system identity" :> {"name"} @@ "/system clock" :> {"time-zone-name"} @@
   "/ip dns" :> {"servers"} @@ "/ip ssh" :> {"host-key-type"} @@
   "/snmp" :> {"enabled", "contact", "location"})

-----------------------------------------------------------------------------
(* The lines.  Objects are pairs, so that a port is never a VLAN.          *)

Port(p) == <<"port", p>>
Bond(b) == <<"bond", b>>
Bridge == <<"bridge", "bridge1">>
Svi(n) == <<"svi", n>>
Address(n) == <<"address", n>>
File(k) == <<"file", k>>
User == <<"user", "admin">>
Chip == <<"chip", "switch1">>
Member(d, i) == IF i = "bridge1" THEN Bridge ELSE IF i \in DOMAIN d.bonds THEN Bond(i) ELSE Port(i)

Line(menu, props, uses, makes, row) ==
  [menu |-> menu, props |-> props, uses |-> uses, makes |-> makes, drops |-> {},
   caught |-> FALSE, row |-> row]
Plain(menu, props) == Line(menu, props, {}, {}, <<>>)

\* An entry's properties as its section's fields spell them: what is unset is
\* skipped, what has no field is not written.
Rendered(menu, given) == Sections[menu] \intersect given
EmitAdd(menu, given, uses, makes, row) == Line(menu, Rendered(menu, given), uses, makes, row)

Caught(line) == [line EXCEPT !.caught = TRUE]
KeyLines(k) ==
  <<Line("/file", {"name", "contents"}, {}, {File(k)}, <<>>),
    Line("/user ssh-keys", {"public-key-file", "user"}, {File(k), User}, {}, "key"),
    [Caught(Plain("/file", {})) EXCEPT !.drops = {File(k)}]>>

\* The account, the ssh service and the keys come first.
AccountLines(d) ==
  IF d.keys = {} THEN <<>>
  ELSE <<Caught(Line("/user", {"name", "group", "password"}, {}, {User}, <<>>)),
         Line("/ip service", {"disabled", "port"}, {}, {}, "ssh")>>
       \o ThreeOf(d.keys, KeyLines)
SystemLines(d) ==
  <<Plain("/system identity", {"name"})>> \o AccountLines(d)
  \o <<Plain("/system clock", {"time-zone-name"}), Plain("/ip dns", {"servers"}),
       Plain("/ip ssh", {"host-key-type"}), Plain("/snmp", {"enabled"})>>

KnownPorts(d) ==
  IF d.model \in DOMAIN ModelPorts THEN ModelPorts[d.model] ELSE DOMAIN d.interfaces

\* Variant: what the bridge has no port for, the slaves of a bond included.
DisabledPortsBonded(d) == KnownPorts(d) \ DOMAIN d.ports
\* Not declared, on a model whose ports are known, or declared disabled.
DisabledPorts(d) ==
  {p \in KnownPorts(d) : p \in DOMAIN d.interfaces => ~d.interfaces[p].enabled}

InterfaceLines(d) ==
  LET settings(p) == Line("/interface ethernet", {"l2mtu"}, {Port(p)}, {},
                          [port |-> p, l2mtu |-> d.interfaces[p].l2mtu])
  IN  ListOf({p \in (KnownPorts(d) \intersect DOMAIN d.interfaces) \ DisabledPorts(d) :
               d.interfaces[p].l2mtu # 0}, settings)

BondLines(d) ==
  LET add(b) == Line("/interface bonding", {"name", "mode", "slaves"},
                     {Port(p) : p \in Range(d.bonds[b])}, {Bond(b)},
                     [bond |-> b, slaves |-> Range(d.bonds[b])])
  IN  ListOf(DOMAIN d.bonds, add)

BridgeLines(d) ==
  <<Line("/interface bridge",
         {"name", "protocol-mode", "igmp-snooping", "multicast-querier", "multicast-router",
          "igmp-version", "mld-version"}, {}, {Bridge}, "bridge")>>

BridgePortLines(d) ==
  LET add(i) == Line("/interface bridge port", {"bridge", "interface", "pvid", "comment"},
                     {Bridge, Member(d, i)}, {}, [iface |-> i, pvid |-> d.ports[i]])
  IN  ListOf(DOMAIN d.ports, add)

VlanTableLines(d) ==
  LET add(v) ==
        LET e == d.vlans[v] IN
        Line("/interface bridge vlan",
             {"bridge", "vlan-ids"} \union (IF e.tagged = {} THEN {} ELSE {"tagged"})
                                    \union (IF e.untagged = {} THEN {} ELSE {"untagged"}),
             {Bridge} \union {Member(d, i) : i \in e.tagged \union e.untagged}, {},
             [vlan |-> v, tagged |-> e.tagged, untagged |-> e.untagged])
  IN  ListOf(DOMAIN d.vlans, add)

VlanInterfaceLines(d) ==
  LET add(n) == EmitAdd("/interface vlan", {"interface", "name", "vlan-id", "mtu"},
                        {Bridge}, {Svi(n)}, [vlan |-> VlanOf[n], mtu |-> MtuOf[n]])
  IN  ListOf(d.svis, add)

ChipLines(d) ==
  IF ~d.chip THEN <<>>
  ELSE <<Line("/interface ethernet switch",
              Rendered("/interface ethernet switch", {"l3-hw-offloading"}), {Chip}, {}, <<>>)>>

\* A settings menu is one line naming what is set, or no line.
SettingsLine(menu, given) == IF given = {} THEN <<>> ELSE <<Plain(menu, given)>>
SettingsLines(d) ==
  SettingsLine("/interface ethernet switch l3hw-settings",
               d.l3hw \intersect {"ipv6-hw", "icmp-reply-on-error"})
  \o SettingsLine("/ip settings", d.settings \intersect
       {"ip-forward", "allow-fast-path", "accept-redirects", "accept-source-route",
        "secure-redirects", "rp-filter"})
  \o SettingsLine("/ipv6 settings", d.settings6 \intersect
       {"forward", "accept-redirects", "accept-router-advertisements"})

AddressLines(d) ==
  LET add(n) == EmitAdd("/ip address", {"address", "interface", "network"},
                        {Svi(n)}, {Address(n)}, [net |-> n])
  IN  ListOf(d.addresses, add)

RouteLines(menu, families) ==
  LET add(r) == EmitAdd(menu, {"disabled", "dst-address", "gateway", "comment"}, {}, {}, r)
  IN  ListOf(families, add)

\* After /ip address: the local address has to be on the box.
RelayLines(d) ==
  LET add(n) == EmitAdd("/ip dhcp-relay",
                        {"name", "interface", "dhcp-server", "local-address", "disabled"},
                        {Svi(n), Address(n)}, {}, [net |-> n])
  IN  ListOf(d.relays, add)

\* A prefix drawn from a pool waits for the pool, which its client fills.
Address6Lines(d) ==
  LET literal(n) == EmitAdd("/ipv6 address", {"address", "interface"}, {Svi(n)}, {}, [net |-> n])
      pooled(n) == EmitAdd("/ipv6 address", {"from-pool", "advertise", "interface"},
                           {Svi(n)}, {}, [net |-> n])
  IN  ListOf(d.addresses6, literal) \o ListOf(d.pooled, pooled)

NdLines(d) ==
  LET add(n) == EmitAdd("/ipv6 nd", {"interface", "ra-lifetime"}, {Svi(n)}, {}, [net |-> n])
  IN  ListOf(d.nd, add)

ClientLines(d) ==
  LET add(n) == EmitAdd("/ipv6 dhcp-client",
                        {"interface", "request", "pool-name", "pool-prefix-length",
                         "add-default-route"}, {Svi(n)}, {}, [net |-> n])
  IN  ListOf(d.clients, add)

RuleLines(d) ==
  [i \in DOMAIN d.rules |->
     EmitAdd("/interface ethernet switch rule",
             {"switch", "vlan-id", d.rules[i].says[1], "comment"},
             {Chip}, {}, d.rules[i])]

DisableLines(d) ==
  LET set(p) == Line("/interface ethernet", {"disabled"}, {Port(p)}, {}, [disabled |-> p])
  IN  ListOf(DisabledPorts(d), set)

FilteringLines(d) ==
  IF d.filtering THEN <<Line("/interface bridge", {"vlan-filtering"}, {Bridge}, {}, "filtering")>>
  ELSE <<>>

\* Variants: a relay before its address; filtering with the bridge.
GenerateRelayEarly(d) ==
  SystemLines(d) \o InterfaceLines(d) \o BondLines(d) \o BridgeLines(d) \o BridgePortLines(d)
  \o VlanTableLines(d) \o VlanInterfaceLines(d) \o ChipLines(d) \o SettingsLines(d)
  \o RelayLines(d) \o AddressLines(d) \o RouteLines("/ip route", d.routes)
  \o Address6Lines(d) \o NdLines(d) \o RouteLines("/ipv6 route", d.routes6) \o ClientLines(d)
  \o RuleLines(d) \o DisableLines(d) \o FilteringLines(d)
GenerateFilteringEarly(d) ==
  SystemLines(d) \o InterfaceLines(d) \o BondLines(d) \o BridgeLines(d) \o FilteringLines(d)
  \o BridgePortLines(d) \o VlanTableLines(d) \o VlanInterfaceLines(d) \o ChipLines(d)
  \o SettingsLines(d) \o AddressLines(d) \o RouteLines("/ip route", d.routes) \o RelayLines(d)
  \o Address6Lines(d) \o NdLines(d) \o RouteLines("/ipv6 route", d.routes6) \o ClientLines(d)
  \o RuleLines(d) \o DisableLines(d)

Generate(d) ==
  SystemLines(d) \o InterfaceLines(d) \o BondLines(d) \o BridgeLines(d) \o BridgePortLines(d)
  \o VlanTableLines(d) \o VlanInterfaceLines(d) \o ChipLines(d) \o SettingsLines(d)
  \o AddressLines(d) \o RouteLines("/ip route", d.routes) \o RelayLines(d)
  \o Address6Lines(d) \o NdLines(d) \o RouteLines("/ipv6 route", d.routes6) \o ClientLines(d)
  \o RuleLines(d) \o DisableLines(d) \o FilteringLines(d)

-----------------------------------------------------------------------------
(* The schema.  A firmware is what it lacks of the menus and properties    *)
(* above: [menus, props], props being pairs of a menu and a property.      *)

\* A menu the device reports nothing of is not in the schema.
ParseSchema(fw) ==
  [m \in DOMAIN Sections \ fw.menus |-> {p \in Sections[m] : <<m, p>> \notin fw.props}]

\* An empty schema, or a menu that is not in it, refuses nothing.
SchemaViolations(schema) ==
  UNION {{<<m, p>> : p \in Sections[m] \ schema[m]} : m \in DOMAIN schema}
=============================================================================
