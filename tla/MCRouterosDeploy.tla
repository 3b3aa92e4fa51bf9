-------------------------- MODULE MCRouterosDeploy --------------------------
(***************************************************************************)
(* RouterosDeploy with a model of four ports, and one whose ports nobody   *)
(* knows.  The switch starts as the router; deploys overlap with nothing   *)
(* else going on, and what differs from the router in its prefixes or is   *)
(* unsound is deployed on its own.                                         *)
(***************************************************************************)
EXTENDS RouterosDeploy

Access(v) == [vlan |-> v, vlans |-> {}]
Trunk(S) == [vlan |-> NoVlan, vlans |-> S]
MCModelPorts == "crs" :> {"sfp1", "sfp2", "sfp3", "sfp4"}
MCNets == {"mgmt", "lab", "core"}
MCVlanOf == "mgmt" :> 240 @@ "lab" :> 210 @@ "core" :> 252
MCMtuOf == "mgmt" :> 1500 @@ "lab" :> 9000 @@ "core" :> 1500

\* A router: a bonded trunk, an access port, a spare port, a delegation.
MCRouter ==
  [model |-> "crs",
   ports |-> "sfp1" :> Trunk({240, 210, 252, 250}) @@ "sfp2" :> Trunk({240, 210, 252, 250})
             @@ "sfp3" :> Access(210) @@ "sfp4" :> Trunk({}),
   bonds |-> "bond1" :> <<"sfp1", "sfp2">>,
   addresses |-> {"mgmt", "lab", "core"}, v6 |-> {"mgmt", "lab"}, relays |-> {"lab"},
   pd |-> {"lab"}, over |-> "core", denied |-> {"mgmt", "lab"}, routes |-> {"ipv4"},
   keys |-> Keys, chip |-> TRUE, internal4 |-> <<"site", "lan">>, ula |-> "site"]

\* A bridge of a model without a list of ports.
MCBridge ==
  [MCRouter EXCEPT !.model = "other", !.bonds = <<>>, !.addresses = {"mgmt"}, !.v6 = {},
                   !.relays = {}, !.pd = {}, !.over = NoNet, !.denied = {}, !.routes = {},
                   !.chip = FALSE]

\* A fleet that declares no prefix; one of its own without IPv6.
MCBare == [MCRouter EXCEPT !.internal4 = <<>>, !.ula = NoPrefix]
MCLan == [MCRouter EXCEPT !.internal4 = <<"lan">>, !.ula = NoPrefix]

\* The delegation comes over a network the switch has no address in; a slave
\* of the bond is not declared.
MCDeclared ==
  "router" :> MCRouter @@ "bridge" :> MCBridge @@ "bare" :> MCBare @@ "lan" :> MCLan
  @@ "no-core" :> [MCRouter EXCEPT !.addresses = {"mgmt", "lab"}]
  @@ "no-slave" :> [MCRouter EXCEPT !.ports = [p \in {"sfp1", "sfp3"} |-> @[p]]]

\* Nothing is missing; a property of a table; a property spelt out; a menu.
MCLacks ==
  "whole" :> [menus |-> {}, props |-> {}]
  @@ "no-relay" :> [menus |-> {}, props |-> {<<"/ip dhcp-relay", "disabled">>}]
  @@ "no-mld" :> [menus |-> {}, props |-> {<<"/interface bridge", "mld-version">>}]
  @@ "no-l3hw" :> [menus |-> {"/interface ethernet switch l3hw-settings"}, props |-> {}]
\* What is being deployed, or was last.
MCInPlay ==
  {job[o].of : o \in Deploying} \union (IF by = Nothing THEN {} ELSE {by.of, device.of})
\* Overlaps, power cuts and upgrades are each explored without the others.
MCFocus ==
  /\ by = Nothing => device.of = "router"
  /\ Cardinality(lapses) + upgrades <= 1
  /\ lapses # {} => firmware = "whole"
  /\ state = "importing" /\ Deploying # {} => device.upto \in {0, 30}
  /\ device.of \in {"no-core", "no-slave"} => deploys = 1 /\ upgrades = 0
  /\ MCInPlay \intersect {"bare", "lan"} # {} =>
       deploys = 1 /\ upgrades = 0 /\ firmware = "whole"
MCSymmetry == Permutations(Operators)
=============================================================================
