----------------------------- MODULE SwosCodec -----------------------------
(***************************************************************************)
(* lib/platform/swos/render/swos_config.py: a SwOS backup (.swb) from a    *)
(* document, and the document from a backup.                               *)
(*                                                                         *)
(* A backup is a list of named sections.  The flags of the ports are       *)
(* transposed into one bit mask per flag, their other settings into one    *)
(* list per setting, each under a short key; the keys of encoding and      *)
(* decoding are two tables.  A mask is the set of its ports.  Everything   *)
(* that is converted and back by itself (names to hex, booleans to 0 and   *)
(* 1, addresses to little-endian numbers) is one of two values, 0 the one  *)
(* that stands for none.                                                   *)
(***************************************************************************)
EXTENDS Naturals, FiniteSets, SequencesExt

CONSTANT NumPorts  \* 26 in the code

ASSUME SwosAssumption == NumPorts \in Nat \ {0}

Ports == 1 .. NumPorts
Empty == <<>>

\* The value of key k, or the default: dict.get.
Get(r, k, default) == IF k \in DOMAIN r THEN r[k] ELSE default

\* The keys of both, with their values.
Joined(r, s) ==
  [k \in DOMAIN r \union DOMAIN s |-> IF k \in DOMAIN r THEN r[k] ELSE s[k]]

-----------------------------------------------------------------------------
(* The tables of _encode: key of the backup, field of the document.        *)

LinkMasks == [en |-> "enabled", blkp |-> "blocked", an |-> "auto_negotiate",
              dpxc |-> "duplex", fctc |-> "flow_control_tx",
              fctr |-> "flow_control_rx"]
LinkLists == [spdc |-> "speed", cm |-> "cable_mode", qtyp |-> "qos_type",
              nm |-> "name", sfpr |-> "sfp"]
FwdMasks  == [lck |-> "mac_lock", lckf |-> "mac_lock_filter",
              imr |-> "input_mirror", omr |-> "output_mirror",
              suni |-> "source_unknown", fmc |-> "forward_multicast"]
FwdLists  == [vlan |-> "vlan_mode", vlni |-> "vlan_receive",
              dvid |-> "default_vid", srt |-> "storm_rate", ir |-> "ingress_rate"]
LacpLists == [mode |-> "lacp_mode", sgrp |-> "lacp_group"]
VlanKeys  == [nm |-> "name", mbr |-> "members", vid |-> "id",
              piso |-> "port_isolation", lrn |-> "learning", mrr |-> "mirror",
              igmp |-> "igmp"]
SysKeys   == [id |-> "identity", wdt |-> "watchdog", dsc |-> "discovery",
              pdsc |-> "port_discovery", ivl |-> "ivl",
              alla |-> "allow_from_all_addresses", allm |-> "allow_from_all_mgmt",
              avln |-> "admin_vlan", allp |-> "all_ports", mgmt |-> "management",
              prio |-> "stp_priority", cost |-> "stp_cost_mode",
              frmc |-> "frame_size_check", poe |-> "poe",
              igmp |-> "igmp_snooping", igmq |-> "igmp_query",
              igfl |-> "igmp_flood", igve |-> "igmp_vlan_exclusive",
              ip |-> "ip", dtrp |-> "drop_tagged", ainf |-> "auto_info",
              iptp |-> "ip_type"]
SnmpKeys  == [en |-> "enabled", com |-> "community", ci |-> "contact",
              loc |-> "location"]

Masks(table, ports) ==
  [k \in DOMAIN table |-> {p \in Ports : ports[p][table[k]] = 1}]
Lists(table, ports) ==
  [k \in DOMAIN table |-> [p \in Ports |-> ports[p][table[k]]]]
Fields(table, rec) == [k \in DOMAIN table |-> rec[table[k]]]

\* The sections, in the order of the file.
SectionOrder ==
  <<"vlan.b", "lacp.b", ".pwd.b", "snmp.b", "rstp.b",
    "link.b", "fwd.b", "sys.b", "acl.b", "host.b">>

Section(doc, s) ==
  CASE s = "vlan.b" -> [i \in DOMAIN doc.vlans |-> Fields(VlanKeys, doc.vlans[i])]
    [] s = "lacp.b" -> Lists(LacpLists, doc.ports)
    [] s = ".pwd.b" -> [pwd |-> doc.password]
    [] s = "snmp.b" -> Fields(SnmpKeys, doc.snmp)
    [] s = "rstp.b" -> [ena |-> doc.rstp]
    [] s = "link.b" -> Joined(Masks(LinkMasks, doc.ports), Lists(LinkLists, doc.ports))
    [] s = "fwd.b"  -> Joined(Joined(Masks(FwdMasks, doc.ports), Lists(FwdLists, doc.ports)),
                              [fp |-> [p \in Ports |-> doc.ports[p].forward_to],
                               mrto |-> doc.mirror, fvid |-> doc.filter_vid])
    [] s = "sys.b"  -> Fields(SysKeys, doc.system)
    [] s = "acl.b"  -> doc.acl
    [] s = "host.b" -> doc.hosts

Encode(doc) == [s \in Range(SectionOrder) |-> Section(doc, s)]

-----------------------------------------------------------------------------
(* The text: the sections there are, in their order; and what is in it.    *)

Serialize(raw) ==
  LET s(i) == IF SectionOrder[i] \in DOMAIN raw
              THEN <<[name |-> SectionOrder[i], value |-> raw[SectionOrder[i]]]>> ELSE <<>>
  IN  s(1) \o s(2) \o s(3) \o s(4) \o s(5) \o s(6) \o s(7) \o s(8) \o s(9) \o s(10)

\* A name without a value at the end of the text is let pass.
File(text) ==
  [s \in {text[i].name : i \in DOMAIN text} |->
     text[SelectLastInSeq(text, LAMBDA e : e.name = s)].value]

-----------------------------------------------------------------------------
(* The tables of _decode: field of the document, section and key of the    *)
(* backup.  A key that a firmware leaves out reads as 0.                   *)

BitsSwapped ==
  [auto_negotiate |-> <<"link.b", "an">>, blocked |-> <<"link.b", "blkp">>,
   duplex |-> <<"link.b", "dpxc">>, enabled |-> <<"link.b", "en">>,
   flow_control_rx |-> <<"link.b", "fctc">>, flow_control_tx |-> <<"link.b", "fctr">>,
   forward_multicast |-> <<"fwd.b", "fmc">>, input_mirror |-> <<"fwd.b", "imr">>,
   mac_lock |-> <<"fwd.b", "lck">>, mac_lock_filter |-> <<"fwd.b", "lckf">>,
   output_mirror |-> <<"fwd.b", "omr">>, source_unknown |-> <<"fwd.b", "suni">>]
Bits ==
  [auto_negotiate |-> <<"link.b", "an">>, blocked |-> <<"link.b", "blkp">>,
   duplex |-> <<"link.b", "dpxc">>, enabled |-> <<"link.b", "en">>,
   flow_control_rx |-> <<"link.b", "fctr">>, flow_control_tx |-> <<"link.b", "fctc">>,
   forward_multicast |-> <<"fwd.b", "fmc">>, input_mirror |-> <<"fwd.b", "imr">>,
   mac_lock |-> <<"fwd.b", "lck">>, mac_lock_filter |-> <<"fwd.b", "lckf">>,
   output_mirror |-> <<"fwd.b", "omr">>, source_unknown |-> <<"fwd.b", "suni">>]
Items ==
  [cable_mode |-> <<"link.b", "cm">>, default_vid |-> <<"fwd.b", "dvid">>,
   ingress_rate |-> <<"fwd.b", "ir">>, lacp_group |-> <<"lacp.b", "sgrp">>,
   lacp_mode |-> <<"lacp.b", "mode">>, name |-> <<"link.b", "nm">>,
   qos_type |-> <<"link.b", "qtyp">>, sfp |-> <<"link.b", "sfpr">>,
   speed |-> <<"link.b", "spdc">>, storm_rate |-> <<"fwd.b", "srt">>,
   vlan_mode |-> <<"fwd.b", "vlan">>, vlan_receive |-> <<"fwd.b", "vlni">>]
VlanFields ==
  [id |-> "vid", igmp |-> "igmp", learning |-> "lrn", members |-> "mbr",
   mirror |-> "mrr", name |-> "nm", port_isolation |-> "piso"]
SysFields ==
  [admin_vlan |-> "avln", all_ports |-> "allp",
   allow_from_all_addresses |-> "alla", allow_from_all_mgmt |-> "allm",
   auto_info |-> "ainf", discovery |-> "dsc", drop_tagged |-> "dtrp",
   frame_size_check |-> "frmc", identity |-> "id", igmp_flood |-> "igfl",
   igmp_query |-> "igmq", igmp_snooping |-> "igmp",
   igmp_vlan_exclusive |-> "igve", ip |-> "ip", ip_type |-> "iptp",
   ivl |-> "ivl", management |-> "mgmt", poe |-> "poe",
   port_discovery |-> "pdsc", stp_cost_mode |-> "cost", stp_priority |-> "prio",
   watchdog |-> "wdt"]
SnmpFields ==
  [community |-> "com", contact |-> "ci", enabled |-> "en", location |-> "loc"]

Bit(mask, p) == IF p \in mask THEN 1 ELSE 0
Record(table, rec) == [f \in DOMAIN table |-> Get(rec, table[f], 0)]

ReadPortAlone(raw, p) ==
  Joined([f \in DOMAIN Bits |-> Bit(Get(raw[Bits[f][1]], Bits[f][2], {}), p)],
         [f \in DOMAIN Items |-> raw[Items[f][1]][Items[f][2]][p]])
ReadPort(raw, p) ==
  Joined(Joined([f \in DOMAIN Bits |-> Bit(Get(raw[Bits[f][1]], Bits[f][2], {}), p)],
                [f \in DOMAIN Items |-> raw[Items[f][1]][Items[f][2]][p]]),
         [forward_to |-> raw["fwd.b"].fp[p]])

Decode(raw) ==
  [ports      |-> [p \in DOMAIN raw["link.b"].spdc |-> ReadPort(raw, p)],
   vlans      |-> [i \in DOMAIN raw["vlan.b"] |-> Record(VlanFields, raw["vlan.b"][i])],
   system     |-> Record(SysFields, raw["sys.b"]),
   snmp       |-> Record(SnmpFields, raw["snmp.b"]),
   rstp       |-> raw["rstp.b"].ena,
   mirror     |-> Get(raw["fwd.b"], "mrto", 0),
   filter_vid |-> Get(raw["fwd.b"], "fvid", 0),
   password   |-> raw[".pwd.b"].pwd,
   acl        |-> Get(raw, "acl.b", Empty),
   hosts      |-> Get(raw, "host.b", Empty)]

-----------------------------------------------------------------------------
\* A document with every field, as _decode makes them.
IsPort(c) ==
  LET single == DOMAIN Bits \union DOMAIN Items
  IN  /\ c = [f \in single \union {"forward_to"} |-> c[f]]
      /\ \A f \in single : c[f] \in 0 .. 1
IsDocument(d) ==
  /\ d = [ports |-> d.ports, vlans |-> d.vlans, system |-> d.system, snmp |-> d.snmp,
          rstp |-> d.rstp, mirror |-> d.mirror, filter_vid |-> d.filter_vid,
          password |-> d.password, acl |-> d.acl, hosts |-> d.hosts]
  /\ d.ports = [p \in Ports |-> d.ports[p]] /\ \A p \in Ports : IsPort(d.ports[p])
  /\ d.vlans \in Seq([DOMAIN VlanFields -> 0 .. 1])
  /\ d.system \in [DOMAIN SysFields -> 0 .. 1] /\ d.snmp \in [DOMAIN SnmpFields -> 0 .. 1]
  /\ d.mirror \in 0 .. 1 /\ d.filter_vid \in 0 .. 1 /\ d.password \in 0 .. 1
=============================================================================
