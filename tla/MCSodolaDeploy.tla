--------------------------- MODULE MCSodolaDeploy ---------------------------
(***************************************************************************)
(* SodolaDeploy with two copper ports and the uplink, and room for two     *)
(* VLANs besides 1.  The declarations have one, two and four of them, the  *)
(* uplink in every role.                                                   *)
(***************************************************************************)
EXTENDS SodolaDeploy

Access(v) == [vlan |-> v, vlans |-> {}]
Trunk(S) == [vlan |-> NoVlan, vlans |-> S]
Unused == Trunk({})

MCVids == {1, 10, 20, 30, 40}
MCFleets ==
  {<<Access(10), Unused, Trunk({10, 20})>>,
   <<Trunk({10, 20}), Access(20), Access(10)>>,
   <<Trunk({1, 20, 30, 40}), Access(30), Trunk({10, 20, 30, 40})>>}
=============================================================================
