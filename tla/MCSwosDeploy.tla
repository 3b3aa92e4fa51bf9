---------------------------- MODULE MCSwosDeploy ----------------------------
(***************************************************************************)
(* SwosDeploy with two ports, one VLAN and a firmware without two of the   *)
(* optional keys.  The edits change any one field of the document; only    *)
(* those of the password, the address and the VLAN table meet a second     *)
(* push.  No request is lost while two pushes overlap.                     *)
(***************************************************************************)
EXTENDS SwosDeploy

Zero(S) == [f \in S |-> 0]
MCBase ==
  [ports      |-> [p \in Ports |-> Zero(DOMAIN Bits \union DOMAIN Items)
                                   @@ [forward_to |-> Ports \ {p}]],
   vlans      |-> <<Zero(DOMAIN VlanFields)>>,
   system     |-> Zero(DOMAIN SysFields),
   snmp       |-> Zero(DOMAIN SnmpFields),
   rstp       |-> Ports,
   mirror     |-> 0,
   filter_vid |-> 0,
   password   |-> 0,
   acl        |-> Empty,
   hosts      |-> Empty]
MCSample ==
  {Base, [Base EXCEPT !.vlans = Empty], [Base EXCEPT !.password = 1],
   [Base EXCEPT !.system.ip = 1]}
MCPosts == {Sections(Serialize(Encode(d))) : d \in MCSample}
Overlap == \A r \in Runs : push[r].at = "posting"
MCFocus ==
  /\ pushes < 2 \/ (doc \in MCSample
                    /\ \A r \in Runs : push[r] # Idle => push[r].posts \in MCPosts)
  /\ Overlap => faults = 0
MCSymmetry == Permutations(Runs)
=============================================================================
