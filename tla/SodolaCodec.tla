---------------------------- MODULE SodolaCodec ----------------------------
(***************************************************************************)
(* lib/platform/sodola/render/sodola_config.py: a Sodola switch's backup   *)
(* image from a document, and the document from an image.                  *)
(*                                                                         *)
(* The VLANs live in a table of Slots ids.  Slot 0 repeats slot 1.  The    *)
(* name and the members of a slot are elsewhere, in blocks that interleave *)
(* them: block b carries the members of slot b + 1 and the name of slot    *)
(* b + 2.  Two slots fewer than Slots have a block, so the last slot has a *)
(* name but no members.                                                    *)
(*                                                                         *)
(* The fields copied without change are two: the password hash, which a    *)
(* rendered document leaves to its default, and misc, for all the others.  *)
(* Storm control, ingress and egress rate are one limit per port.  Members *)
(* and isolation are sets of ports; names are opaque and fit their field.  *)
(***************************************************************************)
EXTENDS Integers, FiniteSets, SequencesExt

CONSTANTS
  NumPorts,  \* 9 in the code; the last is the uplink, kept apart
  Slots      \* MAX_VLAN_SLOTS, 32 in the code

ASSUME SodolaAssumption == NumPorts \in Nat \ {0} /\ Slots \in Nat /\ Slots > 2

Ports == 1 .. NumPorts
Uplink == NumPorts
Blank == 0        \* 0xffff in the id table
NoName == ""
NoLimit == -1     \* null in a document
Unlimited == 999  \* STORM_DISABLED, RATE_UNLIMITED
NoMask == {0}     \* isolation_mask null
DefaultHash == "default"

-----------------------------------------------------------------------------
(* Lookups in a document's list of VLANs: the name is the first entry's,   *)
(* the members are the last's.                                             *)

Ids(vlans) == {vlans[i].id : i \in DOMAIN vlans}

\* sorted: the i-th of the ids has i - 1 of them below it.
Below(S, v) == {u \in S : u < v}
Ascending(S) ==
  [i \in 1 .. Cardinality(S) |-> CHOOSE v \in S : Cardinality(Below(S, v)) = i - 1]

UserVids(vlans) == Ascending(Ids(vlans) \ {1})

NameOf(vlans, vid) ==
  IF vid \in Ids(vlans)
  THEN vlans[SelectInSeq(vlans, LAMBDA v : v.id = vid)].name ELSE NoName
MembersOf(vlans, vid) ==
  IF vid \in Ids(vlans)
  THEN vlans[SelectLastInSeq(vlans, LAMBDA v : v.id = vid)].members ELSE {}

\* Bit 0 tagged, bit 1 native; a member that is neither leaves no trace.
UplinkByteBits(ports, vid, isMember) ==
  IF ~isMember THEN 0
  ELSE (IF ports[Uplink].native = vid THEN 2 ELSE 0)
       + (IF ports[Uplink].mode = "trunk" THEN 1 ELSE 0)
UplinkByte(ports, vid, isMember) ==
  IF ~isMember THEN 0
  ELSE IF ports[Uplink].native = vid THEN 2
  ELSE IF ports[Uplink].mode = "trunk" THEN 1 ELSE 0

\* Ids that do not fit the table are left out without a word.
VidTable(vlans) ==
  LET user == UserVids(vlans)
  IN  [s \in 0 .. Slots - 1 |->
         IF s < 2 THEN 1 ELSE IF s - 1 <= Len(user) THEN user[s - 1] ELSE Blank]

Block(doc, b) ==
  LET vid == VidTable(doc.vlans)
      members == IF vid[b + 1] = Blank THEN {} ELSE MembersOf(doc.vlans, vid[b + 1])
  IN  [copper |-> members \ {Uplink},
       uplink |-> UplinkByte(doc.ports, vid[b + 1], Uplink \in members),
       name   |-> IF vid[b + 2] = Blank THEN NoName ELSE NameOf(doc.vlans, vid[b + 2])]

PortBytes(p) ==
  [native    |-> p.native,
   access    |-> p.mode = "access",
   auto      |-> p.speed = "auto",
   limit     |-> IF p.limit = NoLimit THEN Unlimited ELSE p.limit,
   isolation |-> IF p.isolation = NoMask THEN Ports ELSE p.isolation]

Generate(doc) ==
  [vid   |-> VidTable(doc.vlans),
   first |-> NameOf(doc.vlans, VidTable(doc.vlans)[1]),
   block |-> [b \in 0 .. Slots - 3 |-> Block(doc, b)],
   port  |-> [p \in Ports |-> PortBytes(doc.ports[p])],
   hash  |-> doc.hash,
   misc  |-> doc.misc]

-----------------------------------------------------------------------------

\* No limit and no mask come back as what they stand for: null and all ports.
ReadPort(q) ==
  [native    |-> q.native,
   mode      |-> IF q.access THEN "access" ELSE "trunk",
   speed     |-> IF q.auto THEN "auto" ELSE "manual",
   limit     |-> IF q.limit = Unlimited THEN NoLimit ELSE q.limit,
   isolation |-> q.isolation]

ReadMembersTagged(image, slot) ==
  IF slot - 1 \in DOMAIN image.block
  THEN LET b == image.block[slot - 1]
       IN  b.copper \union IF b.uplink = 1 THEN {Uplink} ELSE {}
  ELSE {}
ReadMembers(image, slot) ==
  IF slot - 1 \in DOMAIN image.block
  THEN LET b == image.block[slot - 1]
       IN  b.copper \union IF b.uplink # 0 THEN {Uplink} ELSE {}
  ELSE {}

ReadNameByMembers(image, slot) ==
  IF slot = 1 THEN image.first
  ELSE IF slot - 1 \in DOMAIN image.block THEN image.block[slot - 1].name ELSE NoName
ReadName(image, slot) ==
  IF slot = 1 THEN image.first ELSE image.block[slot - 2].name

ReadVlan(image, slot) ==
  [id |-> image.vid[slot], members |-> ReadMembers(image, slot),
   name |-> ReadName(image, slot)]

\* Slot 0 is skipped, and an id that has been seen.
ReadSlots(image) ==
  {s \in 1 .. Slots - 1 :
     image.vid[s] # Blank /\ \A t \in 1 .. s - 1 : image.vid[t] # image.vid[s]}

SlotOf(image, vid) == CHOOSE s \in ReadSlots(image) : image.vid[s] = vid
ReadVids(image) == {image.vid[s] : s \in ReadSlots(image)}

Parse(image) ==
  [ports |-> [p \in Ports |-> ReadPort(image.port[p])],
   vlans |-> [i \in 1 .. Cardinality(ReadVids(image)) |->
                ReadVlan(image, SlotOf(image, Ascending(ReadVids(image))[i]))],
   hash  |-> image.hash,
   misc  |-> image.misc]
=============================================================================
