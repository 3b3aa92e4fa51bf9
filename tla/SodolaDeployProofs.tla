------------------------ MODULE SodolaDeployProofs ------------------------
(***************************************************************************)
(* What SodolaDeploy guarantees for any number of ports and of slots, any  *)
(* declarations and any number of pushes and edits.                        *)
(*                                                                         *)
(* generate and parse are settled first, by themselves.  The ids of a      *)
(* table are sorted: an id is in the place that the number of ids below    *)
(* it gives (AscendingLists), so a slot is found by counting, and the      *)
(* table parse reads is the beginning of the one generate was given        *)
(* (TableReadsBack).  With the blocks (SlotReadsBack) and the ports        *)
(* (PortReadsBack) this gives both directions: reading an image back       *)
(* (VlansOfGenerate) and generating what was read (GenerateOfParse).       *)
(*                                                                         *)
(* The invariant then carries these facts to every image a switch can      *)
(* hold: the stored image is the one generate makes of the document it     *)
(* came from (MadeInv), and a push keeps the two together (PushInv),       *)
(* whatever the interleaving of two scripts and whatever gets lost.        *)
(***************************************************************************)
EXTENDS SodolaDeploy, TLAPS, FiniteSetTheorems, SequenceTheorems

UniqueIds(vlans) ==
  \A i, j \in DOMAIN vlans : vlans[i].id = vlans[j].id => i = j

DocOK(d) == d \in Docs /\ UniqueIds(d.vlans)

\* What an image is made from; a deploy renders the document itself.
SourceOK(from) ==
  /\ DocOK(from.doc)
  /\ from.by = "deploy" => from.fleet \in Fleets /\ from.doc = Project(from.fleet)

DeskInv == DocOK(desk)

MadeInv ==
  /\ stored = Generate(origin.doc) /\ SourceOK(origin)
  /\ \E d : DocOK(d) /\ running = Generate(d)

PushInv ==
  /\ push = [w \in Pushers |-> push[w]]
  /\ \A w \in Pushers :
       \/ push[w] = Idle
       \/ /\ push[w].at \in {"login", "restore", "reboot"}
          /\ push[w] = [at |-> push[w].at, bin |-> Generate(push[w].from.doc),
                        from |-> push[w].from]
          /\ SourceOK(push[w].from)

CountInv ==
  missed \in BOOLEAN /\ pushes \in 0 .. MaxPushes /\ edits \in 0 .. MaxEdits

IInv == DeskInv /\ MadeInv /\ PushInv /\ CountInv /\ BehindOnlyIfMissed

\* What is in a slot of the image is what its document says of the slot's VLAN;
\* the last slot has a name and no members.
SlotsReadBack ==
  LET d == origin.doc
      vid == stored.vid
  IN  \A s \in 1 .. Slots - 1 : vid[s] # Blank =>
        /\ ReadName(stored, s) = NameOf(d.vlans, vid[s])
        /\ ReadMembers(stored, s) =
             IF s = Slots - 1 THEN {}
             ELSE MembersOf(d.vlans, vid[s]) \ Traceless(d, vid[s])

----------------------------------------------------------------------------
(* Sorted ids                                                              *)
LEMMA RankIsBelow ==
  ASSUME NEW S \in SUBSET Int, IsFiniteSet(S), NEW v \in S
  PROVE  /\ IsFiniteSet(Below(S, v))
         /\ Cardinality(Below(S, v)) \in 0 .. Cardinality(S) - 1
<1>1. IsFiniteSet(S \ {v}) /\ Cardinality(S \ {v}) = Cardinality(S) - 1
  BY FS_RemoveElement
<1>2. Below(S, v) \in SUBSET (S \ {v})
  BY DEF Below
<1>3. IsFiniteSet(Below(S, v)) /\ Cardinality(Below(S, v)) <= Cardinality(S \ {v})
  BY <1>1, <1>2, FS_Subset
<1>4. Cardinality(Below(S, v)) \in Nat /\ Cardinality(S) \in Nat
  BY <1>3, FS_CardinalityType
<1>. QED
  BY <1>1, <1>3, <1>4

LEMMA RankAscends ==
  ASSUME NEW S \in SUBSET Int, IsFiniteSet(S), NEW u \in S, NEW v \in S, u < v
  PROVE  Cardinality(Below(S, u)) < Cardinality(Below(S, v))
<1>0. \A w \in S : w \in Int
  OBVIOUS
<1>1. Below(S, u) \in SUBSET Below(S, v) /\ u \in Below(S, v) /\ u \notin Below(S, u)
  <2>1. u \in Int /\ v \in Int
    BY <1>0
  <2>2. \A w \in S : w < u => w < v
    BY <1>0, <2>1
  <2>3. ~(u < u)
    BY <2>1
  <2>. QED
    BY <2>2, <2>3 DEF Below
<1>2. /\ IsFiniteSet(Below(S, v)) /\ Cardinality(Below(S, v)) \in Nat
      /\ Cardinality(Below(S, u)) \in Nat
  BY RankIsBelow
<1>3. /\ Cardinality(Below(S, u)) <= Cardinality(Below(S, v))
      /\ Cardinality(Below(S, v)) = Cardinality(Below(S, u)) => Below(S, v) = Below(S, u)
  BY <1>1, <1>2, FS_Subset
<1>. QED
  BY <1>1, <1>2, <1>3

\* Ascending lists a finite set of integers, each element in the place its rank gives it.
LEMMA AscendingLists ==
  ASSUME NEW S \in SUBSET Int, IsFiniteSet(S)
  PROVE  /\ Cardinality(S) \in Nat
         /\ Ascending(S) \in [1 .. Cardinality(S) -> S]
         /\ \A i \in 1 .. Cardinality(S) : Cardinality(Below(S, Ascending(S)[i])) = i - 1
         /\ \A v \in S : /\ Cardinality(Below(S, v)) + 1 \in 1 .. Cardinality(S)
                         /\ Ascending(S)[Cardinality(Below(S, v)) + 1] = v
<1> DEFINE n == Cardinality(S)
           rank == [v \in S |-> Cardinality(Below(S, v)) + 1]
<1>1. n \in Nat
  BY FS_CardinalityType
<1>2. ASSUME NEW v \in S PROVE rank[v] \in 1 .. n
  BY <1>1, RankIsBelow
<1>3. ASSUME NEW u \in S, NEW v \in S, rank[u] = rank[v] PROVE u = v
  <2>1. Cardinality(Below(S, u)) \in Nat /\ Cardinality(Below(S, v)) \in Nat
    BY RankIsBelow
  <2>2. Cardinality(Below(S, u)) = Cardinality(Below(S, v))
    BY <1>3, <2>1
  <2>3. ~(u < v) /\ ~(v < u)
    BY <2>2, <2>1, RankAscends
  <2>. QED
    BY <2>3
<1>4. rank \in Injection(S, 1 .. n)
  BY <1>2, <1>3 DEF Injection, IsInjective
<1>5. IsFiniteSet(1 .. n) /\ Cardinality(1 .. n) = n
  BY <1>1, FS_Interval
<1>6. rank \in Surjection(S, 1 .. n)
  BY <1>4, <1>5, FS_Injection
<1>7. ASSUME NEW i \in 1 .. n
      PROVE  Ascending(S)[i] \in S /\ Cardinality(Below(S, Ascending(S)[i])) = i - 1
  <2>1. PICK v \in S : rank[v] = i
    BY <1>6 DEF Surjection
  <2>2. Cardinality(Below(S, v)) = i - 1
    BY <2>1, RankIsBelow
  <2>3. Ascending(S)[i] = CHOOSE w \in S : Cardinality(Below(S, w)) = i - 1
    BY DEF Ascending
  <2>. QED
    BY <2>2, <2>3
<1>8. Ascending(S) \in [1 .. n -> S]
  BY <1>7 DEF Ascending
<1>9. ASSUME NEW v \in S PROVE Ascending(S)[rank[v]] = v
  <2>1. rank[v] \in 1 .. n
    BY <1>2
  <2>2. Ascending(S)[rank[v]] \in S /\ rank[Ascending(S)[rank[v]]] = rank[v]
    BY <2>1, <1>7
  <2>. QED
    BY <1>3, <2>2
<1>. QED
  BY <1>1, <1>2, <1>7, <1>8, <1>9

LEMMA AscendingAscends ==
  ASSUME NEW S \in SUBSET Int, IsFiniteSet(S),
         NEW i \in 1 .. Cardinality(S), NEW j \in 1 .. Cardinality(S), i < j
  PROVE  Ascending(S)[i] < Ascending(S)[j]
<1>1. /\ Ascending(S)[i] \in S /\ Cardinality(Below(S, Ascending(S)[i])) = i - 1
      /\ Ascending(S)[j] \in S /\ Cardinality(Below(S, Ascending(S)[j])) = j - 1
  BY AscendingLists
<1>2. ASSUME Ascending(S)[j] < Ascending(S)[i] PROVE FALSE
  <2>1. Cardinality(Below(S, Ascending(S)[j])) < Cardinality(Below(S, Ascending(S)[i]))
    BY <1>1, <1>2, RankAscends
  <2>2. i \in Int /\ j \in Int
    OBVIOUS
  <2>. QED
    BY <1>1, <2>1, <2>2
<1>3. Ascending(S)[i] # Ascending(S)[j]
  BY <1>1
<1>4. Ascending(S)[i] \in Int /\ Ascending(S)[j] \in Int
  BY <1>1
<1>. QED
  BY <1>2, <1>3, <1>4

----------------------------------------------------------------------------
(* A document's list of VLANs                                              *)

LEMMA UplinkIsPort == 1 \in Ports /\ Uplink \in Ports /\ 0 \notin Ports
  BY SodolaAssumption DEF Ports, Uplink

LEMMA IdsTyped ==
  ASSUME NEW vlans \in Seq(VlanDocs)
  PROVE  /\ Ids(vlans) \in SUBSET VlanIds
         /\ IsFiniteSet(Ids(vlans)) /\ Ids(vlans) \in SUBSET Int
         /\ IsFiniteSet(Ids(vlans) \ {1}) /\ Ids(vlans) \ {1} \in SUBSET Int
         /\ Blank \notin Ids(vlans)
<1>1. \A i \in DOMAIN vlans : vlans[i] \in VlanDocs
  BY ElementOfSeq, LenProperties
<1>2. Ids(vlans) \in SUBSET VlanIds
  BY <1>1 DEF Ids, VlanDocs
<1>3. IsFiniteSet(VlanIds) /\ VlanIds \in SUBSET Int /\ Blank \notin VlanIds
  <2>1. IsFiniteSet(Vids \union {1})
    BY FleetAssumption, FS_AddElement
  <2>. QED
    BY <2>1, FleetAssumption DEF VlanIds, Blank
<1>4. IsFiniteSet(Ids(vlans)) /\ IsFiniteSet(Ids(vlans) \ {1})
  BY <1>2, <1>3, FS_Subset
<1>. QED
  BY <1>2, <1>3, <1>4

\* An id that occurs once is looked up as its entry, by name and by members.
LEMMA LookupFinds ==
  ASSUME NEW vlans \in Seq(VlanDocs), UniqueIds(vlans), NEW i \in DOMAIN vlans
  PROVE  /\ NameOf(vlans, vlans[i].id) = vlans[i].name
         /\ MembersOf(vlans, vlans[i].id) = vlans[i].members
<1> DEFINE I == {j \in 1 .. Len(vlans) : vlans[j].id = vlans[i].id}
<1>1. DOMAIN vlans = 1 .. Len(vlans) /\ Len(vlans) \in Nat
  BY LenProperties
<1>2. I = {i}
  BY <1>1 DEF UniqueIds
<1>3. i \in Int
  BY <1>1
<1>4. Min({i}) = i /\ Max({i}) = i
  BY <1>3 DEF Min, Max
<1>5. /\ SelectInSeq(vlans, LAMBDA v : v.id = vlans[i].id) = i
      /\ SelectLastInSeq(vlans, LAMBDA v : v.id = vlans[i].id) = i
  BY <1>2, <1>4 DEF SelectInSeq, SelectLastInSeq
<1>6. vlans[i].id \in Ids(vlans)
  BY DEF Ids
<1>. QED
  BY <1>5, <1>6 DEF NameOf, MembersOf

LEMMA LookupTyped ==
  ASSUME NEW vlans \in Seq(VlanDocs), UniqueIds(vlans), NEW vid
  PROVE  NameOf(vlans, vid) \in {NoName, "lab"} /\ MembersOf(vlans, vid) \in SUBSET Ports
<1>1. CASE vid \in Ids(vlans)
  <2>1. PICK i \in DOMAIN vlans : vid = vlans[i].id
    BY <1>1 DEF Ids
  <2>2. vlans[i] \in VlanDocs
    BY ElementOfSeq, LenProperties
  <2>. QED
    BY <2>1, <2>2, LookupFinds DEF VlanDocs
<1>2. CASE vid \notin Ids(vlans)
  BY <1>2 DEF NameOf, MembersOf
<1>. QED
  BY <1>1, <1>2

----------------------------------------------------------------------------
(* The table of slots                                                      *)

\* A slot from 2 on holds the id with as many user ids below it as there are
\* such slots below it, or nothing if there are not so many.
LEMMA TableSlots ==
  ASSUME NEW vlans \in Seq(VlanDocs), NEW s \in 0 .. Slots - 1
  PROVE  LET V == Ids(vlans) \ {1}
             vid == VidTable(vlans)
         IN  /\ s < 2 => vid[s] = 1
             /\ s >= 2 /\ s - 1 <= Cardinality(V) =>
                  vid[s] \in V /\ Cardinality(Below(V, vid[s])) = s - 2
             /\ s >= 2 /\ s - 1 > Cardinality(V) => vid[s] = Blank
<1> DEFINE V == Ids(vlans) \ {1}
           user == UserVids(vlans)
<1>1. V \in SUBSET Int /\ IsFiniteSet(V)
  BY IdsTyped
<1>2. /\ Cardinality(V) \in Nat /\ user \in [1 .. Cardinality(V) -> V]
      /\ \A i \in 1 .. Cardinality(V) : Cardinality(Below(V, user[i])) = i - 1
  BY <1>1, AscendingLists DEF UserVids
<1>3. Len(user) = Cardinality(V)
  BY <1>2
<1>4. VidTable(vlans)[s] =
        IF s < 2 THEN 1 ELSE IF s - 1 <= Cardinality(V) THEN user[s - 1] ELSE Blank
  BY <1>3 DEF VidTable
<1>5. s \in Int
  OBVIOUS
<1>6. ASSUME s >= 2, s - 1 <= Cardinality(V)
      PROVE  user[s - 1] \in V /\ Cardinality(Below(V, user[s - 1])) = s - 2
  <2>1. s - 1 \in 1 .. Cardinality(V) /\ (s - 1) - 1 = s - 2
    BY <1>5, <1>6, <1>2
  <2>. QED
    BY <1>2, <2>1
<1>. QED
  BY <1>2, <1>4, <1>5, <1>6

\* Where the table holds an id it is the slot that the id's rank gives.
LEMMA SlotOfRank ==
  ASSUME NEW vlans \in Seq(VlanDocs), NEW v \in Ids(vlans) \ {1}
  PROVE  LET r == Cardinality(Below(Ids(vlans) \ {1}, v))
         IN  r \in Nat /\ (r + 2 <= Slots - 1 => VidTable(vlans)[r + 2] = v)
<1> DEFINE V == Ids(vlans) \ {1}
           r == Cardinality(Below(V, v))
<1>1. V \in SUBSET Int /\ IsFiniteSet(V)
  BY IdsTyped
<1>2. /\ Cardinality(V) \in Nat /\ UserVids(vlans) \in [1 .. Cardinality(V) -> V]
      /\ r + 1 \in 1 .. Cardinality(V) /\ UserVids(vlans)[r + 1] = v
  BY <1>1, AscendingLists DEF UserVids
<1>3. r \in Nat
  BY <1>1, RankIsBelow
<1>4. Len(UserVids(vlans)) = Cardinality(V)
  BY <1>2
<1>5. r + 2 <= Slots - 1 => VidTable(vlans)[r + 2] = v
  BY <1>2, <1>3, <1>4, SodolaAssumption DEF VidTable
<1>. QED
  BY <1>3, <1>5

\* parse takes every slot that is not blank, but for slot 0: no id is in two.
LEMMA ReadSlotsAre ==
  ASSUME NEW vlans \in Seq(VlanDocs), NEW image, image.vid = VidTable(vlans)
  PROVE  /\ ReadSlots(image) = {s \in 1 .. Slots - 1 : image.vid[s] # Blank}
         /\ \A s, t \in ReadSlots(image) : image.vid[s] = image.vid[t] => s = t
<1> DEFINE V == Ids(vlans) \ {1}
<1>1. Cardinality(V) \in Nat
  BY IdsTyped, FS_CardinalityType
<1>2. ASSUME NEW s \in 1 .. Slots - 1, NEW t \in 1 .. Slots - 1,
             image.vid[s] # Blank, image.vid[s] = image.vid[t]
      PROVE  s = t
  <2>1. s \in 0 .. Slots - 1 /\ t \in 0 .. Slots - 1 /\ s \in Int /\ t \in Int
    OBVIOUS
  <2>2. /\ s < 2 => image.vid[s] = 1
        /\ s >= 2 => image.vid[s] \in V /\ Cardinality(Below(V, image.vid[s])) = s - 2
    BY <1>1, <1>2, <2>1, TableSlots
  <2>3. /\ t < 2 => image.vid[t] = 1
        /\ t >= 2 => image.vid[t] \in V /\ Cardinality(Below(V, image.vid[t])) = t - 2
    <3>1. image.vid[t] # Blank /\ image.vid[t] = VidTable(vlans)[t]
      BY <1>2
    <3>2. /\ t < 2 => VidTable(vlans)[t] = 1
          /\ t >= 2 /\ t - 1 <= Cardinality(V) =>
               VidTable(vlans)[t] \in V /\ Cardinality(Below(V, VidTable(vlans)[t])) = t - 2
          /\ t >= 2 /\ t - 1 > Cardinality(V) => VidTable(vlans)[t] = Blank
      BY <2>1, TableSlots
    <3>. QED
      BY <1>1, <2>1, <3>1, <3>2
  <2>4. CASE s < 2 /\ t < 2
    BY <2>4
  <2>5. CASE s >= 2 /\ t >= 2
    BY <1>2, <2>1, <2>2, <2>3, <2>5
  <2>. QED
    BY <1>2, <2>1, <2>2, <2>3, <2>4, <2>5
<1>3. ReadSlots(image) = {s \in 1 .. Slots - 1 : image.vid[s] # Blank}
  <2>1. ASSUME NEW s \in 1 .. Slots - 1, image.vid[s] # Blank, NEW t \in 1 .. s - 1
        PROVE  image.vid[t] # image.vid[s]
    <3>1. t \in 1 .. Slots - 1 /\ t # s
      BY SodolaAssumption
    <3>. QED
      BY <1>2, <2>1, <3>1
  <2>. QED
    BY <2>1 DEF ReadSlots
<1>. QED
  BY <1>2, <1>3

\* The ids parse reads: 1, and those whose rank the table has a slot for.
LEMMA ReadVidsAre ==
  ASSUME NEW vlans \in Seq(VlanDocs), NEW image, image.vid = VidTable(vlans)
  PROVE  LET V == Ids(vlans) \ {1}
         IN  /\ ReadVids(image) =
                  {1} \union {v \in V : Cardinality(Below(V, v)) <= Slots - 3}
             /\ ReadVids(image) \in SUBSET Int /\ IsFiniteSet(ReadVids(image))
             /\ ReadVids(image) \in SUBSET VlanIds
<1> DEFINE V == Ids(vlans) \ {1}
           vid == image.vid
<1>1. Cardinality(V) \in Nat
  BY IdsTyped, FS_CardinalityType
<1>2. ReadSlots(image) = {s \in 1 .. Slots - 1 : vid[s] # Blank}
  BY ReadSlotsAre
<1>3. ASSUME NEW s \in ReadSlots(image)
      PROVE  \/ vid[s] = 1
             \/ vid[s] \in V /\ Cardinality(Below(V, vid[s])) <= Slots - 3
  <2>1. s \in 0 .. Slots - 1 /\ s \in Int /\ vid[s] # Blank
    BY <1>2
  <2>2. /\ s < 2 => vid[s] = 1
        /\ s >= 2 => vid[s] \in V /\ Cardinality(Below(V, vid[s])) = s - 2
    BY <1>1, <2>1, TableSlots, SMTT(30)
  <2>3. s < 2 \/ s >= 2
    BY <2>1
  <2>4. s - 2 <= Slots - 3
    BY <1>2, SodolaAssumption
  <2>. QED
    BY <2>2, <2>3, <2>4
<1>4. 1 \in ReadVids(image)
  <2>1. 1 \in 1 .. Slots - 1 /\ 1 \in 0 .. Slots - 1
    BY SodolaAssumption
  <2>2. vid[1] = 1
    BY <2>1 DEF VidTable
  <2>. QED
    BY <1>2, <2>1, <2>2 DEF ReadVids, Blank
<1>5. ASSUME NEW v \in V, Cardinality(Below(V, v)) <= Slots - 3
      PROVE  v \in ReadVids(image)
  <2> DEFINE r == Cardinality(Below(V, v))
  <2>1. r \in Nat /\ (r + 2 <= Slots - 1 => vid[r + 2] = v)
    BY SlotOfRank
  <2>2. r + 2 \in 1 .. Slots - 1 /\ vid[r + 2] = v
    BY <1>5, <2>1, SodolaAssumption
  <2>3. v # Blank
    BY IdsTyped
  <2>. QED
    BY <1>2, <2>2, <2>3 DEF ReadVids
<1>6. ReadVids(image) = {1} \union {v \in V : Cardinality(Below(V, v)) <= Slots - 3}
  BY <1>3, <1>4, <1>5 DEF ReadVids
<1>7. ReadVids(image) \in SUBSET (Ids(vlans) \union {1})
  BY <1>6
<1>8. IsFiniteSet(Ids(vlans) \union {1}) /\ Ids(vlans) \union {1} \in SUBSET Int
  <2>1. IsFiniteSet(Ids(vlans)) /\ Ids(vlans) \in SUBSET Int
    BY IdsTyped
  <2>. QED
    BY <2>1, FS_AddElement
<1>9. IsFiniteSet(ReadVids(image))
  BY <1>7, <1>8, FS_Subset
<1>10. ReadVids(image) \in SUBSET VlanIds
  BY <1>7, IdsTyped DEF VlanIds
<1>. QED
  BY <1>6, <1>7, <1>8, <1>9, <1>10

LEMMA GenerateTable ==
  ASSUME NEW d PROVE Generate(d).vid = VidTable(d.vlans)
  BY DEF Generate

\* What is in a slot of the image is what its document says of the slot's VLAN.
LEMMA SlotReadsBack ==
  ASSUME NEW d, DocOK(d), NEW s \in 1 .. Slots - 1, VidTable(d.vlans)[s] # Blank
  PROVE  LET v == VidTable(d.vlans)[s]
         IN  /\ ReadName(Generate(d), s) = NameOf(d.vlans, v)
             /\ ReadMembers(Generate(d), s) =
                  IF s = Slots - 1 THEN {} ELSE MembersOf(d.vlans, v) \ Traceless(d, v)
<1> DEFINE image == Generate(d)
           vid == VidTable(d.vlans)
<1>1. d.ports[Uplink].mode \in {"access", "trunk"}
  BY UplinkIsPort DEF DocOK, Docs, PortDocs
<1>2. /\ image.first = NameOf(d.vlans, vid[1])
      /\ image.block = [b \in 0 .. Slots - 3 |-> Block(d, b)]
  BY DEF Generate
<1>3. ReadName(image, s) = NameOf(d.vlans, vid[s])
  <2>1. CASE s = 1
    BY <1>2, <2>1 DEF ReadName
  <2>2. CASE s # 1
    <3>1. s - 2 \in 0 .. Slots - 3 /\ (s - 2) + 2 = s
      BY <2>2, SodolaAssumption
    <3>2. image.block[s - 2].name = NameOf(d.vlans, vid[s])
      BY <1>2, <3>1 DEF Block
    <3>. QED
      BY <2>2, <3>2 DEF ReadName
  <2>. QED
    BY <2>1, <2>2
<1>4. CASE s = Slots - 1
  <2>1. s - 1 \notin DOMAIN image.block
    BY <1>2, <1>4, SodolaAssumption
  <2>. QED
    BY <1>3, <1>4, <2>1 DEF ReadMembers
<1>5. CASE s # Slots - 1
  <2> DEFINE m == MembersOf(d.vlans, vid[s])
  <2>1. s - 1 \in 0 .. Slots - 3 /\ (s - 1) + 1 = s
    BY <1>5, SodolaAssumption
  <2>2. /\ image.block[s - 1].copper = m \ {Uplink}
        /\ image.block[s - 1].uplink = UplinkByte(d.ports, vid[s], Uplink \in m)
    BY <1>2, <2>1 DEF Block
  <2>3. ReadMembers(image, s) =
          (m \ {Uplink}) \union
          (IF UplinkByte(d.ports, vid[s], Uplink \in m) # 0 THEN {Uplink} ELSE {})
    BY <1>2, <2>1, <2>2 DEF ReadMembers
  <2>4. UplinkByte(d.ports, vid[s], Uplink \in m) # 0 <=> Uplink \in m \ Traceless(d, vid[s])
    BY <1>1 DEF UplinkByte, Traceless
  <2>5. Traceless(d, vid[s]) \subseteq {Uplink}
    BY DEF Traceless
  <2>6. ReadMembers(image, s) = m \ Traceless(d, vid[s])
    BY <2>3, <2>4, <2>5
  <2>. QED
    BY <1>3, <1>5, <2>6
<1>. QED
  BY <1>4, <1>5

\* The document parse makes of an image has one entry for each id it reads, with
\* what it finds for the slot that holds the id.
LEMMA ParsedVlans ==
  ASSUME NEW d, DocOK(d)
  PROVE  LET image == Generate(d)
             vlans == Parse(Generate(d)).vlans
         IN  /\ vlans \in Seq(VlanDocs) /\ UniqueIds(vlans)
             /\ Ids(vlans) = ReadVids(image)
             /\ \A s \in ReadSlots(image) :
                  /\ NameOf(vlans, image.vid[s]) = ReadName(image, s)
                  /\ MembersOf(vlans, image.vid[s]) = ReadMembers(image, s)
<1> DEFINE image == Generate(d)
           vlans == Parse(image).vlans
           R == ReadVids(image)
           n == Cardinality(R)
           entry(v) == ReadVlan(image, SlotOf(image, v))
<1>1. d.vlans \in Seq(VlanDocs) /\ UniqueIds(d.vlans) /\ image.vid = VidTable(d.vlans)
  BY GenerateTable DEF DocOK, Docs
<1>2. R \in SUBSET Int /\ IsFiniteSet(R) /\ R \in SUBSET VlanIds
  BY <1>1, ReadVidsAre
<1>3. /\ n \in Nat /\ Ascending(R) \in [1 .. n -> R]
      /\ \A v \in R : \E i \in 1 .. n : Ascending(R)[i] = v
  BY <1>2, AscendingLists
<1>4. \A i, j \in 1 .. n : Ascending(R)[i] = Ascending(R)[j] => i = j
  <2> SUFFICES ASSUME NEW i \in 1 .. n, NEW j \in 1 .. n, Ascending(R)[i] = Ascending(R)[j]
               PROVE  i = j
    OBVIOUS
  <2>1. Ascending(R)[i] \in Int
    BY <1>2, <1>3
  <2>2. ~(i < j) /\ ~(j < i)
    BY <1>2, <1>3, <2>1, AscendingAscends
  <2>. QED
    BY <1>3, <2>2
<1>5. ASSUME NEW s \in ReadSlots(image) PROVE SlotOf(image, image.vid[s]) = s
  BY <1>1, ReadSlotsAre DEF SlotOf
<1>6. ASSUME NEW v \in R
      PROVE  /\ SlotOf(image, v) \in ReadSlots(image) /\ image.vid[SlotOf(image, v)] = v
             /\ entry(v).id = v /\ entry(v) \in VlanDocs
  <2>1. PICK s \in ReadSlots(image) : v = image.vid[s]
    BY DEF ReadVids
  <2>2. SlotOf(image, v) = s
    BY <1>5, <2>1
  <2>3. s \in 1 .. Slots - 1 /\ VidTable(d.vlans)[s] # Blank
    BY <1>1, ReadSlotsAre
  <2>4. /\ NameOf(d.vlans, v) \in {NoName, "lab"}
        /\ MembersOf(d.vlans, v) \in SUBSET Ports
    BY <1>1, LookupTyped
  <2>5. /\ ReadName(image, s) \in {NoName, "lab"}
        /\ ReadMembers(image, s) \in SUBSET Ports
    BY <1>1, <2>1, <2>3, <2>4, SlotReadsBack
  <2>6. v \in VlanIds
    BY <1>2
  <2>. QED
    BY <2>1, <2>2, <2>5, <2>6 DEF ReadVlan, VlanDocs
<1>7. vlans = [i \in 1 .. n |-> entry(Ascending(R)[i])]
  BY DEF Parse
<1>8. \A i \in 1 .. n : vlans[i] \in VlanDocs /\ vlans[i].id = Ascending(R)[i]
  BY <1>3, <1>6, <1>7
<1>9. vlans \in Seq(VlanDocs) /\ DOMAIN vlans = 1 .. n
  BY <1>3, <1>7, <1>8
<1>10. UniqueIds(vlans)
  BY <1>4, <1>8, <1>9 DEF UniqueIds
<1>11. Ids(vlans) = R
  BY <1>3, <1>8, <1>9 DEF Ids
<1>12. ASSUME NEW s \in ReadSlots(image)
       PROVE  /\ NameOf(vlans, image.vid[s]) = ReadName(image, s)
              /\ MembersOf(vlans, image.vid[s]) = ReadMembers(image, s)
  <2>1. image.vid[s] \in R
    BY DEF ReadVids
  <2>2. PICK i \in 1 .. n : Ascending(R)[i] = image.vid[s]
    BY <1>3, <2>1
  <2>3. vlans[i] = ReadVlan(image, s)
    BY <1>5, <1>7, <2>2
  <2>4. vlans[i].id = image.vid[s]
    BY <1>8, <2>2
  <2>5. /\ NameOf(vlans, vlans[i].id) = vlans[i].name
        /\ MembersOf(vlans, vlans[i].id) = vlans[i].members
    BY <1>9, <1>10, LookupFinds
  <2>. QED
    BY <2>3, <2>4, <2>5 DEF ReadVlan
<1>. QED
  BY <1>9, <1>10, <1>11, <1>12

\* The table of what parse reads is the table it read.
LEMMA TableReadsBack ==
  ASSUME NEW d, DocOK(d)
  PROVE  VidTable(Parse(Generate(d)).vlans) = VidTable(d.vlans)
<1> DEFINE image == Generate(d)
           vlans == Parse(image).vlans
           V == Ids(d.vlans) \ {1}
           W == Ids(vlans) \ {1}
           vid == VidTable(d.vlans)
<1>1. /\ d.vlans \in Seq(VlanDocs) /\ image.vid = vid
      /\ vlans \in Seq(VlanDocs) /\ Ids(vlans) = ReadVids(image)
  BY GenerateTable, ParsedVlans DEF DocOK, Docs
<1>2. /\ V \in SUBSET Int /\ IsFiniteSet(V) /\ Cardinality(V) \in Nat
      /\ W \in SUBSET Int /\ IsFiniteSet(W) /\ Cardinality(W) \in Nat
  BY <1>1, IdsTyped, FS_CardinalityType
<1>3. W = {v \in V : Cardinality(Below(V, v)) <= Slots - 3}
  BY <1>1, ReadVidsAre
<1>4. ASSUME NEW v \in W PROVE Below(W, v) = Below(V, v)
  <2>1. ASSUME NEW u \in V, u < v PROVE u \in W
    <3>1. /\ Cardinality(Below(V, u)) < Cardinality(Below(V, v))
          /\ Cardinality(Below(V, v)) <= Slots - 3
      BY <1>2, <1>3, <2>1, RankAscends
    <3>2. Cardinality(Below(V, u)) \in Int /\ Cardinality(Below(V, v)) \in Int
      BY <1>2, <1>3, RankIsBelow
    <3>. QED
      BY <1>3, <3>1, <3>2, SodolaAssumption
  <2>. QED
    BY <1>3, <2>1 DEF Below
<1>5. ASSUME NEW s \in 2 .. Slots - 1
      PROVE  VidTable(vlans)[s] = vid[s]
  <2>1. s \in 0 .. Slots - 1 /\ s \in Int /\ s >= 2
    OBVIOUS
  <2>2. CASE s - 1 > Cardinality(V)
    <3>1. Cardinality(W) <= Cardinality(V)
      BY <1>2, <1>3, FS_Subset
    <3>2. s - 1 > Cardinality(W)
      BY <1>2, <2>1, <2>2, <3>1
    <3>3. VidTable(vlans)[s] = Blank
      BY <1>1, <2>1, <3>2, TableSlots
    <3>4. vid[s] = Blank
      BY <1>1, <2>1, <2>2, TableSlots
    <3>. QED
      BY <3>3, <3>4
  <2>3. CASE s - 1 <= Cardinality(V)
    <3>1. vid[s] \in V /\ Cardinality(Below(V, vid[s])) = s - 2
      BY <1>1, <2>1, <2>3, TableSlots
    <3>2. vid[s] \in W
      BY <1>3, <2>1, <3>1, SodolaAssumption
    <3>3. Cardinality(Below(W, vid[s])) = s - 2
      BY <1>4, <3>1, <3>2
    <3>4. VidTable(vlans)[(s - 2) + 2] = vid[s]
      <4>1. (s - 2) + 2 <= Slots - 1
        BY <2>1
      <4>. QED
        BY <1>1, <3>2, <3>3, <4>1, SlotOfRank
    <3>5. (s - 2) + 2 = s
      BY <2>1
    <3>. QED
      BY <3>4, <3>5
  <2>. QED
    BY <1>2, <2>1, <2>2, <2>3
<1>6. ASSUME NEW s \in 0 .. Slots - 1
      PROVE  VidTable(vlans)[s] = vid[s]
  <2>1. s < 2 \/ s \in 2 .. Slots - 1
    BY SodolaAssumption
  <2>2. s < 2 => VidTable(vlans)[s] = 1 /\ vid[s] = 1
    BY DEF VidTable
  <2>. QED
    BY <1>5, <2>1, <2>2
<1>. QED
  BY <1>6 DEF VidTable

\* A port parse has read generates the same bytes again.
LEMMA PortReadsBack ==
  ASSUME NEW port \in PortDocs
  PROVE  /\ PortBytes(ReadPort(PortBytes(port))) = PortBytes(port)
         /\ ReadPort(PortBytes(port)).mode = port.mode
         /\ ReadPort(PortBytes(port)).native = port.native
         /\ ReadPort(PortBytes(port)).speed = port.speed
         /\ ReadPort(PortBytes(port)).limit = port.limit
         /\ port.isolation # NoMask => ReadPort(PortBytes(port)).isolation = port.isolation
         /\ ReadPort(PortBytes(port)) \in PortDocs
         /\ PortBytes(port) \in [native : VlanIds, access : BOOLEAN, auto : BOOLEAN,
                                 limit : {100, Unlimited}, isolation : SUBSET Ports]
<1> DEFINE q == PortBytes(port)
           back == ReadPort(q)
<1>1. Ports # NoMask /\ \A S \in SUBSET Ports : S # NoMask
  BY UplinkIsPort DEF NoMask
<1>2. /\ port.mode \in {"access", "trunk"} /\ port.native \in VlanIds
      /\ port.speed \in {"auto", "manual"} /\ port.limit \in {NoLimit, 100}
      /\ port.isolation \in (SUBSET Ports) \union {NoMask}
  BY DEF PortDocs
<1>3. /\ q.native = port.native /\ q.access = (port.mode = "access")
      /\ q.auto = (port.speed = "auto")
      /\ q.limit = (IF port.limit = NoLimit THEN Unlimited ELSE port.limit)
      /\ q.isolation = (IF port.isolation = NoMask THEN Ports ELSE port.isolation)
  BY DEF PortBytes
<1>4. q.isolation \in SUBSET Ports /\ q.limit \in {100, Unlimited}
  BY <1>2, <1>3, <1>1
<1>5. /\ back.mode = port.mode /\ back.native = port.native /\ back.speed = port.speed
      /\ back.isolation = q.isolation
  BY <1>2, <1>3 DEF ReadPort
<1>6. back.limit = port.limit
  BY <1>2, <1>3 DEF ReadPort, NoLimit, Unlimited
<1>7. back \in PortDocs
  BY <1>2, <1>4, <1>5, <1>6 DEF ReadPort, PortDocs
<1>8. q \in [native : VlanIds, access : BOOLEAN, auto : BOOLEAN,
             limit : {100, Unlimited}, isolation : SUBSET Ports]
  BY <1>2, <1>3, <1>4 DEF PortBytes
<1>9. PortBytes(back) = q
  <2>1. back.isolation # NoMask
    BY <1>1, <1>4, <1>5
  <2>. QED
    BY <1>3, <1>5, <1>6, <2>1 DEF PortBytes
<1>. QED
  BY <1>3, <1>5, <1>6, <1>7, <1>8, <1>9

\* Generating what parse reads of an image gives the image.
LEMMA GenerateOfParse ==
  ASSUME NEW d, DocOK(d)
  PROVE  /\ Generate(Parse(Generate(d))) = Generate(d)
         /\ DocOK(Parse(Generate(d)))
<1> DEFINE image == Generate(d)
           back == Parse(image)
           vid == VidTable(d.vlans)
<1>1. /\ d.vlans \in Seq(VlanDocs) /\ image.vid = vid
      /\ d.ports \in [Ports -> PortDocs]
      /\ d.hash \in {DefaultHash, "own"} /\ d.misc \in {"fleet"}
  BY GenerateTable DEF DocOK, Docs
<1>2. /\ back.vlans \in Seq(VlanDocs) /\ UniqueIds(back.vlans)
      /\ \A s \in ReadSlots(image) :
            /\ NameOf(back.vlans, vid[s]) = ReadName(image, s)
            /\ MembersOf(back.vlans, vid[s]) = ReadMembers(image, s)
  BY <1>1, ParsedVlans
<1>3. VidTable(back.vlans) = vid
  BY TableReadsBack
<1>4. back.ports = [p \in Ports |-> ReadPort(PortBytes(d.ports[p]))]
  BY DEF Parse, Generate
<1>5. back.hash = d.hash /\ back.misc = d.misc
  BY DEF Parse, Generate
<1>6. back.ports \in [Ports -> PortDocs]
  BY <1>1, <1>4, PortReadsBack
<1>7. DocOK(back)
  <2>1. back = [ports |-> back.ports, vlans |-> back.vlans, hash |-> back.hash,
                misc |-> back.misc]
    BY DEF Parse
  <2>. QED
    BY <1>1, <1>2, <1>5, <1>6, <2>1 DEF DocOK, Docs
<1>8. ReadSlots(image) = {s \in 1 .. Slots - 1 : vid[s] # Blank}
  BY <1>1, ReadSlotsAre
<1>9. NameOf(back.vlans, vid[1]) = image.first
  <2>1. 1 \in 1 .. Slots - 1 /\ 1 \in 0 .. Slots - 1
    BY SodolaAssumption
  <2>2. vid[1] # Blank
    BY <2>1 DEF VidTable, Blank
  <2>. QED
    BY <1>2, <1>8, <2>1, <2>2 DEF ReadName
<1>10. ASSUME NEW b \in 0 .. Slots - 3 PROVE Block(back, b) = Block(d, b)
  <2>1. /\ b + 1 \in 1 .. Slots - 1 /\ b + 2 \in 1 .. Slots - 1
        /\ (b + 1) - 1 = b /\ (b + 2) - 2 = b /\ b + 2 # 1
    BY SodolaAssumption
  <2>2. image.block = [c \in 0 .. Slots - 3 |-> Block(d, c)] /\ image.block[b] = Block(d, b)
    BY DEF Generate
  <2> DEFINE m == IF vid[b + 1] = Blank THEN {} ELSE MembersOf(d.vlans, vid[b + 1])
             n == IF vid[b + 1] = Blank THEN {} ELSE MembersOf(back.vlans, vid[b + 1])
  <2>3. /\ image.block[b].copper = m \ {Uplink}
        /\ image.block[b].uplink = UplinkByte(d.ports, vid[b + 1], Uplink \in m)
        /\ image.block[b].name =
              IF vid[b + 2] = Blank THEN NoName ELSE NameOf(d.vlans, vid[b + 2])
    BY <2>2 DEF Block
  <2>4. vid[b + 2] # Blank => NameOf(back.vlans, vid[b + 2]) = image.block[b].name
    BY <1>2, <1>8, <2>1 DEF ReadName
  <2>5. vid[b + 1] # Blank =>
          n = image.block[b].copper
                \union IF image.block[b].uplink # 0 THEN {Uplink} ELSE {}
    BY <1>2, <1>8, <2>1, <2>2, ZenonT(30) DEF ReadMembers
  <2>6. n \ {Uplink} = m \ {Uplink}
    BY <2>3, <2>5
  <2>7. /\ back.ports[Uplink].native = d.ports[Uplink].native
        /\ back.ports[Uplink].mode = d.ports[Uplink].mode
    BY <1>1, <1>4, UplinkIsPort, PortReadsBack
  <2>8. UplinkByte(back.ports, vid[b + 1], Uplink \in n)
          = UplinkByte(d.ports, vid[b + 1], Uplink \in m)
    <3>1. CASE vid[b + 1] = Blank
      BY <3>1 DEF UplinkByte
    <3>2. CASE vid[b + 1] # Blank
      <4>1. Uplink \in n <=> UplinkByte(d.ports, vid[b + 1], Uplink \in m) # 0
        BY <2>3, <2>5, <3>2
      <4>2. CASE Uplink \in n
        <5>1. Uplink \in m
          BY <4>1, <4>2 DEF UplinkByte
        <5>. QED
          BY <2>7, <4>2, <5>1 DEF UplinkByte
      <4>3. CASE Uplink \notin n
        BY <4>1, <4>3 DEF UplinkByte
      <4>. QED
        BY <4>2, <4>3
    <3>. QED
      BY <3>1, <3>2
  <2>. QED
    BY <1>3, <2>2, <2>3, <2>4, <2>6, <2>8 DEF Block
<1>11. [p \in Ports |-> PortBytes(back.ports[p])] = [p \in Ports |-> PortBytes(d.ports[p])]
  BY <1>1, <1>4, PortReadsBack
<1>12. Generate(back) = image
  <2>1. [b \in 0 .. Slots - 3 |-> Block(back, b)] = [b \in 0 .. Slots - 3 |-> Block(d, b)]
    BY <1>10
  <2>2. NameOf(back.vlans, vid[1]) = NameOf(d.vlans, vid[1])
    BY <1>9 DEF Generate
  <2>. QED
    BY <1>3, <1>5, <1>11, <2>1, <2>2 DEF Generate
<1>. QED
  BY <1>7, <1>12

\* Every image generate makes has each of its fields in its range.
LEMMA GenerateTyped ==
  ASSUME NEW d, DocOK(d) PROVE Generate(d) \in Images
<1> DEFINE vid == VidTable(d.vlans)
<1>1. /\ d.vlans \in Seq(VlanDocs) /\ UniqueIds(d.vlans)
      /\ d.ports \in [Ports -> PortDocs]
      /\ d.hash \in {DefaultHash, "own"} /\ d.misc \in {"fleet"}
  BY DEF DocOK, Docs
<1>2. vid \in [0 .. Slots - 1 -> VlanIds \union {Blank}]
  <2>1. ASSUME NEW s \in 0 .. Slots - 1 PROVE vid[s] \in VlanIds \union {Blank}
    <3>1. Cardinality(Ids(d.vlans) \ {1}) \in Nat /\ s \in Int
      <4>1. IsFiniteSet(Ids(d.vlans) \ {1})
        BY <1>1, IdsTyped
      <4>. QED
        BY <4>1, FS_CardinalityType
    <3>2. vid[s] = 1 \/ vid[s] = Blank \/ vid[s] \in Ids(d.vlans)
      BY <1>1, <3>1, TableSlots
    <3>. QED
      BY <1>1, <3>2, IdsTyped DEF VlanIds
  <2>. QED
    BY <2>1 DEF VidTable
<1>3. NameOf(d.vlans, vid[1]) \in {NoName, "lab"}
  BY <1>1, LookupTyped
<1>4. ASSUME NEW b \in 0 .. Slots - 3
      PROVE  Block(d, b) \in [copper : SUBSET (Ports \ {Uplink}), uplink : 0 .. 2,
                              name : {NoName, "lab"}]
  <2>1. MembersOf(d.vlans, vid[b + 1]) \in SUBSET Ports
    BY <1>1, LookupTyped
  <2>2. NameOf(d.vlans, vid[b + 2]) \in {NoName, "lab"}
    BY <1>1, LookupTyped
  <2>3. \A m : UplinkByte(d.ports, vid[b + 1], m) \in 0 .. 2
    BY DEF UplinkByte
  <2>. QED
    BY <2>1, <2>2, <2>3 DEF Block
<1>5. \A p \in Ports :
        PortBytes(d.ports[p]) \in [native : VlanIds, access : BOOLEAN, auto : BOOLEAN,
                                   limit : {100, Unlimited}, isolation : SUBSET Ports]
  BY <1>1, PortReadsBack
<1>. QED
  BY <1>1, <1>2, <1>3, <1>4, <1>5 DEF Generate, Images

\* What reading an image back says of the VLANs of its document.
LEMMA VlansOfGenerate ==
  ASSUME NEW d, DocOK(d), NEW v
  PROVE  LET back == Parse(Generate(d)).vlans
         IN  /\ v \in Fitting(d) =>
                  /\ v \in Ids(back)
                  /\ NameOf(back, v) = NameOf(d.vlans, v)
                  /\ MembersOf(back, v) = MembersOf(d.vlans, v) \ Traceless(d, v)
             /\ v \in Ids(back) => v \in Ids(d.vlans) \union {1}
             /\ MembersOf(back, v) \subseteq MembersOf(d.vlans, v)
<1> DEFINE image == Generate(d)
           back == Parse(image).vlans
           vid == VidTable(d.vlans)
           V == Ids(d.vlans) \ {1}
<1>1. /\ d.vlans \in Seq(VlanDocs) /\ image.vid = vid
      /\ Ids(back) = ReadVids(image)
      /\ \A s \in ReadSlots(image) :
            /\ NameOf(back, vid[s]) = ReadName(image, s)
            /\ MembersOf(back, vid[s]) = ReadMembers(image, s)
  BY GenerateTable, ParsedVlans DEF DocOK, Docs
<1>2. ReadSlots(image) = {s \in 1 .. Slots - 1 : vid[s] # Blank}
  BY <1>1, ReadSlotsAre
<1>3. Ids(back) = {1} \union {u \in V : Cardinality(Below(V, u)) <= Slots - 3}
  BY <1>1, ReadVidsAre
<1>4. ASSUME v \in Fitting(d)
      PROVE  \E s \in 1 .. Slots - 2 : vid[s] = v /\ v # Blank
  <2>0. v \in Ids(d.vlans) /\ Cardinality(Below(V, v)) < Slots - 3
    BY <1>4 DEF Fitting
  <2>1. v # Blank
    BY <1>1, <2>0, IdsTyped
  <2>2. CASE v = 1
    <3>1. 1 \in 1 .. Slots - 2 /\ 1 \in 0 .. Slots - 1
      BY SodolaAssumption
    <3>2. vid[1] = 1
      BY <3>1 DEF VidTable
    <3>. QED
      BY <2>1, <2>2, <3>1, <3>2
  <2>3. CASE v # 1
    <3> DEFINE r == Cardinality(Below(V, v))
    <3>1. r \in Nat /\ (r + 2 <= Slots - 1 => vid[r + 2] = v)
      BY <1>1, <2>0, <2>3, SlotOfRank
    <3>2. r + 2 \in 1 .. Slots - 2 /\ vid[r + 2] = v
      BY <2>0, <3>1, SodolaAssumption
    <3>. QED
      BY <2>1, <3>2
  <2>. QED
    BY <2>2, <2>3
<1>5. ASSUME v \in Fitting(d)
      PROVE  /\ v \in Ids(back)
             /\ NameOf(back, v) = NameOf(d.vlans, v)
             /\ MembersOf(back, v) = MembersOf(d.vlans, v) \ Traceless(d, v)
  <2>1. PICK s \in 1 .. Slots - 2 : vid[s] = v /\ v # Blank
    BY <1>4, <1>5
  <2>2. s \in 1 .. Slots - 1 /\ s # Slots - 1
    BY SodolaAssumption
  <2>3. s \in ReadSlots(image)
    BY <1>2, <2>1, <2>2
  <2>4. /\ ReadName(image, s) = NameOf(d.vlans, v)
        /\ ReadMembers(image, s) = MembersOf(d.vlans, v) \ Traceless(d, v)
    BY <2>1, <2>2, SlotReadsBack
  <2>5. v \in Ids(back)
    BY <1>1, <2>1, <2>3 DEF ReadVids
  <2>. QED
    BY <1>1, <2>1, <2>3, <2>4, <2>5
<1>6. v \in Ids(back) => v \in Ids(d.vlans) \union {1}
  BY <1>3
<1>7. MembersOf(back, v) \subseteq MembersOf(d.vlans, v)
  <2>1. CASE v \in Ids(back)
    <3>1. PICK s \in ReadSlots(image) : vid[s] = v
      BY <1>1, <2>1 DEF ReadVids
    <3>2. s \in 1 .. Slots - 1 /\ vid[s] # Blank
      BY <1>2
    <3>3. ReadMembers(image, s) \subseteq MembersOf(d.vlans, v)
      BY <3>1, <3>2, SlotReadsBack
    <3>. QED
      BY <1>1, <3>1, <3>3
  <2>2. CASE v \notin Ids(back)
    BY <2>2 DEF MembersOf
  <2>. QED
    BY <2>1, <2>2
<1>. QED
  BY <1>5, <1>6, <1>7

----------------------------------------------------------------------------
(* Documents of the fleet and of the desk                                  *)

LEMMA SwitchVlansTyped ==
  ASSUME NEW f \in Fleets
  PROVE  /\ SwitchVlans(f) \in SUBSET VlanIds
         /\ SwitchVlans(f) \in SUBSET Int /\ IsFiniteSet(SwitchVlans(f))
<1>1. f \in [Ports -> [vlan : Vids \union {NoVlan}, vlans : SUBSET Vids]]
  BY FleetAssumption
<1>2. SwitchVlans(f) \in SUBSET VlanIds
  BY <1>1, FleetAssumption DEF SwitchVlans, VlanIds
<1>3. IsFiniteSet(Vids \union {1}) /\ VlanIds \in SUBSET Int
  BY FleetAssumption, FS_AddElement DEF VlanIds
<1>4. IsFiniteSet(SwitchVlans(f))
  BY <1>2, <1>3, FS_Subset DEF VlanIds
<1>. QED
  BY <1>2, <1>3, <1>4

\* The fleet renders documents of the right form, with an entry for each VLAN of
\* the switch.
LEMMA ProjectOK ==
  ASSUME NEW f \in Fleets
  PROVE  /\ DocOK(Project(f)) /\ Ids(Project(f).vlans) = SwitchVlans(f)
         /\ \A v \in SwitchVlans(f) : MembersOf(Project(f).vlans, v) = VlanMembers(f, v)
<1> DEFINE S == SwitchVlans(f)
           n == Cardinality(S)
           d == Project(f)
           entry(v) == [id |-> v, members |-> VlanMembers(f, v), name |-> NoName]
<1>1. f \in [Ports -> [vlan : Vids \union {NoVlan}, vlans : SUBSET Vids]]
  BY FleetAssumption
<1>2. S \in SUBSET Int /\ IsFiniteSet(S) /\ S \in SUBSET VlanIds
  BY SwitchVlansTyped
<1>3. /\ n \in Nat /\ Ascending(S) \in [1 .. n -> S]
      /\ \A v \in S : \E i \in 1 .. n : Ascending(S)[i] = v
  BY <1>2, AscendingLists
<1>4. d.vlans = [i \in 1 .. n |-> entry(Ascending(S)[i])]
  BY DEF Project
<1>5. \A v : VlanMembers(f, v) \in SUBSET Ports
  BY DEF VlanMembers
<1>6. \A i \in 1 .. n : /\ d.vlans[i] \in VlanDocs /\ d.vlans[i].id = Ascending(S)[i]
                        /\ d.vlans[i].members = VlanMembers(f, Ascending(S)[i])
  BY <1>2, <1>3, <1>4, <1>5 DEF VlanDocs
<1>7. d.vlans \in Seq(VlanDocs) /\ DOMAIN d.vlans = 1 .. n
  <2>1. DOMAIN d.vlans = 1 .. n /\ d.vlans = [i \in 1 .. n |-> d.vlans[i]]
    BY <1>4
  <2> HIDE DEF d
  <2>. QED
    BY <1>3, <1>6, <2>1
<1>8. UniqueIds(d.vlans)
  <2> SUFFICES ASSUME NEW i \in 1 .. n, NEW j \in 1 .. n, Ascending(S)[i] = Ascending(S)[j]
               PROVE  i = j
    BY <1>6, <1>7 DEF UniqueIds
  <2>1. Ascending(S)[i] \in Int
    BY <1>2, <1>3
  <2>2. ~(i < j) /\ ~(j < i)
    BY <1>2, <1>3, <2>1, AscendingAscends
  <2>. QED
    BY <1>3, <2>2
<1>9. Ids(d.vlans) = S
  <2> HIDE DEF d
  <2>. QED
    BY <1>3, <1>6, <1>7 DEF Ids
<1>10. ASSUME NEW v \in S PROVE MembersOf(d.vlans, v) = VlanMembers(f, v)
  <2>1. PICK i \in 1 .. n : Ascending(S)[i] = v
    BY <1>3
  <2>2. d.vlans[i].id = v /\ d.vlans[i].members = VlanMembers(f, v)
    BY <1>6, <2>1
  <2>3. MembersOf(d.vlans, d.vlans[i].id) = d.vlans[i].members
    BY <1>7, <1>8, LookupFinds
  <2>. QED
    BY <2>2, <2>3
<1>11. ASSUME NEW p \in Ports
       PROVE  MkPort(f[p]) \in PortDocs
  <2>1. PortType(f[p]) = "access" => f[p].vlan \in Vids
    BY <1>1 DEF PortType
  <2>. QED
    BY <2>1 DEF MkPort, PortDocs, VlanIds
<1>12. [p \in Ports |-> MkPort(f[p])] \in [Ports -> PortDocs]
  BY <1>11
<1>13. DocOK(d)
  BY <1>7, <1>8, <1>12 DEF DocOK, Docs, Project
<1>. QED
  BY <1>9, <1>10, <1>13

\* So is what an edit at the desk leaves.
LEMMA EditsOK == ASSUME DocOK(desk), EditVlans \/ EditPorts PROVE DocOK(desk')
<1>0. /\ desk = [ports |-> desk.ports, vlans |-> desk.vlans, hash |-> desk.hash,
                 misc |-> desk.misc]
      /\ desk.ports \in [Ports -> PortDocs] /\ desk.vlans \in Seq(VlanDocs)
      /\ UniqueIds(desk.vlans)
      /\ desk.hash \in {DefaultHash, "own"} /\ desk.misc \in {"fleet"}
  BY DEF DocOK, Docs
<1>1. ASSUME NEW vlans \in Seq(VlanDocs), UniqueIds(vlans),
             desk' = [desk EXCEPT !.vlans = vlans]
      PROVE  DocOK(desk')
  BY <1>0, <1>1 DEF DocOK, Docs
<1>2. ASSUME NEW p \in Ports, NEW port \in PortDocs,
             desk' = [desk EXCEPT !.ports = [desk.ports EXCEPT ![p] = port]]
      PROVE  DocOK(desk')
  <2>1. [desk.ports EXCEPT ![p] = port] \in [Ports -> PortDocs]
    BY <1>0, <1>2
  <2>. QED
    BY <1>0, <1>2, <2>1 DEF DocOK, Docs
<1> DEFINE n == Len(desk.vlans)
<1>3. /\ n \in Nat /\ DOMAIN desk.vlans = 1 .. n
      /\ \A i \in 1 .. n : desk.vlans[i] \in VlanDocs
  BY <1>0, LenProperties, ElementOfSeq
<1>4. ASSUME NEW v \in Vids \ Ids(desk.vlans), NEW m \in {Ports, {1}},
             desk' = WithVlan(desk, [id |-> v, members |-> m, name |-> "lab"])
      PROVE  DocOK(desk')
  <2> DEFINE e == [id |-> v, members |-> m, name |-> "lab"]
             vlans == Append(desk.vlans, e)
  <2>1. e \in VlanDocs /\ e.id = v
    BY UplinkIsPort DEF VlanDocs, VlanIds
  <2>2. /\ vlans \in Seq(VlanDocs) /\ Len(vlans) = n + 1
        /\ \A i \in 1 .. n : vlans[i] = desk.vlans[i]
        /\ vlans[n + 1] = e
    BY <1>0, <2>1, AppendProperties
  <2>3. DOMAIN vlans = 1 .. n + 1
    BY <2>2, LenProperties
  <2>4. \A i \in 1 .. n : desk.vlans[i].id # v
    BY <1>3 DEF Ids
  <2>5. ASSUME NEW i \in 1 .. n + 1, NEW j \in 1 .. n + 1, vlans[i].id = vlans[j].id
        PROVE  i = j
    <3>1. (i \in 1 .. n \/ i = n + 1) /\ (j \in 1 .. n \/ j = n + 1)
      BY <1>3
    <3> HIDE DEF vlans, e
    <3>. QED
      BY <1>0, <1>3, <2>1, <2>2, <2>4, <2>5, <3>1 DEF UniqueIds
  <2>6. UniqueIds(vlans)
    BY <2>3, <2>5 DEF UniqueIds
  <2>. QED
    BY <1>1, <1>4, <2>2, <2>6 DEF WithVlan
<1>5. ASSUME NEW k \in DOMAIN desk.vlans, desk' = WithoutVlan(desk, k)
      PROVE  DocOK(desk')
  <2> DEFINE vlans == RemoveAt(desk.vlans, k)
             low == SubSeq(desk.vlans, 1, k - 1)
             high == SubSeq(desk.vlans, k + 1, n)
  <2>1. k \in 1 .. n /\ k \in Int /\ n \in Int
    BY <1>3
  <2>2. /\ low \in Seq(VlanDocs) /\ Len(low) = k - 1
        /\ \A i \in 1 .. k - 1 : low[i] = desk.vlans[i]
    <3>1. \A i \in 1 .. k - 1 : desk.vlans[i] \in VlanDocs
      BY <1>3, <2>1
    <3>2. /\ low \in Seq(VlanDocs)
          /\ Len(low) = IF 1 <= k - 1 THEN (k - 1) - 1 + 1 ELSE 0
          /\ \A i \in 1 .. (k - 1) - 1 + 1 : low[i] = desk.vlans[1 + i - 1]
      BY <2>1, <3>1, SubSeqProperties
    <3>. QED
      BY <2>1, <3>2
  <2>3. /\ high \in Seq(VlanDocs) /\ Len(high) = n - k
        /\ \A i \in 1 .. n - k : high[i] = desk.vlans[k + i]
    <3>1. \A i \in k + 1 .. n : desk.vlans[i] \in VlanDocs
      BY <1>3, <2>1
    <3>2. /\ high \in Seq(VlanDocs)
          /\ Len(high) = IF k + 1 <= n THEN n - (k + 1) + 1 ELSE 0
          /\ \A i \in 1 .. n - (k + 1) + 1 : high[i] = desk.vlans[(k + 1) + i - 1]
      BY <2>1, <3>1, SubSeqProperties, SMTT(30)
    <3>. QED
      BY <2>1, <3>2, SMTT(30)
  <2>4. /\ vlans \in Seq(VlanDocs) /\ Len(vlans) = n - 1
        /\ \A i \in 1 .. n - 1 : vlans[i] = IF i < k THEN desk.vlans[i] ELSE desk.vlans[i + 1]
    <3>1. vlans = low \o high
      BY DEF RemoveAt
    <3> HIDE DEF low, high, vlans
    <3>2. /\ low \o high \in Seq(VlanDocs)
          /\ Len(low \o high) = Len(low) + Len(high)
          /\ \A i \in 1 .. Len(low) + Len(high) :
                (low \o high)[i] = IF i <= Len(low) THEN low[i] ELSE high[i - Len(low)]
      BY <2>2, <2>3, ConcatProperties
    <3>3. Len(low) + Len(high) = n - 1 /\ Len(low) = k - 1
      BY <2>1, <2>2, <2>3
    <3>4. /\ vlans \in Seq(VlanDocs) /\ Len(vlans) = n - 1
          /\ \A i \in 1 .. n - 1 : vlans[i] = IF i <= k - 1 THEN low[i] ELSE high[i - (k - 1)]
      BY <3>1, <3>2, <3>3
    <3>5. ASSUME NEW i \in 1 .. n - 1
          PROVE  vlans[i] = IF i < k THEN desk.vlans[i] ELSE desk.vlans[i + 1]
      <4>1. CASE i < k
        BY <2>1, <2>2, <3>4, <4>1
      <4>2. CASE ~(i < k)
        <5>1. i - (k - 1) \in 1 .. n - k /\ k + (i - (k - 1)) = i + 1
          BY <2>1, <4>2
        <5>2. vlans[i] = high[i - (k - 1)]
          BY <2>1, <3>4, <4>2
        <5>. QED
          BY <2>3, <4>2, <5>1, <5>2
      <4>. QED
        BY <4>1, <4>2
    <3>. QED
      BY <3>4, <3>5
  <2>5. DOMAIN vlans = 1 .. n - 1
    BY <2>4, LenProperties
  <2>6. ASSUME NEW i \in 1 .. n - 1, NEW j \in 1 .. n - 1, vlans[i].id = vlans[j].id
        PROVE  i = j
    <3> DEFINE at(h) == IF h < k THEN h ELSE h + 1
    <3>1. at(i) \in 1 .. n /\ at(j) \in 1 .. n
      BY <2>1
    <3>2. vlans[i] = desk.vlans[at(i)] /\ vlans[j] = desk.vlans[at(j)]
      BY <2>4
    <3>3. at(i) = at(j)
      BY <1>0, <1>3, <2>6, <3>1, <3>2 DEF UniqueIds
    <3>. QED
      BY <2>1, <3>3
  <2>7. UniqueIds(vlans)
    BY <2>5, <2>6 DEF UniqueIds
  <2>. QED
    BY <1>1, <1>5, <2>4, <2>7 DEF WithoutVlan
<1>6. ASSUME NEW k \in DOMAIN desk.vlans, NEW p \in Ports,
             desk' = [desk EXCEPT !.vlans[k].members = (@ \ {p}) \union ({p} \ @)]
      PROVE  DocOK(desk')
  <2> DEFINE v == desk.vlans[k]
             e == [v EXCEPT !.members = (v.members \ {p}) \union ({p} \ v.members)]
             vlans == [desk.vlans EXCEPT ![k] = e]
  <2>1. k \in 1 .. n /\ v \in VlanDocs
    BY <1>3
  <2>2. e \in VlanDocs /\ e.id = v.id
    BY <2>1 DEF VlanDocs
  <2>3. /\ vlans \in Seq(VlanDocs) /\ Len(vlans) = n
        /\ \A j \in 1 .. n : vlans[j] = IF j = k THEN e ELSE desk.vlans[j]
    BY <1>0, <2>1, <2>2, ExceptSeq
  <2>4. DOMAIN vlans = 1 .. n
    BY <2>3, LenProperties
  <2>5. \A j \in 1 .. n : vlans[j].id = desk.vlans[j].id
    BY <2>2, <2>3
  <2>6. UniqueIds(vlans)
    <3> HIDE DEF vlans
    <3>. QED
      BY <1>0, <1>3, <2>4, <2>5 DEF UniqueIds
  <2>7. desk' = [desk EXCEPT !.vlans = vlans]
    BY <1>0, <1>6
  <2>. QED
    BY <1>1, <2>3, <2>6, <2>7
<1>7. CASE EditVlans
  BY <1>4, <1>5, <1>6, <1>7, UplinkIsPort DEF EditVlans
<1>8. CASE EditPorts
  <2>1. \A p \in Ports : desk.ports[p] \in PortDocs
    BY <1>0
  <2>2. CASE \E p \in {1, Uplink}, v \in Vids : desk' = [desk EXCEPT !.ports[p].native = v]
    <3>1. PICK p \in Ports, v \in Vids : desk' = [desk EXCEPT !.ports[p].native = v]
      BY <2>2, UplinkIsPort
    <3>2. [desk.ports[p] EXCEPT !.native = v] \in PortDocs
      BY <2>1 DEF PortDocs, VlanIds
    <3>. QED
      BY <1>0, <1>2, <3>1, <3>2
  <2>3. CASE \E p \in {1, Uplink} : desk' = [desk EXCEPT !.ports[p].mode = "access"]
    <3>1. PICK p \in Ports : desk' = [desk EXCEPT !.ports[p].mode = "access"]
      BY <2>3, UplinkIsPort
    <3>2. [desk.ports[p] EXCEPT !.mode = "access"] \in PortDocs
      BY <2>1 DEF PortDocs
    <3>. QED
      BY <1>0, <1>2, <3>1, <3>2
  <2>4. CASE desk' = [desk EXCEPT !.ports[1] = [@ EXCEPT !.limit = 100, !.speed = "manual",
                                                         !.isolation = {Uplink}]]
    <3>0. {Uplink} \in (SUBSET Ports) \union {NoMask}
      BY UplinkIsPort
    <3>1. \A port \in PortDocs :
            [port EXCEPT !.limit = 100, !.speed = "manual", !.isolation = {Uplink}] \in PortDocs
      BY <3>0 DEF PortDocs
    <3>. QED
      BY <1>0, <1>2, <2>1, <2>4, <3>1, UplinkIsPort
  <2>. QED
    BY <1>8, <2>2, <2>3, <2>4 DEF EditPorts
<1>. QED
  BY <1>7, <1>8

----------------------------------------------------------------------------
(* Initially and in every step                                             *)

LEMMA InitInv == Init => IInv
<1> SUFFICES ASSUME Init PROVE IInv
  OBVIOUS
<1>1. DocOK(desk)
  <2>1. PICK f \in Fleets : desk = [Project(f) EXCEPT !.hash = "own"]
    BY DEF Init
  <2>2. Project(f) \in Docs /\ UniqueIds(Project(f).vlans)
    BY ProjectOK DEF DocOK
  <2>. QED
    BY <2>1, <2>2 DEF DocOK, Docs
<1>2. origin.doc = desk /\ origin.by = "desk"
  BY DEF Init, FromDesk
<1>3. CountInv
  <2>1. missed = FALSE /\ pushes = 0 /\ edits = 0
    BY DEF Init
  <2>2. 0 \in 0 .. MaxPushes /\ 0 \in 0 .. MaxEdits
    BY FleetAssumption
  <2>. QED
    BY <2>1, <2>2 DEF CountInv
<1>. QED
  BY <1>1, <1>2, <1>3
     DEF Init, IInv, DeskInv, MadeInv, SourceOK, PushInv, BehindOnlyIfMissed, Idle

\* The script of a push that goes on or ends.
LEMMA PushGoesOn ==
  ASSUME PushInv, NEW w \in Pushers, push[w].at \in {"login", "restore", "reboot"},
         \/ End(w)
         \/ \E at \in {"restore", "reboot"} : Goto(w, at)
  PROVE  PushInv'
<1>1. /\ push[w] = [at |-> push[w].at, bin |-> Generate(push[w].from.doc),
                    from |-> push[w].from]
      /\ SourceOK(push[w].from)
  BY DEF PushInv, Idle
<1>2. CASE End(w)
  BY <1>2 DEF End, PushInv
<1>3. CASE \E at \in {"restore", "reboot"} : Goto(w, at)
  <2>1. PICK at \in {"restore", "reboot"} : push' = [push EXCEPT ![w].at = at]
    BY <1>3 DEF Goto
  <2>2. push'[w] = [at |-> at, bin |-> Generate(push[w].from.doc), from |-> push[w].from]
    BY <1>1, <2>1 DEF PushInv
  <2>3. \A v \in Pushers \ {w} : push'[v] = push[v]
    BY <2>1 DEF PushInv
  <2>4. push' = [v \in Pushers |-> push'[v]]
    BY <2>1 DEF PushInv
  <2>. QED
    BY <1>1, <2>2, <2>3, <2>4 DEF PushInv
<1>. QED
  BY <1>2, <1>3

LEMMA StepInv == IInv /\ [Next]_vars => IInv'
<1> SUFFICES ASSUME IInv, [Next]_vars PROVE IInv'
  OBVIOUS
<1>0. DeskInv /\ MadeInv /\ PushInv /\ CountInv /\ BehindOnlyIfMissed
  BY DEF IInv
<1>1. CASE Pull
  <2>1. DeskInv'
    BY <1>0, <1>1, GenerateOfParse DEF Pull, DeskInv, MadeInv, SourceOK
  <2>. QED
    BY <1>0, <1>1, <2>1 DEF Pull, IInv, MadeInv, PushInv, CountInv, BehindOnlyIfMissed, At
<1>2. CASE Edit
  <2>1. DeskInv'
    BY <1>0, <1>2, EditsOK DEF Edit, DeskInv
  <2>2. CountInv'
    BY <1>0, <1>2, FleetAssumption DEF Edit, CountInv
  <2>. QED
    BY <1>0, <1>2, <2>1, <2>2 DEF Edit, IInv, MadeInv, PushInv, BehindOnlyIfMissed, At
<1>3. ASSUME NEW w \in Pushers, NEW from, SourceOK(from), Begin(w, from) PROVE IInv'
  <2>1. push'[w] = [at |-> "login", bin |-> Generate(from.doc), from |-> from]
    BY <1>0, <1>3 DEF Begin, PushInv
  <2>2. /\ push' = [v \in Pushers |-> push'[v]]
        /\ \A v \in Pushers \ {w} : push'[v] = push[v]
    BY <1>0, <1>3 DEF Begin, PushInv
  <2>3. PushInv'
    BY <1>0, <1>3, <2>1, <2>2 DEF PushInv
  <2>4. BehindOnlyIfMissed'
    BY <1>0, <1>3, <2>2 DEF Begin, BehindOnlyIfMissed, At
  <2>5. CountInv'
    BY <1>0, <1>3, FleetAssumption DEF Begin, CountInv
  <2>. QED
    BY <1>0, <1>3, <2>3, <2>4, <2>5 DEF Begin, IInv, DeskInv, MadeInv
<1>4. ASSUME NEW w \in Pushers, Login(w) \/ Fails(w) PROVE IInv'
  <2>1. PushInv'
    BY <1>0, <1>4, PushGoesOn DEF Login, Fails, At
  <2>2. BehindOnlyIfMissed'
    BY <1>0, <1>4 DEF Login, Fails, Goto, End, PushInv, BehindOnlyIfMissed, At
  <2>. QED
    BY <1>0, <1>4, <2>1, <2>2 DEF Login, Fails, IInv, DeskInv, MadeInv, CountInv
<1>5. ASSUME NEW w \in Pushers, Restore(w) \/ RestoreUnheard(w) PROVE IInv'
  <2>1. PushInv'
    BY <1>0, <1>5, PushGoesOn DEF Restore, RestoreUnheard, At
  <2>2. MadeInv'
    BY <1>0, <1>5 DEF Restore, RestoreUnheard, Stored, MadeInv, PushInv, Idle, At
  <2>3. BehindOnlyIfMissed'
    <3>1. CASE Restore(w)
      <4>1. push'[w].at = "reboot"
        BY <1>0, <3>1 DEF Restore, Goto, PushInv, Idle, At
      <4>. QED
        BY <4>1 DEF BehindOnlyIfMissed, At
    <3>2. CASE RestoreUnheard(w)
      BY <3>2 DEF RestoreUnheard, BehindOnlyIfMissed
    <3>. QED
      BY <1>5, <3>1, <3>2
  <2>4. CountInv'
    BY <1>0, <1>5 DEF Restore, RestoreUnheard, CountInv
  <2>. QED
    BY <1>0, <1>5, <2>1, <2>2, <2>3, <2>4 DEF Restore, RestoreUnheard, IInv, DeskInv
<1>6. ASSUME NEW w \in Pushers, Reboot(w) \/ RebootLost(w) PROVE IInv'
  <2>1. PushInv'
    BY <1>0, <1>6, PushGoesOn DEF Reboot, RebootLost, At
  <2>2. MadeInv'
    BY <1>0, <1>6 DEF Reboot, RebootLost, MadeInv, SourceOK
  <2>3. CountInv'
    BY <1>0, <1>6 DEF Reboot, RebootLost, CountInv
  <2>. QED
    BY <1>0, <1>6, <2>1, <2>2, <2>3
       DEF Reboot, RebootLost, IInv, DeskInv, BehindOnlyIfMissed
<1>7. CASE PowerCycle
  <2>1. MadeInv'
    BY <1>0, <1>7 DEF PowerCycle, MadeInv, SourceOK
  <2>. QED
    BY <1>0, <1>7, <2>1
       DEF PowerCycle, IInv, DeskInv, PushInv, CountInv, BehindOnlyIfMissed
<1>8. CASE UNCHANGED vars
  BY <1>0, <1>8
     DEF vars, IInv, DeskInv, MadeInv, PushInv, CountInv, BehindOnlyIfMissed, At
<1>9. ASSUME NEW f \in Fleets, Begin("deploy", FromFleet(f)) PROVE IInv'
  <2>1. SourceOK(FromFleet(f))
    BY ProjectOK DEF SourceOK, FromFleet
  <2>. QED
    BY <1>3, <1>9, <2>1 DEF Pushers
<1>10. CASE Begin("desk", FromDesk(desk))
  <2>1. SourceOK(FromDesk(desk))
    BY <1>0 DEF SourceOK, FromDesk, DeskInv
  <2>. QED
    BY <1>3, <1>10, <2>1 DEF Pushers
<1>. QED
  BY <1>1, <1>2, <1>4, <1>5, <1>6, <1>7, <1>8, <1>9, <1>10 DEF Next, Script

----------------------------------------------------------------------------
\* In every execution the inductive invariant holds.
THEOREM Invariance == Spec => []IInv
<1>. QED
  BY InitInv, StepInv, PTL DEF Spec

\* Every image the switch can hold or boot, and every one a push carries, is one
\* it can be given, whatever the desk and the fleet ask for.
THEOREM TypeCorrect == Spec => []TypeOK
<1>1. IInv => TypeOK
  <2> SUFFICES ASSUME IInv PROVE TypeOK
    OBVIOUS
  <2>1. DeskInv /\ MadeInv /\ PushInv /\ CountInv
    BY DEF IInv
  <2>2. /\ desk \in Docs /\ origin.doc \in Docs
        /\ stored \in Images /\ running \in Images
    BY <2>1, GenerateTyped DEF DeskInv, MadeInv, SourceOK, DocOK
  <2>3. ASSUME NEW w \in Pushers
        PROVE  \/ push[w] = Idle
               \/ push[w].at \in {"login", "restore", "reboot"} /\ push[w].bin \in Images
    BY <2>1, GenerateTyped DEF PushInv, SourceOK
  <2>. QED
    BY <2>1, <2>2, <2>3 DEF TypeOK, CountInv
<1>. QED
  BY <1>1, Invariance, PTL

\* The switch runs another image than it holds only on the way to a reboot, or
\* after a push that ended without one, for any number of concurrent pushes.
THEOREM BehindIsMissed == Spec => []BehindOnlyIfMissed
<1>1. IInv => BehindOnlyIfMissed
  BY DEF IInv
<1>. QED
  BY <1>1, Invariance, PTL

\* For any number of slots, the name and the members that parse finds for a
\* slot are those of the VLAN in it: the blocks that carry them are one and two
\* off in generate and in parse alike.
THEOREM SlotsAreKept == Spec => []SlotsReadBack
<1>1. IInv => SlotsReadBack
  <2> SUFFICES ASSUME IInv PROVE SlotsReadBack
    OBVIOUS
  <2>1. DocOK(origin.doc) /\ stored = Generate(origin.doc)
    BY DEF IInv, MadeInv, SourceOK
  <2>2. stored.vid = VidTable(origin.doc.vlans)
    BY <2>1, GenerateTable
  <2>. QED
    BY <2>1, <2>2, SlotReadsBack DEF SlotsReadBack
<1>. QED
  BY <1>1, Invariance, PTL

\* Every image the switch can hold reads back as the document it was made from:
\* each VLAN with room in the table, with its name and its members, the others
\* with no member that was not asked for, and every port.
THEOREM ImagesReadBack == Spec => []ReadsBack
<1>1. ASSUME MadeInv PROVE VlansReadBack
  <2> DEFINE d == origin.doc
  <2>1. /\ DocOK(d) /\ d.vlans \in Seq(VlanDocs) /\ UniqueIds(d.vlans)
        /\ Back = Parse(Generate(d))
    BY <1>1 DEF MadeInv, SourceOK, DocOK, Docs, Back
  <2>2. /\ Fitting(d) \subseteq Ids(Back.vlans)
        /\ Ids(Back.vlans) \subseteq Ids(d.vlans) \union {1}
    BY <2>1, VlansOfGenerate
  <2>3. ASSUME NEW i \in DOMAIN d.vlans
        PROVE  LET v == d.vlans[i] IN
               /\ BackMembers(v.id) \subseteq v.members
               /\ v.id \in Fitting(d) =>
                    /\ BackMembers(v.id) = v.members \ Traceless(d, v.id)
                    /\ NameOf(Back.vlans, v.id) = v.name
    <3>1. /\ NameOf(d.vlans, d.vlans[i].id) = d.vlans[i].name
          /\ MembersOf(d.vlans, d.vlans[i].id) = d.vlans[i].members
      BY <2>1, LookupFinds
    <3> DEFINE u == d.vlans[i].id
    <3>2. /\ u \in Fitting(d) =>
               /\ NameOf(Back.vlans, u) = NameOf(d.vlans, u)
               /\ MembersOf(Back.vlans, u) = MembersOf(d.vlans, u) \ Traceless(d, u)
          /\ MembersOf(Back.vlans, u) \subseteq MembersOf(d.vlans, u)
      BY <2>1, VlansOfGenerate
    <3>. QED
      BY <3>1, <3>2 DEF BackMembers
  <2>. QED
    BY <2>2, <2>3 DEF VlansReadBack
<1>2. ASSUME MadeInv PROVE PortsReadBack
  <2>1. /\ origin.doc.ports \in [Ports -> PortDocs]
        /\ \A p \in Ports : Back.ports[p] = ReadPort(PortBytes(origin.doc.ports[p]))
    BY <1>2 DEF MadeInv, SourceOK, DocOK, Docs, Back, Parse, Generate
  <2>. QED
    BY <2>1, PortReadsBack DEF PortsReadBack
<1>3. IInv => ReadsBack
  BY <1>1, <1>2 DEF IInv, ReadsBack
<1>. QED
  BY <1>3, Invariance, PTL

\* Pulling the document of any image the switch can hold or boot, and generating
\* from it, gives the image, the VLANs that do not fit included.
THEOREM PullPushQuiet == Spec => []PullPushIsQuiet
<1>1. IInv => PullPushIsQuiet
  BY GenerateOfParse DEF IInv, MadeInv, SourceOK, PullPushIsQuiet
<1>. QED
  BY <1>1, Invariance, PTL

\* After a deploy, and whatever the switch held before, every port does what the
\* fleet declares of it, for any declaration: an access port is in its VLAN and
\* no other, a trunk carries its VLANs and an unused port none, if they fit.
THEOREM FleetIsReached == Spec => []FleetReachesPorts
<1>1. ASSUME MadeInv PROVE FleetReachesPorts
  <2> DEFINE f == origin.fleet
             d == origin.doc
             Carried(p) == {v \in Fitting(d) : p \in BackMembers(v)}
             Fit(S) == S \intersect Fitting(d)
  <2> SUFFICES ASSUME origin.by = "deploy", NEW p \in Ports
               PROVE  CASE PortType(f[p]) = "access" ->
                             Carried(p) = Fit({f[p].vlan}) /\ Back.ports[p].native = f[p].vlan
                        [] PortType(f[p]) = "trunk" ->
                             /\ Carried(p) = Fit(f[p].vlans \union IF p = Uplink THEN {1} ELSE {})
                             /\ Back.ports[p].mode = "trunk"
                        [] OTHER -> Carried(p) = {}
    BY DEF FleetReachesPorts
  <2>1. /\ f \in Fleets /\ d = Project(f) /\ DocOK(d)
        /\ Back = Parse(Generate(d))
    BY <1>1 DEF MadeInv, SourceOK, Back
  <2>2. /\ d.ports \in [Ports -> PortDocs] /\ d.ports[p] = MkPort(f[p])
        /\ d.ports[Uplink] = MkPort(f[Uplink])
        /\ Back.ports[p] = ReadPort(PortBytes(d.ports[p]))
    BY <2>1, UplinkIsPort, SMTT(30) DEF DocOK, Docs, Parse, Generate, Project
  <2>3. /\ Back.ports[p].mode = MkPort(f[p]).mode
        /\ Back.ports[p].native = MkPort(f[p]).native
    BY <2>2, PortReadsBack
  <2>4. ASSUME NEW v \in Fitting(d)
        PROVE  p \in BackMembers(v) <=> p \in VlanMembers(f, v) \ Traceless(d, v)
    <3>1. v \in SwitchVlans(f)
      BY <2>1, ProjectOK DEF Fitting
    <3>2. MembersOf(d.vlans, v) = VlanMembers(f, v)
      BY <2>1, <3>1, ProjectOK
    <3>3. MembersOf(Back.vlans, v) = MembersOf(d.vlans, v) \ Traceless(d, v)
      BY <2>1, VlansOfGenerate
    <3>. QED
      BY <3>2, <3>3 DEF BackMembers
  <2>5. /\ f \in [Ports -> [vlan : Vids \union {NoVlan}, vlans : SUBSET Vids]]
        /\ f[p].vlans \in SUBSET Vids
    BY <2>1, FleetAssumption
  <2>6. CASE PortType(f[p]) = "access"
    <3>1. f[p].vlan # NoVlan /\ MkPort(f[p]).native = f[p].vlan
      BY <2>6 DEF PortType, MkPort
    <3>2. ASSUME NEW v \in Fitting(d)
          PROVE  p \in VlanMembers(f, v) \ Traceless(d, v) <=> v = f[p].vlan
      <4>1. p \in VlanMembers(f, v) <=> v = f[p].vlan
        BY <2>6, <3>1 DEF VlanMembers
      <4>2. v = f[p].vlan => p \notin Traceless(d, v)
        BY <2>2, <3>1 DEF Traceless
      <4>. QED
        BY <4>1, <4>2
    <3>3. Carried(p) = Fit({f[p].vlan})
      BY <2>4, <3>2
    <3>. QED
      BY <2>3, <2>6, <3>1, <3>3
  <2>7. CASE PortType(f[p]) = "trunk"
    <3>1. f[p].vlan = NoVlan /\ MkPort(f[p]).mode = "trunk"
      BY <2>7 DEF PortType, MkPort
    <3>2. ASSUME NEW v \in Fitting(d)
          PROVE  p \in VlanMembers(f, v) \ Traceless(d, v)
                   <=> v \in f[p].vlans \union IF p = Uplink THEN {1} ELSE {}
      <4>1. p \in VlanMembers(f, v) <=> v \in f[p].vlans \union IF p = Uplink THEN {1} ELSE {}
        BY <2>7, <3>1 DEF VlanMembers
      <4>2. p \notin Traceless(d, v)
        BY <2>2, <3>1 DEF Traceless
      <4>. QED
        BY <4>1, <4>2
    <3>3. Carried(p) = Fit(f[p].vlans \union IF p = Uplink THEN {1} ELSE {})
      BY <2>4, <3>2
    <3>4. PortType(f[p]) # "access"
      BY <2>7
    <3>. QED
      BY <2>3, <2>7, <3>1, <3>3, <3>4
  <2>8. CASE PortType(f[p]) \notin {"access", "trunk"}
    <3>1. PortType(f[p]) = "unused"
      BY <2>8 DEF PortType
    <3>2. \A v : p \notin VlanMembers(f, v)
      BY <3>1 DEF VlanMembers
    <3>3. Carried(p) = {}
      BY <2>4, <3>2
    <3>. QED
      BY <2>8, <3>3
  <2>. QED
    BY <2>6, <2>7, <2>8
<1>2. IInv => FleetReachesPorts
  BY <1>1 DEF IInv
<1>. QED
  BY <1>2, Invariance, PTL
===========================================================================
