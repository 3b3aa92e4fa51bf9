------------------------- MODULE SwosDeployProofs -------------------------
(***************************************************************************)
(* What SwosDeploy guarantees for any number of ports, of invocations, of  *)
(* pushes, edits and faults, any firmware and any document to start with.  *)
(*                                                                         *)
(* The codec first, by itself.  The tables of _encode and of _decode are   *)
(* inverse to each other, section by section (MaskTables and after); the   *)
(* text loses nothing (FileOfSerialize).  So what is read from sections is *)
(* known when each of them comes from some document, and not all from the  *)
(* same one, and lacks the keys of some set U (Written, PortOfWritten and  *)
(* after).  With U empty that is reading back a document (DecodeOfEncode), *)
(* with the keys the firmware does not know it is what a pull gives and a  *)
(* push of it leaves (EncodeOfDecode).                                     *)
(*                                                                         *)
(* The invariant then says that the switch holds, section by section, what *)
(* some document has there (DeviceInv); of an invocation which of its      *)
(* sections are in the switch (WrittenInv), and that what keeps one out is *)
(* a lock that it has turned itself and has behind it (LockInv).           *)
(***************************************************************************)
EXTENDS SwosDeploy, TLAPS, SequenceTheorems

----------------------------------------------------------------------------
(* The tables                                                              *)

LEMMA Sections10 ==
  /\ Len(SectionOrder) = 10 /\ DOMAIN SectionOrder = 1 .. 10
  /\ Range(SectionOrder) = {"vlan.b", "lacp.b", ".pwd.b", "snmp.b", "rstp.b",
                            "link.b", "fwd.b", "sys.b", "acl.b", "host.b"}
  /\ \A i \in 1 .. 10 : SectionOrder[i] \in Range(SectionOrder)
  /\ \A i, j \in 1 .. 10 : SectionOrder[i] = SectionOrder[j] => i = j
  /\ \A s \in Range(SectionOrder) : \E i \in 1 .. 10 : SectionOrder[i] = s
  /\ SectionOrder[3] = ".pwd.b" /\ SectionOrder[8] = "sys.b"
<1>1. Len(SectionOrder) = 10 /\ DOMAIN SectionOrder = 1 .. 10
  BY DEF SectionOrder
<1>2. \A i \in 1 .. 10 : i \in {1, 2, 3, 4, 5, 6, 7, 8, 9, 10}
  OBVIOUS
<1>3. /\ SectionOrder[1] = "vlan.b" /\ SectionOrder[2] = "lacp.b" /\ SectionOrder[3] = ".pwd.b"
      /\ SectionOrder[4] = "snmp.b" /\ SectionOrder[5] = "rstp.b" /\ SectionOrder[6] = "link.b"
      /\ SectionOrder[7] = "fwd.b" /\ SectionOrder[8] = "sys.b" /\ SectionOrder[9] = "acl.b"
      /\ SectionOrder[10] = "host.b"
  BY DEF SectionOrder
<1>4. Range(SectionOrder) = {SectionOrder[i] : i \in 1 .. 10}
  BY <1>1 DEF Range
<1>5. Range(SectionOrder) = {"vlan.b", "lacp.b", ".pwd.b", "snmp.b", "rstp.b",
                             "link.b", "fwd.b", "sys.b", "acl.b", "host.b"}
  BY <1>2, <1>3, <1>4
<1>6. \A i, j \in 1 .. 10 : SectionOrder[i] = SectionOrder[j] => i = j
  BY <1>2, <1>3
<1>. QED
  BY <1>1, <1>3, <1>4, <1>5, <1>6

\* The flags of a port, by the section that has them.
LEMMA MaskTables ==
  /\ \A k \in DOMAIN LinkMasks : LinkMasks[k] \in DOMAIN Bits
                                 /\ Bits[LinkMasks[k]][1] = "link.b" /\ Bits[LinkMasks[k]][2] = k
  /\ \A k \in DOMAIN FwdMasks : FwdMasks[k] \in DOMAIN Bits
                                /\ Bits[FwdMasks[k]][1] = "fwd.b" /\ Bits[FwdMasks[k]][2] = k
  /\ \A f \in DOMAIN Bits :
       \/ /\ Bits[f][1] = "link.b" /\ Bits[f][2] \in DOMAIN LinkMasks
          /\ LinkMasks[Bits[f][2]] = f
       \/ /\ Bits[f][1] = "fwd.b" /\ Bits[f][2] \in DOMAIN FwdMasks
          /\ FwdMasks[Bits[f][2]] = f
BY SMTT(60) DEF LinkMasks, FwdMasks, Bits

\* The other settings of a port.
LEMMA ListTables ==
  /\ "spdc" \in DOMAIN LinkLists
  /\ \A k \in DOMAIN LinkLists : LinkLists[k] \in DOMAIN Items
                                 /\ Items[LinkLists[k]][1] = "link.b" /\ Items[LinkLists[k]][2] = k
  /\ \A k \in DOMAIN FwdLists : FwdLists[k] \in DOMAIN Items
                                /\ Items[FwdLists[k]][1] = "fwd.b" /\ Items[FwdLists[k]][2] = k
  /\ \A k \in DOMAIN LacpLists : LacpLists[k] \in DOMAIN Items
                                 /\ Items[LacpLists[k]][1] = "lacp.b" /\ Items[LacpLists[k]][2] = k
  /\ \A f \in DOMAIN Items :
       \/ /\ Items[f][1] = "link.b" /\ Items[f][2] \in DOMAIN LinkLists
          /\ LinkLists[Items[f][2]] = f
       \/ /\ Items[f][1] = "fwd.b" /\ Items[f][2] \in DOMAIN FwdLists
          /\ FwdLists[Items[f][2]] = f
       \/ /\ Items[f][1] = "lacp.b" /\ Items[f][2] \in DOMAIN LacpLists
          /\ LacpLists[Items[f][2]] = f
BY SMTT(60) DEF LinkLists, FwdLists, LacpLists, Items

\* No key of a section, and no field of a port, is in two tables.
LEMMA TablesApart ==
  /\ DOMAIN LinkMasks \intersect DOMAIN LinkLists = {}
  /\ DOMAIN FwdMasks \intersect DOMAIN FwdLists = {}
  /\ {"fp", "mrto", "fvid"} \intersect (DOMAIN FwdMasks \union DOMAIN FwdLists) = {}
  /\ DOMAIN Bits \intersect DOMAIN Items = {}
  /\ "forward_to" \notin DOMAIN Bits \union DOMAIN Items
BY SMTT(60) DEF LinkMasks, LinkLists, FwdMasks, FwdLists, Bits, Items

\* The keys a firmware may lack: none of the lists, which have no default.
LEMMA OptionalKeys ==
  /\ Optional \intersect (DOMAIN LinkLists \union DOMAIN FwdLists \union DOMAIN LacpLists) = {}
  /\ Optional \intersect {"fp", "pwd", "ena"} = {}
  /\ "ip" \in DOMAIN SysKeys \ Optional /\ SysKeys["ip"] = "ip"
BY SMTT(60) DEF Optional, LinkLists, FwdLists, LacpLists, SysKeys

\* A table of _encode and the one of _decode for the same section.
InverseTables(keys, fields) ==
  /\ \A k \in DOMAIN keys : keys[k] \in DOMAIN fields /\ fields[keys[k]] = k
  /\ \A f \in DOMAIN fields : fields[f] \in DOMAIN keys /\ keys[fields[f]] = f

LEMMA VlanTables == InverseTables(VlanKeys, VlanFields)
BY SMTT(60) DEF InverseTables, VlanKeys, VlanFields

LEMMA SysTables == InverseTables(SysKeys, SysFields)
BY SMTT(60) DEF InverseTables, SysKeys, SysFields

LEMMA SnmpTables == InverseTables(SnmpKeys, SnmpFields)
BY SMTT(60) DEF InverseTables, SnmpKeys, SnmpFields

----------------------------------------------------------------------------
(* The text                                                                *)

\* t has the first n sections, those of them that raw has.
Text(t, raw, n) ==
  /\ \E S : t \in Seq(S)
  /\ {t[i].name : i \in 1 .. Len(t)} = {SectionOrder[k] : k \in 1 .. n} \intersect DOMAIN raw
  /\ \A i \in 1 .. Len(t) : t[i].value = raw[t[i].name]
  /\ \A i, j \in 1 .. Len(t) : t[i].name = t[j].name => i = j
  /\ {SectionOrder[k] : k \in 1 .. n} \subseteq DOMAIN raw =>
       Len(t) = n /\ \A i \in 1 .. n : t[i].name = SectionOrder[i]

Entry(raw, i) ==
  IF SectionOrder[i] \in DOMAIN raw
  THEN <<[name |-> SectionOrder[i], value |-> raw[SectionOrder[i]]]>> ELSE <<>>

LEMMA TextGrows ==
  ASSUME NEW raw, NEW n \in 0 .. 9, NEW t, Text(t, raw, n)
  PROVE  Text(t \o Entry(raw, n + 1), raw, n + 1)
<1> DEFINE s == SectionOrder[n + 1]
           N(m) == {SectionOrder[k] : k \in 1 .. m}
           e == [name |-> s, value |-> raw[s]]
           u == t \o Entry(raw, n + 1)
<1>1. PICK S : t \in Seq(S)
  BY DEF Text
<1>2. N(n + 1) = N(n) \union {s}
  <2>1. 1 .. n + 1 = (1 .. n) \union {n + 1}
    OBVIOUS
  <2>. QED
    BY <2>1
<1>3. s \notin N(n)
  BY Sections10
<1>4. CASE s \notin DOMAIN raw
  <2>1. u = t
    BY <1>1, <1>4 DEF Entry
  <2>2. N(n + 1) \intersect DOMAIN raw = N(n) \intersect DOMAIN raw
    BY <1>2, <1>4
  <2>3. ~(N(n + 1) \subseteq DOMAIN raw)
    BY <1>2, <1>4
  <2>4. Text(t, raw, n + 1)
    BY <2>2, <2>3 DEF Text
  <2>. QED
    BY <2>1, <2>4
<1>5. CASE s \in DOMAIN raw
  <2>1. u = t \o <<e>> /\ Len(t) \in Nat
    BY <1>1, <1>5 DEF Entry
  <2>2. u \in Seq(S \union {e})
    <3> HIDE DEF e, u
    <3>1. t \in Seq(S \union {e}) /\ <<e>> \in Seq(S \union {e})
      BY <1>1, SeqMonotonic
    <3>. QED
      BY <2>1, <3>1, ConcatProperties
  <2>3. /\ Len(u) = Len(t) + 1 /\ u[Len(t) + 1] = e
        /\ \A i \in 1 .. Len(t) : u[i] = t[i]
    BY <1>1, <2>1
  <2> HIDE DEF u
  <2>4. \A i \in 1 .. Len(u) : i \in 1 .. Len(t) \/ i = Len(t) + 1
    BY <2>1, <2>3
  <2>5. e.name = s /\ e.value = raw[s]
    OBVIOUS
  <2> HIDE DEF e
  <2>6. {u[i].name : i \in 1 .. Len(u)} = {t[i].name : i \in 1 .. Len(t)} \union {s}
    <3>1. 1 .. Len(u) = (1 .. Len(t)) \union {Len(t) + 1}
      BY <2>1, <2>3
    <3>. QED
      BY <2>3, <2>5, <3>1
  <2>7. {u[i].name : i \in 1 .. Len(u)} = N(n + 1) \intersect DOMAIN raw
    BY <1>2, <1>5, <2>6 DEF Text
  <2>8. \A i \in 1 .. Len(u) : u[i].value = raw[u[i].name]
    BY <2>3, <2>4, <2>5 DEF Text
  <2>9. \A i \in 1 .. Len(t) : t[i].name # s
    BY <1>3 DEF Text
  <2>10. \A i, j \in 1 .. Len(u) : u[i].name = u[j].name => i = j
    BY <2>3, <2>4, <2>5, <2>9 DEF Text
  <2>11. N(n + 1) \subseteq DOMAIN raw =>
           Len(u) = n + 1 /\ \A i \in 1 .. n + 1 : u[i].name = SectionOrder[i]
    <3> SUFFICES ASSUME N(n + 1) \subseteq DOMAIN raw
                 PROVE  Len(u) = n + 1 /\ \A i \in 1 .. n + 1 : u[i].name = SectionOrder[i]
      OBVIOUS
    <3>1. Len(t) = n /\ \A i \in 1 .. n : t[i].name = SectionOrder[i]
      BY <1>2 DEF Text
    <3>. QED
      BY <2>3, <2>4, <2>5, <3>1
  <2> HIDE DEF N
  <2>. QED
    BY <2>2, <2>7, <2>8, <2>10, <2>11 DEF Text, N, u
<1>. QED
  BY <1>4, <1>5

LEMMA SerializeIs == ASSUME NEW raw PROVE Text(Serialize(raw), raw, 10)
<1> DEFINE t0 == <<>>
<1>1. Text(t0, raw, 0)
  <2>1. t0 \in Seq({}) /\ Len(t0) = 0 /\ 1 .. 0 = {}
    OBVIOUS
  <2>. QED
    BY <2>1 DEF Text
<1> DEFINE t1 == t0 \o Entry(raw, 1)
           t2 == t1 \o Entry(raw, 2)
           t3 == t2 \o Entry(raw, 3)
           t4 == t3 \o Entry(raw, 4)
           t5 == t4 \o Entry(raw, 5)
           t6 == t5 \o Entry(raw, 6)
           t7 == t6 \o Entry(raw, 7)
           t8 == t7 \o Entry(raw, 8)
           t9 == t8 \o Entry(raw, 9)
           t10 == t9 \o Entry(raw, 10)
<1>2. Serialize(raw) = t10
  BY DEF Serialize, Entry
<1> HIDE DEF t0, t1, t2, t3, t4, t5, t6, t7, t8, t9, t10
<1>3. Text(t1, raw, 1)
  BY <1>1, TextGrows DEF t1
<1>4. Text(t2, raw, 2)
  BY <1>3, TextGrows DEF t2
<1>5. Text(t3, raw, 3)
  BY <1>4, TextGrows DEF t3
<1>6. Text(t4, raw, 4)
  BY <1>5, TextGrows DEF t4
<1>7. Text(t5, raw, 5)
  BY <1>6, TextGrows DEF t5
<1>8. Text(t6, raw, 6)
  BY <1>7, TextGrows DEF t6
<1>9. Text(t7, raw, 7)
  BY <1>8, TextGrows DEF t7
<1>10. Text(t8, raw, 8)
  BY <1>9, TextGrows DEF t8
<1>11. Text(t9, raw, 9)
  BY <1>10, TextGrows DEF t9
<1>. QED
  BY <1>2, <1>11, TextGrows DEF t10

\* The text has every section there is.
LEMMA FileOfSerialize ==
  ASSUME NEW raw, raw = [s \in DOMAIN raw |-> raw[s]], DOMAIN raw \subseteq Range(SectionOrder)
  PROVE  File(Serialize(raw)) = raw
<1> DEFINE t == Serialize(raw)
           last(s) == SelectLastInSeq(t, LAMBDA e : e.name = s)
<1>1. Text(t, raw, 10)
  BY SerializeIs
<1> HIDE DEF t
<1>2. {SectionOrder[k] : k \in 1 .. 10} = Range(SectionOrder)
  BY Sections10 DEF Range
<1>3. {t[i].name : i \in 1 .. Len(t)} = DOMAIN raw
  BY <1>1, <1>2 DEF Text
<1>4. DOMAIN t = 1 .. Len(t)
  BY <1>1 DEF Text
<1>5. ASSUME NEW s \in DOMAIN raw PROVE t[last(s)].value = raw[s]
  <2>1. PICK i \in 1 .. Len(t) : t[i].name = s
    BY <1>3
  <2>2. {j \in 1 .. Len(t) : t[j].name = s} = {i}
    BY <1>1, <2>1 DEF Text
  <2>3. Len(t) \in Nat
    BY <1>1 DEF Text
  <2>4. Max({i}) = i
    BY <2>1, <2>3 DEF Max
  <2>5. last(s) = i
    BY <2>2, <2>4 DEF SelectLastInSeq
  <2>. QED
    BY <1>1, <2>1, <2>5 DEF Text
<1>6. File(t) = [s \in DOMAIN raw |-> t[last(s)].value]
  BY <1>3, <1>4 DEF File
<1>. QED
  BY <1>5, <1>6 DEF t

----------------------------------------------------------------------------
(* Sections and what is read from them                                     *)

IsFunction(f) == f = [x \in DOMAIN f |-> f[x]]

IsJoin(j, r, s) ==
  /\ DOMAIN j = DOMAIN r \union DOMAIN s /\ IsFunction(j)
  /\ \A k \in DOMAIN r : j[k] = r[k]
  /\ \A k \in DOMAIN s : j[k] = s[k]

LEMMA JoinIs ==
  ASSUME NEW r, NEW s, DOMAIN r \intersect DOMAIN s = {}, NEW j, j = Joined(r, s)
  PROVE  IsJoin(j, r, s)
<1> DEFINE F(k) == IF k \in DOMAIN r THEN r[k] ELSE s[k]
<1>1. j = [k \in DOMAIN r \union DOMAIN s |-> F(k)]
  BY DEF Joined
<1> HIDE DEF F
<1>2. DOMAIN j = DOMAIN r \union DOMAIN s /\ IsFunction(j)
  BY <1>1 DEF IsFunction
<1>3. \A k \in DOMAIN r \union DOMAIN s : j[k] = F(k)
  BY <1>1
<1>. QED
  BY <1>2, <1>3 DEF F, IsJoin

Others(d) ==
  [fp |-> [p \in Ports |-> d.ports[p].forward_to], mrto |-> d.mirror, fvid |-> d.filter_vid]

LEMMA EncodeIs ==
  ASSUME NEW d
  PROVE  /\ DOMAIN Encode(d) = Range(SectionOrder)
         /\ IsFunction(Encode(d))
         /\ Encode(d)["vlan.b"] = [i \in DOMAIN d.vlans |-> Fields(VlanKeys, d.vlans[i])]
         /\ Encode(d)["lacp.b"] = Lists(LacpLists, d.ports)
         /\ Encode(d)[".pwd.b"] = [pwd |-> d.password]
         /\ Encode(d)["snmp.b"] = Fields(SnmpKeys, d.snmp)
         /\ Encode(d)["rstp.b"] = [ena |-> d.rstp]
         /\ Encode(d)["link.b"] = Joined(Masks(LinkMasks, d.ports), Lists(LinkLists, d.ports))
         /\ Encode(d)["fwd.b"] = Joined(Joined(Masks(FwdMasks, d.ports), Lists(FwdLists, d.ports)), Others(d))
         /\ Encode(d)["sys.b"] = Fields(SysKeys, d.system)
         /\ Encode(d)["acl.b"] = d.acl
         /\ Encode(d)["host.b"] = d.hosts
<1>1. DOMAIN Encode(d) = Range(SectionOrder) /\ IsFunction(Encode(d))
  BY DEF Encode, IsFunction
<1> HIDE DEF Range
<1>2. \A x \in {"vlan.b", "lacp.b", ".pwd.b", "snmp.b", "rstp.b",
                "link.b", "fwd.b", "sys.b", "acl.b", "host.b"} : x \in Range(SectionOrder)
  BY Sections10
<1>3. /\ Encode(d)["vlan.b"] = [i \in DOMAIN d.vlans |-> Fields(VlanKeys, d.vlans[i])]
      /\ Encode(d)["lacp.b"] = Lists(LacpLists, d.ports)
      /\ Encode(d)[".pwd.b"] = [pwd |-> d.password]
      /\ Encode(d)["snmp.b"] = Fields(SnmpKeys, d.snmp)
      /\ Encode(d)["rstp.b"] = [ena |-> d.rstp]
  BY <1>2 DEF Encode, Section, Others
<1>4. /\ Encode(d)["link.b"] = Joined(Masks(LinkMasks, d.ports), Lists(LinkLists, d.ports))
      /\ Encode(d)["fwd.b"] = Joined(Joined(Masks(FwdMasks, d.ports), Lists(FwdLists, d.ports)), Others(d))
  BY <1>2 DEF Encode, Section, Others
<1>5. /\ Encode(d)["sys.b"] = Fields(SysKeys, d.system)
      /\ Encode(d)["acl.b"] = d.acl
      /\ Encode(d)["host.b"] = d.hosts
  BY <1>2 DEF Encode, Section, Others
<1>. QED
  BY <1>1, <1>3, <1>4, <1>5

\* link.b and fwd.b, key by key.
IsLink(link, d) ==
  /\ DOMAIN link = DOMAIN LinkMasks \union DOMAIN LinkLists /\ IsFunction(link)
  /\ \A k \in DOMAIN LinkMasks : link[k] = {p \in Ports : d.ports[p][LinkMasks[k]] = 1}
  /\ \A k \in DOMAIN LinkLists : link[k] = [p \in Ports |-> d.ports[p][LinkLists[k]]]
IsFwd(fwd, d) ==
  /\ DOMAIN fwd = DOMAIN FwdMasks \union DOMAIN FwdLists \union {"fp", "mrto", "fvid"}
  /\ IsFunction(fwd)
  /\ \A k \in DOMAIN FwdMasks : fwd[k] = {p \in Ports : d.ports[p][FwdMasks[k]] = 1}
  /\ \A k \in DOMAIN FwdLists : fwd[k] = [p \in Ports |-> d.ports[p][FwdLists[k]]]
  /\ fwd["fp"] = [p \in Ports |-> d.ports[p].forward_to]
  /\ fwd["mrto"] = d.mirror /\ fwd["fvid"] = d.filter_vid

LEMMA LinkIs ==
  ASSUME NEW d, NEW link, link = Encode(d)["link.b"]
  PROVE  IsLink(link, d)
<1> DEFINE m == Masks(LinkMasks, d.ports)
           l == Lists(LinkLists, d.ports)
<1>1. link = Joined(m, l)
  BY EncodeIs
<1>2. /\ DOMAIN m = DOMAIN LinkMasks /\ DOMAIN l = DOMAIN LinkLists
      /\ \A k \in DOMAIN LinkMasks : m[k] = {p \in Ports : d.ports[p][LinkMasks[k]] = 1}
      /\ \A k \in DOMAIN LinkLists : l[k] = [p \in Ports |-> d.ports[p][LinkLists[k]]]
  BY DEF Masks, Lists
<1> HIDE DEF m, l
<1>3. DOMAIN m \intersect DOMAIN l = {}
  BY <1>2, TablesApart
<1>4. IsJoin(link, m, l)
  BY <1>1, <1>3, JoinIs
<1>. QED
  BY <1>2, <1>4 DEF IsJoin, IsLink

LEMMA FwdIs ==
  ASSUME NEW d, NEW fwd, fwd = Encode(d)["fwd.b"]
  PROVE  IsFwd(fwd, d)
<1> DEFINE m == Masks(FwdMasks, d.ports)
           l == Lists(FwdLists, d.ports)
           o == Others(d)
<1>1. fwd = Joined(Joined(m, l), o)
  BY EncodeIs
<1>2. /\ DOMAIN m = DOMAIN FwdMasks /\ DOMAIN l = DOMAIN FwdLists
      /\ \A k \in DOMAIN FwdMasks : m[k] = {p \in Ports : d.ports[p][FwdMasks[k]] = 1}
      /\ \A k \in DOMAIN FwdLists : l[k] = [p \in Ports |-> d.ports[p][FwdLists[k]]]
  BY DEF Masks, Lists
<1>3. /\ DOMAIN o = {"fp", "mrto", "fvid"}
      /\ o["fp"] = [p \in Ports |-> d.ports[p].forward_to]
      /\ o["mrto"] = d.mirror /\ o["fvid"] = d.filter_vid
  BY DEF Others
<1> HIDE DEF m, l, o
<1> DEFINE n == Joined(m, l)
<1>4. DOMAIN m \intersect DOMAIN l = {}
  BY <1>2, TablesApart
<1>5. IsJoin(n, m, l)
  <2>1. n = Joined(m, l)
    OBVIOUS
  <2> HIDE DEF n
  <2>. QED
    BY <1>4, <2>1, JoinIs
<1>6. fwd = Joined(n, o)
  BY <1>1
<1> HIDE DEF n
<1>7. DOMAIN n \intersect DOMAIN o = {}
  BY <1>2, <1>3, <1>5, TablesApart DEF IsJoin
<1>8. IsJoin(fwd, n, o)
  BY <1>6, <1>7, JoinIs
<1>. QED
  BY <1>2, <1>3, <1>5, <1>8 DEF IsJoin, IsFwd

\* A section without the keys in U.
Cut(U, rec) == [k \in DOMAIN rec \ U |-> rec[k]]
CutSection(U, s, v) ==
  CASE s = "vlan.b" -> [i \in DOMAIN v |-> Cut(U, v[i])]
    [] s \in {"acl.b", "host.b"} -> v
    [] OTHER -> Cut(U, v)

LEMMA KnownCuts == ASSUME NEW s, NEW v PROVE Known(s, v) = CutSection(Unknown, s, v)
BY DEF Known, CutSection, Cut

LEMMA CutNothing ==
  ASSUME NEW d, IsDocument(d), NEW s \in Range(SectionOrder)
  PROVE  CutSection({}, s, Encode(d)[s]) = Encode(d)[s]
<1> DEFINE v == Encode(d)[s]
<1>1. ASSUME NEW r, IsFunction(r) PROVE Cut({}, r) = r
  BY <1>1 DEF Cut, IsFunction
<1>2. ASSUME NEW r, NEW keys PROVE Cut({}, Fields(keys, r)) = Fields(keys, r)
  BY DEF Cut, Fields
<1>3. CASE s = "vlan.b"
  <2>1. v = [i \in DOMAIN d.vlans |-> Fields(VlanKeys, d.vlans[i])]
    BY <1>3, EncodeIs
  <2> HIDE DEF v
  <2>2. DOMAIN v = DOMAIN d.vlans /\ \A i \in DOMAIN v : Cut({}, v[i]) = v[i]
    BY <1>2, <2>1
  <2>3. CutSection({}, s, v) = [i \in DOMAIN v |-> Cut({}, v[i])]
    BY <1>3 DEF CutSection
  <2>4. v = [i \in DOMAIN v |-> v[i]]
    BY <2>1
  <2>5. [i \in DOMAIN v |-> Cut({}, v[i])] = [i \in DOMAIN v |-> v[i]]
    BY <2>2
  <2>. QED
    BY <2>3, <2>4, <2>5 DEF v
<1>4. CASE s \in {"acl.b", "host.b"}
  BY <1>4 DEF CutSection
<1>5. CASE s \in {"lacp.b", ".pwd.b", "snmp.b", "rstp.b", "link.b", "fwd.b", "sys.b"}
  <2>1. IsFunction(v)
    <3>1. CASE s = "lacp.b"
      <4>1. v = Lists(LacpLists, d.ports)
        BY <3>1, EncodeIs
      <4>. QED
        BY <4>1 DEF Lists, IsFunction
    <3>2. CASE s = ".pwd.b"
      <4>1. v = [pwd |-> d.password]
        BY <3>2, EncodeIs
      <4>. QED
        BY <4>1 DEF IsFunction
    <3>3. CASE s = "rstp.b"
      <4>1. v = [ena |-> d.rstp]
        BY <3>3, EncodeIs
      <4>. QED
        BY <4>1 DEF IsFunction
    <3>4. CASE s = "snmp.b"
      <4>1. v = Fields(SnmpKeys, d.snmp)
        BY <3>4, EncodeIs
      <4>. QED
        BY <4>1 DEF Fields, IsFunction
    <3>5. CASE s = "sys.b"
      <4>1. v = Fields(SysKeys, d.system)
        BY <3>5, EncodeIs
      <4>. QED
        BY <4>1 DEF Fields, IsFunction
    <3>6. CASE s = "link.b"
      BY <3>6, LinkIs DEF IsLink
    <3>7. CASE s = "fwd.b"
      BY <3>7, FwdIs DEF IsFwd
    <3>. QED
      BY <1>5, <3>1, <3>2, <3>3, <3>4, <3>5, <3>6, <3>7
  <2>2. CutSection({}, s, v) = Cut({}, v)
    <3> HIDE DEF v
    <3>. QED
      BY <1>5 DEF CutSection
  <2> HIDE DEF v
  <2>3. CutSection({}, s, v) = v
    BY <1>1, <2>1, <2>2
  <2>. QED
    BY <2>3 DEF v
<1>. QED
  BY <1>3, <1>4, <1>5, Sections10

\* Each section of raw is that of the document of[s], without the keys in U;
\* a table that is not there is empty.
Written(raw, U, of) ==
  /\ DOMAIN raw \subseteq Range(SectionOrder)
  /\ \A s \in Range(SectionOrder) : IsDocument(of[s])
  /\ \A s \in DOMAIN raw : raw[s] = CutSection(U, s, Encode(of[s])[s])
  /\ \A s \in Range(SectionOrder) \ DOMAIN raw :
       s \in {"acl.b", "host.b"} /\ Encode(of[s])[s] = Empty

Sectionwise(raw, U, of) ==
  /\ \A s \in {"lacp.b", ".pwd.b", "snmp.b", "rstp.b", "link.b", "fwd.b", "sys.b"} :
       raw[s] = Cut(U, Encode(of[s])[s])
  /\ raw["vlan.b"] = [i \in DOMAIN Encode(of["vlan.b"])["vlan.b"] |->
                        Cut(U, Encode(of["vlan.b"])["vlan.b"][i])]
  /\ \A s \in {"acl.b", "host.b"} : Get(raw, s, Empty) = Encode(of[s])[s]

LEMMA WrittenIs ==
  ASSUME NEW raw, NEW U \in SUBSET Optional, NEW of, Written(raw, U, of)
  PROVE  Sectionwise(raw, U, of)
BY Sections10 DEF Written, CutSection, Get, Sectionwise

\* The port that is read from link.b, fwd.b and lacp.b.
PortIs(c, U, of, p) ==
  /\ IsFunction(c) /\ DOMAIN c = DOMAIN Bits \union DOMAIN Items \union {"forward_to"}
  /\ \A f \in DOMAIN Bits : c[f] = IF Bits[f][2] \in U THEN 0 ELSE of[Bits[f][1]].ports[p][f]
  /\ \A f \in DOMAIN Items : c[f] = of[Items[f][1]].ports[p][f]
  /\ c.forward_to = of["fwd.b"].ports[p].forward_to

LEMMA PortOfWritten ==
  ASSUME NEW raw, NEW U \in SUBSET Optional, NEW of, Written(raw, U, of), NEW p \in Ports
  PROVE  PortIs(ReadPort(raw, p), U, of, p)
<1> DEFINE link == Encode(of["link.b"])["link.b"]
           fwd == Encode(of["fwd.b"])["fwd.b"]
           lacp == Encode(of["lacp.b"])["lacp.b"]
<1>1. raw["link.b"] = Cut(U, link) /\ raw["fwd.b"] = Cut(U, fwd) /\ raw["lacp.b"] = Cut(U, lacp)
  <2>1. Sectionwise(raw, U, of)
    BY WrittenIs
  <2>. QED
    BY <2>1 DEF Sectionwise
<1>2. IsLink(link, of["link.b"])
  <2>1. link = Encode(of["link.b"])["link.b"]
    OBVIOUS
  <2> HIDE DEF link
  <2>. QED
    BY <2>1, LinkIs
<1>3. IsFwd(fwd, of["fwd.b"])
  <2>1. fwd = Encode(of["fwd.b"])["fwd.b"]
    OBVIOUS
  <2> HIDE DEF fwd
  <2>. QED
    BY <2>1, FwdIs
<1>4. /\ DOMAIN lacp = DOMAIN LacpLists
      /\ \A k \in DOMAIN LacpLists : lacp[k] = [q \in Ports |-> of["lacp.b"].ports[q][LacpLists[k]]]
  <2>1. lacp = Lists(LacpLists, of["lacp.b"].ports)
    BY EncodeIs
  <2> HIDE DEF lacp
  <2>. QED
    BY <2>1 DEF Lists
<1> HIDE DEF link, fwd, lacp
<1> DEFINE c == ReadPort(raw, p)
           b == [f \in DOMAIN Bits |-> Bit(Get(raw[Bits[f][1]], Bits[f][2], {}), p)]
           i == [f \in DOMAIN Items |-> raw[Items[f][1]][Items[f][2]][p]]
           o == [forward_to |-> raw["fwd.b"].fp[p]]
<1>5. \A s \in {"link.b", "fwd.b"} : \A f \in DOMAIN Bits : of[s].ports[p][f] \in 0 .. 1
  <2>1. \A s \in {"link.b", "fwd.b"} : IsDocument(of[s])
    BY Sections10 DEF Written
  <2>. QED
    BY <2>1 DEF IsDocument, IsPort
<1>6. ASSUME NEW f \in DOMAIN Bits
      PROVE  b[f] = IF Bits[f][2] \in U THEN 0 ELSE of[Bits[f][1]].ports[p][f]
  <2> DEFINE k == Bits[f][2]
  <2>1. b[f] = Bit(Get(raw[Bits[f][1]], k, {}), p)
    OBVIOUS
  <2> HIDE DEF k, b
  <2>2. CASE Bits[f][1] = "link.b" /\ k \in DOMAIN LinkMasks /\ LinkMasks[k] = f
    <3>1. Get(raw["link.b"], k, {}) =
            IF k \in U THEN {} ELSE {q \in Ports : of["link.b"].ports[q][f] = 1}
      BY <1>1, <1>2, <2>2 DEF Get, Cut, IsLink
    <3>. QED
      BY <1>5, <2>1, <2>2, <3>1 DEF Bit, k
  <2>3. CASE Bits[f][1] = "fwd.b" /\ k \in DOMAIN FwdMasks /\ FwdMasks[k] = f
    <3>1. Get(raw["fwd.b"], k, {}) =
            IF k \in U THEN {} ELSE {q \in Ports : of["fwd.b"].ports[q][f] = 1}
      <4>1. k \in DOMAIN fwd /\ fwd[k] = {q \in Ports : of["fwd.b"].ports[q][f] = 1}
        BY <1>3, <2>3 DEF IsFwd
      <4>. QED
        BY <1>1, <4>1 DEF Get, Cut
    <3>. QED
      BY <1>5, <2>1, <2>3, <3>1 DEF Bit, k
  <2>. QED
    BY <2>2, <2>3, MaskTables DEF k
<1>7. ASSUME NEW f \in DOMAIN Items PROVE i[f] = of[Items[f][1]].ports[p][f]
  <2> DEFINE k == Items[f][2]
  <2>1. i[f] = raw[Items[f][1]][k][p]
    OBVIOUS
  <2> HIDE DEF k, i
  <2>2. CASE Items[f][1] = "link.b" /\ k \in DOMAIN LinkLists /\ LinkLists[k] = f
    <3>1. k \notin U
      BY <2>2, OptionalKeys
    <3>2. raw["link.b"][k] = [q \in Ports |-> of["link.b"].ports[q][f]]
      BY <1>1, <1>2, <2>2, <3>1 DEF Cut, IsLink
    <3>. QED
      BY <2>1, <2>2, <3>2
  <2>3. CASE Items[f][1] = "fwd.b" /\ k \in DOMAIN FwdLists /\ FwdLists[k] = f
    <3>1. k \notin U
      BY <2>3, OptionalKeys
    <3>2. raw["fwd.b"][k] = [q \in Ports |-> of["fwd.b"].ports[q][f]]
      BY <1>1, <1>3, <2>3, <3>1 DEF Cut, IsFwd
    <3>. QED
      BY <2>1, <2>3, <3>2
  <2>4. CASE Items[f][1] = "lacp.b" /\ k \in DOMAIN LacpLists /\ LacpLists[k] = f
    <3>1. k \notin U
      BY <2>4, OptionalKeys
    <3>2. raw["lacp.b"][k] = [q \in Ports |-> of["lacp.b"].ports[q][f]]
      BY <1>1, <1>4, <2>4, <3>1 DEF Cut
    <3>. QED
      BY <2>1, <2>4, <3>2
  <2>. QED
    BY <2>2, <2>3, <2>4, ListTables DEF k
<1>8. o["forward_to"] = of["fwd.b"].ports[p].forward_to /\ DOMAIN o = {"forward_to"}
  <2>1. "fp" \notin U
    BY OptionalKeys
  <2>2. raw["fwd.b"].fp = [q \in Ports |-> of["fwd.b"].ports[q].forward_to]
    BY <1>1, <1>3, <2>1 DEF Cut, IsFwd
  <2>. QED
    BY <2>2
<1>9. c = Joined(Joined(b, i), o)
  BY DEF ReadPort
<1>10. DOMAIN b = DOMAIN Bits /\ DOMAIN i = DOMAIN Items
  OBVIOUS
<1> HIDE DEF b, i, o, c
<1> DEFINE n == Joined(b, i)
<1>11. IsJoin(n, b, i)
  <2>1. n = Joined(b, i)
    OBVIOUS
  <2>2. DOMAIN b \intersect DOMAIN i = {}
    BY <1>10, TablesApart
  <2> HIDE DEF n
  <2>. QED
    BY <2>1, <2>2, JoinIs
<1>12. c = Joined(n, o)
  BY <1>9
<1> HIDE DEF n
<1>13. DOMAIN n \intersect DOMAIN o = {}
  BY <1>8, <1>10, <1>11, TablesApart DEF IsJoin
<1>14. IsJoin(c, n, o)
  BY <1>12, <1>13, JoinIs
<1>15. /\ DOMAIN c = DOMAIN Bits \union DOMAIN Items \union {"forward_to"}
       /\ \A f \in DOMAIN Bits : c[f] = b[f]
       /\ \A f \in DOMAIN Items : c[f] = i[f]
       /\ c["forward_to"] = o["forward_to"]
  BY <1>8, <1>10, <1>11, <1>14 DEF IsJoin
<1>16. PortIs(c, U, of, p)
  BY <1>6, <1>7, <1>8, <1>14, <1>15 DEF PortIs, IsJoin
<1>. QED
  BY <1>16 DEF c

\* A record that is read from a section, or from an entry of vlan.b.
LEMMA RecordOf ==
  ASSUME NEW keys, NEW fields, InverseTables(keys, fields), NEW U,
         NEW rec \in [DOMAIN fields -> 0 .. 1],
         NEW r, r = Record(fields, Cut(U, Fields(keys, rec)))
  PROVE  /\ r \in [DOMAIN fields -> 0 .. 1]
         /\ Cut(U, Fields(keys, r)) = Cut(U, Fields(keys, rec))
         /\ U = {} => r = rec
<1> DEFINE cut == Cut(U, Fields(keys, rec))
<1>1. /\ DOMAIN cut = DOMAIN keys \ U
      /\ \A k \in DOMAIN keys \ U : cut[k] = rec[keys[k]]
  BY DEF Cut, Fields
<1>2. r = [f \in DOMAIN fields |-> IF fields[f] \in DOMAIN cut THEN cut[fields[f]] ELSE 0]
  BY DEF Record, Get
<1> HIDE DEF cut
<1>3. \A f \in DOMAIN fields : r[f] = IF fields[f] \in U THEN 0 ELSE rec[f]
  BY <1>1, <1>2 DEF InverseTables
<1>4. r \in [DOMAIN fields -> 0 .. 1]
  BY <1>2, <1>3
<1>5. \A k \in DOMAIN keys \ U : r[keys[k]] = rec[keys[k]]
  BY <1>3 DEF InverseTables
<1>6. Cut(U, Fields(keys, r)) = [k \in DOMAIN keys \ U |-> r[keys[k]]]
  BY DEF Cut, Fields
<1>7. Cut(U, Fields(keys, rec)) = [k \in DOMAIN keys \ U |-> rec[keys[k]]]
  BY DEF Cut, Fields
<1>8. U = {} => r = rec
  BY <1>3, <1>4
<1>. QED
  BY <1>4, <1>5, <1>6, <1>7, <1>8

\* The fields of the document that is read, where b = Decode(raw).
PortsOf(b, U, of) ==
  /\ b.ports = [p \in Ports |-> b.ports[p]]
  /\ \A p \in Ports : PortIs(b.ports[p], U, of, p) /\ IsPort(b.ports[p])

LEMMA DecodedPorts ==
  ASSUME NEW raw, NEW U \in SUBSET Optional, NEW of, Written(raw, U, of)
  PROVE  PortsOf(Decode(raw), U, of)
<1> DEFINE b == Decode(raw)
<1>1. Sectionwise(raw, U, of)
  BY WrittenIs
<1>2. raw["link.b"].spdc = [p \in Ports |-> of["link.b"].ports[p][LinkLists["spdc"]]]
  <2> DEFINE link == Encode(of["link.b"])["link.b"]
  <2>1. IsLink(link, of["link.b"])
    <3>1. link = Encode(of["link.b"])["link.b"]
      OBVIOUS
    <3> HIDE DEF link
    <3>. QED
      BY <3>1, LinkIs
  <2>2. raw["link.b"] = Cut(U, link)
    BY <1>1 DEF Sectionwise
  <2> HIDE DEF link
  <2>3. "spdc" \in DOMAIN LinkLists /\ "spdc" \notin U
    BY ListTables, OptionalKeys
  <2>. QED
    BY <2>1, <2>2, <2>3 DEF Cut, IsLink
<1>3. b.ports = [p \in Ports |-> ReadPort(raw, p)]
  BY <1>2 DEF Decode
<1> HIDE DEF b
<1>4. ASSUME NEW p \in Ports PROVE PortIs(b.ports[p], U, of, p) /\ IsPort(b.ports[p])
  <2> DEFINE c == b.ports[p]
  <2>1. PortIs(c, U, of, p)
    BY <1>3, PortOfWritten
  <2>2. \A s \in Range(SectionOrder) : IsPort(of[s].ports[p])
    BY DEF Written, IsDocument
  <2>3. \A f \in DOMAIN Bits : Bits[f][1] \in Range(SectionOrder)
    BY MaskTables, Sections10
  <2>4. \A f \in DOMAIN Items : Items[f][1] \in Range(SectionOrder)
    BY ListTables, Sections10
  <2> HIDE DEF c
  <2>5. ASSUME NEW f \in DOMAIN Bits PROVE c[f] \in 0 .. 1
    <3>1. IsPort(of[Bits[f][1]].ports[p])
      BY <2>2, <2>3
    <3>2. of[Bits[f][1]].ports[p][f] \in 0 .. 1
      BY <3>1 DEF IsPort
    <3>. QED
      BY <2>1, <3>2 DEF PortIs
  <2>6. \A f \in DOMAIN Items : c[f] \in 0 .. 1
    BY <2>1, <2>2, <2>4 DEF PortIs, IsPort
  <2>7. c = [f \in DOMAIN Bits \union DOMAIN Items \union {"forward_to"} |-> c[f]]
    BY <2>1 DEF PortIs, IsFunction
  <2>8. IsPort(c)
    BY <2>5, <2>6, <2>7 DEF IsPort
  <2>. QED
    BY <2>1, <2>8 DEF c
<1>5. b.ports = [p \in Ports |-> b.ports[p]]
  BY <1>3
<1>. QED
  BY <1>4, <1>5 DEF PortsOf, b

VlansOf(b, U, of) ==
  LET v == of["vlan.b"].vlans
  IN  /\ b.vlans \in Seq([DOMAIN VlanFields -> 0 .. 1]) /\ DOMAIN b.vlans = DOMAIN v
      /\ \A i \in DOMAIN v : Cut(U, Fields(VlanKeys, b.vlans[i])) = Cut(U, Fields(VlanKeys, v[i]))
      /\ U = {} => b.vlans = v

LEMMA DecodedVlans ==
  ASSUME NEW raw, NEW U \in SUBSET Optional, NEW of, Written(raw, U, of)
  PROVE  VlansOf(Decode(raw), U, of)
<1> DEFINE v == of["vlan.b"].vlans
           w == Decode(raw).vlans
           R == [DOMAIN VlanFields -> 0 .. 1]
<1>1. v \in Seq(R)
  BY Sections10 DEF Written, IsDocument
<1>2. raw["vlan.b"] = [i \in DOMAIN v |-> Cut(U, Fields(VlanKeys, v[i]))]
  <2> DEFINE e == Encode(of["vlan.b"])["vlan.b"]
  <2>1. e = [i \in DOMAIN v |-> Fields(VlanKeys, v[i])]
    BY EncodeIs
  <2>2. Sectionwise(raw, U, of)
    BY WrittenIs
  <2>3. raw["vlan.b"] = [i \in DOMAIN e |-> Cut(U, e[i])]
    BY <2>2 DEF Sectionwise
  <2> HIDE DEF e, v
  <2>. QED
    BY <2>1, <2>3
<1>3. w = [i \in DOMAIN raw["vlan.b"] |-> Record(VlanFields, raw["vlan.b"][i])]
  BY DEF Decode
<1> HIDE DEF v, w
<1>4. w = [i \in DOMAIN v |-> Record(VlanFields, Cut(U, Fields(VlanKeys, v[i])))]
  BY <1>2, <1>3
<1>5. ASSUME NEW i \in DOMAIN v
      PROVE  /\ w[i] \in R /\ Cut(U, Fields(VlanKeys, w[i])) = Cut(U, Fields(VlanKeys, v[i]))
             /\ U = {} => w[i] = v[i]
  <2>1. v[i] \in R
    BY <1>1
  <2>2. w[i] = Record(VlanFields, Cut(U, Fields(VlanKeys, v[i])))
    BY <1>4
  <2>. QED
    BY <2>1, <2>2, VlanTables, RecordOf
<1> HIDE DEF R
<1>6. DOMAIN v = 1 .. Len(v) /\ Len(v) \in Nat
  BY <1>1
<1>7. w = [i \in 1 .. Len(v) |-> w[i]] /\ \A i \in 1 .. Len(v) : w[i] \in R
  BY <1>4, <1>5, <1>6
<1>8. w \in Seq(R)
  BY <1>6, <1>7, IsASeq
<1>9. U = {} => w = v
  <2>1. v = [i \in 1 .. Len(v) |-> v[i]]
    BY <1>1, <1>6
  <2>. QED
    BY <1>5, <1>6, <1>7, <2>1
<1>10. DOMAIN w = DOMAIN v
  BY <1>4
<1>. QED
  BY <1>5, <1>8, <1>9, <1>10 DEF VlansOf, v, w, R

RecordsOf(b, U, of) ==
  /\ b.system \in [DOMAIN SysFields -> 0 .. 1] /\ b.snmp \in [DOMAIN SnmpFields -> 0 .. 1]
  /\ Cut(U, Fields(SysKeys, b.system)) = Cut(U, Fields(SysKeys, of["sys.b"].system))
  /\ Cut(U, Fields(SnmpKeys, b.snmp)) = Cut(U, Fields(SnmpKeys, of["snmp.b"].snmp))
  /\ U = {} => b.system = of["sys.b"].system /\ b.snmp = of["snmp.b"].snmp

LEMMA DecodedRecords ==
  ASSUME NEW raw, NEW U \in SUBSET Optional, NEW of, Written(raw, U, of)
  PROVE  RecordsOf(Decode(raw), U, of)
<1> DEFINE s == of["sys.b"].system
           n == of["snmp.b"].snmp
           b == Decode(raw)
<1>1. s \in [DOMAIN SysFields -> 0 .. 1] /\ n \in [DOMAIN SnmpFields -> 0 .. 1]
  BY Sections10 DEF Written, IsDocument
<1>2. Sectionwise(raw, U, of)
  BY WrittenIs
<1>3. /\ Encode(of["sys.b"])["sys.b"] = Fields(SysKeys, s)
      /\ Encode(of["snmp.b"])["snmp.b"] = Fields(SnmpKeys, n)
  BY EncodeIs
<1>4. /\ raw["sys.b"] = Cut(U, Fields(SysKeys, s))
      /\ raw["snmp.b"] = Cut(U, Fields(SnmpKeys, n))
  <2> HIDE DEF s, n
  <2>. QED
    BY <1>2, <1>3 DEF Sectionwise
<1>5. b.system = Record(SysFields, raw["sys.b"]) /\ b.snmp = Record(SnmpFields, raw["snmp.b"])
  BY DEF Decode
<1> HIDE DEF s, n, b
<1>6. /\ b.system \in [DOMAIN SysFields -> 0 .. 1]
      /\ Cut(U, Fields(SysKeys, b.system)) = Cut(U, Fields(SysKeys, s))
      /\ U = {} => b.system = s
  <2> DEFINE r == b.system
  <2>1. r = Record(SysFields, Cut(U, Fields(SysKeys, s)))
    BY <1>4, <1>5
  <2> HIDE DEF r
  <2>2. /\ r \in [DOMAIN SysFields -> 0 .. 1]
        /\ Cut(U, Fields(SysKeys, r)) = Cut(U, Fields(SysKeys, s))
        /\ U = {} => r = s
    BY <1>1, <2>1, SysTables, RecordOf
  <2>. QED
    BY <2>2 DEF r
<1>7. /\ b.snmp \in [DOMAIN SnmpFields -> 0 .. 1]
      /\ Cut(U, Fields(SnmpKeys, b.snmp)) = Cut(U, Fields(SnmpKeys, n))
      /\ U = {} => b.snmp = n
  <2> DEFINE r == b.snmp
  <2>1. r = Record(SnmpFields, Cut(U, Fields(SnmpKeys, n)))
    BY <1>4, <1>5
  <2> HIDE DEF r
  <2>2. /\ r \in [DOMAIN SnmpFields -> 0 .. 1]
        /\ Cut(U, Fields(SnmpKeys, r)) = Cut(U, Fields(SnmpKeys, n))
        /\ U = {} => r = n
    BY <1>1, <2>1, SnmpTables, RecordOf
  <2>. QED
    BY <2>2 DEF r
<1>. QED
  BY <1>6, <1>7 DEF RecordsOf, s, n, b

RestOf(b, U, of) ==
  /\ b.rstp = of["rstp.b"].rstp /\ b.password = of[".pwd.b"].password
  /\ b.mirror = IF "mrto" \in U THEN 0 ELSE of["fwd.b"].mirror
  /\ b.filter_vid = IF "fvid" \in U THEN 0 ELSE of["fwd.b"].filter_vid
  /\ b.acl = of["acl.b"].acl /\ b.hosts = of["host.b"].hosts

LEMMA DecodedRest ==
  ASSUME NEW raw, NEW U \in SUBSET Optional, NEW of, Written(raw, U, of)
  PROVE  RestOf(Decode(raw), U, of)
<1> DEFINE b == Decode(raw)
           fwd == Encode(of["fwd.b"])["fwd.b"]
           d == of[".pwd.b"]
           e == of["rstp.b"]
<1>1. /\ b.rstp = raw["rstp.b"].ena /\ b.password = raw[".pwd.b"].pwd
      /\ b.mirror = Get(raw["fwd.b"], "mrto", 0) /\ b.filter_vid = Get(raw["fwd.b"], "fvid", 0)
      /\ b.acl = Get(raw, "acl.b", Empty) /\ b.hosts = Get(raw, "host.b", Empty)
  BY DEF Decode
<1>2. Sectionwise(raw, U, of)
  BY WrittenIs
<1>3. /\ Encode(of["acl.b"])["acl.b"] = of["acl.b"].acl
      /\ Encode(of["host.b"])["host.b"] = of["host.b"].hosts
      /\ Encode(d)[".pwd.b"] = [pwd |-> d.password]
      /\ Encode(e)["rstp.b"] = [ena |-> e.rstp]
  BY EncodeIs
<1>4. b.acl = of["acl.b"].acl /\ b.hosts = of["host.b"].hosts
  <2> HIDE DEF b
  <2>. QED
    BY <1>1, <1>2, <1>3 DEF Sectionwise
<1>5. b.rstp = e.rstp /\ b.password = d.password
  <2>1. raw[".pwd.b"] = Cut(U, [pwd |-> d.password]) /\ raw["rstp.b"] = Cut(U, [ena |-> e.rstp])
    BY <1>2, <1>3 DEF Sectionwise
  <2>2. "pwd" \notin U /\ "ena" \notin U
    BY OptionalKeys
  <2> HIDE DEF b, d, e
  <2>. QED
    BY <1>1, <2>1, <2>2 DEF Cut
<1>6. IsFwd(fwd, of["fwd.b"])
  <2>1. fwd = Encode(of["fwd.b"])["fwd.b"]
    OBVIOUS
  <2> HIDE DEF fwd
  <2>. QED
    BY <2>1, FwdIs
<1>7. raw["fwd.b"] = Cut(U, fwd)
  BY <1>2 DEF Sectionwise
<1> HIDE DEF b, fwd, d, e
<1>8. /\ "mrto" \in DOMAIN fwd /\ fwd["mrto"] = of["fwd.b"].mirror
      /\ "fvid" \in DOMAIN fwd /\ fwd["fvid"] = of["fwd.b"].filter_vid
  BY <1>6 DEF IsFwd
<1>9. /\ b.mirror = IF "mrto" \in U THEN 0 ELSE of["fwd.b"].mirror
      /\ b.filter_vid = IF "fvid" \in U THEN 0 ELSE of["fwd.b"].filter_vid
  BY <1>1, <1>7, <1>8 DEF Get, Cut
<1>. QED
  BY <1>4, <1>5, <1>9 DEF RestOf, b, d, e

\* The whole of what Decode reads.
DecodedOf(b, U, of) ==
  /\ b = [ports |-> b.ports, vlans |-> b.vlans, system |-> b.system, snmp |-> b.snmp,
          rstp |-> b.rstp, mirror |-> b.mirror, filter_vid |-> b.filter_vid,
          password |-> b.password, acl |-> b.acl, hosts |-> b.hosts]
  /\ PortsOf(b, U, of) /\ VlansOf(b, U, of) /\ RecordsOf(b, U, of) /\ RestOf(b, U, of)

LEMMA DecodedIs ==
  ASSUME NEW raw, NEW U \in SUBSET Optional, NEW of, Written(raw, U, of)
  PROVE  DecodedOf(Decode(raw), U, of) /\ IsDocument(Decode(raw))
<1> DEFINE b == Decode(raw)
<1>1. b = [ports |-> b.ports, vlans |-> b.vlans, system |-> b.system, snmp |-> b.snmp,
           rstp |-> b.rstp, mirror |-> b.mirror, filter_vid |-> b.filter_vid,
           password |-> b.password, acl |-> b.acl, hosts |-> b.hosts]
  BY DEF Decode
<1>2. PortsOf(b, U, of) /\ VlansOf(b, U, of) /\ RecordsOf(b, U, of) /\ RestOf(b, U, of)
  BY DecodedPorts, DecodedVlans, DecodedRecords, DecodedRest
<1> HIDE DEF b
<1>3. \A s \in Range(SectionOrder) : IsDocument(of[s])
  BY DEF Written
<1>4. b.mirror \in 0 .. 1 /\ b.filter_vid \in 0 .. 1 /\ b.password \in 0 .. 1
  <2>1. IsDocument(of["fwd.b"]) /\ IsDocument(of[".pwd.b"])
    BY <1>3, Sections10
  <2>2. /\ of["fwd.b"].mirror \in 0 .. 1 /\ of["fwd.b"].filter_vid \in 0 .. 1
        /\ of[".pwd.b"].password \in 0 .. 1
    BY <2>1 DEF IsDocument
  <2>. QED
    BY <1>2, <2>2 DEF RestOf
<1>5. IsDocument(b)
  BY <1>1, <1>2, <1>4 DEF IsDocument, PortsOf, VlansOf, RecordsOf
<1>. QED
  BY <1>1, <1>2, <1>5 DEF DecodedOf, b

\* What is read from a whole document is the document.
LEMMA DecodedWhole ==
  ASSUME NEW d, IsDocument(d), NEW of, \A s \in Range(SectionOrder) : of[s] = d,
         NEW b, DecodedOf(b, {}, of)
  PROVE  b = d
<1>1. /\ of["link.b"] = d /\ of["fwd.b"] = d /\ of["lacp.b"] = d /\ of["vlan.b"] = d
      /\ of["sys.b"] = d /\ of["snmp.b"] = d /\ of["rstp.b"] = d /\ of[".pwd.b"] = d
      /\ of["acl.b"] = d /\ of["host.b"] = d
  BY Sections10
<1>2. ASSUME NEW p \in Ports PROVE b.ports[p] = d.ports[p]
  <2> DEFINE c == b.ports[p]
             e == d.ports[p]
             S == DOMAIN Bits \union DOMAIN Items \union {"forward_to"}
  <2>1. PortIs(c, {}, of, p)
    BY DEF DecodedOf, PortsOf
  <2>2. IsPort(e)
    BY DEF IsDocument
  <2>3. \A f \in DOMAIN Bits : of[Bits[f][1]] = d
    BY MaskTables, <1>1
  <2>4. \A f \in DOMAIN Items : of[Items[f][1]] = d
    BY ListTables, <1>1
  <2> HIDE DEF c
  <2>5. \A f \in DOMAIN Bits : c[f] = e[f]
    BY <2>1, <2>3 DEF PortIs
  <2>6. \A f \in DOMAIN Items : c[f] = e[f]
    BY <2>1, <2>4 DEF PortIs
  <2>7. c["forward_to"] = e["forward_to"]
    BY <1>1, <2>1 DEF PortIs
  <2> HIDE DEF e
  <2>8. c = [f \in S |-> c[f]]
    BY <2>1 DEF PortIs, IsFunction
  <2>9. e = [f \in S |-> e[f]]
    BY <2>2 DEF IsPort
  <2>10. \A f \in S : c[f] = e[f]
    BY <2>5, <2>6, <2>7
  <2> HIDE DEF S
  <2>. QED
    BY <2>8, <2>9, <2>10 DEF c, e
<1>3. b.ports = d.ports
  BY <1>2 DEF DecodedOf, PortsOf, IsDocument
<1>4. b.vlans = d.vlans
  BY <1>1 DEF DecodedOf, VlansOf
<1>5. b.system = d.system /\ b.snmp = d.snmp
  BY <1>1 DEF DecodedOf, RecordsOf
<1>6. /\ b.rstp = d.rstp /\ b.password = d.password /\ b.acl = d.acl /\ b.hosts = d.hosts
      /\ b.mirror = d.mirror /\ b.filter_vid = d.filter_vid
  BY <1>1 DEF DecodedOf, RestOf
<1>. QED
  BY <1>3, <1>4, <1>5, <1>6 DEF DecodedOf, IsDocument

\* Keys that are cut away do not matter, the others are read and written back.
LEMMA CutEqual ==
  ASSUME NEW U, NEW x, NEW y, DOMAIN x = DOMAIN y, \A k \in DOMAIN x \ U : x[k] = y[k]
  PROVE  Cut(U, x) = Cut(U, y)
BY DEF Cut

LEMMA CutLink ==
  ASSUME NEW U \in SUBSET Optional, NEW of, NEW b, PortsOf(b, U, of)
  PROVE  Cut(U, Encode(b)["link.b"]) = Cut(U, Encode(of["link.b"])["link.b"])
<1> DEFINE x == Encode(b)["link.b"]
           d == of["link.b"]
           y == Encode(d)["link.b"]
<1>1. x = Encode(b)["link.b"] /\ y = Encode(d)["link.b"]
  OBVIOUS
<1> HIDE DEF x, y
<1>2. IsLink(x, b) /\ IsLink(y, d)
  BY <1>1, LinkIs
<1>3. ASSUME NEW k \in DOMAIN LinkMasks \ U PROVE x[k] = y[k]
  <2> DEFINE f == LinkMasks[k]
  <2>1. f \in DOMAIN Bits /\ Bits[f][1] = "link.b" /\ Bits[f][2] = k
    BY MaskTables
  <2> HIDE DEF f
  <2>2. \A p \in Ports : b.ports[p][f] = d.ports[p][f]
    BY <2>1 DEF PortsOf, PortIs
  <2>3. /\ x[k] = {p \in Ports : b.ports[p][f] = 1}
        /\ y[k] = {p \in Ports : d.ports[p][f] = 1}
    BY <1>2 DEF IsLink, f
  <2>. QED
    BY <2>2, <2>3
<1>4. ASSUME NEW k \in DOMAIN LinkLists PROVE x[k] = y[k]
  <2> DEFINE f == LinkLists[k]
  <2>1. f \in DOMAIN Items /\ Items[f][1] = "link.b"
    BY ListTables
  <2> HIDE DEF f
  <2>2. \A p \in Ports : b.ports[p][f] = d.ports[p][f]
    BY <2>1 DEF PortsOf, PortIs
  <2>3. /\ x[k] = [p \in Ports |-> b.ports[p][f]]
        /\ y[k] = [p \in Ports |-> d.ports[p][f]]
    BY <1>2 DEF IsLink, f
  <2>. QED
    BY <2>2, <2>3
<1>5. DOMAIN x = DOMAIN y /\ \A k \in DOMAIN x \ U : x[k] = y[k]
  BY <1>2, <1>3, <1>4 DEF IsLink
<1>. QED
  BY <1>5, CutEqual DEF x, y

LEMMA CutFwd ==
  ASSUME NEW U \in SUBSET Optional, NEW of, NEW b, PortsOf(b, U, of), RestOf(b, U, of)
  PROVE  Cut(U, Encode(b)["fwd.b"]) = Cut(U, Encode(of["fwd.b"])["fwd.b"])
<1> DEFINE x == Encode(b)["fwd.b"]
           d == of["fwd.b"]
           y == Encode(d)["fwd.b"]
<1>1. x = Encode(b)["fwd.b"] /\ y = Encode(d)["fwd.b"]
  OBVIOUS
<1> HIDE DEF x, y
<1>2. IsFwd(x, b) /\ IsFwd(y, d)
  BY <1>1, FwdIs
<1>3. ASSUME NEW k \in DOMAIN FwdMasks \ U PROVE x[k] = y[k]
  <2> DEFINE f == FwdMasks[k]
  <2>1. f \in DOMAIN Bits /\ Bits[f][1] = "fwd.b" /\ Bits[f][2] = k
    BY MaskTables
  <2> HIDE DEF f
  <2>2. \A p \in Ports : b.ports[p][f] = d.ports[p][f]
    BY <2>1 DEF PortsOf, PortIs
  <2>3. /\ x[k] = {p \in Ports : b.ports[p][f] = 1}
        /\ y[k] = {p \in Ports : d.ports[p][f] = 1}
    BY <1>2 DEF IsFwd, f
  <2>. QED
    BY <2>2, <2>3
<1>4. ASSUME NEW k \in DOMAIN FwdLists PROVE x[k] = y[k]
  <2> DEFINE f == FwdLists[k]
  <2>1. f \in DOMAIN Items /\ Items[f][1] = "fwd.b"
    BY ListTables
  <2> HIDE DEF f
  <2>2. \A p \in Ports : b.ports[p][f] = d.ports[p][f]
    BY <2>1 DEF PortsOf, PortIs
  <2>3. /\ x[k] = [p \in Ports |-> b.ports[p][f]]
        /\ y[k] = [p \in Ports |-> d.ports[p][f]]
    BY <1>2 DEF IsFwd, f
  <2>. QED
    BY <2>2, <2>3
<1>5. x["fp"] = y["fp"]
  <2>1. \A p \in Ports : b.ports[p].forward_to = d.ports[p].forward_to
    BY DEF PortsOf, PortIs
  <2>2. /\ x["fp"] = [p \in Ports |-> b.ports[p].forward_to]
        /\ y["fp"] = [p \in Ports |-> d.ports[p].forward_to]
    BY <1>2 DEF IsFwd
  <2>. QED
    BY <2>1, <2>2
<1>6. \A k \in {"mrto", "fvid"} \ U : x[k] = y[k]
  BY <1>2 DEF IsFwd, RestOf
<1>7. DOMAIN x = DOMAIN y
  BY <1>2 DEF IsFwd
<1>8. \A k \in DOMAIN x : k \in DOMAIN FwdMasks \/ k \in DOMAIN FwdLists
                          \/ k = "fp" \/ k \in {"mrto", "fvid"}
  BY <1>2 DEF IsFwd
<1>9. \A k \in DOMAIN x \ U : x[k] = y[k]
  BY <1>3, <1>4, <1>5, <1>6, <1>8
<1>. QED
  BY <1>7, <1>9, CutEqual DEF x, y

LEMMA CutLacp ==
  ASSUME NEW U \in SUBSET Optional, NEW of, NEW b, PortsOf(b, U, of)
  PROVE  Encode(b)["lacp.b"] = Encode(of["lacp.b"])["lacp.b"]
<1> DEFINE d == of["lacp.b"]
<1>1. /\ Encode(b)["lacp.b"] = Lists(LacpLists, b.ports)
      /\ Encode(d)["lacp.b"] = Lists(LacpLists, d.ports)
  BY EncodeIs
<1>2. ASSUME NEW k \in DOMAIN LacpLists
      PROVE  [p \in Ports |-> b.ports[p][LacpLists[k]]] = [p \in Ports |-> d.ports[p][LacpLists[k]]]
  <2> DEFINE f == LacpLists[k]
  <2>1. f \in DOMAIN Items /\ Items[f][1] = "lacp.b"
    BY ListTables
  <2>2. \A p \in Ports : b.ports[p][f] = d.ports[p][f]
    BY <2>1 DEF PortsOf, PortIs
  <2>. QED
    BY <2>2
<1>3. Lists(LacpLists, b.ports) = Lists(LacpLists, d.ports)
  BY <1>2 DEF Lists
<1>. QED
  BY <1>1, <1>3

LEMMA CutDecoded ==
  ASSUME NEW U \in SUBSET Optional, NEW of, NEW b, DecodedOf(b, U, of),
         NEW s \in Range(SectionOrder)
  PROVE  CutSection(U, s, Encode(b)[s]) = CutSection(U, s, Encode(of[s])[s])
<1> DEFINE Same(t) == CutSection(U, t, Encode(b)[t]) = CutSection(U, t, Encode(of[t])[t])
<1>1. PortsOf(b, U, of) /\ VlansOf(b, U, of) /\ RecordsOf(b, U, of) /\ RestOf(b, U, of)
  BY DEF DecodedOf
<1>2. ASSUME NEW t \in {"lacp.b", ".pwd.b", "snmp.b", "rstp.b", "link.b", "fwd.b", "sys.b"},
             Cut(U, Encode(b)[t]) = Cut(U, Encode(of[t])[t])
      PROVE  Same(t)
  BY <1>2 DEF CutSection
<1>3. Same("link.b") /\ Same("fwd.b") /\ Same("lacp.b")
  BY <1>1, <1>2, CutLink, CutFwd, CutLacp
<1>4. Same("sys.b") /\ Same("snmp.b")
  <2>1. /\ Encode(b)["sys.b"] = Fields(SysKeys, b.system)
        /\ Encode(of["sys.b"])["sys.b"] = Fields(SysKeys, of["sys.b"].system)
        /\ Encode(b)["snmp.b"] = Fields(SnmpKeys, b.snmp)
        /\ Encode(of["snmp.b"])["snmp.b"] = Fields(SnmpKeys, of["snmp.b"].snmp)
    BY EncodeIs
  <2>2. /\ Cut(U, Encode(b)["sys.b"]) = Cut(U, Encode(of["sys.b"])["sys.b"])
        /\ Cut(U, Encode(b)["snmp.b"]) = Cut(U, Encode(of["snmp.b"])["snmp.b"])
    BY <1>1, <2>1 DEF RecordsOf
  <2>. QED
    BY <1>2, <2>2
<1>5. Same(".pwd.b") /\ Same("rstp.b")
  <2>1. /\ Encode(b)[".pwd.b"] = [pwd |-> b.password]
        /\ Encode(of[".pwd.b"])[".pwd.b"] = [pwd |-> of[".pwd.b"].password]
        /\ Encode(b)["rstp.b"] = [ena |-> b.rstp]
        /\ Encode(of["rstp.b"])["rstp.b"] = [ena |-> of["rstp.b"].rstp]
    BY EncodeIs
  <2>2. /\ Encode(b)[".pwd.b"] = Encode(of[".pwd.b"])[".pwd.b"]
        /\ Encode(b)["rstp.b"] = Encode(of["rstp.b"])["rstp.b"]
    BY <1>1, <2>1 DEF RestOf
  <2>. QED
    BY <2>2
<1>6. Same("acl.b") /\ Same("host.b")
  <2>1. /\ Encode(b)["acl.b"] = b.acl
        /\ Encode(of["acl.b"])["acl.b"] = of["acl.b"].acl
        /\ Encode(b)["host.b"] = b.hosts
        /\ Encode(of["host.b"])["host.b"] = of["host.b"].hosts
    BY EncodeIs
  <2>2. /\ Encode(b)["acl.b"] = Encode(of["acl.b"])["acl.b"]
        /\ Encode(b)["host.b"] = Encode(of["host.b"])["host.b"]
    BY <1>1, <2>1 DEF RestOf
  <2>. QED
    BY <2>2
<1>7. Same("vlan.b")
  <2> DEFINE v == of["vlan.b"].vlans
             x == Encode(b)["vlan.b"]
             y == Encode(of["vlan.b"])["vlan.b"]
  <2>1. /\ x = [i \in DOMAIN b.vlans |-> Fields(VlanKeys, b.vlans[i])]
        /\ y = [i \in DOMAIN v |-> Fields(VlanKeys, v[i])]
    BY EncodeIs
  <2>2. /\ DOMAIN b.vlans = DOMAIN v
        /\ \A i \in DOMAIN v : Cut(U, Fields(VlanKeys, b.vlans[i])) = Cut(U, Fields(VlanKeys, v[i]))
    BY <1>1 DEF VlansOf
  <2>3. CutSection(U, "vlan.b", x) = [i \in DOMAIN x |-> Cut(U, x[i])]
    BY DEF CutSection
  <2>4. CutSection(U, "vlan.b", y) = [i \in DOMAIN y |-> Cut(U, y[i])]
    BY DEF CutSection
  <2> HIDE DEF x, y, v
  <2>5. DOMAIN x = DOMAIN y /\ \A i \in DOMAIN y : Cut(U, x[i]) = Cut(U, y[i])
    BY <2>1, <2>2
  <2>. QED
    BY <2>3, <2>4, <2>5 DEF x, y
<1> HIDE DEF Same
<1>8. Same(s)
  BY <1>3, <1>4, <1>5, <1>6, <1>7, Sections10
<1>. QED
  BY <1>8 DEF Same

----------------------------------------------------------------------------
(* There and back                                                          *)

LEMMA ImageIs == ASSUME NEW d PROVE Image(d) = Encode(d)
<1> DEFINE e == Encode(d)
<1>1. DOMAIN e = Range(SectionOrder) /\ e = [s \in DOMAIN e |-> e[s]]
  BY EncodeIs DEF IsFunction
<1> HIDE DEF e
<1>2. File(Serialize(e)) = e
  BY <1>1, FileOfSerialize
<1>. QED
  BY <1>2 DEF Image, e

\* A document that is encoded, written to a file and read from it again is the
\* same in every field.  (swos_config.py, _encode, _serialize, parse, _decode.)
THEOREM DecodeOfEncode == ASSUME NEW d, IsDocument(d) PROVE Decode(Image(d)) = d
<1> DEFINE of == [s \in Range(SectionOrder) |-> d]
           e == Encode(d)
<1>1. \A s \in Range(SectionOrder) : of[s] = d
  OBVIOUS
<1>2. DOMAIN e = Range(SectionOrder)
  BY EncodeIs
<1>3. \A s \in Range(SectionOrder) : e[s] = CutSection({}, s, Encode(d)[s])
  BY CutNothing
<1> HIDE DEF of, e
<1>4. Written(e, {}, of)
  BY <1>1, <1>2, <1>3 DEF Written
<1>5. DecodedOf(Decode(e), {}, of)
  BY <1>4, DecodedIs
<1>6. Decode(e) = d
  BY <1>1, <1>5, DecodedWhole
<1>. QED
  BY <1>6, ImageIs DEF e

\* Each section that the switch holds is what it keeps of some document's.
Kept(s, v) == \E d : IsDocument(d) /\ v = Known(s, Encode(d)[s])
DeviceInv ==
  /\ IsFunction(device) /\ DOMAIN device = Range(SectionOrder)
  /\ \A s \in Range(SectionOrder) : Kept(s, device[s])

\* What a pull reads is a document; pushed to a switch with the same firmware
\* it leaves what the switch held.  (swos_config.py, _decode and _encode.)
THEOREM EncodeOfDecode ==
  ASSUME DeviceInv, Unknown \subseteq Optional
  PROVE  LET d == Decode(File(Serialize(Backup)))
         IN  IsDocument(d) /\ KnownAll(Image(d)) = device
<1> DEFINE Of(s) == CHOOSE d : IsDocument(d) /\ device[s] = Known(s, Encode(d)[s])
           of == [s \in Range(SectionOrder) |-> Of(s)]
           raw == Backup
           b == Decode(raw)
<1>1. \A s \in Range(SectionOrder) :
        IsDocument(Of(s)) /\ device[s] = Known(s, Encode(Of(s))[s])
  BY DEF DeviceInv, Kept
<1> HIDE DEF Of
<1>2. \A s \in Range(SectionOrder) :
        IsDocument(of[s]) /\ device[s] = CutSection(Unknown, s, Encode(of[s])[s])
  BY <1>1, KnownCuts
<1>3. /\ raw = [s \in DOMAIN raw |-> raw[s]]
      /\ DOMAIN raw \subseteq Range(SectionOrder)
      /\ \A s \in DOMAIN raw : raw[s] = device[s]
      /\ \A s \in Range(SectionOrder) \ DOMAIN raw :
           s \in {"acl.b", "host.b"} /\ device[s] = Empty
  BY DEF Backup, DeviceInv
<1> HIDE DEF of, raw
<1>4. Written(raw, Unknown, of)
  <2>1. \A v : \A s \in {"acl.b", "host.b"} : CutSection(Unknown, s, v) = v
    BY DEF CutSection
  <2>. QED
    BY <1>2, <1>3, <2>1 DEF Written
<1>5. DecodedOf(b, Unknown, of) /\ IsDocument(b)
  BY <1>4, DecodedIs
<1> HIDE DEF b
<1>6. \A s \in Range(SectionOrder) : Known(s, Encode(b)[s]) = device[s]
  BY <1>2, <1>5, CutDecoded, KnownCuts
<1>7. KnownAll(Encode(b)) = device
  <2>1. DOMAIN Encode(b) = Range(SectionOrder)
    BY EncodeIs
  <2>2. device = [s \in Range(SectionOrder) |-> device[s]]
    BY DEF DeviceInv, IsFunction
  <2>. QED
    BY <1>6, <2>1, <2>2 DEF KnownAll
<1>8. Decode(File(Serialize(Backup))) = b
  BY <1>3, FileOfSerialize DEF b, raw
<1>. QED
  BY <1>5, <1>7, <1>8, ImageIs

----------------------------------------------------------------------------
(* What an invocation posts                                                *)

IsPosts(posts, d) ==
  /\ Len(posts) = 10 /\ DOMAIN posts = 1 .. 10
  /\ \A i \in 1 .. 10 : /\ posts[i].path = Path(SectionOrder[i])
                        /\ posts[i].value = Encode(d)[SectionOrder[i]]

LEMMA PostsAre == ASSUME NEW d PROVE IsPosts(Sections(Serialize(Encode(d))), d)
<1> DEFINE e == Encode(d)
           t == Serialize(e)
           p == Sections(t)
<1>1. Text(t, e, 10)
  BY SerializeIs
<1>2. {SectionOrder[k] : k \in 1 .. 10} \subseteq DOMAIN e
  <2>1. DOMAIN e = Range(SectionOrder)
    BY EncodeIs
  <2> HIDE DEF e
  <2>. QED
    BY <2>1, Sections10
<1> HIDE DEF t, e
<1>3. /\ Len(t) = 10 /\ DOMAIN t = 1 .. 10
      /\ \A i \in 1 .. 10 : t[i].name = SectionOrder[i] /\ t[i].value = e[SectionOrder[i]]
  <2>1. PICK S : t \in Seq(S)
    BY <1>1 DEF Text
  <2>2. Len(t) = 10 /\ \A i \in 1 .. 10 : t[i].name = SectionOrder[i]
    BY <1>1, <1>2 DEF Text
  <2>3. \A i \in 1 .. 10 : t[i].value = e[t[i].name]
    BY <1>1, <2>2 DEF Text
  <2>. QED
    BY <2>1, <2>2, <2>3
<1>4. p = [i \in 1 .. 10 |-> [path |-> Path(t[i].name), value |-> t[i].value]]
  BY <1>3 DEF Sections
<1> HIDE DEF p
<1>5. Len(p) = 10 /\ DOMAIN p = 1 .. 10
  BY <1>4
<1>6. \A i \in 1 .. 10 : p[i].path = Path(SectionOrder[i]) /\ p[i].value = e[SectionOrder[i]]
  BY <1>3, <1>4
<1>. QED
  BY <1>5, <1>6 DEF IsPosts, p, t, e

\* The switch finds each section under its path, the password if it is served.
LEMMA PathsAre ==
  ASSUME NEW i \in 1 .. 10
  PROVE  /\ Resource(Path(SectionOrder[i])) = SectionOrder[i]
         /\ Served(Path(SectionOrder[i])) <=> i # 3 \/ served
<1>1. SectionOrder[i] # "pwd.b"
  BY Sections10
<1>2. SectionOrder[i] = ".pwd.b" <=> i = 3
  BY Sections10
<1>3. Path(SectionOrder[i]) = "pwd.b" <=> i = 3
  BY <1>1, <1>2 DEF Path
<1>. QED
  BY <1>1, <1>2, <1>3 DEF Path, Resource, Served

LEMMA AskedIs ==
  ASSUME NEW r, NEW d, IsPosts(push[r].posts, d), NEW i \in 1 .. 10
  PROVE  Asked(r, SectionOrder[i]) = push[r].posts[i].value
<1> DEFINE posts == push[r].posts
<1>1. \A j \in 1 .. 10 : Resource(posts[j].path) = SectionOrder[i] <=> j = i
  BY PathsAre, Sections10 DEF IsPosts
<1>2. (CHOOSE j \in DOMAIN posts : Resource(posts[j].path) = SectionOrder[i]) = i
  BY <1>1 DEF IsPosts
<1>. QED
  BY <1>2 DEF Asked

\* No firmware leaves out the password and the address.
LEMMA LocksKnown ==
  ASSUME NEW d, IsDocument(d), Unknown \subseteq Optional
  PROVE  /\ Known(".pwd.b", Encode(d)[".pwd.b"]).pwd = Encode(d)[".pwd.b"].pwd
         /\ Encode(d)[".pwd.b"].pwd \in 0 .. 1
         /\ Known("sys.b", Encode(d)["sys.b"]).ip = Encode(d)["sys.b"].ip
         /\ Encode(d)["sys.b"].ip \in 0 .. 1
<1> DEFINE x == Encode(d)[".pwd.b"]
           y == Encode(d)["sys.b"]
<1>1. Known(".pwd.b", x) = Cut(Unknown, x) /\ Known("sys.b", y) = Cut(Unknown, y)
  BY KnownCuts DEF CutSection
<1>2. x = [pwd |-> d.password] /\ y = Fields(SysKeys, d.system)
  BY EncodeIs
<1>3. d.password \in 0 .. 1 /\ d.system \in [DOMAIN SysFields -> 0 .. 1]
  BY DEF IsDocument
<1> HIDE DEF x, y
<1>4. "pwd" \in DOMAIN x \ Unknown /\ x.pwd \in 0 .. 1
  BY <1>2, <1>3, OptionalKeys
<1>5. "ip" \in DOMAIN SysKeys \ Unknown /\ SysKeys["ip"] \in DOMAIN SysFields
  BY OptionalKeys, SysTables DEF InverseTables
<1>6. "ip" \in DOMAIN y \ Unknown /\ y["ip"] \in 0 .. 1
  BY <1>2, <1>3, <1>5 DEF Fields
<1>7. Cut(Unknown, x).pwd = x.pwd /\ Cut(Unknown, y).ip = y.ip
  BY <1>4, <1>6 DEF Cut
<1>. QED
  BY <1>1, <1>4, <1>6, <1>7 DEF x, y

----------------------------------------------------------------------------
(* Edits                                                                   *)

LEMMA EditsKeep == ASSUME NEW d, IsDocument(d), NEW e \in Edits(d) PROVE IsDocument(e)
<1> DEFINE single == DOMAIN Bits \union DOMAIN Items
<1>1. \A x \in 0 .. 1 : Flip(x) \in 0 .. 1
  BY DEF Flip
<1> HIDE DEF single
<1>2. ASSUME NEW c, c = [d.ports EXCEPT ![1] = c[1]], IsPort(c[1]), e = [d EXCEPT !.ports = c]
      PROVE  IsDocument(e)
  <2>1. 1 \in Ports
    BY SwosAssumption DEF Ports
  <2>2. c = [p \in Ports |-> c[p]] /\ \A p \in Ports : IsPort(c[p])
    BY <1>2, <2>1 DEF IsDocument
  <2>3. e.ports = c
    BY <1>2 DEF IsDocument
  <2>4. /\ e = [ports |-> e.ports, vlans |-> e.vlans, system |-> e.system, snmp |-> e.snmp,
                rstp |-> e.rstp, mirror |-> e.mirror, filter_vid |-> e.filter_vid,
                password |-> e.password, acl |-> e.acl, hosts |-> e.hosts]
        /\ e.vlans = d.vlans /\ e.system = d.system /\ e.snmp = d.snmp
        /\ e.mirror = d.mirror /\ e.filter_vid = d.filter_vid /\ e.password = d.password
    BY <1>2 DEF IsDocument
  <2>. QED
    BY <2>2, <2>3, <2>4 DEF IsDocument
<1>3. CASE e \in PortEdits(d)
  <2> DEFINE q == d.ports[1]
  <2>1. 1 \in Ports
    BY SwosAssumption DEF Ports
  <2>2. IsPort(q) /\ d.ports = [p \in Ports |-> d.ports[p]]
    BY <2>1 DEF IsDocument
  <2>3. ASSUME NEW f \in single, e = [d EXCEPT !.ports[1][f] = Flip(@)]
        PROVE  IsDocument(e)
    <3> DEFINE x == [q EXCEPT ![f] = Flip(q[f])]
               c == [d.ports EXCEPT ![1] = x]
    <3>1. e = [d EXCEPT !.ports = c]
      BY <2>3
    <3>2. c[1] = x /\ c = [d.ports EXCEPT ![1] = c[1]]
      BY <2>1, <2>2
    <3>3. IsPort(x)
      <4> HIDE DEF q
      <4>1. /\ q = [g \in single \union {"forward_to"} |-> q[g]]
            /\ \A g \in single : q[g] \in 0 .. 1
        BY <2>2 DEF IsPort, single
      <4>2. x = [g \in single \union {"forward_to"} |-> IF g = f THEN Flip(q[f]) ELSE q[g]]
        BY <4>1, <2>3
      <4>3. \A g \in single : x[g] \in 0 .. 1
        BY <1>1, <4>1, <4>2
      <4>4. x = [g \in single \union {"forward_to"} |-> x[g]]
        BY <4>2
      <4>. QED
        BY <4>3, <4>4 DEF IsPort, single
    <3> HIDE DEF x, c
    <3>. QED
      BY <1>2, <3>1, <3>2, <3>3
  <2>4. ASSUME e = [d EXCEPT !.ports[1].forward_to = {}] PROVE IsDocument(e)
    <3> DEFINE x == [q EXCEPT !.forward_to = {}]
               c == [d.ports EXCEPT ![1] = x]
    <3>1. e = [d EXCEPT !.ports = c]
      BY <2>4
    <3>2. c[1] = x /\ c = [d.ports EXCEPT ![1] = c[1]]
      BY <2>1, <2>2
    <3>3. IsPort(x)
      <4> HIDE DEF q
      <4>1. /\ q = [g \in single \union {"forward_to"} |-> q[g]]
            /\ \A g \in single : q[g] \in 0 .. 1
        BY <2>2 DEF IsPort, single
      <4>2. x = [g \in single \union {"forward_to"} |-> IF g = "forward_to" THEN {} ELSE q[g]]
        BY <4>1
      <4>3. \A g \in single : x[g] \in 0 .. 1
        BY <4>1, <4>2, TablesApart DEF single
      <4>4. x = [g \in single \union {"forward_to"} |-> x[g]]
        BY <4>2
      <4>. QED
        BY <4>3, <4>4 DEF IsPort, single
    <3> HIDE DEF x, c
    <3>. QED
      BY <1>2, <3>1, <3>2, <3>3
  <2>. QED
    BY <1>3, <2>3, <2>4 DEF PortEdits, single
<1>4. ASSUME NEW i \in DOMAIN d.vlans, NEW f \in DOMAIN VlanFields,
             e = [d EXCEPT !.vlans[i][f] = Flip(@)]
      PROVE  IsDocument(e)
  <2> DEFINE R == [DOMAIN VlanFields -> 0 .. 1]
             x == [d.vlans[i] EXCEPT ![f] = Flip(d.vlans[i][f])]
             c == [d.vlans EXCEPT ![i] = x]
  <2>1. d.vlans \in Seq(R)
    BY DEF IsDocument
  <2>2. d.vlans[i] \in R
    BY <1>4, <2>1
  <2>3. x \in R
    BY <1>1, <2>2
  <2>4. e = [d EXCEPT !.vlans = c]
    BY <1>4
  <2> HIDE DEF x, R
  <2>5. c \in Seq(R)
    BY <1>4, <2>1, <2>3
  <2> HIDE DEF c
  <2>. QED
    BY <2>4, <2>5 DEF IsDocument, R
<1>5. ASSUME NEW f \in DOMAIN SysFields, e = [d EXCEPT !.system[f] = Flip(@)]
      PROVE  IsDocument(e)
  <2> DEFINE x == [d.system EXCEPT ![f] = Flip(d.system[f])]
  <2>1. x \in [DOMAIN SysFields -> 0 .. 1]
    BY <1>1 DEF IsDocument
  <2>2. e = [d EXCEPT !.system = x]
    BY <1>5
  <2> HIDE DEF x
  <2>. QED
    BY <2>1, <2>2 DEF IsDocument
<1>6. ASSUME NEW f \in DOMAIN SnmpFields, e = [d EXCEPT !.snmp[f] = Flip(@)]
      PROVE  IsDocument(e)
  <2> DEFINE x == [d.snmp EXCEPT ![f] = Flip(d.snmp[f])]
  <2>1. x \in [DOMAIN SnmpFields -> 0 .. 1]
    BY <1>1 DEF IsDocument
  <2>2. e = [d EXCEPT !.snmp = x]
    BY <1>6
  <2> HIDE DEF x
  <2>. QED
    BY <2>1, <2>2 DEF IsDocument
<1>7. CASE e = [d EXCEPT !.rstp = {}]
  BY <1>7 DEF IsDocument
<1>8. CASE e = [d EXCEPT !.mirror = Flip(@)]
  BY <1>1, <1>8 DEF IsDocument
<1>9. CASE e = [d EXCEPT !.filter_vid = Flip(@)]
  BY <1>1, <1>9 DEF IsDocument
<1>10. CASE e = [d EXCEPT !.password = Flip(@)]
  BY <1>1, <1>10 DEF IsDocument
<1>11. CASE e = [d EXCEPT !.acl = <<1>>]
  BY <1>11 DEF IsDocument
<1>12. CASE e = [d EXCEPT !.hosts = <<1>>]
  BY <1>12 DEF IsDocument
<1>13. CASE e = [d EXCEPT !.vlans = Empty]
  <2>1. Empty \in Seq([DOMAIN VlanFields -> 0 .. 1])
    BY DEF Empty
  <2>. QED
    BY <1>13, <2>1 DEF IsDocument
<1>. QED
  BY <1>3, <1>4, <1>5, <1>6, <1>7, <1>8, <1>9, <1>10, <1>11, <1>12, <1>13 DEF Edits

----------------------------------------------------------------------------
(* The invariant                                                           *)

\* An invocation: what it posts are the sections of a document.
Shape(p) ==
  \/ p = Idle
  \/ /\ p \in [at : {"posting", "done"}, way : Ways, failed : BOOLEAN, next : 1 .. 11,
               posts : {p.posts}, fit : BOOLEAN, lost : BOOLEAN, alone : BOOLEAN]
     /\ \E d : IsDocument(d) /\ IsPosts(p.posts, d)
     /\ p.at = "done" => p.alone /\ p.next = 11

\* Section i of invocation p's document is in the switch.
Holds(dev, p, i) == dev[SectionOrder[i]] = Known(SectionOrder[i], p.posts[i].value)

\* While nothing failed, all that was posted is there.
WrittenInv(dev, p) ==
  p.at # "idle" /\ p.alone /\ ~p.failed => \A i \in 1 .. p.next - 1 : Holds(dev, p, i)

NewPassword(p) == p.posts[3].value.pwd # p.way.password
NewHost(p) == p.posts[8].value.ip # p.way.host

\* Where w is not what invocation p asks with, p itself has changed it.
TurnedBy(p, w) ==
  /\ w.password # p.way.password => 3 < p.next /\ NewPassword(p)
  /\ w.host # p.way.host => 8 < p.next /\ NewHost(p)

\* Of an invocation that nothing but its own posts stands in the way of, a
\* section is missing only behind one of them.
Excused(p, i, sv) ==
  \/ i = 3 /\ ~sv
  \/ 3 < i /\ NewPassword(p)
  \/ 8 < i /\ NewHost(p)
LockInv(dev, w, sv, p) ==
  p.at # "idle" /\ p.alone /\ p.fit /\ ~p.lost =>
    /\ TurnedBy(p, w) /\ TurnedBy(p, Set(dev))
    /\ \A i \in 1 .. p.next - 1 : Holds(dev, p, i) \/ Excused(p, i, sv)

RunInv(p) == Shape(p) /\ WrittenInv(device, p) /\ LockInv(device, way, served, p)

IInv ==
  /\ IsDocument(doc) /\ DeviceInv
  /\ way \in Ways /\ creds \in Ways /\ served \in BOOLEAN
  /\ pushes \in 0 .. MaxPushes /\ edits \in 0 .. MaxEdits /\ faults \in 0 .. MaxFaults
  /\ push = [r \in Runs |-> push[r]] /\ \A r \in Runs : RunInv(push[r])

LEMMA SetWays == ASSUME DeviceInv PROVE Set(device) \in Ways
<1>1. PICK d : IsDocument(d) /\ device[".pwd.b"] = Known(".pwd.b", Encode(d)[".pwd.b"])
  BY Sections10 DEF DeviceInv, Kept
<1>2. PICK e : IsDocument(e) /\ device["sys.b"] = Known("sys.b", Encode(e)["sys.b"])
  BY Sections10 DEF DeviceInv, Kept
<1>3. device[".pwd.b"].pwd \in 0 .. 1
  BY <1>1, LocksKnown, SwosDeployAssumption
<1>4. device["sys.b"].ip \in 0 .. 1
  BY <1>2, LocksKnown, SwosDeployAssumption
<1>. QED
  BY <1>3, <1>4 DEF Set, Ways

LEMMA InitInv == Init => IInv
<1>. SUFFICES ASSUME Init PROVE IInv
  OBVIOUS
<1>1. IsDocument(Base) /\ Unknown \subseteq Optional
  BY SwosDeployAssumption
<1>2. DeviceInv
  <2>1. DOMAIN Encode(Base) = Range(SectionOrder)
    BY EncodeIs
  <2>2. device = [s \in Range(SectionOrder) |-> Known(s, Encode(Base)[s])]
    BY <2>1, ImageIs DEF Init, KnownAll
  <2>3. \A s \in Range(SectionOrder) : Kept(s, Known(s, Encode(Base)[s]))
    BY <1>1 DEF Kept
  <2>. QED
    BY <2>2, <2>3 DEF DeviceInv, IsFunction
<1>3. way \in Ways /\ creds \in Ways
  <2>1. "ip" \in DOMAIN SysFields
    BY OptionalKeys, SysTables DEF InverseTables
  <2>2. Base.password \in 0 .. 1 /\ Base.system.ip \in 0 .. 1
    BY <1>1, <2>1 DEF IsDocument
  <2>. QED
    BY <2>2 DEF Init, Ways
<1>4. \A r \in Runs : push[r] = Idle
  BY DEF Init
<1>5. RunInv(Idle)
  BY DEF RunInv, Shape, WrittenInv, LockInv, Idle
<1>6. push = [r \in Runs |-> push[r]] /\ \A r \in Runs : RunInv(push[r])
  BY <1>4, <1>5 DEF Init
<1>. QED
  BY <1>1, <1>2, <1>3, <1>6, SwosDeployAssumption DEF Init, IInv

\* What Noted does to the invocation itself and to the others.
NotedBy(p, q, failed, lost) ==
  /\ q.at = "posting" /\ q.next = p.next + 1 /\ q.way = p.way /\ q.posts = p.posts
  /\ q.fit = p.fit /\ q.alone = p.alone
  /\ q.failed = (p.failed \/ failed) /\ q.lost = (p.lost \/ lost)

LEMMA NotedIs ==
  ASSUME IInv, NEW r \in Runs, Posting(r),
         NEW failed \in BOOLEAN, NEW lost \in BOOLEAN, NEW wrote \in BOOLEAN,
         push' = Noted(r, failed, lost, wrote)
  PROVE  /\ push' = [q \in Runs |-> push'[q]] /\ \A q \in Runs : Shape(push'[q])
         /\ NotedBy(push[r], push'[r], failed, lost)
         /\ \A q \in Runs \ {r} : IF wrote THEN push'[q].at = "idle" \/ ~push'[q].alone
                                           ELSE push'[q] = push[q]
         /\ push[r].next \in 1 .. 10
<1>1. \A q \in Runs : Shape(push[q])
  BY DEF IInv, RunInv
<1>2. push' = [q \in Runs |-> push'[q]]
  BY DEF Noted
<1>3. /\ NotedBy(push[r], push'[r], failed, lost) /\ Shape(push'[r])
      /\ push[r].next \in 1 .. 10
  <2> DEFINE p == push[r]
             q == push'[r]
  <2>1. q = [p EXCEPT !.next = p.next + 1, !.failed = p.failed \/ failed, !.lost = p.lost \/ lost]
    BY DEF Noted
  <2>2. p.at = "posting" /\ p.next <= Len(p.posts) /\ Shape(p)
    BY <1>1 DEF Posting
  <2> HIDE DEF p, q
  <2>3. p # Idle
    BY <2>2 DEF Idle
  <2>4. PICK d : IsDocument(d) /\ IsPosts(p.posts, d)
    BY <2>2, <2>3 DEF Shape
  <2>5. p.next \in 1 .. 10
    BY <2>2, <2>3, <2>4 DEF Shape, IsPosts
  <2>6. p \in [at : {"posting", "done"}, way : Ways, failed : BOOLEAN, next : 1 .. 11,
               posts : {p.posts}, fit : BOOLEAN, lost : BOOLEAN, alone : BOOLEAN]
    BY <2>2, <2>3 DEF Shape
  <2>7. q.posts = p.posts /\ q.at = "posting"
    BY <2>1, <2>2, <2>6
  <2>8. q \in [at : {"posting", "done"}, way : Ways, failed : BOOLEAN, next : 1 .. 11,
               posts : {q.posts}, fit : BOOLEAN, lost : BOOLEAN, alone : BOOLEAN]
    <3> DEFINE x == p.failed \/ failed
               y == p.lost \/ lost
               m == p.next + 1
    <3>1. q = [p EXCEPT !.next = m, !.failed = x, !.lost = y]
      BY <2>1
    <3>2. x \in BOOLEAN /\ y \in BOOLEAN /\ m \in 1 .. 11
      BY <2>5
    <3> HIDE DEF x, y, m
    <3>. QED
      BY <2>6, <2>7, <3>1, <3>2
  <2>9. Shape(q)
    BY <2>4, <2>7, <2>8 DEF Shape
  <2>10. NotedBy(p, q, failed, lost)
    BY <2>1, <2>2, <2>6 DEF NotedBy
  <2>. QED
    BY <2>5, <2>9, <2>10 DEF p, q
<1>4. ASSUME NEW q \in Runs \ {r}
      PROVE  /\ Shape(push'[q])
             /\ IF wrote THEN push'[q].at = "idle" \/ ~push'[q].alone ELSE push'[q] = push[q]
  <2>1. CASE wrote /\ push[q].at = "posting"
    <3> DEFINE p == push[q]
               c == push'[q]
    <3>1. c = [p EXCEPT !.alone = FALSE]
      BY <2>1 DEF Noted
    <3>2. p.at = "posting" /\ Shape(p)
      BY <1>1, <2>1
    <3> HIDE DEF p, c
    <3>3. p # Idle
      BY <3>2 DEF Idle
    <3>4. p \in [at : {"posting", "done"}, way : Ways, failed : BOOLEAN, next : 1 .. 11,
                 posts : {p.posts}, fit : BOOLEAN, lost : BOOLEAN, alone : BOOLEAN]
      BY <3>2, <3>3 DEF Shape
    <3>5. /\ c \in [at : {"posting", "done"}, way : Ways, failed : BOOLEAN, next : 1 .. 11,
                    posts : {c.posts}, fit : BOOLEAN, lost : BOOLEAN, alone : BOOLEAN]
          /\ c.posts = p.posts /\ c.at = "posting" /\ c.alone = FALSE
      BY <3>1, <3>2, <3>4
    <3>6. Shape(c)
      BY <3>2, <3>3, <3>5 DEF Shape
    <3>. QED
      BY <2>1, <3>5, <3>6 DEF c
  <2>2. CASE wrote /\ push[q].at # "posting"
    <3>1. push'[q] = Idle
      BY <2>2 DEF Noted
    <3>2. Shape(push'[q])
      BY <3>1 DEF Shape
    <3>3. push'[q].at = "idle"
      BY <3>1 DEF Idle
    <3>. QED
      BY <2>2, <3>2, <3>3
  <2>3. CASE ~wrote
    BY <1>1, <2>3 DEF Noted
  <2>. QED
    BY <2>1, <2>2, <2>3
<1>. QED
  BY <1>2, <1>3, <1>4

\* What the switch takes is the section it was sent.
LEMMA TakesIs ==
  ASSUME IInv, NEW r \in Runs, Posting(r), Takes(r), push[r].next \in 1 .. 10
  PROVE  LET n == push[r].next
         IN  /\ DeviceInv'
             /\ device'[SectionOrder[n]] = Known(SectionOrder[n], push[r].posts[n].value)
             /\ \A i \in 1 .. 10 \ {n} : device'[SectionOrder[i]] = device[SectionOrder[i]]
<1> DEFINE n == push[r].next
           v == push[r].posts[n].value
           s == SectionOrder[n]
<1>1. push[r] # Idle
  BY DEF Posting, Idle
<1>2. PICK d : IsDocument(d) /\ IsPosts(push[r].posts, d)
  BY <1>1 DEF IInv, RunInv, Shape
<1>3. Resource(Post(r).path) = s /\ Post(r).value = v /\ v = Encode(d)[s]
  BY <1>2, PathsAre DEF IsPosts, Post
<1>4. device' = [device EXCEPT ![s] = Known(s, v)]
  BY <1>3 DEF Takes
<1>5. Kept(s, Known(s, v))
  BY <1>2, <1>3 DEF Kept
<1> HIDE DEF v
<1>6. s \in Range(SectionOrder)
  BY Sections10
<1>7. /\ device = [t \in Range(SectionOrder) |-> device[t]]
      /\ \A t \in Range(SectionOrder) : Kept(t, device[t])
  BY DEF IInv, DeviceInv, IsFunction
<1>8. \A t \in Range(SectionOrder) : device'[t] = IF t = s THEN Known(s, v) ELSE device[t]
  BY <1>4, <1>7
<1>9. device' = [t \in Range(SectionOrder) |-> device'[t]]
  BY <1>4, <1>7
<1>10. \A t \in Range(SectionOrder) : Kept(t, device'[t])
  BY <1>5, <1>7, <1>8
<1>11. DeviceInv'
  BY <1>9, <1>10 DEF DeviceInv, IsFunction
<1>12. \A i \in 1 .. 10 \ {n} : SectionOrder[i] # s /\ SectionOrder[i] \in Range(SectionOrder)
  BY Sections10
<1>. QED
  BY <1>6, <1>8, <1>11, <1>12 DEF v

\* A section that is taken, or noted to be missing, keeps the invariant of the
\* invocation that posts it.
LEMMA PostedKeeps ==
  ASSUME IInv, NEW r \in Runs, Posting(r), Accepted(r), Takes(r),
         NEW q, NotedBy(push[r], q, FALSE, FALSE), push[r].next \in 1 .. 10
  PROVE  WrittenInv(device', q) /\ LockInv(device', way, served, q)
<1> DEFINE p == push[r]
           n == p.next
           v == p.posts[n].value
<1>1. /\ device'[SectionOrder[n]] = Known(SectionOrder[n], v)
      /\ \A i \in 1 .. 10 \ {n} : device'[SectionOrder[i]] = device[SectionOrder[i]]
  BY TakesIs
<1>2. NotedBy(p, q, FALSE, FALSE) /\ n \in 1 .. 10 /\ n = p.next /\ v = p.posts[n].value
  OBVIOUS
<1>3. WrittenInv(device, p) /\ LockInv(device, way, served, p) /\ Shape(p)
  BY DEF IInv, RunInv
<1>4. p.at = "posting" /\ way = p.way
  BY DEF Posting, Accepted
<1>5. p # Idle
  BY <1>4 DEF Idle
<1>6. PICK d : IsDocument(d) /\ IsPosts(p.posts, d)
  BY <1>3, <1>5 DEF Shape
<1>7. p.failed \in BOOLEAN /\ p.lost \in BOOLEAN
  BY <1>3, <1>5 DEF Shape
<1> HIDE DEF p, n, v
<1>8. Holds(device', q, n)
  BY <1>1, <1>2 DEF Holds, NotedBy
<1>9. \A i \in 1 .. n - 1 : Holds(device, p, i) => Holds(device', q, i)
  BY <1>1, <1>2 DEF Holds, NotedBy
<1>10. \A i \in 1 .. q.next - 1 : i \in 1 .. n - 1 \/ i = n
  BY <1>2 DEF NotedBy
<1>11. WrittenInv(device', q)
  <2>. SUFFICES ASSUME q.at # "idle", q.alone, ~q.failed
                PROVE  \A i \in 1 .. q.next - 1 : Holds(device', q, i)
    BY DEF WrittenInv
  <2>1. \A i \in 1 .. n - 1 : Holds(device, p, i)
    BY <1>2, <1>3, <1>4 DEF WrittenInv, NotedBy
  <2>. QED
    BY <1>8, <1>9, <1>10, <2>1
<1>12. LockInv(device', way, served, q)
  <2>. SUFFICES ASSUME q.at # "idle", q.alone, q.fit, ~q.lost
                PROVE  /\ TurnedBy(q, way) /\ TurnedBy(q, Set(device'))
                       /\ \A i \in 1 .. q.next - 1 : Holds(device', q, i) \/ Excused(q, i, served)
    BY DEF LockInv
  <2>1. /\ TurnedBy(p, way) /\ TurnedBy(p, Set(device))
        /\ \A i \in 1 .. n - 1 : Holds(device, p, i) \/ Excused(p, i, served)
    BY <1>2, <1>3, <1>4 DEF LockInv, NotedBy
  <2>2. /\ (NewPassword(q) <=> NewPassword(p)) /\ (NewHost(q) <=> NewHost(p))
        /\ q.way = p.way /\ q.next = n + 1
    BY <1>2 DEF NotedBy, NewPassword, NewHost
  <2>3. TurnedBy(q, way)
    BY <1>2, <2>1, <2>2 DEF TurnedBy
  <2>4. Set(device').password # Set(device).password => n = 3 /\ Set(device').password = p.posts[3].value.pwd
    <3>1. CASE n = 3
      <4>1. v = Encode(d)[".pwd.b"] /\ device'[".pwd.b"] = Known(".pwd.b", v)
        BY <1>1, <1>2, <1>6, <3>1, Sections10 DEF IsPosts
      <4>2. device'[".pwd.b"].pwd = v.pwd
        BY <1>6, <4>1, LocksKnown, SwosDeployAssumption
      <4>. QED
        BY <1>2, <3>1, <4>2 DEF Set
    <3>2. CASE n # 3
      <4>1. device'[".pwd.b"] = device[".pwd.b"]
        BY <1>1, <3>2, Sections10
      <4>. QED
        BY <4>1 DEF Set
    <3>. QED
      BY <3>1, <3>2
  <2>5. Set(device').host # Set(device).host => n = 8 /\ Set(device').host = p.posts[8].value.ip
    <3>1. CASE n = 8
      <4>1. v = Encode(d)["sys.b"] /\ device'["sys.b"] = Known("sys.b", v)
        BY <1>1, <1>2, <1>6, <3>1, Sections10 DEF IsPosts
      <4>2. device'["sys.b"].ip = v.ip
        BY <1>6, <4>1, LocksKnown, SwosDeployAssumption
      <4>. QED
        BY <1>2, <3>1, <4>2 DEF Set
    <3>2. CASE n # 8
      <4>1. device'["sys.b"] = device["sys.b"]
        BY <1>1, <3>2, Sections10
      <4>. QED
        BY <4>1 DEF Set
    <3>. QED
      BY <3>1, <3>2
  <2>6. TurnedBy(q, Set(device'))
    BY <1>2, <2>1, <2>2, <2>4, <2>5 DEF TurnedBy, NewPassword, NewHost
  <2>7. \A i \in 1 .. n - 1 : Excused(p, i, served) => Excused(q, i, served)
    BY <2>2 DEF Excused
  <2>8. \A i \in 1 .. q.next - 1 : Holds(device', q, i) \/ Excused(q, i, served)
    BY <1>8, <1>9, <1>10, <2>1, <2>7
  <2>. QED
    BY <2>3, <2>6, <2>8
<1>. QED
  BY <1>11, <1>12

LEMMA RefusedKeeps ==
  ASSUME IInv, NEW r \in Runs, Posting(r), ~Accepted(r),
         NEW q, NotedBy(push[r], q, TRUE, FALSE), push[r].next \in 1 .. 10
  PROVE  WrittenInv(device, q) /\ LockInv(device, way, served, q)
<1> DEFINE p == push[r]
           n == p.next
<1>1. NotedBy(p, q, TRUE, FALSE) /\ n \in 1 .. 10 /\ n = p.next
  OBVIOUS
<1>2. LockInv(device, way, served, p) /\ Shape(p)
  BY DEF IInv, RunInv
<1>3. p.at = "posting" /\ (way # p.way \/ ~Served(p.posts[n].path))
  BY DEF Posting, Accepted, Post
<1>4. p # Idle
  BY <1>3 DEF Idle
<1>5. PICK d : IsDocument(d) /\ IsPosts(p.posts, d)
  BY <1>2, <1>4 DEF Shape
<1>6. p.way \in Ways /\ way \in Ways
  BY <1>2, <1>4 DEF Shape, IInv
<1> HIDE DEF p, n
<1>7. WrittenInv(device, q)
  BY <1>1 DEF WrittenInv, NotedBy
<1>8. LockInv(device, way, served, q)
  <2>. SUFFICES ASSUME q.at # "idle", q.alone, q.fit, ~q.lost
                PROVE  /\ TurnedBy(q, way) /\ TurnedBy(q, Set(device))
                       /\ \A i \in 1 .. q.next - 1 : Holds(device, q, i) \/ Excused(q, i, served)
    BY DEF LockInv
  <2>1. /\ TurnedBy(p, way) /\ TurnedBy(p, Set(device))
        /\ \A i \in 1 .. n - 1 : Holds(device, p, i) \/ Excused(p, i, served)
    BY <1>1, <1>2, <1>3 DEF LockInv, NotedBy
  <2>2. /\ (NewPassword(q) <=> NewPassword(p)) /\ (NewHost(q) <=> NewHost(p))
        /\ q.way = p.way /\ q.posts = p.posts /\ q.next = n + 1
    BY <1>1 DEF NotedBy, NewPassword, NewHost
  <2>3. TurnedBy(q, way) /\ TurnedBy(q, Set(device))
    BY <1>1, <2>1, <2>2 DEF TurnedBy
  <2>4. \A i \in 1 .. n - 1 : Holds(device, q, i) \/ Excused(q, i, served)
    BY <2>1, <2>2 DEF Holds, Excused
  <2>5. Excused(q, n, served)
    <3>1. CASE way # p.way
      <4>1. way.password # p.way.password \/ way.host # p.way.host
        BY <1>6, <3>1 DEF Ways
      <4>2. (3 < n /\ NewPassword(p)) \/ (8 < n /\ NewHost(p))
        BY <1>1, <2>1, <4>1 DEF TurnedBy
      <4>3. CASE 3 < n /\ NewPassword(p)
        <5>1. NewPassword(q)
          BY <2>2, <4>3
        <5>. QED
          BY <4>3, <5>1 DEF Excused
      <4>4. CASE 8 < n /\ NewHost(p)
        <5>1. NewHost(q)
          BY <2>2, <4>4
        <5>. QED
          BY <4>4, <5>1 DEF Excused
      <4>. QED
        BY <4>2, <4>3, <4>4
    <3>2. CASE ~Served(p.posts[n].path)
      <4>1. p.posts[n].path = Path(SectionOrder[n])
        BY <1>1, <1>5 DEF IsPosts
      <4>2. n = 3 /\ ~served
        BY <1>1, <3>2, <4>1, PathsAre
      <4>. QED
        BY <4>2 DEF Excused
    <3>. QED
      BY <1>3, <3>1, <3>2
  <2>6. \A i \in 1 .. q.next - 1 : i \in 1 .. n - 1 \/ i = n
    BY <1>1, <2>2
  <2>. QED
    BY <2>3, <2>4, <2>5, <2>6
<1>. QED
  BY <1>7, <1>8

\* One that lost a request promises nothing more.
LEMMA LostKeeps ==
  ASSUME NEW p, NEW q, NotedBy(p, q, TRUE, TRUE), NEW dev
  PROVE  WrittenInv(dev, q) /\ LockInv(dev, way, served, q)
BY DEF NotedBy, WrittenInv, LockInv

\* Nor does one that another has come between.
LEMMA OthersKeep ==
  ASSUME NEW q, q.at = "idle" \/ ~q.alone, NEW dev
  PROVE  WrittenInv(dev, q) /\ LockInv(dev, way, served, q)
BY DEF WrittenInv, LockInv

LEMMA StepInv == IInv /\ [Next]_vars => IInv'
<1>. SUFFICES ASSUME IInv, [Next]_vars PROVE IInv'
  OBVIOUS
<1>1. /\ IsDocument(doc) /\ DeviceInv
      /\ way \in Ways /\ creds \in Ways /\ served \in BOOLEAN
      /\ pushes \in 0 .. MaxPushes /\ edits \in 0 .. MaxEdits /\ faults \in 0 .. MaxFaults
      /\ push = [r \in Runs |-> push[r]] /\ \A r \in Runs : RunInv(push[r])
  BY DEF IInv
<1>2. MaxPushes \in Nat /\ MaxEdits \in Nat /\ MaxFaults \in Nat /\ Unknown \subseteq Optional
  BY SwosDeployAssumption
<1>4. CASE Pull
  <2>1. IsDocument(doc')
    BY <1>1, <1>2, <1>4, EncodeOfDecode DEF Pull
  <2>. QED
    BY <1>1, <1>4, <2>1 DEF Pull, IInv, DeviceInv, RunInv
<1>5. CASE Edit
  <2>1. IsDocument(doc')
    BY <1>1, <1>5, EditsKeep DEF Edit
  <2>. QED
    BY <1>1, <1>2, <1>5, <2>1 DEF Edit, IInv, DeviceInv, RunInv
<1>6. CASE UpdateCreds
  <2>1. doc.password \in 0 .. 1 /\ doc.system.ip \in 0 .. 1
    <3>1. "ip" \in DOMAIN SysFields
      BY OptionalKeys, SysTables DEF InverseTables
    <3>. QED
      BY <1>1, <3>1 DEF IsDocument
  <2>2. creds' \in Ways
    BY <1>6, <2>1 DEF UpdateCreds, Ways
  <2>. QED
    BY <1>1, <1>6, <2>2 DEF UpdateCreds, IInv, DeviceInv, RunInv
<1>7. CASE Adopt
  <2>1. way' = Set(device) /\ UNCHANGED <<doc, creds, device, served, push, pushes, edits, faults>>
    BY <1>7 DEF Adopt
  <2>2. way' \in Ways
    BY <1>1, <2>1, SetWays
  <2>3. ASSUME NEW r \in Runs PROVE RunInv(push[r])'
    <3> DEFINE p == push[r]
    <3>1. Shape(p) /\ WrittenInv(device, p) /\ LockInv(device, way, served, p)
      BY <1>1 DEF RunInv
    <3> HIDE DEF p
    <3>2. LockInv(device, way', served, p)
      BY <2>1, <3>1 DEF LockInv
    <3>. QED
      BY <2>1, <3>1, <3>2 DEF RunInv, p
  <2>. QED
    BY <1>1, <2>1, <2>2, <2>3 DEF IInv, DeviceInv
<1>8. ASSUME NEW r \in Runs, Begin(r) PROVE IInv'
  <2> DEFINE p == [at |-> "posting", way |-> creds, failed |-> FALSE, next |-> 1,
                   posts |-> Sections(Serialize(Encode(doc))),
                   fit |-> (creds = way /\ way = Set(device)), lost |-> FALSE, alone |-> TRUE]
  <2>1. /\ push' = [push EXCEPT ![r] = p] /\ pushes < MaxPushes /\ pushes' = pushes + 1
        /\ UNCHANGED <<doc, creds, device, way, served, edits, faults>>
    BY <1>8 DEF Begin
  <2>2. IsPosts(p.posts, doc)
    BY PostsAre
  <2>3. /\ p.at = "posting" /\ p.way = creds /\ p.next = 1 /\ p.alone
        /\ p.fit => creds = way /\ way = Set(device)
    OBVIOUS
  <2>4. p \in [at : {"posting", "done"}, way : Ways, failed : BOOLEAN, next : 1 .. 11,
               posts : {p.posts}, fit : BOOLEAN, lost : BOOLEAN, alone : BOOLEAN]
    <3> DEFINE fit == creds = way /\ way = Set(device)
               posts == Sections(Serialize(Encode(doc)))
    <3>1. p = [at |-> "posting", way |-> creds, failed |-> FALSE, next |-> 1,
               posts |-> posts, fit |-> fit, lost |-> FALSE, alone |-> TRUE]
      OBVIOUS
    <3>2. fit \in BOOLEAN
      OBVIOUS
    <3> HIDE DEF fit, posts, p
    <3>. QED
      BY <1>1, <3>1, <3>2
  <2> HIDE DEF p
  <2>5. Shape(p)
    BY <1>1, <2>2, <2>3, <2>4 DEF Shape
  <2>6. WrittenInv(device, p) /\ LockInv(device, way, served, p)
    BY <2>3 DEF WrittenInv, LockInv, TurnedBy
  <2>7. \A q \in Runs : push'[q] = IF q = r THEN p ELSE push[q]
    BY <1>1, <2>1
  <2>8. push' = [q \in Runs |-> push'[q]]
    BY <1>1, <2>1
  <2>9. \A q \in Runs : RunInv(push[q])'
    BY <1>1, <2>1, <2>5, <2>6, <2>7 DEF RunInv
  <2>. QED
    BY <1>1, <1>2, <2>1, <2>8, <2>9 DEF IInv, DeviceInv
<1>9. ASSUME NEW r \in Runs, Posted(r) PROVE IInv'
  <2>1. /\ Posting(r) /\ Accepted(r) /\ Takes(r) /\ push' = Noted(r, FALSE, FALSE, TRUE)
        /\ UNCHANGED <<doc, creds, way, served, pushes, edits, faults>>
    BY <1>9 DEF Posted
  <2>2. /\ push' = [q \in Runs |-> push'[q]] /\ \A q \in Runs : Shape(push'[q])
        /\ NotedBy(push[r], push'[r], FALSE, FALSE) /\ push[r].next \in 1 .. 10
        /\ \A q \in Runs \ {r} : push'[q].at = "idle" \/ ~push'[q].alone
    BY <2>1, NotedIs
  <2>3. DeviceInv'
    BY <2>1, <2>2, TakesIs
  <2>4. WrittenInv(device', push'[r]) /\ LockInv(device', way, served, push'[r])
    BY <2>1, <2>2, PostedKeeps
  <2>5. \A q \in Runs \ {r} : WrittenInv(device', push'[q]) /\ LockInv(device', way, served, push'[q])
    BY <2>2, OthersKeep
  <2>6. \A q \in Runs : RunInv(push[q])'
    BY <2>1, <2>2, <2>4, <2>5 DEF RunInv
  <2>. QED
    BY <1>1, <2>1, <2>2, <2>3, <2>6 DEF IInv
<1>10. ASSUME NEW r \in Runs, Refused(r) PROVE IInv'
  <2>1. /\ Posting(r) /\ ~Accepted(r) /\ push' = Noted(r, TRUE, FALSE, FALSE)
        /\ UNCHANGED <<doc, creds, device, way, served, pushes, edits, faults>>
    BY <1>10 DEF Refused
  <2>2. /\ push' = [q \in Runs |-> push'[q]] /\ \A q \in Runs : Shape(push'[q])
        /\ NotedBy(push[r], push'[r], TRUE, FALSE) /\ push[r].next \in 1 .. 10
        /\ \A q \in Runs \ {r} : push'[q] = push[q]
    BY <2>1, NotedIs
  <2>3. WrittenInv(device, push'[r]) /\ LockInv(device, way, served, push'[r])
    BY <2>1, <2>2, RefusedKeeps
  <2>4. \A q \in Runs : RunInv(push[q])'
    BY <1>1, <2>1, <2>2, <2>3 DEF RunInv
  <2>. QED
    BY <1>1, <2>1, <2>2, <2>4 DEF IInv, DeviceInv
<1>11. ASSUME NEW r \in Runs, Lost(r) PROVE IInv'
  <2>1. /\ Posting(r) /\ push' = Noted(r, TRUE, TRUE, FALSE)
        /\ faults < MaxFaults /\ faults' = faults + 1
        /\ UNCHANGED <<doc, creds, device, way, served, pushes, edits>>
    BY <1>11 DEF Lost
  <2>2. /\ push' = [q \in Runs |-> push'[q]] /\ \A q \in Runs : Shape(push'[q])
        /\ NotedBy(push[r], push'[r], TRUE, TRUE)
        /\ \A q \in Runs \ {r} : push'[q] = push[q]
    BY <2>1, NotedIs
  <2>3. WrittenInv(device, push'[r]) /\ LockInv(device, way, served, push'[r])
    BY <2>2, LostKeeps
  <2>4. \A q \in Runs : RunInv(push[q])'
    BY <1>1, <2>1, <2>2, <2>3 DEF RunInv
  <2>5. faults' \in 0 .. MaxFaults
    BY <1>1, <1>2, <2>1
  <2>. QED
    BY <1>1, <2>1, <2>2, <2>4, <2>5 DEF IInv, DeviceInv
<1>12. ASSUME NEW r \in Runs, Unheard(r) PROVE IInv'
  <2>1. /\ Posting(r) /\ Takes(r) /\ push' = Noted(r, TRUE, TRUE, TRUE)
        /\ faults < MaxFaults /\ faults' = faults + 1
        /\ UNCHANGED <<doc, creds, way, served, pushes, edits>>
    BY <1>12 DEF Unheard
  <2>2. /\ push' = [q \in Runs |-> push'[q]] /\ \A q \in Runs : Shape(push'[q])
        /\ NotedBy(push[r], push'[r], TRUE, TRUE) /\ push[r].next \in 1 .. 10
        /\ \A q \in Runs \ {r} : push'[q].at = "idle" \/ ~push'[q].alone
    BY <2>1, NotedIs
  <2>3. DeviceInv'
    BY <2>1, <2>2, TakesIs
  <2>4. WrittenInv(device', push'[r]) /\ LockInv(device', way, served, push'[r])
    BY <2>2, LostKeeps
  <2>5. \A q \in Runs \ {r} : WrittenInv(device', push'[q]) /\ LockInv(device', way, served, push'[q])
    BY <2>2, OthersKeep
  <2>6. \A q \in Runs : RunInv(push[q])'
    BY <2>1, <2>2, <2>4, <2>5 DEF RunInv
  <2>7. faults' \in 0 .. MaxFaults
    BY <1>1, <1>2, <2>1
  <2>. QED
    BY <1>1, <2>1, <2>2, <2>3, <2>6, <2>7 DEF IInv
<1>13. ASSUME NEW r \in Runs, Exit(r) PROVE IInv'
  <2> DEFINE p == push[r]
             q == IF p.alone THEN [p EXCEPT !.at = "done"] ELSE Idle
  <2>1. /\ p.at = "posting" /\ p.next > Len(p.posts) /\ push' = [push EXCEPT ![r] = q]
        /\ UNCHANGED <<doc, creds, device, way, served, pushes, edits, faults>>
    BY <1>13 DEF Exit
  <2>2. Shape(p) /\ WrittenInv(device, p) /\ LockInv(device, way, served, p)
    BY <1>1 DEF RunInv
  <2> HIDE DEF p
  <2>3. p # Idle
    BY <2>1 DEF Idle
  <2>4. PICK d : IsDocument(d) /\ IsPosts(p.posts, d)
    BY <2>2, <2>3 DEF Shape
  <2>5. p \in [at : {"posting", "done"}, way : Ways, failed : BOOLEAN, next : 1 .. 11,
               posts : {p.posts}, fit : BOOLEAN, lost : BOOLEAN, alone : BOOLEAN]
    BY <2>2, <2>3 DEF Shape
  <2>6. p.next = 11
    BY <2>1, <2>4, <2>5 DEF IsPosts
  <2>7. Shape(q) /\ WrittenInv(device, q) /\ LockInv(device, way, served, q)
    <3>1. CASE p.alone
      <4>1. q = [p EXCEPT !.at = "done"]
        BY <3>1
      <4> HIDE DEF q
      <4>2. /\ q.at = "done" /\ q.next = p.next /\ q.posts = p.posts /\ q.way = p.way
            /\ q.failed = p.failed /\ q.fit = p.fit /\ q.lost = p.lost /\ q.alone = p.alone
        BY <2>5, <4>1
      <4>3. q \in [at : {"posting", "done"}, way : Ways, failed : BOOLEAN, next : 1 .. 11,
                   posts : {q.posts}, fit : BOOLEAN, lost : BOOLEAN, alone : BOOLEAN]
        BY <2>5, <4>1, <4>2
      <4>4. Shape(q)
        BY <2>4, <2>6, <3>1, <4>2, <4>3 DEF Shape
      <4>5. WrittenInv(device, q)
        BY <2>1, <2>2, <4>2 DEF WrittenInv, Holds
      <4>6. LockInv(device, way, served, q)
        BY <2>1, <2>2, <4>2 DEF LockInv, TurnedBy, Holds, Excused, NewPassword, NewHost
      <4>. QED
        BY <4>4, <4>5, <4>6
    <3>2. CASE ~p.alone
      <4>1. q = Idle /\ Idle.at = "idle"
        BY <3>2 DEF Idle
      <4> HIDE DEF q
      <4>. QED
        BY <4>1, OthersKeep DEF Shape
    <3>. QED
      BY <3>1, <3>2
  <2> HIDE DEF q
  <2>8. \A t \in Runs : push'[t] = IF t = r THEN q ELSE push[t]
    BY <1>1, <2>1
  <2>9. push' = [t \in Runs |-> push'[t]]
    BY <1>1, <2>1
  <2>10. \A t \in Runs : RunInv(push[t])'
    BY <1>1, <2>1, <2>7, <2>8 DEF RunInv
  <2>. QED
    BY <1>1, <2>1, <2>9, <2>10 DEF IInv, DeviceInv
<1>14. CASE UNCHANGED vars
  BY <1>1, <1>14 DEF vars, IInv, DeviceInv, RunInv
<1>. QED
  BY <1>4, <1>5, <1>6, <1>7, <1>8, <1>9, <1>10, <1>11, <1>12, <1>13, <1>14 DEF Next

\* What the switch holds comes from documents, and every invocation has either put
\* its sections there or met a reason not to.
THEOREM Invariance == Spec => []IInv
<1>. QED
  BY InitInv, StepInv, PTL DEF Spec

----------------------------------------------------------------------------
(* The properties                                                          *)

\* Documents that are pulled and edited have every field of the one the switch
\* was set up with, and the switch has every section, whatever is posted.
THEOREM TypeCorrect == Spec => []TypeOK
<1>1. IInv => TypeOK
  <2>. SUFFICES ASSUME IInv PROVE TypeOK
    OBVIOUS
  <2>1. IsDocument(doc) /\ IsDocument(Base)
    BY SwosDeployAssumption DEF IInv
  <2>2. DOMAIN doc = DOMAIN Base
    BY <2>1 DEF IsDocument
  <2>3. \A p \in Ports : DOMAIN doc.ports[p] = DOMAIN Base.ports[p]
    <3>. SUFFICES ASSUME NEW p \in Ports PROVE DOMAIN doc.ports[p] = DOMAIN Base.ports[p]
      OBVIOUS
    <3> DEFINE c == doc.ports[p]
               e == Base.ports[p]
    <3>1. IsPort(c) /\ IsPort(e)
      BY <2>1 DEF IsDocument
    <3> HIDE DEF c, e
    <3>2. DOMAIN c = DOMAIN e
      BY <3>1 DEF IsPort
    <3>. QED
      BY <3>2 DEF c, e
  <2>4. DOMAIN doc.system = DOMAIN Base.system
    BY <2>1 DEF IsDocument
  <2>5. \A r \in Runs : push[r].at \in {"idle", "posting", "done"}
    <3>. SUFFICES ASSUME NEW r \in Runs PROVE push[r].at \in {"idle", "posting", "done"}
      OBVIOUS
    <3>1. Shape(push[r])
      BY DEF IInv, RunInv
    <3>. QED
      BY <3>1 DEF Shape, Idle
  <2>6. DOMAIN device = Range(SectionOrder)
    BY DEF IInv, DeviceInv
  <2>. QED
    BY <2>2, <2>3, <2>4, <2>5, <2>6 DEF IInv, TypeOK
<1>. QED
  BY <1>1, Invariance, PTL

\* Encoding and decoding lose nothing of the document in hand, nor does a pull of
\* what the switch holds: no two keys are confused and none is forgotten.
\* (swos_config.py, _encode and _decode.)
THEOREM CodecKeeps == Spec => []SectionsReadBack
<1>1. IInv => SectionsReadBack
  BY DecodeOfEncode, EncodeOfDecode, SwosDeployAssumption DEF IInv, SectionsReadBack
<1>. QED
  BY <1>1, Invariance, PTL

\* An invocation that has ended has posted all ten sections.
LEMMA EndedIs ==
  ASSUME IInv, NEW r \in Runs, Ended(r)
  PROVE  /\ push[r].at # "idle" /\ push[r].alone /\ push[r].next = 11
         /\ \A i \in 1 .. 10 : Asked(r, SectionOrder[i]) = push[r].posts[i].value
<1>1. Shape(push[r]) /\ push[r] # Idle
  BY DEF IInv, RunInv, Ended, Idle
<1>2. PICK d : IsPosts(push[r].posts, d)
  BY <1>1 DEF Shape
<1>3. \A i \in 1 .. 10 : Asked(r, SectionOrder[i]) = push[r].posts[i].value
  BY <1>2, AskedIs
<1>. QED
  BY <1>1, <1>3 DEF Shape, Ended

\* When push.py exits 0, and no other invocation has posted since it began, the
\* switch holds every section of its document.  (push.py, main.)
THEOREM ReportsHold == Spec => []ReportIsTrue
<1>1. IInv => ReportIsTrue
  <2>. SUFFICES ASSUME IInv, NEW r \in Runs, Ended(r), ~push[r].failed PROVE Missing(r) = {}
    BY DEF ReportIsTrue
  <2>1. /\ push[r].at # "idle" /\ push[r].alone /\ push[r].next = 11
        /\ \A i \in 1 .. 10 : Asked(r, SectionOrder[i]) = push[r].posts[i].value
    BY EndedIs
  <2>2. \A i \in 1 .. 10 : Holds(device, push[r], i)
    BY <2>1 DEF IInv, RunInv, WrittenInv
  <2>3. DOMAIN device = Range(SectionOrder)
    BY DEF IInv, DeviceInv
  <2>4. \A s \in DOMAIN device : \E i \in 1 .. 10 : SectionOrder[i] = s
    BY <2>3, Sections10
  <2>5. \A s \in DOMAIN device : device[s] = Known(s, Asked(r, s))
    BY <2>1, <2>2, <2>4 DEF Holds
  <2>. QED
    BY <2>5 DEF Missing
<1>. QED
  BY <1>1, Invariance, PTL

\* When push.py had the right password and address and every request was
\* answered, a section is missing only behind a lock the invocation itself has
\* turned: the password it posted, the address it posted, or that the switch
\* serves no `pwd.b'.  (push.py, main: the order of the sections and the dot.)
THEOREM LocksExplain == Spec => []LockStops
<1>1. IInv => LockStops
  <2> DEFINE Allowed(r) ==
               (IF served THEN {} ELSE {".pwd.b"})
               \union (IF Asked(r, ".pwd.b").pwd # push[r].way.password
                       THEN Behind(".pwd.b") ELSE {})
               \union (IF Asked(r, "sys.b").ip # push[r].way.host
                       THEN Behind("sys.b") ELSE {})
  <2>. SUFFICES ASSUME IInv, NEW r \in Runs, Ended(r), push[r].fit, ~push[r].lost,
                       NEW s \in Missing(r)
                PROVE  s \in Allowed(r)
    BY DEF LockStops
  <2>1. /\ push[r].at # "idle" /\ push[r].alone /\ push[r].next = 11
        /\ \A i \in 1 .. 10 : Asked(r, SectionOrder[i]) = push[r].posts[i].value
    BY EndedIs
  <2>2. s \in Range(SectionOrder) /\ device[s] # Known(s, Asked(r, s))
    BY DEF Missing, IInv, DeviceInv
  <2>3. PICK i \in 1 .. 10 : SectionOrder[i] = s
    BY <2>2, Sections10
  <2>4. ~Holds(device, push[r], i)
    BY <2>1, <2>2, <2>3 DEF Holds
  <2>5. Excused(push[r], i, served)
    BY <2>1, <2>4 DEF IInv, RunInv, LockInv
  <2>6. CASE i = 3 /\ ~served
    BY <2>3, <2>6, Sections10
  <2>7. CASE 3 < i /\ NewPassword(push[r])
    <3>1. Asked(r, ".pwd.b").pwd # push[r].way.password
      BY <2>1, <2>7, Sections10 DEF NewPassword
    <3>2. s \in Behind(".pwd.b")
      BY <2>3, <2>7, Sections10 DEF Behind
    <3>. QED
      BY <3>1, <3>2
  <2>8. CASE 8 < i /\ NewHost(push[r])
    <3>1. Asked(r, "sys.b").ip # push[r].way.host
      BY <2>1, <2>8, Sections10 DEF NewHost
    <3>2. s \in Behind("sys.b")
      BY <2>3, <2>8, Sections10 DEF Behind
    <3>. QED
      BY <3>1, <3>2
  <2>. QED
    BY <2>5, <2>6, <2>7, <2>8 DEF Excused
<1>. QED
  BY <1>1, Invariance, PTL
=============================================================================
