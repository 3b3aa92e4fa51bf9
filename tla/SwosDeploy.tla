----------------------------- MODULE SwosDeploy -----------------------------
(***************************************************************************)
(* lib/platform/swos/cli: a SwOS switch takes no backup as a whole, so     *)
(* push.py posts the sections of one, in the order of the file, each in a  *)
(* request of its own.  A section that fails is noted and the rest is      *)
(* posted all the same.                                                    *)
(*                                                                         *)
(* Two sections are about the requests themselves: the password, and the   *)
(* address in sys.b.  When the switch begins to ask for a new password or  *)
(* to answer at a new address is its own affair: at once, or at any time   *)
(* after (Adopt).  So is whether it has a resource `pwd.b', the path under *)
(* which push.py posts the section `.pwd.b' (served).  MaxFaults bounds    *)
(* lost requests and lost answers, MaxPushes and MaxEdits what is asked.   *)
(***************************************************************************)
EXTENDS SwosCodec

CONSTANTS
  Runs,      \* concurrent invocations of push.py
  Base,      \* the document the switch was set up with
  Unknown,   \* keys the switch's firmware does not have
  MaxPushes, MaxEdits, MaxFaults

Optional == {"blkp", "fctr", "imr", "lck", "lckf", "omr", "suni", "mrto", "fvid",
             "mrr", "ci", "loc"}

ASSUME SwosDeployAssumption ==
  /\ IsDocument(Base) /\ Unknown \subseteq Optional
  /\ MaxPushes \in Nat /\ MaxEdits \in Nat /\ MaxFaults \in Nat

VARIABLES
  doc,      \* the document in the operator's hands
  creds,    \* password and address in the environment or in ~/.netrc
  device,   \* the sections the switch holds
  way,      \* the password and the address it answers to
  served,   \* whether it has a resource pwd.b
  push,     \* push[r]: the invocation r
  pushes, edits, faults

vars == <<doc, creds, device, way, served, push, pushes, edits, faults>>

\* The switch keeps of a section, and prints, the keys it knows.
Known(name, value) ==
  LET Trim(rec) == [k \in DOMAIN rec \ Unknown |-> rec[k]]
  IN  CASE name = "vlan.b" -> [i \in DOMAIN value |-> Trim(value[i])]
        [] name \in {"acl.b", "host.b"} -> value
        [] OTHER -> Trim(value)

KnownAll(raw) == [s \in DOMAIN raw |-> Known(s, raw[s])]

\* A backup ends with the bare name of an empty table, which counts as none.
Backup ==
  [s \in {t \in DOMAIN device : t \notin {"acl.b", "host.b"} \/ device[t] # Empty}
     |-> device[s]]

\* The password and the address that are set on a switch.
Set(dev) == [password |-> dev[".pwd.b"].pwd, host |-> dev["sys.b"].ip]

Image(d) == File(Serialize(Encode(d)))

Idle == [at |-> "idle"]

Init ==
  /\ doc = Base /\ device = KnownAll(Image(Base))
  /\ way = [password |-> Base.password, host |-> Base.system.ip]
  /\ creds = way
  /\ served \in BOOLEAN
  /\ push = [r \in Runs |-> Idle]
  /\ pushes = 0 /\ edits = 0 /\ faults = 0

-----------------------------------------------------------------------------
(* The operator. *)

Pull ==
  /\ creds = way
  /\ doc' = Decode(File(Serialize(Backup)))
  /\ UNCHANGED <<creds, device, way, served, push, pushes, edits, faults>>

Flip(v) == 1 - v
PortEdits(d) ==
  {[d EXCEPT !.ports[1][f] = Flip(@)] : f \in DOMAIN Bits \union DOMAIN Items}
  \union {[d EXCEPT !.ports[1].forward_to = {}]}
Edits(d) ==
  PortEdits(d)
  \union {[d EXCEPT !.vlans[i][f] = Flip(@)] :
            i \in DOMAIN d.vlans, f \in DOMAIN VlanFields}
  \union {[d EXCEPT !.system[f] = Flip(@)] : f \in DOMAIN SysFields}
  \union {[d EXCEPT !.snmp[f] = Flip(@)] : f \in DOMAIN SnmpFields}
  \union {[d EXCEPT !.rstp = {}], [d EXCEPT !.mirror = Flip(@)],
          [d EXCEPT !.filter_vid = Flip(@)], [d EXCEPT !.password = Flip(@)],
          [d EXCEPT !.acl = <<1>>], [d EXCEPT !.hosts = <<1>>],
          [d EXCEPT !.vlans = Empty]}

Edit ==
  /\ edits < MaxEdits
  /\ doc' \in Edits(doc)
  /\ edits' = edits + 1
  /\ UNCHANGED <<creds, device, way, served, push, pushes, faults>>

UpdateCreds ==
  /\ creds' = [password |-> doc.password, host |-> doc.system.ip]
  /\ UNCHANGED <<doc, device, way, served, push, pushes, edits, faults>>

Adopt ==
  /\ way # Set(device) /\ way' = Set(device)
  /\ UNCHANGED <<doc, creds, device, served, push, pushes, edits, faults>>

-----------------------------------------------------------------------------
(* push.py. *)

\* The pattern that finds a section takes no leading dot.
Path(name) == IF name = ".pwd.b" THEN "pwd.b" ELSE name
Sections(text) ==
  [i \in DOMAIN text |-> [path |-> Path(text[i].name), value |-> text[i].value]]

\* The section the switch has under a path; none for pwd.b if it is not served.
Resource(path) == IF path = "pwd.b" THEN ".pwd.b" ELSE path
Served(path) == path # "pwd.b" \/ served

\* An invocation records for the properties whether it had the right credentials
\* when it began, and no others were about to be adopted (fit), whether a request
\* of its own was lost, and whether another one changed the switch since it began
\* (alone).
Begin(r) ==
  /\ push[r].at # "posting" /\ pushes < MaxPushes
  /\ push' = [push EXCEPT ![r] =
                [at |-> "posting", way |-> creds, failed |-> FALSE, next |-> 1,
                 posts |-> Sections(Serialize(Encode(doc))),
                 fit |-> creds = way /\ way = Set(device),
                 lost |-> FALSE, alone |-> TRUE]]
  /\ pushes' = pushes + 1
  /\ UNCHANGED <<doc, creds, device, way, served, edits, faults>>

Posting(r) == push[r].at = "posting" /\ push[r].next <= Len(push[r].posts)
Post(r) == push[r].posts[push[r].next]
Accepted(r) == push[r].way = way /\ Served(Post(r).path)

\* Push r goes on to its next section; if it changed the switch the others are
\* no longer alone, and what one that ended left is history.
NotedLast(r, failed, lost, wrote) ==
  [q \in Runs |->
     IF q = r
     THEN [push[r] EXCEPT !.next = @ + 1, !.failed = failed, !.lost = @ \/ lost]
     ELSE IF wrote /\ push[q].at = "posting" THEN [push[q] EXCEPT !.alone = FALSE]
     ELSE IF wrote THEN Idle
     ELSE push[q]]
Noted(r, failed, lost, wrote) ==
  [q \in Runs |->
     IF q = r
     THEN [push[r] EXCEPT !.next = @ + 1, !.failed = @ \/ failed, !.lost = @ \/ lost]
     ELSE IF wrote /\ push[q].at = "posting" THEN [push[q] EXCEPT !.alone = FALSE]
     ELSE IF wrote THEN Idle
     ELSE push[q]]

Takes(r) ==
  LET s == Resource(Post(r).path)
  IN  device' = [device EXCEPT ![s] = Known(s, Post(r).value)]

Posted(r) ==
  /\ Posting(r) /\ Accepted(r)
  /\ Takes(r) /\ push' = Noted(r, FALSE, FALSE, TRUE)
  /\ UNCHANGED <<doc, creds, way, served, pushes, edits, faults>>

RefusedStops(r) ==
  /\ Posting(r) /\ ~Accepted(r)
  /\ push' = [push EXCEPT ![r].failed = TRUE, ![r].next = Len(push[r].posts) + 1]
  /\ UNCHANGED <<doc, creds, device, way, served, pushes, edits, faults>>
Refused(r) ==
  /\ Posting(r) /\ ~Accepted(r)
  /\ push' = Noted(r, TRUE, FALSE, FALSE)
  /\ UNCHANGED <<doc, creds, device, way, served, pushes, edits, faults>>

Lost(r) ==
  /\ Posting(r) /\ faults < MaxFaults
  /\ push' = Noted(r, TRUE, TRUE, FALSE)
  /\ faults' = faults + 1
  /\ UNCHANGED <<doc, creds, device, way, served, pushes, edits>>

Unheard(r) ==
  /\ Posting(r) /\ Accepted(r) /\ faults < MaxFaults
  /\ Takes(r) /\ push' = Noted(r, TRUE, TRUE, TRUE)
  /\ faults' = faults + 1
  /\ UNCHANGED <<doc, creds, way, served, pushes, edits>>

\* The exit status is whether any section failed.  It is kept while the switch
\* is as the invocation left it.
Exit(r) ==
  /\ push[r].at = "posting" /\ push[r].next > Len(push[r].posts)
  /\ push' = [push EXCEPT ![r] = IF @.alone THEN [@ EXCEPT !.at = "done"] ELSE Idle]
  /\ UNCHANGED <<doc, creds, device, way, served, pushes, edits, faults>>

Next ==
  \/ Pull \/ Edit \/ UpdateCreds \/ Adopt
  \/ \E r \in Runs : \/ Begin(r) \/ Posted(r) \/ Refused(r)
                     \/ Lost(r) \/ Unheard(r) \/ Exit(r)

Spec == Init /\ [][Next]_vars
-----------------------------------------------------------------------------
(* Properties. *)

Ways == [password : 0 .. 1, host : 0 .. 1]

\* The switch holds every section, whatever was posted; documents stay ones
\* that can be encoded.
TypeOK ==
  /\ DOMAIN device = Range(SectionOrder)
  /\ DOMAIN doc = DOMAIN Base
  /\ \A p \in Ports : DOMAIN doc.ports[p] = DOMAIN Base.ports[p]
  /\ DOMAIN doc.system = DOMAIN Base.system
  /\ way \in Ways /\ creds \in Ways /\ served \in BOOLEAN
  /\ \A r \in Runs : push[r].at \in {"idle", "posting", "done"}
  /\ pushes \in 0 .. MaxPushes /\ edits \in 0 .. MaxEdits /\ faults \in 0 .. MaxFaults

\* Encoding a document and decoding the backup gives the document, and pulling
\* the switch's document and encoding it gives what the switch holds: no two
\* keys are confused and none is forgotten.  (_encode and _decode.)
SectionsReadBack ==
  /\ Decode(Image(doc)) = doc
  /\ KnownAll(Image(Decode(File(Serialize(Backup))))) = device

Ended(r) == push[r].at = "done"
Asked(r, s) ==
  LET posts == push[r].posts
  IN  posts[CHOOSE i \in DOMAIN posts : Resource(posts[i].path) = s].value
Missing(r) == {s \in DOMAIN device : device[s] # Known(s, Asked(r, s))}

\* A push that exits 0, and that no other came after, has left the switch with
\* the whole of its document.  (push.py, main.)
ReportIsTrue == \A r \in Runs : Ended(r) /\ ~push[r].failed => Missing(r) = {}

Behind(s) ==
  {SectionOrder[j] : j \in {j \in DOMAIN SectionOrder :
                              \E i \in 1 .. j - 1 : SectionOrder[i] = s}}

\* A push with the right credentials and no request lost stops short only
\* behind a lock of its own turning: it misses the password if that is not
\* served, what is behind the password if it changes it, and what is behind the
\* address if it changes that.  (The order of the sections, and the dot.)
LockStops ==
  \A r \in Runs :
    Ended(r) /\ push[r].fit /\ ~push[r].lost =>
      Missing(r) \subseteq
        (IF served THEN {} ELSE {".pwd.b"})
        \union (IF Asked(r, ".pwd.b").pwd # push[r].way.password
                THEN Behind(".pwd.b") ELSE {})
        \union (IF Asked(r, "sys.b").ip # push[r].way.host
                THEN Behind("sys.b") ELSE {})
=============================================================================
