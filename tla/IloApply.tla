------------------------------ MODULE IloApply ------------------------------
(***************************************************************************)
(* lib/platform/ilo/render/ilo_config.py: `ilo-config apply' brings the    *)
(* BIOS attributes of a host to a desired state over its BMC.  It reads    *)
(* the live attributes, and patches the difference into the Settings       *)
(* resource, whose values become live at the host's next POST.             *)
(*                                                                         *)
(* Between any two of its requests other writers of the same BMC, another  *)
(* run of the tool among them, may get in.  The NicBoot attribute of a     *)
(* network-boot seat is named by the seat.  MaxWrites bounds the writes to *)
(* Settings, whose ETag is modelled as their number.                       *)
(***************************************************************************)
EXTENDS Naturals

CONSTANTS
  Runs,       \* concurrent invocations of ilo-config apply
  Seats,      \* NIC ports, by adapter and port, that a spec may name
  Offered,    \* those with a NicBoot attribute in the firmware's mappings
  Others,     \* other BIOS attributes
  Settings,   \* values of those
  Specs,      \* desired states: [pxe, bios]
  NoSpec,     \* no spec
  NoBoot,     \* the pxe of a spec without network_boot
  NoTag,      \* no ETag in an answer
  MaxWrites   \* bound on writes to the Settings resource

Attrs == Offered \union Others
Values == {"NetworkBoot", "Disabled"} \union Settings
Partial(D) == UNION {[S -> Values] : S \in SUBSET D}

ASSUME IloAssumption ==
  /\ Offered \subseteq Seats /\ Offered \intersect Others = {}
  /\ \A s \in Specs : /\ s.pxe = NoBoot \/ s.pxe \subseteq Seats
                      /\ s.bios \in UNION {[S -> Settings] : S \in SUBSET Others}
  /\ NoSpec \notin Specs \union Runs /\ MaxWrites \in Nat /\ NoTag \notin Nat

VARIABLES
  live,      \* /Systems/1/BIOS/
  staged,    \* /Systems/1/BIOS/Settings/
  version,   \* its ETag
  run,       \* run[r]: where an invocation is and what it knows
  promise    \* history: the spec the last invocation reported done, until
             \* someone else writes what it is about

bmc == <<live, staged, version>>
vars == <<bmc, run, promise>>

Idle == [at |-> "idle"]

\* Past its fetch an invocation also records for the properties whether the
\* attributes it manages had nothing pending, and no other writer since.
Fetched == {"etag", "patch"}

Init ==
  /\ live \in {f \in [Attrs -> Values] :
                 /\ \A s \in Offered : f[s] \in {"NetworkBoot", "Disabled"}
                 /\ \A a \in Others : f[a] \in Settings}
  /\ staged = live /\ version = 0
  /\ run = [r \in Runs |-> Idle]
  /\ promise = NoSpec

----------------------------------------------------------------------------
(* Helpers                                                                 *)

\* Variant: the seats that are not named are left out.
ExpandNamed(s) ==
  [a \in DOMAIN s.bios \union (IF s.pxe = NoBoot THEN {} ELSE s.pxe) |->
     IF a \in Others THEN s.bios[a] ELSE "NetworkBoot"]

\* expand_network_boot: every offered seat gets a value, if the spec has any.
Expand(s) ==
  [a \in DOMAIN s.bios \union (IF s.pxe = NoBoot THEN {} ELSE Offered) |->
     IF a \in Others THEN s.bios[a] ELSE IF a \in s.pxe THEN "NetworkBoot" ELSE "Disabled"]

\* Variant: everything the BMC reports is in the body.
DiffAll(have, want) ==
  [a \in DOMAIN have |-> IF a \in DOMAIN want THEN want[a] ELSE have[a]]

\* diff: the wanted attributes whose live value differs.
Diff(have, want) == [a \in {b \in DOMAIN want : have[b] # want[b]} |-> want[a]]

\* Someone writes the attributes A: who is between fetch and patch does not see
\* it, and a report about one of them is void.
Overtake(A, except) ==
  run' = [q \in Runs |->
            IF q # except /\ run[q].at \in Fetched
              THEN [run[q] EXCEPT !.settled = @ /\ A \intersect DOMAIN Expand(run[q].spec) = {}]
              ELSE IF q = except THEN Idle ELSE run[q]]
Void(A) == promise # NoSpec /\ A \intersect DOMAIN Expand(promise) # {}

Write(body) ==
  /\ version < MaxWrites /\ version' = version + 1
  /\ staged' = [a \in Attrs |-> IF a \in DOMAIN body THEN body[a] ELSE staged[a]]
  /\ UNCHANGED live

----------------------------------------------------------------------------
(* ilo-config apply, request by request                                    *)

Begin(r) ==
  /\ run[r].at = "idle"
  /\ \E s \in Specs, dry \in BOOLEAN :
       run' = [run EXCEPT ![r] = [at |-> "map", spec |-> s, dry |-> dry]]
  /\ UNCHANGED <<bmc, promise>>

\* GET BIOS/Mappings/: an unknown seat ends the run, the rest is expanded.
Map(r) ==
  LET s == run[r].spec IN
  /\ run[r].at = "map"
  /\ run' = [run EXCEPT ![r] =
       IF s.pxe = NoBoot \/ s.pxe \subseteq Offered
         THEN [at |-> "fetch", spec |-> s, dry |-> run[r].dry, want |-> Expand(s)]
         ELSE Idle]
  /\ UNCHANGED <<bmc, promise>>

\* GET BIOS/: the plan.  A dry run ends here, and so does a run with no plan.
Fetch(r) ==
  LET want == run[r].want
      ops == Diff(live, want)
      settled == \A a \in DOMAIN want : staged[a] = live[a]
  IN /\ run[r].at = "fetch"
     /\ IF DOMAIN ops = {} \/ run[r].dry
          THEN /\ run' = [run EXCEPT ![r] = Idle]
               /\ promise' = IF DOMAIN ops = {} /\ settled THEN run[r].spec ELSE promise
          ELSE /\ run' = [run EXCEPT ![r] =
                    [at |-> "etag", spec |-> run[r].spec, ops |-> ops,
                     settled |-> settled]]
               /\ UNCHANGED promise
     /\ UNCHANGED bmc

\* GET BIOS/Settings/, for its ETag only, which a BMC may not give.
Etag(r) ==
  /\ run[r].at = "etag"
  /\ \E tag \in {version, NoTag} :
       run' = [run EXCEPT ![r] =
         [at |-> "patch", spec |-> @.spec, ops |-> @.ops,
          settled |-> @.settled, tag |-> tag]]
  /\ UNCHANGED <<bmc, promise>>

\* PATCH, with If-Match if there is an ETag.
Patch(r) ==
  /\ run[r].at = "patch" /\ run[r].tag \in {version, NoTag}
  /\ Write(run[r].ops)
  /\ Overtake(DOMAIN run[r].ops, r)
  /\ promise' = IF run[r].settled THEN run[r].spec ELSE NoSpec

\* The write is done and its answer lost: the run ends with an error.
PatchUnheard(r) ==
  /\ run[r].at = "patch" /\ run[r].tag \in {version, NoTag}
  /\ Write(run[r].ops)
  /\ Overtake(DOMAIN run[r].ops, r)
  /\ promise' = IF Void(DOMAIN run[r].ops) THEN NoSpec ELSE promise

\* The BMC refuses: the resource has another ETag, or may only be written with
\* one.
PatchRefused(r) ==
  /\ run[r].at = "patch" /\ run[r].tag # version
  /\ run' = [run EXCEPT ![r] = Idle]
  /\ UNCHANGED <<bmc, promise>>

\* Any request fails or times out.
Fails(r) ==
  /\ run[r].at # "idle"
  /\ run' = [run EXCEPT ![r] = Idle]
  /\ UNCHANGED <<bmc, promise>>

----------------------------------------------------------------------------
(* The BMC and its other users                                             *)

\* An edit by hand or by another tool.
Edit(a) ==
  /\ \E v \in (IF a \in Others THEN Settings ELSE {"NetworkBoot", "Disabled"}) :
       v # staged[a] /\ Write([b \in {a} |-> v])
  /\ Overtake({a}, NoSpec)
  /\ promise' = IF Void({a}) THEN NoSpec ELSE promise

\* The host boots and its firmware takes over what is staged; the ETag of
\* Settings stays.
Post ==
  /\ live # staged
  /\ live' = staged
  /\ UNCHANGED <<staged, version, run, promise>>

----------------------------------------------------------------------------
Apply(r) ==
  \/ Begin(r) \/ Map(r) \/ Fetch(r) \/ Etag(r)
  \/ Patch(r) \/ PatchUnheard(r) \/ PatchRefused(r) \/ Fails(r)

Next == (\E r \in Runs : Apply(r)) \/ (\E a \in Attrs : Edit(a)) \/ Post

Spec == Init /\ [][Next]_vars

----------------------------------------------------------------------------
(* Properties                                                              *)

RunStates ==
  {Idle} \union [at : {"map"}, spec : Specs, dry : BOOLEAN]
         \union [at : {"fetch"}, spec : Specs, dry : BOOLEAN, want : Partial(Attrs)]
         \union [at : {"etag"}, spec : Specs, ops : Partial(Attrs), settled : BOOLEAN]
         \union [at : {"patch"}, spec : Specs, ops : Partial(Attrs), settled : BOOLEAN,
                 tag : (0 .. MaxWrites) \union {NoTag}]

TypeOK ==
  /\ live \in [Attrs -> Values] /\ staged \in [Attrs -> Values]
  /\ version \in 0 .. MaxWrites
  /\ promise \in Specs \union {NoSpec}
  /\ run \in [Runs -> RunStates]

\* What an invocation reports done is what the next POST makes live: exactly the
\* seats of the spec boot from the network, and its attributes have their values.
\* This needs a BMC with nothing else pending on them at the fetch, and holds
\* until another writer comes.
PromiseKept ==
  promise # NoSpec =>
    /\ promise.pxe # NoBoot => {s \in Offered : staged[s] = "NetworkBoot"} = promise.pxe
    /\ \A a \in DOMAIN promise.bios : staged[a] = promise.bios[a]

\* An attribute the spec does not name is left alone, and so is everything by a
\* dry run.
Touches(r, a) ==
  /\ run[r].at = "patch"
  /\ \/ a \in DOMAIN run[r].spec.bios
     \/ a \in Offered /\ run[r].spec.pxe # NoBoot
LeftAlone ==
  [][ \A r \in Runs : run[r].at # "idle" /\ run'[r].at = "idle" =>
        \A a \in Attrs : staged'[a] # staged[a] => Touches(r, a) ]_vars
=============================================================================
