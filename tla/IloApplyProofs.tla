--------------------------- MODULE IloApplyProofs ---------------------------
(***************************************************************************)
(* What IloApply guarantees for any number of invocations and writers,     *)
(* every set of seats, attributes and specs.                               *)
(*                                                                         *)
(* PromiseKept speaks of the last report only.  For a PATCH to make it     *)
(* true, the run must have known since its fetch that the attributes it    *)
(* does not patch are as they should be, and that nobody wrote them since: *)
(* RunInv carries that from the fetch to the PATCH.                        *)
(***************************************************************************)
EXTENDS IloApply, TLAPS

\* All seats of the spec are there; any other run has ended at its mappings.
Sound(s) == s.pxe = NoBoot \/ s.pxe \subseteq Offered

\* Staged is what the spec asks for, apart from the attributes in ops.
Stages(s, ops) == \A a \in DOMAIN Expand(s) \ ops : staged[a] = Expand(s)[a]

FetchInv(q) == q.at = "fetch" => Sound(q.spec) /\ q.want = Expand(q.spec)

PlanInv(q) ==
  q.at \in Fetched =>
    /\ Sound(q.spec)
    /\ DOMAIN q.ops \subseteq DOMAIN Expand(q.spec)
    /\ \A a \in DOMAIN q.ops : q.ops[a] = Expand(q.spec)[a]
    /\ q.settled => Stages(q.spec, DOMAIN q.ops)

RunInv == \A r \in Runs : FetchInv(run[r]) /\ PlanInv(run[r])

PromiseInv == promise # NoSpec => Sound(promise) /\ Stages(promise, {})

IInv == TypeOK /\ RunInv /\ PromiseInv

----------------------------------------------------------------------------
(* Partial assignments, expansion and difference                           *)

LEMMA PartialOf ==
  ASSUME NEW D, NEW f
  PROVE  f \in Partial(D) <=> \E S \in SUBSET D : f \in [S -> Values]
  BY DEF Partial

\* The expansion of a spec whose seats are all there assigns attributes.
LEMMA ExpandType ==
  ASSUME NEW s \in Specs, Sound(s)
  PROVE  /\ Expand(s) \in Partial(Attrs)
         /\ DOMAIN Expand(s) \subseteq Attrs
<1>1. PICK S \in SUBSET Others : s.bios \in [S -> Settings]
  BY IloAssumption
<1>2. DOMAIN Expand(s) = S \union (IF s.pxe = NoBoot THEN {} ELSE Offered)
  BY <1>1 DEF Expand
<1>3. DOMAIN Expand(s) \in SUBSET Attrs
  BY <1>2 DEF Attrs
<1>4. ASSUME NEW a \in DOMAIN Expand(s) PROVE Expand(s)[a] \in Values
  <2>1. CASE a \in Others
    BY <1>1, <1>2, <1>4, <2>1, IloAssumption DEF Expand, Values
  <2>2. CASE a \notin Others
    BY <1>1, <1>2, <1>4, <2>2 DEF Expand, Values
  <2>. QED
    BY <2>1, <2>2
<1>5. Expand(s) \in [DOMAIN Expand(s) -> Values]
  BY <1>4 DEF Expand
<1>. QED
  BY <1>3, <1>5, PartialOf

\* A difference assigns a part of what is wanted.
LEMMA DiffOf ==
  ASSUME NEW have, NEW want \in Partial(Attrs)
  PROVE  /\ Diff(have, want) \in Partial(Attrs)
         /\ DOMAIN Diff(have, want) \subseteq DOMAIN want
         /\ \A a \in DOMAIN Diff(have, want) : Diff(have, want)[a] = want[a]
         /\ \A a \in DOMAIN want \ DOMAIN Diff(have, want) : have[a] = want[a]
<1>1. PICK S \in SUBSET Attrs : want \in [S -> Values]
  BY PartialOf
<1>2. DOMAIN Diff(have, want) = {b \in S : have[b] # want[b]}
  BY <1>1 DEF Diff
<1>3. \A a \in DOMAIN Diff(have, want) : Diff(have, want)[a] = want[a]
  BY <1>1, <1>2 DEF Diff
<1>4. Diff(have, want) \in [DOMAIN Diff(have, want) -> Values]
  BY <1>1, <1>2, <1>3 DEF Diff
<1>5. DOMAIN Diff(have, want) \in SUBSET Attrs
  BY <1>1, <1>2
<1>. QED
  BY <1>1, <1>2, <1>3, <1>4, <1>5, PartialOf

----------------------------------------------------------------------------
(* Writers                                                                 *)

\* What a write leaves staged.
LEMMA WriteInv ==
  ASSUME TypeOK, NEW body \in Partial(Attrs), Write(body)
  PROVE  /\ staged' \in [Attrs -> Values] /\ live' \in [Attrs -> Values]
         /\ version' \in 0 .. MaxWrites
         /\ DOMAIN body \subseteq Attrs
         /\ \A a \in DOMAIN body : staged'[a] = body[a]
         /\ \A a \in Attrs \ DOMAIN body : staged'[a] = staged[a]
<1>1. PICK S \in SUBSET Attrs : body \in [S -> Values]
  BY PartialOf
<1>2. version' \in 0 .. MaxWrites
  BY IloAssumption DEF Write, TypeOK
<1>. QED
  BY <1>1, <1>2 DEF Write, TypeOK

\* A write to A makes the knowledge of the others about A void.
LEMMA OvertakeInv ==
  ASSUME TypeOK, RunInv, NEW A \in SUBSET Attrs, NEW except, Overtake(A, except),
         \A a \in Attrs \ A : staged'[a] = staged[a]
  PROVE  run' \in [Runs -> RunStates] /\ RunInv'
<1>1. ASSUME NEW q \in Runs, q # except, run[q].at \in Fetched
      PROVE  run'[q] \in RunStates /\ FetchInv(run[q])' /\ PlanInv(run[q])'
  <2> DEFINE now == run[q].settled /\ A \intersect DOMAIN Expand(run[q].spec) = {}
  <2>1. run'[q] = [run[q] EXCEPT !.settled = now]
    BY <1>1 DEF Overtake
  <2>2. /\ run[q] \in RunStates /\ run[q].at \in {"etag", "patch"}
        /\ run[q].settled \in BOOLEAN /\ run[q].spec \in Specs
    BY <1>1 DEF TypeOK, RunStates, Fetched, Idle
  <2>3. now \in BOOLEAN
    BY <2>2
  <2>4. run'[q] \in RunStates
    <3> HIDE DEF now
    <3>1. CASE run[q].at = "etag"
      <4>1. run[q] \in [at : {"etag"}, spec : Specs, ops : Partial(Attrs), settled : BOOLEAN]
        BY <2>2, <3>1 DEF RunStates, Idle
      <4>. QED
        BY <2>1, <2>3, <4>1 DEF RunStates
    <3>2. CASE run[q].at = "patch"
      <4>1. run[q] \in [at : {"patch"}, spec : Specs, ops : Partial(Attrs), settled : BOOLEAN,
                        tag : (0 .. MaxWrites) \union {NoTag}]
        BY <2>2, <3>2 DEF RunStates, Idle
      <4>. QED
        BY <2>1, <2>3, <4>1 DEF RunStates
    <3>. QED
      BY <2>2, <3>1, <3>2
  <2>5. /\ run'[q].at = run[q].at /\ run'[q].spec = run[q].spec
        /\ run'[q].ops = run[q].ops /\ run'[q].settled = now
    <3> HIDE DEF now
    <3>. QED
      BY <2>1, <2>2 DEF RunStates, Idle
  <2>6. PlanInv(run[q])
    BY DEF RunInv
  <2>7. ASSUME now PROVE Stages(run[q].spec, DOMAIN run[q].ops)'
    <3>1. Stages(run[q].spec, DOMAIN run[q].ops) /\ Sound(run[q].spec)
      BY <1>1, <2>6, <2>7 DEF PlanInv
    <3>2. DOMAIN Expand(run[q].spec) \subseteq Attrs
      BY <2>2, <3>1, ExpandType
    <3>. QED
      BY <2>5, <2>7, <3>1, <3>2 DEF Stages, Expand
  <2>8. PlanInv(run[q])'
    <3> HIDE DEF now
    <3>. QED
      BY <1>1, <2>5, <2>6, <2>7, SMTT(30) DEF PlanInv, Sound, Fetched, Stages, Expand
  <2>9. FetchInv(run[q])'
    BY <2>2, <2>5 DEF FetchInv
  <2>. QED
    BY <2>4, <2>8, <2>9
<1>2. ASSUME NEW q \in Runs, ~(q # except /\ run[q].at \in Fetched)
      PROVE  run'[q] \in RunStates /\ FetchInv(run[q])' /\ PlanInv(run[q])'
  <2>1. run'[q] = Idle \/ (run'[q] = run[q] /\ run[q].at \notin Fetched)
    BY <1>2 DEF Overtake
  <2>2. run'[q] \in RunStates
    BY <2>1 DEF TypeOK, RunStates
  <2>3. CASE run'[q] = Idle
    BY <2>2, <2>3 DEF Idle, FetchInv, PlanInv, Fetched
  <2>4. CASE run'[q] = run[q] /\ run[q].at \notin Fetched
    BY <2>2, <2>4, SMTT(30) DEF RunInv, FetchInv, PlanInv, Fetched, Sound, Expand
  <2>. QED
    BY <2>1, <2>3, <2>4
<1>3. run' = [q \in Runs |-> run'[q]]
  BY DEF Overtake
<1>. QED
  BY <1>1, <1>2, <1>3 DEF RunInv

----------------------------------------------------------------------------
(* Initially and in every step                                             *)

LEMMA InitInv == Init => IInv
<1> SUFFICES ASSUME Init PROVE IInv
  OBVIOUS
<1>1. TypeOK
  BY IloAssumption DEF Init, TypeOK, RunStates
<1>2. RunInv
  BY DEF Init, RunInv, FetchInv, PlanInv, Fetched, Idle
<1>3. PromiseInv
  BY DEF Init, PromiseInv
<1>. QED
  BY <1>1, <1>2, <1>3 DEF IInv

\* A step of one invocation that writes nothing.
LEMMA RunStep ==
  ASSUME TypeOK, RunInv, NEW r \in Runs, NEW q \in RunStates,
         run' = [run EXCEPT ![r] = q], staged' = staged, FetchInv(q), PlanInv(q)
  PROVE  run' \in [Runs -> RunStates] /\ RunInv'
<1>1. run' \in [Runs -> RunStates]
  BY DEF TypeOK
<1>2. ASSUME NEW p \in Runs PROVE FetchInv(run'[p])
  BY DEF TypeOK, RunInv
<1>3. ASSUME NEW p \in Runs PROVE PlanInv(run'[p])
  BY DEF TypeOK, RunInv
<1>4. ASSUME NEW p \in Runs PROVE FetchInv(run[p])'
  BY <1>2 DEF FetchInv, Sound, Expand
<1>5. ASSUME NEW p \in Runs PROVE PlanInv(run[p])'
  BY <1>3 DEF PlanInv, Sound, Stages, Fetched, Expand
<1>. QED
  BY <1>1, <1>4, <1>5 DEF RunInv

\* It may leave the last report alone as well.
LEMMA OwnStep ==
  ASSUME IInv, NEW r \in Runs, NEW q \in RunStates,
         run' = [run EXCEPT ![r] = q], UNCHANGED <<bmc, promise>>,
         FetchInv(q), PlanInv(q)
  PROVE  IInv'
<1>1. run' \in [Runs -> RunStates] /\ RunInv'
  BY RunStep DEF IInv, bmc
<1>2. TypeOK'
  BY <1>1 DEF IInv, TypeOK, bmc
<1>3. PromiseInv'
  BY DEF IInv, PromiseInv, Sound, Stages, Expand, bmc
<1>. QED
  BY <1>1, <1>2, <1>3 DEF IInv

\* An invocation that ends without a word.
LEMMA GivesUp ==
  ASSUME IInv, NEW r \in Runs, run' = [run EXCEPT ![r] = Idle], UNCHANGED <<bmc, promise>>
  PROVE  IInv'
<1>1. Idle \in RunStates /\ FetchInv(Idle) /\ PlanInv(Idle)
  BY DEF RunStates, Idle, FetchInv, PlanInv, Fetched
<1>. QED
  BY <1>1, OwnStep

LEMMA BeginInv ==
  ASSUME IInv, NEW r \in Runs, Begin(r)
  PROVE  IInv'
<1>1. PICK s \in Specs, dry \in BOOLEAN :
        run' = [run EXCEPT ![r] = [at |-> "map", spec |-> s, dry |-> dry]]
  BY DEF Begin
<1> DEFINE q == [at |-> "map", spec |-> s, dry |-> dry]
<1>2. q \in RunStates
  BY DEF RunStates
<1>3. FetchInv(q) /\ PlanInv(q)
  BY DEF FetchInv, PlanInv, Fetched
<1>4. UNCHANGED <<bmc, promise>>
  BY DEF Begin
<1> HIDE DEF q
<1>. QED
  BY <1>1, <1>2, <1>3, <1>4, OwnStep DEF q

LEMMA MapInv ==
  ASSUME IInv, NEW r \in Runs, Map(r)
  PROVE  IInv'
<1> DEFINE s == run[r].spec
           q == [at |-> "fetch", spec |-> s, dry |-> run[r].dry, want |-> Expand(s)]
<1>1. run[r] \in [at : {"map"}, spec : Specs, dry : BOOLEAN]
  BY DEF IInv, TypeOK, RunStates, Idle, Map
<1>2. UNCHANGED <<bmc, promise>>
  BY DEF Map
<1>3. CASE Sound(s)
  <2>1. run' = [run EXCEPT ![r] = q]
    BY <1>3 DEF Map, Sound
  <2>2. q \in RunStates
    <3>1. s \in Specs /\ run[r].dry \in BOOLEAN
      BY <1>1
    <3>2. Expand(s) \in Partial(Attrs)
      BY <1>3, <3>1, ExpandType
    <3>. QED
      BY <3>1, <3>2 DEF RunStates
  <2>3. FetchInv(q) /\ PlanInv(q)
    BY <1>3 DEF FetchInv, PlanInv, Fetched
  <2> HIDE DEF q
  <2>. QED
    BY <1>2, <2>1, <2>2, <2>3, OwnStep
<1>4. CASE ~Sound(s)
  BY <1>2, <1>4, GivesUp DEF Map, Sound
<1>. QED
  BY <1>3, <1>4

\* The report of an invocation that finds nothing to do.
LEMMA FetchInvariant ==
  ASSUME IInv, NEW r \in Runs, Fetch(r)
  PROVE  IInv'
<1> DEFINE s == run[r].spec
           want == run[r].want
           ops == Diff(live, want)
           settled == \A a \in DOMAIN want : staged[a] = live[a]
           q == [at |-> "etag", spec |-> s, ops |-> ops, settled |-> settled]
<1>1. run[r] \in [at : {"fetch"}, spec : Specs, dry : BOOLEAN, want : Partial(Attrs)]
  BY DEF IInv, TypeOK, RunStates, Idle, Fetch
<1>2. s \in Specs /\ want \in Partial(Attrs)
  BY <1>1
<1>3. Sound(s) /\ want = Expand(s)
  BY <1>1 DEF IInv, RunInv, FetchInv
<1>4. /\ ops \in Partial(Attrs) /\ DOMAIN ops \subseteq DOMAIN want
      /\ \A a \in DOMAIN ops : ops[a] = want[a]
      /\ \A a \in DOMAIN want \ DOMAIN ops : live[a] = want[a]
  BY <1>2, DiffOf
<1>5. staged' = staged /\ UNCHANGED bmc
  BY DEF Fetch, bmc
<1>6. CASE DOMAIN ops = {} /\ settled
  <2>1. run' = [run EXCEPT ![r] = Idle] /\ promise' = s
    BY <1>6 DEF Fetch
  <2>2. Stages(s, {})
    BY <1>3, <1>4, <1>6 DEF Stages
  <2>3. PromiseInv'
    BY <1>3, <1>5, <2>1, <2>2 DEF PromiseInv, Stages, Sound, Expand
  <2>4. Idle \in RunStates /\ FetchInv(Idle) /\ PlanInv(Idle)
    BY DEF RunStates, Idle, FetchInv, PlanInv, Fetched
  <2>5. run' \in [Runs -> RunStates] /\ RunInv'
    BY <1>5, <2>1, <2>4, RunStep DEF IInv
  <2>6. TypeOK'
    BY <1>2, <1>5, <2>1, <2>5 DEF IInv, TypeOK, bmc
  <2>. QED
    BY <2>3, <2>5, <2>6 DEF IInv
<1>7. CASE ~(DOMAIN ops = {} /\ settled) /\ (DOMAIN ops = {} \/ run[r].dry)
  <2>1. run' = [run EXCEPT ![r] = Idle] /\ promise' = promise
    BY <1>7 DEF Fetch
  <2>. QED
    BY <1>5, <2>1, GivesUp
<1>8. CASE ~(DOMAIN ops = {} \/ run[r].dry)
  <2>1. run' = [run EXCEPT ![r] = q] /\ promise' = promise
    BY <1>8 DEF Fetch
  <2>2. q \in RunStates
    <3>1. settled \in BOOLEAN
      OBVIOUS
    <3> HIDE DEF settled, ops
    <3>. QED
      BY <1>2, <1>4, <3>1 DEF RunStates
  <2>3. settled => Stages(s, DOMAIN ops)
    BY <1>3, <1>4 DEF Stages
  <2>4. FetchInv(q) /\ PlanInv(q)
    <3> HIDE DEF settled, ops
    <3>. QED
      BY <1>3, <1>4, <2>3 DEF FetchInv, PlanInv, Fetched
  <2> HIDE DEF q
  <2>. QED
    BY <1>5, <2>1, <2>2, <2>4, OwnStep
<1>. QED
  BY <1>6, <1>7, <1>8

LEMMA EtagInv ==
  ASSUME IInv, NEW r \in Runs, Etag(r)
  PROVE  IInv'
<1>0. PICK tag \in {version, NoTag} :
        run' = [run EXCEPT ![r] = [at |-> "patch", spec |-> @.spec, ops |-> @.ops,
                                   settled |-> @.settled, tag |-> tag]]
  BY DEF Etag
<1> DEFINE q == [at |-> "patch", spec |-> run[r].spec, ops |-> run[r].ops,
                 settled |-> run[r].settled, tag |-> tag]
<1>1. run[r] \in [at : {"etag"}, spec : Specs, ops : Partial(Attrs), settled : BOOLEAN]
  BY DEF IInv, TypeOK, RunStates, Idle, Etag
<1>2. run' = [run EXCEPT ![r] = q] /\ UNCHANGED <<bmc, promise>>
  BY <1>0 DEF Etag, IInv, TypeOK
<1>3. q \in RunStates
  BY <1>1 DEF RunStates, IInv, TypeOK
<1>4. FetchInv(q) /\ PlanInv(q)
  BY <1>1 DEF IInv, RunInv, FetchInv, PlanInv, Fetched
<1> HIDE DEF q
<1>. QED
  BY <1>2, <1>3, <1>4, OwnStep

\* What the spec asks for is staged by this step.
Done(s) == \A a \in DOMAIN Expand(s) : staged'[a] = Expand(s)[a]

\* The write of an invocation, whether or not its answer arrives.
LEMMA PatchWrites ==
  ASSUME IInv, NEW r \in Runs, run[r].at = "patch", Write(run[r].ops),
         Overtake(DOMAIN run[r].ops, r)
  PROVE  /\ run[r].spec \in Specs /\ DOMAIN run[r].ops \subseteq Attrs
         /\ \A a \in Attrs \ DOMAIN run[r].ops : staged'[a] = staged[a]
         /\ run[r].settled => Sound(run[r].spec) /\ Done(run[r].spec)
         /\ staged' \in [Attrs -> Values] /\ live' \in [Attrs -> Values]
         /\ version' \in 0 .. MaxWrites
         /\ run' \in [Runs -> RunStates] /\ RunInv'
<1> DEFINE s == run[r].spec
           ops == run[r].ops
<1>1. run[r] \in [at : {"patch"}, spec : Specs, ops : Partial(Attrs), settled : BOOLEAN,
                  tag : (0 .. MaxWrites) \union {NoTag}]
  BY DEF IInv, TypeOK, RunStates, Idle
<1>2. s \in Specs /\ ops \in Partial(Attrs)
  BY <1>1
<1>3. /\ staged' \in [Attrs -> Values] /\ live' \in [Attrs -> Values]
      /\ version' \in 0 .. MaxWrites /\ DOMAIN ops \subseteq Attrs
      /\ \A a \in DOMAIN ops : staged'[a] = ops[a]
      /\ \A a \in Attrs \ DOMAIN ops : staged'[a] = staged[a]
  BY <1>2, WriteInv DEF IInv
<1>4. /\ Sound(s) /\ DOMAIN ops \subseteq DOMAIN Expand(s)
      /\ \A a \in DOMAIN ops : ops[a] = Expand(s)[a]
      /\ run[r].settled => Stages(s, DOMAIN ops)
  BY DEF IInv, RunInv, PlanInv, Fetched
<1>5. ASSUME run[r].settled PROVE \A a \in DOMAIN Expand(s) : staged'[a] = Expand(s)[a]
  <2>1. DOMAIN Expand(s) \subseteq Attrs
    BY <1>2, <1>4, ExpandType
  <2>. QED
    BY <1>3, <1>4, <1>5, <2>1 DEF Stages
<1>6. run' \in [Runs -> RunStates] /\ RunInv'
  BY <1>3, OvertakeInv DEF IInv
<1>. QED
  BY <1>2, <1>3, <1>4, <1>5, <1>6 DEF Done

LEMMA PatchInv ==
  ASSUME IInv, NEW r \in Runs, Patch(r)
  PROVE  IInv'
<1> DEFINE s == run[r].spec
<1>1. /\ s \in Specs
      /\ run[r].settled => Sound(s) /\ Done(s)
      /\ staged' \in [Attrs -> Values] /\ live' \in [Attrs -> Values]
      /\ version' \in 0 .. MaxWrites
      /\ run' \in [Runs -> RunStates] /\ RunInv'
  BY PatchWrites DEF Patch
<1>2. promise' = IF run[r].settled THEN s ELSE NoSpec
  BY DEF Patch
<1>3. TypeOK'
  BY <1>1, <1>2 DEF TypeOK
<1>4. PromiseInv'
  <2>1. CASE run[r].settled
    BY <1>1, <1>2, <2>1 DEF PromiseInv, Sound, Stages, Done, Expand
  <2>2. CASE ~run[r].settled
    BY <1>2, <2>2 DEF PromiseInv
  <2>. QED
    BY <2>1, <2>2
<1>. QED
  BY <1>1, <1>3, <1>4 DEF IInv

\* The last report outlives the writes that are about other attributes.
LEMMA PromiseOutlives ==
  ASSUME IInv, NEW A \in SUBSET Attrs,
         \A a \in Attrs \ A : staged'[a] = staged[a],
         promise' = IF Void(A) THEN NoSpec ELSE promise
  PROVE  PromiseInv' /\ promise' \in Specs \union {NoSpec}
<1>1. CASE promise' = NoSpec
  BY <1>1 DEF PromiseInv
<1>2. CASE promise' # NoSpec
  <2>1. promise' = promise /\ promise \in Specs /\ A \intersect DOMAIN Expand(promise) = {}
    BY <1>2 DEF Void, IInv, TypeOK
  <2>2. Sound(promise) /\ Stages(promise, {})
    BY <1>2, <2>1 DEF IInv, PromiseInv
  <2>3. DOMAIN Expand(promise) \subseteq Attrs
    BY <2>1, <2>2, ExpandType
  <2>4. \A a \in DOMAIN Expand(promise) : staged'[a] = Expand(promise)[a]
    BY <2>1, <2>2, <2>3 DEF Stages
  <2>. QED
    BY <2>1, <2>2, <2>4 DEF PromiseInv, Sound, Stages, Expand
<1>. QED
  BY <1>1, <1>2

LEMMA PatchUnheardInv ==
  ASSUME IInv, NEW r \in Runs, PatchUnheard(r)
  PROVE  IInv'
<1>1. /\ DOMAIN run[r].ops \subseteq Attrs
      /\ \A a \in Attrs \ DOMAIN run[r].ops : staged'[a] = staged[a]
      /\ staged' \in [Attrs -> Values] /\ live' \in [Attrs -> Values]
      /\ version' \in 0 .. MaxWrites
      /\ run' \in [Runs -> RunStates] /\ RunInv'
  BY PatchWrites DEF PatchUnheard
<1>2. PromiseInv' /\ promise' \in Specs \union {NoSpec}
  BY <1>1, PromiseOutlives DEF PatchUnheard
<1>. QED
  BY <1>1, <1>2 DEF IInv, TypeOK

LEMMA EditInv ==
  ASSUME IInv, NEW a \in Attrs, Edit(a)
  PROVE  IInv'
<1>1. PICK v \in (IF a \in Others THEN Settings ELSE {"NetworkBoot", "Disabled"}) :
        Write([b \in {a} |-> v])
  BY DEF Edit
<1>2. v \in Values
  BY <1>1 DEF Values
<1>3. [b \in {a} |-> v] \in Partial(Attrs)
  BY <1>2, PartialOf
<1>4. /\ staged' \in [Attrs -> Values] /\ live' \in [Attrs -> Values]
      /\ version' \in 0 .. MaxWrites
      /\ \A b \in Attrs \ {a} : staged'[b] = staged[b]
  BY <1>1, <1>3, WriteInv DEF IInv
<1>5. run' \in [Runs -> RunStates] /\ RunInv'
  BY <1>4, OvertakeInv DEF IInv, Edit
<1>6. PromiseInv' /\ promise' \in Specs \union {NoSpec}
  BY <1>4, PromiseOutlives DEF Edit
<1>. QED
  BY <1>4, <1>5, <1>6 DEF IInv, TypeOK

\* Only runs, what is staged and the last report matter to the two.
LEMMA Quiet ==
  ASSUME IInv, run' = run, staged' = staged, promise' = promise
  PROVE  RunInv' /\ PromiseInv'
<1>1. ASSUME NEW r \in Runs PROVE FetchInv(run[r])' /\ PlanInv(run[r])'
  <2>1. FetchInv(run[r]) /\ PlanInv(run[r])
    BY DEF IInv, RunInv
  <2>2. FetchInv(run[r])'
    BY <2>1 DEF FetchInv, Sound, Expand
  <2>3. PlanInv(run[r])'
    BY <2>1 DEF PlanInv, Sound, Stages, Fetched, Expand
  <2>. QED
    BY <2>2, <2>3
<1>2. PromiseInv'
  BY DEF IInv, PromiseInv, Sound, Stages, Expand
<1>. QED
  BY <1>1, <1>2 DEF RunInv

LEMMA StepInv == IInv /\ [Next]_vars => IInv'
<1> SUFFICES ASSUME IInv, [Next]_vars PROVE IInv'
  OBVIOUS
<1>1. ASSUME NEW r \in Runs, Apply(r) PROVE IInv'
  <2>1. CASE PatchRefused(r)
    BY <2>1, GivesUp DEF PatchRefused
  <2>2. CASE Fails(r)
    BY <2>2, GivesUp DEF Fails
  <2>. QED
    BY <1>1, <2>1, <2>2, BeginInv, MapInv, FetchInvariant, EtagInv, PatchInv,
       PatchUnheardInv DEF Apply
<1>2. ASSUME NEW a \in Attrs, Edit(a) PROVE IInv'
  BY <1>2, EditInv
<1>3. CASE Post
  <2>1. TypeOK'
    BY <1>3 DEF Post, IInv, TypeOK
  <2>2. RunInv' /\ PromiseInv'
    BY <1>3, Quiet DEF Post
  <2>. QED
    BY <2>1, <2>2 DEF IInv
<1>4. CASE UNCHANGED vars
  <2>1. TypeOK'
    BY <1>4 DEF vars, bmc, IInv, TypeOK
  <2>2. RunInv' /\ PromiseInv'
    BY <1>4, Quiet DEF vars, bmc
  <2>. QED
    BY <2>1, <2>2 DEF IInv
<1>. QED
  BY <1>1, <1>2, <1>3, <1>4 DEF Next

----------------------------------------------------------------------------
\* In every execution the inductive invariant holds.
THEOREM Invariance == Spec => []IInv
<1>. QED
  BY InitInv, StepInv, PTL DEF Spec

\* The variables keep their types, however many invocations and writers meet.
THEOREM TypeCorrect == Spec => []TypeOK
<1>1. IInv => TypeOK
  BY DEF IInv
<1>. QED
  BY <1>1, Invariance, PTL

\* Whatever interleaves with it, an invocation that reports success has left
\* staged exactly the network-boot seats and the attributes of its spec, until
\* another writer comes.
THEOREM ReportsAreKept == Spec => []PromiseKept
<1>1. IInv => PromiseKept
  <2> SUFFICES ASSUME IInv, promise # NoSpec
               PROVE  /\ promise.pxe # NoBoot =>
                           {s \in Offered : staged[s] = "NetworkBoot"} = promise.pxe
                      /\ \A a \in DOMAIN promise.bios : staged[a] = promise.bios[a]
    BY DEF PromiseKept
  <2>1. promise \in Specs /\ Sound(promise)
    BY DEF IInv, TypeOK, PromiseInv
  <2>2. \A a \in DOMAIN Expand(promise) : staged[a] = Expand(promise)[a]
    BY DEF IInv, PromiseInv, Stages
  <2>3. PICK S \in SUBSET Others : promise.bios \in [S -> Settings]
    BY <2>1, IloAssumption
  <2>4. \A a \in DOMAIN promise.bios : staged[a] = promise.bios[a]
    BY <2>2, <2>3 DEF Expand
  <2>5. ASSUME promise.pxe # NoBoot
        PROVE  {s \in Offered : staged[s] = "NetworkBoot"} = promise.pxe
    <3>1. promise.pxe \subseteq Offered
      BY <2>1, <2>5 DEF Sound
    <3>2. \A s \in Offered :
            Expand(promise)[s] = IF s \in promise.pxe THEN "NetworkBoot" ELSE "Disabled"
      BY <2>5, IloAssumption DEF Expand
    <3>3. \A s \in Offered : s \in DOMAIN Expand(promise)
      BY <2>5 DEF Expand
    <3>. QED
      BY <2>2, <3>1, <3>2, <3>3
  <2>. QED
    BY <2>4, <2>5
<1>. QED
  BY <1>1, Invariance, PTL

\* A PATCH changes nothing its run's spec does not name, and another run that
\* is under way goes on.
LEMMA PatchTouches ==
  ASSUME IInv, NEW p \in Runs, run[p].at = "patch", Write(run[p].ops),
         Overtake(DOMAIN run[p].ops, p),
         NEW r \in Runs, run[r].at # "idle", run'[r].at = "idle",
         NEW a \in Attrs, staged'[a] # staged[a]
  PROVE  Touches(r, a)
<1>1. CASE r = p
  <2>1. a \in DOMAIN run[p].ops
    BY DEF Write
  <2>2. /\ DOMAIN run[p].ops \subseteq DOMAIN Expand(run[p].spec)
    BY DEF IInv, RunInv, PlanInv, Fetched
  <2>. QED
    BY <1>1, <2>1, <2>2 DEF Touches, Expand
<1>2. CASE r # p
  <2>1. run[r] \in RunStates
    BY DEF IInv, TypeOK
  <2>2. CASE run[r].at \in Fetched
    <3>1. run'[r].at = run[r].at
      BY <1>2, <2>1, <2>2 DEF Overtake, RunStates, Idle
    <3>. QED
      BY <3>1
  <2>3. CASE run[r].at \notin Fetched
    BY <1>2, <2>3 DEF Overtake
  <2>. QED
    BY <2>2, <2>3
<1>. QED
  BY <1>1, <1>2

\* In every step of every execution, an invocation that ends has left alone
\* what its spec does not name.
THEOREM OthersAreLeftAlone == Spec => LeftAlone
<1>1. ASSUME IInv, [Next]_vars, NEW r \in Runs, run[r].at # "idle", run'[r].at = "idle",
             NEW a \in Attrs, staged'[a] # staged[a]
      PROVE  Touches(r, a)
  <2>1. ASSUME NEW p \in Runs, Apply(p) PROVE Touches(r, a)
    <3>1. CASE Patch(p) \/ PatchUnheard(p)
      BY <1>1, <3>1, PatchTouches DEF Patch, PatchUnheard
    <3>2. CASE ~(Patch(p) \/ PatchUnheard(p))
      BY <1>1, <2>1, <3>2 DEF Apply, Begin, Map, Fetch, Etag, PatchRefused, Fails, bmc
    <3>. QED
      BY <3>1, <3>2
  <2>2. ASSUME NEW b \in Attrs, Edit(b) PROVE Touches(r, a)
    <3>1. r # NoSpec
      BY IloAssumption
    <3>2. run[r] \in RunStates
      BY <1>1 DEF IInv, TypeOK
    <3>3. CASE run[r].at \in Fetched
      <4>1. run'[r].at = run[r].at
        BY <2>2, <3>1, <3>2, <3>3 DEF Edit, Overtake, RunStates, Idle
      <4>. QED
        BY <1>1, <4>1
    <3>4. CASE run[r].at \notin Fetched
      BY <1>1, <2>2, <3>1, <3>4 DEF Edit, Overtake
    <3>. QED
      BY <3>3, <3>4
  <2>3. CASE Post \/ UNCHANGED vars
    BY <1>1, <2>3 DEF Post, vars, bmc
  <2>. QED
    BY <1>1, <2>1, <2>2, <2>3 DEF Next
<1>2. IInv /\ [Next]_vars =>
        [ \A r \in Runs : run[r].at # "idle" /\ run'[r].at = "idle" =>
            \A a \in Attrs : staged'[a] # staged[a] => Touches(r, a) ]_vars
  BY <1>1
<1>. QED
  BY <1>2, Invariance, PTL DEF Spec, LeftAlone
=============================================================================
