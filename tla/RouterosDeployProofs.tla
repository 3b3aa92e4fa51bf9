------------------------ MODULE RouterosDeployProofs ------------------------
(***************************************************************************)
(* What RouterosDeploy guarantees for any number of operators, any         *)
(* declarations, firmwares and schemas.                                    *)
(*                                                                         *)
(* WipedIsFetched, where no two deploys overlap, relates the four commands *)
(* of one deploy: that the backup which was fetched is of what the switch  *)
(* has when it is reset, and that the file it then imports is the one just *)
(* uploaded.  Neither is checked by the program at the reset; both follow  *)
(* from nothing else having happened in between, which is what SafeInv     *)
(* carries from command to command.                                        *)
(*                                                                         *)
(* The rest is about scripts, whatever is declared.  generate's script is  *)
(* laid out in 21 parts (PartOf, Laid), and each part has one line, or     *)
(* more, for each member of a set (Lists, Threes, Blocks).  So it is known *)
(* what a line makes (MadeIn) and that what it refers to is made by an     *)
(* earlier part (Known): HaltsAreExplained.  Key files are the exception,  *)
(* being on the flash from one line to the next but one (Pending) and      *)
(* outliving a reset.                                                      *)
(*                                                                         *)
(* What has been imported is a number of whole parts and some of one (In), *)
(* so that a row of a later part shows that all of the earlier ones are    *)
(* in: StaysManageable.  With all of them in, the rows of each menu are    *)
(* read back from the declaration: DeclaredIsConfigured.                   *)
(***************************************************************************)
EXTENDS RouterosDeploy, TLAPS, FiniteSetTheorems, SequenceTheorems

\* After the backup has been saved ...
Committed == {"fetch", "upload", "uploading", "reset"}

JobInv ==
  /\ job = [o \in Operators |-> job[o]]
  /\ \A o \in Operators :
       \/ job[o] = Idle
       \/ job[o] = [at |-> "save", of |-> job[o].of, schema |-> job[o].schema]
       \/ /\ job[o].at \in Committed
          /\ job[o] = [at |-> job[o].at, of |-> job[o].of, schema |-> job[o].schema,
                       saved |-> job[o].saved]

Alone == \A o, p \in Operators : ~At(o, "idle") /\ ~At(p, "idle") => o = p

\* ... the switch keeps what is in it, and each later command adds to that.
Progress(o) ==
  /\ job[o].at \in Committed => state # "importing"
  /\ At(o, "fetch") => job[o].saved = device
  /\ job[o].at \in Committed \ {"fetch"} => device \in fetched
  /\ At(o, "reset") => rsc = [of |-> job[o].of, len |-> Full(job[o].of)]

SafeInv == "overlap" \notin lapses => Alone /\ \A o \in Operators : Progress(o)

IInv == JobInv /\ SafeInv

----------------------------------------------------------------------------
LEMMA InitInv == Init => IInv
<1> SUFFICES ASSUME Init PROVE IInv
  OBVIOUS
<1>1. \A o \in Operators : job[o] = Idle
  BY DEF Init
<1>2. JobInv
  BY <1>1 DEF Init, JobInv
<1>3. SafeInv
  BY <1>1 DEF Idle, SafeInv, Alone, Progress, At, Committed
<1>. QED
  BY <1>2, <1>3 DEF IInv

\* A deploy that ends leaves the others as they are.
LEMMA EndKeeps ==
  ASSUME IInv, NEW o \in Operators, End(o)
  PROVE  /\ JobInv' /\ job'[o] = Idle
         /\ \A p \in Operators \ {o} : job'[p] = job[p]
  BY DEF IInv, JobInv, End

\* So does one that goes on.
LEMMA GotoKeeps ==
  ASSUME IInv, NEW o \in Operators, job[o].at \in Committed, NEW at \in Committed, Goto(o, at)
  PROVE  /\ JobInv'
         /\ job'[o] = [at |-> at, of |-> job[o].of, schema |-> job[o].schema,
                       saved |-> job[o].saved]
         /\ \A p \in Operators \ {o} : job'[p] = job[p]
<1>1. job[o] = [at |-> job[o].at, of |-> job[o].of, schema |-> job[o].schema,
                saved |-> job[o].saved]
  BY DEF IInv, JobInv, Committed, Idle
<1>2. job' = [job EXCEPT ![o] = [job[o] EXCEPT !.at = at]]
  BY DEF Goto
<1>3. job'[o] = [at |-> at, of |-> job[o].of, schema |-> job[o].schema,
                 saved |-> job[o].saved]
  BY <1>1, <1>2 DEF IInv, JobInv
<1>4. \A p \in Operators \ {o} : job'[p] = job[p]
  BY <1>2 DEF IInv, JobInv
<1>5. job' = [p \in Operators |-> job'[p]]
  BY <1>2 DEF IInv, JobInv
<1>6. JobInv'
  BY <1>3, <1>4, <1>5 DEF IInv, JobInv
<1>. QED
  BY <1>3, <1>4, <1>6

\* Where no deploy has overlapped, nobody else is deploying.
LEMMA OthersIdle ==
  ASSUME IInv, "overlap" \notin lapses, NEW o \in Operators, ~At(o, "idle"),
         NEW p \in Operators \ {o}
  PROVE  At(p, "idle")
  BY DEF IInv, SafeInv, Alone

----------------------------------------------------------------------------
(* The steps of a deploy                                                   *)

LEMMA BuildInv ==
  ASSUME IInv, NEW o \in Operators, NEW f \in Fleets, Build(o, f) PROVE IInv'
<1>1. /\ job' = [job EXCEPT ![o] = [at |-> "save", of |-> f, schema |-> schema]]
      /\ job'[o] = [at |-> "save", of |-> f, schema |-> schema]
      /\ \A p \in Operators \ {o} : job'[p] = job[p]
  BY DEF Build, IInv, JobInv
<1>2. JobInv'
  BY <1>1 DEF IInv, JobInv
<1>3. SafeInv'
  <2> SUFFICES ASSUME "overlap" \notin lapses'
               PROVE  Alone' /\ \A p \in Operators : Progress(p)'
    BY DEF SafeInv
  <2>1. "overlap" \notin lapses /\ Deploying = {}
    BY DEF Build, Lapse
  <2>2. \A p \in Operators : At(p, "idle")
    BY <2>1 DEF Deploying
  <2>. QED
    BY <1>1, <2>2 DEF Alone, Progress, At, Committed
<1>. QED
  BY <1>2, <1>3 DEF IInv

LEMMA SaveInv == ASSUME IInv, NEW o \in Operators, Save(o) PROVE IInv'
<1>1. job[o] = [at |-> "save", of |-> job[o].of, schema |-> job[o].schema]
  BY DEF Save, At, IInv, JobInv, Idle, Committed
<1>2. /\ job'[o] = [at |-> "fetch", of |-> job[o].of, schema |-> job[o].schema,
                    saved |-> device]
      /\ job' = [p \in Operators |-> job'[p]]
      /\ \A p \in Operators \ {o} : job'[p] = job[p]
  BY DEF Save, IInv, JobInv
<1>3. JobInv'
  BY <1>2 DEF IInv, JobInv, Committed
<1>4. SafeInv'
  <2> SUFFICES ASSUME "overlap" \notin lapses'
               PROVE  Alone' /\ \A p \in Operators : Progress(p)'
    BY DEF SafeInv
  <2>1. "overlap" \notin lapses /\ state # "importing"
    BY DEF Save, Lapse
  <2>2. \A p \in Operators \ {o} : At(p, "idle")
    BY <2>1, OthersIdle DEF Save, At
  <2>. QED
    BY <1>2, <2>1, <2>2 DEF Save, switch, Alone, Progress, At, Committed
<1>. QED
  BY <1>3, <1>4 DEF IInv

LEMMA FetchInv == ASSUME IInv, NEW o \in Operators, Fetch(o) PROVE IInv'
<1>1. /\ JobInv'
      /\ job'[o] = [at |-> "upload", of |-> job[o].of, schema |-> job[o].schema,
                    saved |-> job[o].saved]
      /\ \A p \in Operators \ {o} : job'[p] = job[p]
  BY GotoKeeps DEF Fetch, At, Committed
<1>2. SafeInv'
  <2> SUFFICES ASSUME "overlap" \notin lapses
               PROVE  Alone' /\ \A p \in Operators : Progress(p)'
    BY DEF Fetch, SafeInv
  <2>1. \A p \in Operators \ {o} : At(p, "idle")
    BY OthersIdle DEF Fetch, At
  <2>2. Progress(o)
    BY DEF IInv, SafeInv
  <2>. QED
    BY <1>1, <2>1, <2>2 DEF Fetch, switch, Alone, Progress, At, Committed
<1>. QED
  BY <1>1, <1>2 DEF IInv

LEMMA UploadInv ==
  ASSUME IInv, NEW o \in Operators, Upload(o) \/ Uploaded(o) PROVE IInv'
<1>1. PICK at \in {"uploading", "reset"} :
        /\ Goto(o, at)
        /\ at = "reset" => rsc' = [of |-> job[o].of, len |-> Full(job[o].of)]
  BY DEF Upload, Uploaded
<1>2. job[o].at \in {"upload", "uploading"}
  BY DEF Upload, Uploaded, At
<1>3. /\ JobInv'
      /\ job'[o] = [at |-> at, of |-> job[o].of, schema |-> job[o].schema,
                    saved |-> job[o].saved]
      /\ \A p \in Operators \ {o} : job'[p] = job[p]
  BY <1>1, <1>2, GotoKeeps DEF Committed
<1>4. UNCHANGED <<device, state, fetched, lapses>>
  BY DEF Upload, Uploaded
<1>5. SafeInv'
  <2> SUFFICES ASSUME "overlap" \notin lapses
               PROVE  Alone' /\ \A p \in Operators : Progress(p)'
    BY <1>4 DEF SafeInv
  <2>1. \A p \in Operators \ {o} : At(p, "idle")
    BY <1>2, OthersIdle DEF At
  <2>2. Progress(o)
    BY DEF IInv, SafeInv
  <2>3. Progress(o)'
    <3>1. state # "importing" /\ device \in fetched
      BY <1>2, <2>2 DEF Progress, Committed
    <3>2. Full(job[o].of)' = Full(job[o].of)
      BY <1>3 DEF Full
    <3>. QED
      BY <1>1, <1>3, <1>4, <3>1, <3>2 DEF Progress, At, Committed
  <2>4. \A p \in Operators \ {o} : Progress(p)'
    BY <1>3, <2>1 DEF Progress, At, Committed
  <2>. QED
    BY <1>3, <2>1, <2>3, <2>4 DEF Alone, At
<1>. QED
  BY <1>3, <1>5 DEF IInv

LEMMA EndInv == ASSUME IInv, NEW o \in Operators, Reset(o) \/ Fails(o) PROVE IInv'
<1>1. End(o) /\ ~At(o, "idle") /\ UNCHANGED lapses
  BY DEF Reset, Fails, At
<1>2. JobInv' /\ job'[o] = Idle /\ \A p \in Operators \ {o} : job'[p] = job[p]
  BY <1>1, EndKeeps
<1>3. SafeInv'
  <2> SUFFICES ASSUME "overlap" \notin lapses
               PROVE  Alone' /\ \A p \in Operators : Progress(p)'
    BY <1>1 DEF SafeInv
  <2>1. \A p \in Operators : job'[p].at = "idle"
    BY <1>1, <1>2, OthersIdle DEF At, Idle
  <2>. QED
    BY <2>1 DEF Alone, Progress, At, Committed
<1>. QED
  BY <1>2, <1>3 DEF IInv

----------------------------------------------------------------------------
LEMMA StepInv == IInv /\ [Next]_vars => IInv'
<1> SUFFICES ASSUME IInv, [Next]_vars PROVE IInv'
  OBVIOUS
<1>1. ASSUME NEW o \in Operators, Deploy(o) PROVE IInv'
  BY <1>1, SaveInv, FetchInv, UploadInv, EndInv DEF Deploy
<1>2. CASE LearnSchema \/ Upgrade \/ UNCHANGED vars
  BY <1>2
     DEF LearnSchema, Upgrade, vars, switch, bounds, IInv, JobInv, SafeInv, Alone, Progress, At
\* An import changes the switch of no deploy that has looked at it.
<1>3. CASE ImportLine \/ ImportHalts \/ ImportEnds \/ PowerCut
  <2>1. /\ state = "importing" /\ UNCHANGED <<job, fetched, rsc>>
        /\ "overlap" \notin lapses' => "overlap" \notin lapses
    BY <1>3 DEF ImportLine, ImportHalts, ImportEnds, PowerCut, Lapse
  <2>2. JobInv'
    BY <2>1 DEF IInv, JobInv
  <2>3. SafeInv'
    <3> SUFFICES ASSUME "overlap" \notin lapses' PROVE Alone' /\ \A o \in Operators : Progress(o)'
      BY DEF SafeInv
    <3>1. Alone /\ \A o \in Operators : job[o].at \notin Committed
      BY <2>1 DEF IInv, SafeInv, Progress
    <3>. QED
      BY <2>1, <3>1 DEF Alone, Progress, At, Committed
  <2>. QED
    BY <2>2, <2>3 DEF IInv
<1>4. CASE Load
  <2>1. JobInv'
    BY <1>4 DEF Load, IInv, JobInv
  <2>2. SafeInv'
    <3> SUFFICES ASSUME "overlap" \notin lapses' PROVE Alone' /\ \A o \in Operators : Progress(o)'
      BY DEF SafeInv
    <3>1. \A o \in Operators : job'[o].at = "idle"
      BY <1>4 DEF Load, Lapse, Deploying, At
    <3>. QED
      BY <3>1 DEF Alone, Progress, At, Committed
  <2>. QED
    BY <2>1, <2>2 DEF IInv
<1>. QED
  BY <1>1, <1>2, <1>3, <1>4, BuildInv DEF Next

----------------------------------------------------------------------------
\* In every execution the inductive invariant holds.
THEOREM Invariance == Spec => []IInv
<1>. QED
  BY InitInv, StepInv, PTL DEF Spec

\* Where no deploys overlap, a reset interrupts no import and wipes only what
\* has been fetched, and the switch is given the whole of that deploy's script,
\* whatever scripts and schemas are.
THEOREM NothingIsLost == Spec => WipedIsFetched
<1>1. ASSUME IInv, NEW o \in Operators, Reset(o), "overlap" \notin lapses
      PROVE  /\ state # "importing" /\ device \in fetched
             /\ device' = [of |-> job[o].of, len |-> Full(job[o].of), upto |-> 0]
  <2>1. Progress(o) /\ At(o, "reset")
    BY <1>1 DEF IInv, SafeInv, Reset
  <2>2. rsc = [of |-> job[o].of, len |-> Full(job[o].of)]
    BY <2>1 DEF Progress
  <2>. QED
    BY <1>1, <2>1, <2>2 DEF Progress, At, Committed, Reset
<1>2. IInv /\ [Next]_vars =>
        [\A o \in Operators :
           Reset(o) /\ "overlap" \notin lapses =>
             /\ state # "importing" /\ device \in fetched
             /\ device' = [of |-> job[o].of, len |-> Full(job[o].of), upto |-> 0]]_vars
  BY <1>1
<1>. QED
  BY <1>2, Invariance, PTL DEF Spec, WipedIsFetched

----------------------------------------------------------------------------
(* Sequences of lines                                                      *)

IsScript(s) == \E S : s \in Seq(S)

\* s has the values of f, each once.
Lists(s, f) ==
  /\ IsScript(s)
  /\ \E q \in [1 .. Len(s) -> DOMAIN f] :
       /\ \A i \in 1 .. Len(s) : s[i] = f[q[i]]
       /\ \A i, j \in 1 .. Len(s) : q[i] = q[j] => i = j
       /\ \A x \in DOMAIN f : \E i \in 1 .. Len(s) : q[i] = x

LEMMA SetToSeqIs ==
  ASSUME NEW S, IsFiniteSet(S)
  PROVE  /\ SetToSeq(S) \in Seq(S)
         /\ Len(SetToSeq(S)) \in Nat
         /\ DOMAIN SetToSeq(S) = 1 .. Len(SetToSeq(S))
         /\ SetToSeq(S) \in [1 .. Len(SetToSeq(S)) -> S]
         /\ \A i, j \in 1 .. Len(SetToSeq(S)) : SetToSeq(S)[i] = SetToSeq(S)[j] => i = j
         /\ \A x \in S : \E i \in 1 .. Len(SetToSeq(S)) : SetToSeq(S)[i] = x
<1>1. Cardinality(S) \in Nat
  BY FS_CardinalityType
<1>2. PICK f \in [1 .. Cardinality(S) -> S] : f \in Bijection(1 .. Cardinality(S), S)
  BY FS_CardinalityType DEF ExistsBijection, Bijection, Injection
<1>3. IsInjective(f)
  BY <1>2 DEF Bijection, Injection
<1>4. SetToSeq(S) \in [1 .. Cardinality(S) -> S] /\ IsInjective(SetToSeq(S))
  BY <1>3 DEF SetToSeq
<1>5. IsFiniteSet(1 .. Cardinality(S)) /\ Cardinality(1 .. Cardinality(S)) = Cardinality(S)
  BY <1>1, FS_Interval
<1>6. SetToSeq(S) \in Surjection(1 .. Cardinality(S), S)
  BY <1>4, <1>5, FS_Injection DEF Injection
<1>7. SetToSeq(S) \in Seq(S) /\ Len(SetToSeq(S)) = Cardinality(S)
  BY <1>1, <1>4
<1>. QED
  BY <1>1, <1>4, <1>6, <1>7 DEF IsInjective, Surjection

\* What ListOf makes.
LEMMA ListOfIs ==
  ASSUME NEW f, IsFiniteSet(DOMAIN f), NEW s,
         s = [i \in DOMAIN SetToSeq(DOMAIN f) |-> f[SetToSeq(DOMAIN f)[i]]]
  PROVE  Lists(s, f)
<1> DEFINE q == SetToSeq(DOMAIN f)
           n == Len(q)
<1>1. n \in Nat /\ q \in [1 .. n -> DOMAIN f] /\ DOMAIN q = 1 .. n
  BY SetToSeqIs
<1>2. /\ \A i, j \in 1 .. n : q[i] = q[j] => i = j
      /\ \A x \in DOMAIN f : \E i \in 1 .. n : q[i] = x
  BY SetToSeqIs
<1> HIDE DEF q
<1>3. s = [i \in 1 .. n |-> f[q[i]]]
  BY <1>1 DEF q
<1> HIDE DEF n
<1>4. s \in [1 .. n -> {f[x] : x \in DOMAIN f}]
  BY <1>1, <1>3
<1>5. s \in Seq({f[x] : x \in DOMAIN f}) /\ Len(s) = n
  BY <1>1, <1>4
<1>6. IsScript(s)
  BY <1>5 DEF IsScript
<1>. QED
  BY <1>1, <1>2, <1>3, <1>5, <1>6, ZenonT(30) DEF Lists

\* s has the three values of f[q[1]], of f[q[2]] and so on.
Threes(s, f, n, q) ==
  /\ IsScript(s) /\ n \in Nat /\ Len(s) = 3 * n
  /\ q \in [1 .. n -> DOMAIN f]
  /\ \A i, j \in 1 .. n : q[i] = q[j] => i = j
  /\ \A x \in DOMAIN f : \E i \in 1 .. n : q[i] = x
  /\ \A i \in 1 .. n : /\ s[3 * i - 2] = f[q[i]][1]
                       /\ s[3 * i - 1] = f[q[i]][2]
                       /\ s[3 * i] = f[q[i]][3]

\* What ThreeOf makes.
LEMMA ThreeOfIs ==
  ASSUME NEW f, IsFiniteSet(DOMAIN f), NEW s,
         s = [i \in 1 .. 3 * Len(SetToSeq(DOMAIN f)) |->
                f[SetToSeq(DOMAIN f)[(i + 2) \div 3]][1 + ((i - 1) % 3)]]
  PROVE  \E n \in Nat : \E q : Threes(s, f, n, q)
<1> DEFINE q == SetToSeq(DOMAIN f)
           n == Len(q)
<1>1. n \in Nat /\ q \in [1 .. n -> DOMAIN f]
  BY SetToSeqIs
<1>2. /\ \A i, j \in 1 .. n : q[i] = q[j] => i = j
      /\ \A x \in DOMAIN f : \E i \in 1 .. n : q[i] = x
  BY SetToSeqIs
<1> HIDE DEF q
<1>3. s = [i \in 1 .. 3 * n |-> f[q[(i + 2) \div 3]][1 + ((i - 1) % 3)]]
  BY DEF q
<1> HIDE DEF n
<1>4. PICK m \in Nat : m = 3 * n
  BY <1>1
<1> DEFINE T == {s[i] : i \in 1 .. m}
<1>5. s \in [1 .. m -> T]
  BY <1>3, <1>4
<1> HIDE DEF T
<1>6. s \in Seq(T) /\ Len(s) = 3 * n
  <2>1. s \in Seq(T) /\ Len(s) = m
    BY <1>5
  <2>. QED
    BY <1>4, <2>1
<1>7. IsScript(s)
  BY <1>6 DEF IsScript
<1>8. ASSUME NEW i \in 1 .. n
      PROVE  /\ s[3 * i - 2] = f[q[i]][1] /\ s[3 * i - 1] = f[q[i]][2] /\ s[3 * i] = f[q[i]][3]
  <2>1. /\ 3 * i - 2 \in 1 .. 3 * n /\ 3 * i - 1 \in 1 .. 3 * n /\ 3 * i \in 1 .. 3 * n
        /\ (3 * i - 2 + 2) \div 3 = i /\ (3 * i - 1 + 2) \div 3 = i /\ (3 * i + 2) \div 3 = i
        /\ 1 + ((3 * i - 2 - 1) % 3) = 1 /\ 1 + ((3 * i - 1 - 1) % 3) = 2
        /\ 1 + ((3 * i - 1) % 3) = 3
    BY <1>1
  <2>. QED
    BY <1>3, <2>1
<1>9. Threes(s, f, n, q)
  BY <1>1, <1>2, <1>6, <1>7, <1>8 DEF Threes
<1>. QED
  BY <1>1, <1>9

\* One sequence after another.
LEMMA ConcatIs ==
  ASSUME NEW s, NEW t, IsScript(s), IsScript(t)
  PROVE  /\ IsScript(s \o t) /\ Len(s) \in Nat /\ Len(t) \in Nat
         /\ Len(s \o t) = Len(s) + Len(t)
         /\ \A i \in 1 .. Len(s) : (s \o t)[i] = s[i]
         /\ \A j \in 1 .. Len(t) : (s \o t)[Len(s) + j] = t[j]
<1>1. PICK S, T : s \in Seq(S) /\ t \in Seq(T)
  BY DEF IsScript
<1>2. s \in Seq(S \union T) /\ t \in Seq(S \union T)
  BY <1>1, SeqMonotonic
<1>3. /\ s \o t \in Seq(S \union T)
      /\ Len(s \o t) = Len(s) + Len(t)
      /\ \A i \in 1 .. Len(s) + Len(t) : (s \o t)[i] = IF i <= Len(s) THEN s[i] ELSE t[i - Len(s)]
  BY <1>2, ConcatProperties
<1>4. Len(s) \in Nat /\ Len(t) \in Nat
  BY <1>1, LenProperties
<1>5. \A i \in 1 .. Len(s) : i \in 1 .. Len(s) + Len(t) /\ i <= Len(s)
  BY <1>4
<1>6. \A j \in 1 .. Len(t) : /\ Len(s) + j \in 1 .. Len(s) + Len(t)
                             /\ ~(Len(s) + j <= Len(s)) /\ Len(s) + j - Len(s) = j
  BY <1>4
<1>7. IsScript(s \o t)
  BY <1>3 DEF IsScript
<1>. QED
  BY <1>3, <1>4, <1>5, <1>6, <1>7

\* s is the parts p[1] to p[m] one after another, p[k] after the line off[k].
Laid(s, p, m, off) ==
  /\ IsScript(s) /\ Len(s) \in Nat
  /\ off \in [1 .. m -> Nat]
  /\ \A k \in 1 .. m : Len(p[k]) \in Nat
  /\ \A k \in 1 .. m : \A j \in 1 .. Len(p[k]) :
       off[k] + j \in 1 .. Len(s) /\ s[off[k] + j] = p[k][j]
  /\ \A k \in 1 .. m : off[k] + Len(p[k]) <= Len(s)
  /\ \A i \in 1 .. Len(s) : \E k \in 1 .. m : i - off[k] \in 1 .. Len(p[k])
  /\ \A k, l \in 1 .. m : k < l => off[k] + Len(p[k]) <= off[l]
IsLaid(s, p, m) == \E off : Laid(s, p, m, off)

LEMMA FirstPart ==
  ASSUME NEW p, IsScript(p[1]) PROVE IsLaid(p[1], p, 1)
<1>1. PICK S : p[1] \in Seq(S)
  BY DEF IsScript
<1>2. Len(p[1]) \in Nat
  BY <1>1, LenProperties
<1> DEFINE off == [k \in 1 .. 1 |-> 0]
<1>3. off \in [1 .. 1 -> Nat] /\ \A k \in 1 .. 1 : off[k] = 0 /\ k = 1
  OBVIOUS
<1> HIDE DEF off
<1>4. Laid(p[1], p, 1, off)
  BY <1>2, <1>3 DEF Laid
<1>. QED
  BY <1>4 DEF IsLaid

LEMMA NextPart ==
  ASSUME NEW s, NEW p, NEW m \in Nat \ {0}, IsLaid(s, p, m), IsScript(p[m + 1])
  PROVE  IsLaid(s \o p[m + 1], p, m + 1)
<1>1. PICK off : Laid(s, p, m, off)
  BY DEF IsLaid
<1> DEFINE t == p[m + 1]
           new == [k \in 1 .. m + 1 |-> IF k <= m THEN off[k] ELSE Len(s)]
           r == s \o t
<1>2. /\ IsScript(r) /\ Len(s) \in Nat /\ Len(t) \in Nat
      /\ Len(r) = Len(s) + Len(t)
      /\ \A i \in 1 .. Len(s) : r[i] = s[i]
      /\ \A j \in 1 .. Len(t) : r[Len(s) + j] = t[j]
  <2> HIDE DEF t
  <2>. QED
    BY <1>1, ConcatIs DEF Laid, t
<1>3. /\ \A k \in 1 .. m : k \in 1 .. m + 1 /\ new[k] = off[k] /\ off[k] \in Nat
      /\ m + 1 \in 1 .. m + 1 /\ new[m + 1] = Len(s)
      /\ \A k \in 1 .. m + 1 : k \in 1 .. m \/ k = m + 1
  BY <1>1 DEF Laid
<1>4. new \in [1 .. m + 1 -> Nat]
  BY <1>1, <1>2 DEF Laid
<1> HIDE DEF r, new, t
<1>5. \A k \in 1 .. m + 1 : Len(p[k]) \in Nat
  BY <1>1, <1>2, <1>3 DEF Laid, t
<1>6. ASSUME NEW k \in 1 .. m + 1, NEW j \in 1 .. Len(p[k])
      PROVE  new[k] + j \in 1 .. Len(r) /\ r[new[k] + j] = p[k][j]
  <2>1. CASE k \in 1 .. m
    <3>1. off[k] + j \in 1 .. Len(s) /\ s[off[k] + j] = p[k][j]
      BY <1>1, <2>1 DEF Laid
    <3>. QED
      BY <1>2, <1>3, <2>1, <3>1
  <2>2. CASE k = m + 1
    <3>1. j \in 1 .. Len(t) /\ p[k][j] = t[j]
      BY <2>2 DEF t
    <3>2. r[Len(s) + j] = t[j] /\ Len(s) + j \in 1 .. Len(r)
      BY <1>2, <3>1
    <3>. QED
      BY <1>3, <2>2, <3>1, <3>2
  <2>. QED
    BY <1>3, <2>1, <2>2
<1>7. ASSUME NEW i \in 1 .. Len(r)
      PROVE  \E k \in 1 .. m + 1 : i - new[k] \in 1 .. Len(p[k])
  <2>1. CASE i <= Len(s)
    <3>1. i \in 1 .. Len(s)
      BY <1>2, <2>1
    <3>2. PICK k \in 1 .. m : i - off[k] \in 1 .. Len(p[k])
      BY <1>1, <3>1 DEF Laid
    <3>. QED
      BY <1>3, <3>2
  <2>2. CASE ~(i <= Len(s))
    <3>1. i - Len(s) \in 1 .. Len(t)
      BY <1>2, <2>2
    <3>. QED
      BY <1>3, <3>1 DEF t
  <2>. QED
    BY <2>1, <2>2
<1>8. ASSUME NEW k \in 1 .. m + 1, NEW l \in 1 .. m + 1, k < l
      PROVE  new[k] + Len(p[k]) <= new[l]
  <2>1. k \in 1 .. m
    BY <1>8
  <2>2. CASE l \in 1 .. m
    BY <1>1, <1>3, <1>8, <2>1, <2>2 DEF Laid
  <2>3. CASE l = m + 1
    BY <1>1, <1>3, <2>1, <2>3 DEF Laid
  <2>. QED
    BY <1>3, <2>2, <2>3
<1>9. \A k \in 1 .. m + 1 : new[k] + Len(p[k]) <= Len(r)
  <2>1. \A k \in 1 .. m : off[k] + Len(p[k]) <= Len(s) /\ Len(p[k]) \in Nat
    BY <1>1 DEF Laid
  <2>2. Len(r) = Len(s) + Len(t) /\ Len(s) \in Nat /\ Len(t) \in Nat
    BY <1>2
  <2>3. \A k \in 1 .. m : new[k] + Len(p[k]) <= Len(r)
    BY <1>3, <2>1, <2>2, SMTT(30)
  <2>4. new[m + 1] + Len(p[m + 1]) <= Len(r)
    BY <1>3, <2>2 DEF t
  <2>. QED
    BY <2>3, <2>4
<1>10. Laid(r, p, m + 1, new)
  BY <1>2, <1>4, <1>5, <1>6, <1>7, <1>8, <1>9 DEF Laid
<1>. QED
  BY <1>10 DEF IsLaid, r, t

----------------------------------------------------------------------------
(* The document that is made of a declaration                              *)

LEMMA FiniteImage ==
  ASSUME NEW f, IsFiniteSet(DOMAIN f) PROVE IsFiniteSet({f[x] : x \in DOMAIN f})
<1>1. f \in Surjection(DOMAIN f, {f[x] : x \in DOMAIN f}) \/ f # [x \in DOMAIN f |-> f[x]]
  BY DEF Surjection
<1> DEFINE g == [x \in DOMAIN f |-> f[x]]
<1>2. g \in Surjection(DOMAIN f, {f[x] : x \in DOMAIN f})
  BY DEF Surjection
<1>. QED
  BY <1>2, FS_Surjection

IsDocument(d) ==
  /\ IsFiniteSet(d.keys) /\ IsFiniteSet(KnownPorts(d))
  /\ IsFiniteSet(DOMAIN d.bonds) /\ IsFiniteSet(DOMAIN d.ports) /\ IsFiniteSet(DOMAIN d.vlans)
  /\ IsFiniteSet(d.svis) /\ IsFiniteSet(d.addresses) /\ IsFiniteSet(d.routes)
  /\ IsFiniteSet(d.relays) /\ IsFiniteSet(d.addresses6) /\ IsFiniteSet(d.pooled)
  /\ IsFiniteSet(d.nd) /\ IsFiniteSet(d.routes6) /\ IsFiniteSet(d.clients)
  /\ IsScript(d.rules) /\ d.chip \in BOOLEAN /\ d.filtering

LEMMA PortsAreFinite ==
  ASSUME NEW f, IsDeclaration(f)
  PROVE  /\ IsFiniteSet(HwPorts(f)) /\ IsFiniteSet(ActivePorts(f))
         /\ ActivePorts(f) = TypedPorts(f, "access") \union TypedPorts(f, "trunk")
         /\ ActivePorts(f) \subseteq DOMAIN f.ports \intersect HwPorts(f)
<1>1. IsFiniteSet(HwPorts(f))
  BY NetAssumption DEF HwPorts, IsDeclaration
<1>2. /\ ActivePorts(f) = TypedPorts(f, "access") \union TypedPorts(f, "trunk")
      /\ ActivePorts(f) \subseteq DOMAIN f.ports \intersect HwPorts(f)
  BY DEF ActivePorts, TypedPorts, PortType, PortCfg
<1>3. IsFiniteSet(ActivePorts(f))
  BY <1>1, <1>2, FS_Subset
<1>. QED
  BY <1>1, <1>2, <1>3

\* What a VLAN's rules match: the declared prefixes, and then everything.
LEMMA MatchesAre ==
  ASSUME NEW f, IsDeclaration(f)
  PROVE  LET m == Matches(f)
             k == Len(m)
         IN  /\ k \in Nat \ {0} /\ m[k] = Drop
             /\ \A j \in 1 .. k : j # k => m[j] \in Inside(f)
             /\ \A x \in Inside(f) : \E j \in 1 .. k : m[j] = x
             /\ Drop \notin Inside(f)
<1> DEFINE t == f.internal4
           u == [i \in DOMAIN t |-> Inside4(t[i])]
           w == IF f.ula = NoPrefix THEN <<>> ELSE <<Inside6(f.ula)>>
           U == {Inside4(p) : p \in Range(t)}
           W == {Inside6(p) : p \in {f.ula} \ {NoPrefix}}
<1>1. t \in Seq(NetPrefixes) /\ Len(t) \in Nat /\ DOMAIN t = 1 .. Len(t)
  BY LenProperties DEF IsDeclaration
<1>2. u \in Seq(U) /\ Len(u) = Len(t) /\ \A i \in 1 .. Len(t) : u[i] \in U
  <2>1. \A i \in 1 .. Len(t) : t[i] \in Range(t)
    BY <1>1 DEF Range
  <2>2. u \in [1 .. Len(t) -> U]
    BY <1>1, <2>1
  <2> HIDE DEF u, U, t
  <2>. QED
    BY <1>1, <2>2
<1>3. \A x \in U : \E i \in 1 .. Len(t) : u[i] = x
  BY <1>1 DEF Range
<1>4. /\ w \in Seq(W) /\ Len(w) \in Nat
      /\ \A i \in 1 .. Len(w) : w[i] \in W
      /\ \A x \in W : \E i \in 1 .. Len(w) : w[i] = x
  <2>1. CASE f.ula = NoPrefix
    <3>1. w = <<>> /\ W = {}
      BY <2>1
    <3> HIDE DEF w, W
    <3>. QED
      BY <3>1
  <2>2. CASE f.ula # NoPrefix
    <3>1. w = <<Inside6(f.ula)>> /\ W = {Inside6(f.ula)}
      BY <2>2
    <3> HIDE DEF w, W
    <3>. QED
      BY <3>1
  <2>. QED
    BY <2>1, <2>2
<1>5. Drop \notin U /\ Drop \notin W
  BY DEF Drop, Inside4, Inside6
<1>6. Matches(f) = u \o w \o <<Drop>> /\ Inside(f) = U \union W
  BY DEF Matches, Inside
<1> HIDE DEF u, w, U, W, t
<1> DEFINE m == u \o w \o <<Drop>>
           k == Len(t) + Len(w) + 1
<1>7. /\ Len(m) = k /\ m[k] = Drop
      /\ \A i \in 1 .. Len(t) : m[i] = u[i]
      /\ \A i \in 1 .. Len(w) : m[Len(t) + i] = w[i]
  <2> DEFINE y == u \o w
             z == <<Drop>>
  <2>1. IsScript(u) /\ IsScript(w)
    BY <1>2, <1>4 DEF IsScript
  <2>z. IsScript(z) /\ Len(z) = 1 /\ z[1] = Drop
    <3>1. z \in Seq({Drop}) /\ Len(z) = 1 /\ z[1] = Drop
      OBVIOUS
    <3> HIDE DEF z
    <3>. QED
      BY <3>1 DEF IsScript
  <2> HIDE DEF z
  <2>u. /\ IsScript(u \o w) /\ Len(u) \in Nat /\ Len(w) \in Nat
        /\ Len(u \o w) = Len(u) + Len(w)
        /\ \A i \in 1 .. Len(u) : (u \o w)[i] = u[i]
        /\ \A i \in 1 .. Len(w) : (u \o w)[Len(u) + i] = w[i]
    BY <2>1, ConcatIs
  <2>2. /\ IsScript(y) /\ Len(y) = Len(t) + Len(w) /\ Len(y) \in Nat
        /\ \A i \in 1 .. Len(t) : y[i] = u[i]
        /\ \A i \in 1 .. Len(w) : y[Len(t) + i] = w[i]
    BY <1>2, <2>u
  <2> HIDE DEF y
  <2>3. /\ IsScript(y \o z) /\ Len(y) \in Nat /\ Len(z) \in Nat
        /\ Len(y \o z) = Len(y) + Len(z)
        /\ \A i \in 1 .. Len(y) : (y \o z)[i] = y[i]
        /\ \A i \in 1 .. Len(z) : (y \o z)[Len(y) + i] = z[i]
    <3>1. IsScript(y) /\ IsScript(z)
      BY <2>z, <2>2
    <3>. QED
      BY <3>1, ConcatIs
  <2>4. (y \o z)[Len(y) + 1] = Drop
    BY <2>z, <2>3
  <2>5. ASSUME NEW i \in 1 .. Len(w) PROVE Len(t) + i \in 1 .. Len(t) + Len(w)
    BY <1>1, <1>4
  <2>6. ASSUME NEW i \in 1 .. Len(t) PROVE i \in 1 .. Len(t) + Len(w)
    BY <1>1, <1>4
  <2>7. m = y \o z
    BY DEF y, z
  <2> HIDE DEF m
  <2>. QED
    BY <2>z, <2>2, <2>3, <2>4, <2>5, <2>6, <2>7
<1> HIDE DEF m
<1> DEFINE lt == Len(t)
           lw == Len(w)
<1>a. lt \in Nat /\ lw \in Nat /\ k = lt + lw + 1
  BY <1>1, <1>4
<1> HIDE DEF lt, lw, k
<1>8. ASSUME NEW j \in 1 .. k, j # k PROVE m[j] \in U \union W
  <2>1. CASE j \in 1 .. lt
    BY <1>2, <1>7, <2>1 DEF lt
  <2>2. CASE j \notin 1 .. lt
    <3>1. PICK i \in 1 .. lw : j = lt + i
      <4>1. j - lt \in 1 .. lw /\ j = lt + (j - lt)
        BY <1>a, <1>8, <2>2
      <4>. QED
        BY <4>1
    <3>. QED
      BY <1>4, <1>7, <3>1 DEF lt, lw
  <2>. QED
    BY <2>1, <2>2
<1>9. ASSUME NEW x \in U \union W PROVE \E j \in 1 .. k : m[j] = x
  <2>1. CASE x \in U
    <3>1. PICK i \in 1 .. lt : u[i] = x
      BY <1>3, <2>1 DEF lt
    <3>2. i \in 1 .. k
      BY <1>a
    <3>. QED
      BY <1>7, <3>1, <3>2 DEF lt
  <2>2. CASE x \in W
    <3>1. PICK i \in 1 .. lw : w[i] = x
      BY <1>4, <2>2 DEF lw
    <3>2. lt + i \in 1 .. k
      BY <1>a
    <3>. QED
      BY <1>7, <3>1, <3>2 DEF lt, lw
  <2>. QED
    BY <2>1, <2>2
<1>10. k \in Nat \ {0}
  BY <1>a
<1>11. Matches(f) = m /\ Len(m) = k /\ m[k] = Drop /\ Inside(f) = U \union W
  BY <1>6, <1>7 DEF m
<1>. QED
  BY <1>5, <1>8, <1>9, <1>10, <1>11

\* Where the j-th of k in the i-th block is.
LEMMA BlockAt ==
  ASSUME NEW k \in Nat \ {0}, NEW n \in Nat, NEW i \in 1 .. n, NEW j \in 1 .. k,
         NEW x, x = k * (i - 1) + j
  PROVE  /\ x \in 1 .. k * n
         /\ 1 + ((x - 1) \div k) = i /\ 1 + ((x - 1) % k) = j
<1> DEFINE d == i - 1
           l == j - 1
<1>1. d \in Nat /\ d < n /\ l \in 0 .. k - 1 /\ i = d + 1 /\ j = l + 1
  OBVIOUS
<1> HIDE DEF d, l
<1>2. (k * d + l) \div k = d /\ (k * d + l) % k = l
  BY <1>1
<1>3. k * (d + 1) <= k * n /\ k * (d + 1) = k * d + k /\ k * d \in Nat /\ k * n \in Nat
  BY <1>1, SMT
<1>4. x = k * d + j
  BY DEF d
<1>5. x - 1 = k * d + l /\ x \in 1 .. k * n
  BY <1>1, <1>3, <1>4
<1>. QED
  BY <1>1, <1>2, <1>5

\* And what is at a place.
LEMMA BlockOf ==
  ASSUME NEW k \in Nat \ {0}, NEW n \in Nat, NEW x \in 1 .. k * n
  PROVE  \E i \in 1 .. n, j \in 1 .. k : x = k * (i - 1) + j
<1> DEFINE y == x - 1
           d == y \div k
           l == y % k
<1>1. k * n \in Nat /\ y \in Nat /\ y < k * n /\ x = y + 1
  <2>1. k * n \in Nat
    BY SMT
  <2>. QED
    BY <2>1
<1> HIDE DEF y
<1>2. y = k * d + l /\ l \in 0 .. k - 1 /\ d \in Nat
  BY <1>1
<1> HIDE DEF d, l
<1>3. k * d \in Nat /\ k * d < k * n
  <2>1. k * d \in Nat
    BY <1>2, SMT
  <2>. QED
    BY <1>1, <1>2, <2>1
<1>4. d < n
  BY <1>2, <1>3, SMT
<1>5. 1 + d \in 1 .. n /\ 1 + l \in 1 .. k /\ x = k * d + (1 + l) /\ 1 + d - 1 = d
  BY <1>1, <1>2, <1>3, <1>4
<1> DEFINE a == 1 + d
           b == 1 + l
<1>6. a \in 1 .. n /\ b \in 1 .. k
  BY <1>5
<1>7. a - 1 = d
  BY <1>2
<1>8. x = k * d + b
  BY <1>5
<1> HIDE DEF a, b
<1>9. x = k * (a - 1) + b
  BY <1>7, <1>8
<1>. QED
  BY <1>6, <1>9

\* s has for each member of S, once, a row for each of m.
Blocks(s, S, m, n, q) ==
  /\ IsScript(s) /\ n \in Nat /\ Len(s) = Len(m) * n
  /\ q \in [1 .. n -> S]
  /\ \A i, j \in 1 .. n : q[i] = q[j] => i = j
  /\ \A x \in S : \E i \in 1 .. n : q[i] = x
  /\ \A i \in 1 .. n, j \in 1 .. Len(m) :
       s[Len(m) * (i - 1) + j] = [vlan |-> q[i], says |-> m[j]]

\* A function on 1 .. l is a sequence of l.
LEMMA LengthIs ==
  ASSUME NEW l \in Nat, NEW T, NEW s \in [1 .. l -> T] PROVE s \in Seq(T) /\ Len(s) = l
OBVIOUS

RowsFor(s, q, m) ==
  s = [i \in 1 .. Len(m) * Len(q) |->
         [vlan |-> q[1 + ((i - 1) \div Len(m))], says |-> m[1 + ((i - 1) % Len(m))]]]

\* What SwitchRules makes.
LEMMA BlocksAre ==
  ASSUME NEW S, IsFiniteSet(S), NEW m, Len(m) \in Nat \ {0}, NEW s,
         RowsFor(s, SetToSeq(S), m)
  PROVE  \E n \in Nat : \E q : Blocks(s, S, m, n, q)
<1> DEFINE q == SetToSeq(S)
           n == Len(q)
           k == Len(m)
<1>1. n \in Nat /\ q \in [1 .. n -> S]
  BY SetToSeqIs
<1>2. /\ \A i, j \in 1 .. n : q[i] = q[j] => i = j
      /\ \A x \in S : \E i \in 1 .. n : q[i] = x
  BY SetToSeqIs
<1>3. s = [i \in 1 .. k * n |-> [vlan |-> q[1 + ((i - 1) \div k)], says |-> m[1 + ((i - 1) % k)]]]
  BY DEF RowsFor
<1>4. k \in Nat \ {0}
  OBVIOUS
<1> HIDE DEF q, n, k
<1>5. PICK l \in Nat : l = k * n
  BY <1>1, <1>4, SMT
<1> DEFINE T == {s[i] : i \in 1 .. l}
<1>6. s \in [1 .. l -> T]
  BY <1>3, <1>5
<1> HIDE DEF T
<1>7. s \in Seq(T) /\ Len(s) = k * n
  <2>1. s \in Seq(T) /\ Len(s) = l
    BY <1>6, LengthIs
  <2>. QED
    BY <1>5, <2>1
<1>8. IsScript(s)
  BY <1>7 DEF IsScript
<1>9. ASSUME NEW i \in 1 .. n, NEW j \in 1 .. k
      PROVE  s[k * (i - 1) + j] = [vlan |-> q[i], says |-> m[j]]
  <2>1. PICK x : x = k * (i - 1) + j
    OBVIOUS
  <2>2. x \in 1 .. k * n /\ 1 + ((x - 1) \div k) = i /\ 1 + ((x - 1) % k) = j
    <3>1. n \in Nat
      BY <1>1
    <3>. QED
      BY <1>4, <2>1, <3>1, BlockAt
  <2>3. s[x] = [vlan |-> q[i], says |-> m[j]]
    BY <1>3, <2>2
  <2>. QED
    BY <2>1, <2>3
<1>10. Blocks(s, S, m, n, q)
  BY <1>1, <1>2, <1>7, <1>8, <1>9 DEF Blocks, k
<1>. QED
  BY <1>1, <1>10

LEMMA RulesAre ==
  ASSUME NEW f, IsDeclaration(f), NEW S, S = Vlans(f.denied \intersect f.addresses)
  PROVE  /\ IsScript(SwitchRules(f))
         /\ ~f.chip => SwitchRules(f) = <<>>
         /\ f.chip => \E n \in Nat : \E q : Blocks(SwitchRules(f), S, Matches(f), n, q)
<1>1. IsFiniteSet(f.denied \intersect f.addresses)
  <2>1. f.addresses \in SUBSET Nets
    BY DEF IsDeclaration
  <2>. QED
    BY <2>1, NetAssumption, FS_Subset, FS_Intersection
<1>2. IsFiniteSet(S)
  <2> DEFINE g == [n \in f.denied \intersect f.addresses |-> VlanOf[n]]
  <2>1. S = {g[n] : n \in DOMAIN g} /\ DOMAIN g = f.denied \intersect f.addresses
    BY DEF Vlans
  <2> HIDE DEF g
  <2>2. IsFiniteSet(DOMAIN g)
    BY <1>1, <2>1
  <2>. QED
    BY <2>1, <2>2, FiniteImage
<1>3. CASE f.chip
  <2> DEFINE m == Matches(f)
  <2>1. Len(m) \in Nat \ {0}
    BY MatchesAre
  <2>2. SwitchRules(f) = [i \in 1 .. Len(m) * Len(SetToSeq(S)) |->
                            [vlan |-> SetToSeq(S)[1 + ((i - 1) \div Len(m))],
                             says |-> m[1 + ((i - 1) % Len(m))]]]
    BY <1>3 DEF SwitchRules
  <2> HIDE DEF m
  <2>3. \E n \in Nat : \E q : Blocks(SwitchRules(f), S, m, n, q)
    <3>1. RowsFor(SwitchRules(f), SetToSeq(S), m)
      BY <2>2 DEF RowsFor
    <3>. QED
      BY <1>2, <2>1, <3>1, BlocksAre
  <2>4. IsScript(SwitchRules(f))
    BY <2>3 DEF Blocks
  <2>. QED
    BY <1>3, <2>3, <2>4 DEF m
<1>4. CASE ~f.chip
  <2>1. SwitchRules(f) = <<>>
    BY <1>4 DEF SwitchRules
  <2>2. IsScript(<<>>)
    BY EmptySeq DEF IsScript
  <2>. QED
    BY <1>4, <2>1, <2>2
<1>. QED
  BY <1>3, <1>4

LEMMA ProjectIs ==
  ASSUME NEW f, IsDeclaration(f) PROVE IsDocument(Project(f))
<1> DEFINE d == Project(f)
<1>1. IsFiniteSet(d.addresses) /\ IsFiniteSet(d.svis) /\ IsFiniteSet(d.addresses6)
      /\ IsFiniteSet(d.keys) /\ IsFiniteSet(d.nd) /\ IsFiniteSet(f.addresses)
  <2>1. IsFiniteSet(f.addresses) /\ IsFiniteSet(f.keys) /\ IsFiniteSet(f.v6)
    <3>1. f.addresses \in SUBSET Nets /\ f.keys \in SUBSET Keys /\ f.v6 \in SUBSET Nets
      BY DEF IsDeclaration
    <3>. QED
      BY <3>1, NetAssumption, FS_Subset
  <2>. QED
    BY <2>1, FS_EmptySet DEF Project
<1>2. IsFiniteSet(d.relays) /\ IsFiniteSet(d.pooled) /\ IsFiniteSet(d.clients)
  <2>1. /\ IsFiniteSet(f.relays \intersect f.addresses) /\ IsFiniteSet(f.pd \intersect f.addresses)
        /\ IsFiniteSet({f.over} \ {NoNet})
    BY <1>1, FS_Intersection, FS_Singleton, FS_RemoveElement
  <2>. QED
    BY <2>1, FS_EmptySet DEF Project
<1>3. IsFiniteSet(d.routes) /\ IsFiniteSet(d.routes6)
  BY FS_Singleton, FS_Intersection DEF Project
<1>4. IsFiniteSet(DOMAIN d.bonds) /\ d.chip \in BOOLEAN /\ d.filtering /\ IsScript(d.rules)
  BY RulesAre DEF Project, IsDeclaration
<1>5. IsFiniteSet(DOMAIN d.ports)
  <2> DEFINE g == [p \in ActivePorts(f) |-> BridgeIface(f, p)]
  <2>1. DOMAIN d.ports = {g[p] : p \in DOMAIN g} /\ DOMAIN g = ActivePorts(f)
    BY DEF Project, BridgeIfaces
  <2> HIDE DEF g, d
  <2>2. IsFiniteSet(DOMAIN g)
    BY <2>1, PortsAreFinite
  <2>. QED
    BY <2>1, <2>2, FiniteImage
<1>6. IsFiniteSet(DOMAIN d.vlans)
  <2> DEFINE A == TypedPorts(f, "access")
             T == TypedPorts(f, "trunk")
             g == [p \in A |-> PortCfg(f, p).vlan]
             U == UNION {f.ports[p].vlans : p \in DOMAIN f.ports}
  <2>1. A \subseteq ActivePorts(f) /\ T \subseteq ActivePorts(f)
    BY PortsAreFinite
  <2>2. IsFiniteSet({g[p] : p \in DOMAIN g})
    <3>1. DOMAIN g = A
      OBVIOUS
    <3> HIDE DEF g, A
    <3>2. IsFiniteSet(A)
      BY <2>1, PortsAreFinite, FS_Subset
    <3>. QED
      BY <3>1, <3>2, FiniteImage
  <2>3. IsFiniteSet(U)
    BY DEF IsDeclaration
  <2>4. UNION {PortCfg(f, p).vlans : p \in T} \subseteq U
    <3>1. \A p \in T : p \in DOMAIN f.ports /\ PortCfg(f, p) = f.ports[p]
      BY <2>1, PortsAreFinite DEF PortCfg
    <3>. QED
      BY <3>1
  <2>5. IsFiniteSet(UNION {PortCfg(f, p).vlans : p \in T})
    BY <2>3, <2>4, FS_Subset
  <2>6. {g[p] : p \in DOMAIN g} = {PortCfg(f, p).vlan : p \in A}
    OBVIOUS
  <2>7. IsFiniteSet(UsedVlans(f))
    <3> DEFINE W == {PortCfg(f, p).vlan : p \in A} \union (UNION {PortCfg(f, p).vlans : p \in T})
    <3>1. IsFiniteSet(W)
      BY <2>2, <2>5, <2>6, FS_Union
    <3>2. UsedVlans(f) = W \union {VlanOf[MgmtNet]}
      BY DEF UsedVlans
    <3> HIDE DEF W
    <3>. QED
      BY <3>1, <3>2, FS_AddElement
  <2>. QED
    BY <2>7 DEF Project
<1>7. IsFiniteSet(KnownPorts(d))
  <2>1. d.model = f.model /\ DOMAIN d.interfaces = ActivePorts(f)
    BY DEF Project
  <2>. QED
    BY <2>1, PortsAreFinite, NetAssumption DEF KnownPorts
<1>. QED
  BY <1>1, <1>2, <1>3, <1>4, <1>5, <1>6, <1>7 DEF IsDocument

----------------------------------------------------------------------------
(* The parts of a script                                                   *)

PartOf(d) ==
  << <<Plain("/system identity", {"name"})>>,
     AccountLines(d),
     <<Plain("/system clock", {"time-zone-name"}), Plain("/ip dns", {"servers"}),
       Plain("/ip ssh", {"host-key-type"}), Plain("/snmp", {"enabled"})>>,
     InterfaceLines(d), BondLines(d), BridgeLines(d), BridgePortLines(d), VlanTableLines(d),
     VlanInterfaceLines(d), ChipLines(d), SettingsLines(d), AddressLines(d),
     RouteLines("/ip route", d.routes), RelayLines(d), Address6Lines(d), NdLines(d),
     RouteLines("/ipv6 route", d.routes6), ClientLines(d), RuleLines(d), DisableLines(d),
     FilteringLines(d) >>

\* The ports with settings of their own.
SetPorts(d) ==
  {p \in (KnownPorts(d) \intersect DOMAIN d.interfaces) \ DisabledPorts(d) :
     d.interfaces[p].l2mtu # 0}

InterfaceList(d) ==
  [p \in SetPorts(d) |->
     Line("/interface ethernet", {"l2mtu"}, {Port(p)}, {},
          [port |-> p, l2mtu |-> d.interfaces[p].l2mtu])]

LEMMA InterfacesListed ==
  ASSUME NEW d, IsDocument(d) PROVE Lists(InterfaceLines(d), InterfaceList(d))
<1> DEFINE s == SetToSeq(SetPorts(d))
<1>1. IsFiniteSet(SetPorts(d))
  <2>1. SetPorts(d) \in SUBSET KnownPorts(d)
    BY DEF SetPorts
  <2>. QED
    BY <2>1, FS_Subset DEF IsDocument
<1>2. \A i \in DOMAIN s : s[i] \in SetPorts(d)
  BY <1>1, SetToSeqIs
<1>3. InterfaceLines(d) = [i \in DOMAIN s |-> InterfaceList(d)[s[i]]]
  BY <1>2 DEF InterfaceLines, ListOf, SetPorts, InterfaceList
<1>4. DOMAIN InterfaceList(d) = SetPorts(d)
  BY DEF InterfaceList
<1>. QED
  BY <1>1, <1>3, <1>4, ListOfIs

BondList(d) ==
  [b \in DOMAIN d.bonds |->
     Line("/interface bonding", {"name", "mode", "slaves"},
          {Port(p) : p \in Range(d.bonds[b])}, {Bond(b)},
          [bond |-> b, slaves |-> Range(d.bonds[b])])]

LEMMA BondsListed ==
  ASSUME NEW d, IsDocument(d) PROVE Lists(BondLines(d), BondList(d))
<1> DEFINE s == SetToSeq(DOMAIN d.bonds)
<1>1. IsFiniteSet(DOMAIN d.bonds)
  BY DEF IsDocument
<1>2. \A i \in DOMAIN s : s[i] \in DOMAIN d.bonds
  BY <1>1, SetToSeqIs
<1>3. BondLines(d) = [i \in DOMAIN s |-> BondList(d)[s[i]]]
  BY <1>2 DEF BondLines, ListOf, BondList
<1>4. DOMAIN BondList(d) = DOMAIN d.bonds
  BY DEF BondList
<1>. QED
  BY <1>1, <1>3, <1>4, ListOfIs

BridgePortList(d) ==
  [i \in DOMAIN d.ports |->
     Line("/interface bridge port", {"bridge", "interface", "pvid", "comment"},
          {Bridge, Member(d, i)}, {}, [iface |-> i, pvid |-> d.ports[i]])]

LEMMA BridgePortsListed ==
  ASSUME NEW d, IsDocument(d) PROVE Lists(BridgePortLines(d), BridgePortList(d))
<1> DEFINE s == SetToSeq(DOMAIN d.ports)
<1>1. IsFiniteSet(DOMAIN d.ports)
  BY DEF IsDocument
<1>2. \A k \in DOMAIN s : s[k] \in DOMAIN d.ports
  BY <1>1, SetToSeqIs
<1>3. BridgePortLines(d) = [i \in DOMAIN s |-> BridgePortList(d)[s[i]]]
  BY <1>2 DEF BridgePortLines, ListOf, BridgePortList
<1>4. DOMAIN BridgePortList(d) = DOMAIN d.ports
  BY DEF BridgePortList
<1>. QED
  BY <1>1, <1>3, <1>4, ListOfIs

VlanTableList(d) ==
  [v \in DOMAIN d.vlans |->
     LET e == d.vlans[v] IN
     Line("/interface bridge vlan",
          {"bridge", "vlan-ids"} \union (IF e.tagged = {} THEN {} ELSE {"tagged"})
                                 \union (IF e.untagged = {} THEN {} ELSE {"untagged"}),
          {Bridge} \union {Member(d, i) : i \in e.tagged \union e.untagged}, {},
          [vlan |-> v, tagged |-> e.tagged, untagged |-> e.untagged])]

LEMMA VlanTableListed ==
  ASSUME NEW d, IsDocument(d) PROVE Lists(VlanTableLines(d), VlanTableList(d))
<1> DEFINE s == SetToSeq(DOMAIN d.vlans)
<1>1. IsFiniteSet(DOMAIN d.vlans)
  BY DEF IsDocument
<1>2. \A i \in DOMAIN s : s[i] \in DOMAIN d.vlans
  BY <1>1, SetToSeqIs
<1>3. VlanTableLines(d) = [i \in DOMAIN s |-> VlanTableList(d)[s[i]]]
  BY <1>2 DEF VlanTableLines, ListOf, VlanTableList
<1>4. DOMAIN VlanTableList(d) = DOMAIN d.vlans
  BY DEF VlanTableList
<1>. QED
  BY <1>1, <1>3, <1>4, ListOfIs

VlanInterfaceList(d) ==
  [n \in d.svis |->
     EmitAdd("/interface vlan", {"interface", "name", "vlan-id", "mtu"},
             {Bridge}, {Svi(n)}, [vlan |-> VlanOf[n], mtu |-> MtuOf[n]])]

LEMMA VlanInterfacesListed ==
  ASSUME NEW d, IsDocument(d) PROVE Lists(VlanInterfaceLines(d), VlanInterfaceList(d))
<1> DEFINE s == SetToSeq(d.svis)
<1>1. IsFiniteSet(d.svis)
  BY DEF IsDocument
<1>2. \A i \in DOMAIN s : s[i] \in d.svis
  BY <1>1, SetToSeqIs
<1>3. VlanInterfaceLines(d) = [i \in DOMAIN s |-> VlanInterfaceList(d)[s[i]]]
  BY <1>2 DEF VlanInterfaceLines, ListOf, VlanInterfaceList
<1>4. DOMAIN VlanInterfaceList(d) = d.svis
  BY DEF VlanInterfaceList
<1>. QED
  BY <1>1, <1>3, <1>4, ListOfIs

AddressList(d) ==
  [n \in d.addresses |->
     EmitAdd("/ip address", {"address", "interface", "network"},
             {Svi(n)}, {Address(n)}, [net |-> n])]

LEMMA AddressesListed ==
  ASSUME NEW d, IsDocument(d) PROVE Lists(AddressLines(d), AddressList(d))
<1> DEFINE s == SetToSeq(d.addresses)
<1>1. IsFiniteSet(d.addresses)
  BY DEF IsDocument
<1>2. \A i \in DOMAIN s : s[i] \in d.addresses
  BY <1>1, SetToSeqIs
<1>3. AddressLines(d) = [i \in DOMAIN s |-> AddressList(d)[s[i]]]
  BY <1>2 DEF AddressLines, ListOf, AddressList
<1>4. DOMAIN AddressList(d) = d.addresses
  BY DEF AddressList
<1>. QED
  BY <1>1, <1>3, <1>4, ListOfIs

RouteList(menu, families) ==
  [r \in families |->
     EmitAdd(menu, {"disabled", "dst-address", "gateway", "comment"}, {}, {}, r)]

LEMMA RoutesListed ==
  ASSUME NEW menu, NEW families, IsFiniteSet(families)
  PROVE  Lists(RouteLines(menu, families), RouteList(menu, families))
<1> DEFINE s == SetToSeq(families)
<1>1. IsFiniteSet(families)
  OBVIOUS
<1>2. \A i \in DOMAIN s : s[i] \in families
  BY <1>1, SetToSeqIs
<1>3. RouteLines(menu, families) = [i \in DOMAIN s |-> RouteList(menu, families)[s[i]]]
  BY <1>2 DEF RouteLines, ListOf, RouteList
<1>4. DOMAIN RouteList(menu, families) = families
  BY DEF RouteList
<1>. QED
  BY <1>1, <1>3, <1>4, ListOfIs

RelayList(d) ==
  [n \in d.relays |->
     EmitAdd("/ip dhcp-relay",
             {"name", "interface", "dhcp-server", "local-address", "disabled"},
             {Svi(n), Address(n)}, {}, [net |-> n])]

LEMMA RelaysListed ==
  ASSUME NEW d, IsDocument(d) PROVE Lists(RelayLines(d), RelayList(d))
<1> DEFINE s == SetToSeq(d.relays)
<1>1. IsFiniteSet(d.relays)
  BY DEF IsDocument
<1>2. \A i \in DOMAIN s : s[i] \in d.relays
  BY <1>1, SetToSeqIs
<1>3. RelayLines(d) = [i \in DOMAIN s |-> RelayList(d)[s[i]]]
  BY <1>2 DEF RelayLines, ListOf, RelayList
<1>4. DOMAIN RelayList(d) = d.relays
  BY DEF RelayList
<1>. QED
  BY <1>1, <1>3, <1>4, ListOfIs

NdList(d) ==
  [n \in d.nd |->
     EmitAdd("/ipv6 nd", {"interface", "ra-lifetime"}, {Svi(n)}, {}, [net |-> n])]

LEMMA NdListed ==
  ASSUME NEW d, IsDocument(d) PROVE Lists(NdLines(d), NdList(d))
<1> DEFINE s == SetToSeq(d.nd)
<1>1. IsFiniteSet(d.nd)
  BY DEF IsDocument
<1>2. \A i \in DOMAIN s : s[i] \in d.nd
  BY <1>1, SetToSeqIs
<1>3. NdLines(d) = [i \in DOMAIN s |-> NdList(d)[s[i]]]
  BY <1>2 DEF NdLines, ListOf, NdList
<1>4. DOMAIN NdList(d) = d.nd
  BY DEF NdList
<1>. QED
  BY <1>1, <1>3, <1>4, ListOfIs

ClientList(d) ==
  [n \in d.clients |->
     EmitAdd("/ipv6 dhcp-client",
             {"interface", "request", "pool-name", "pool-prefix-length",
              "add-default-route"}, {Svi(n)}, {}, [net |-> n])]

LEMMA ClientsListed ==
  ASSUME NEW d, IsDocument(d) PROVE Lists(ClientLines(d), ClientList(d))
<1> DEFINE s == SetToSeq(d.clients)
<1>1. IsFiniteSet(d.clients)
  BY DEF IsDocument
<1>2. \A i \in DOMAIN s : s[i] \in d.clients
  BY <1>1, SetToSeqIs
<1>3. ClientLines(d) = [i \in DOMAIN s |-> ClientList(d)[s[i]]]
  BY <1>2 DEF ClientLines, ListOf, ClientList
<1>4. DOMAIN ClientList(d) = d.clients
  BY DEF ClientList
<1>. QED
  BY <1>1, <1>3, <1>4, ListOfIs

DisabledList(d) ==
  [p \in DisabledPorts(d) |->
     Line("/interface ethernet", {"disabled"}, {Port(p)}, {}, [disabled |-> p])]

LEMMA DisabledListed ==
  ASSUME NEW d, IsDocument(d) PROVE Lists(DisableLines(d), DisabledList(d))
<1> DEFINE s == SetToSeq(DisabledPorts(d))
<1>1. IsFiniteSet(DisabledPorts(d))
  <2>1. DisabledPorts(d) \in SUBSET KnownPorts(d)
    BY DEF DisabledPorts
  <2>. QED
    BY <2>1, FS_Subset DEF IsDocument
<1>2. \A i \in DOMAIN s : s[i] \in DisabledPorts(d)
  BY <1>1, SetToSeqIs
<1>3. DisableLines(d) = [i \in DOMAIN s |-> DisabledList(d)[s[i]]]
  BY <1>2 DEF DisableLines, ListOf, DisabledList
<1>4. DOMAIN DisabledList(d) = DisabledPorts(d)
  BY DEF DisabledList
<1>. QED
  BY <1>1, <1>3, <1>4, ListOfIs

LEMMA Addresses6Listed ==
  ASSUME NEW d, IsDocument(d)
  PROVE  /\ IsScript(Address6Lines(d))
         /\ \A j \in 1 .. Len(Address6Lines(d)) : \E n \in d.addresses6 \union d.pooled :
              \E given : Address6Lines(d)[j] =
                           EmitAdd("/ipv6 address", given, {Svi(n)}, {}, [net |-> n])
<1> DEFINE a == [n \in d.addresses6 |->
                   EmitAdd("/ipv6 address", {"address", "interface"}, {Svi(n)}, {}, [net |-> n])]
           b == [n \in d.pooled |->
                   EmitAdd("/ipv6 address", {"from-pool", "advertise", "interface"},
                           {Svi(n)}, {}, [net |-> n])]
           u == SetToSeq(d.addresses6)
           v == SetToSeq(d.pooled)
           s == [i \in DOMAIN u |-> a[u[i]]]
           t == [i \in DOMAIN v |-> b[v[i]]]
<1>1. IsFiniteSet(d.addresses6) /\ IsFiniteSet(d.pooled)
  BY DEF IsDocument
<1>2. (\A i \in DOMAIN u : u[i] \in d.addresses6) /\ (\A i \in DOMAIN v : v[i] \in d.pooled)
  BY <1>1, SetToSeqIs
<1>3. Address6Lines(d) = s \o t
  <2>1. s = [i \in DOMAIN u |-> EmitAdd("/ipv6 address", {"address", "interface"},
                                       {Svi(u[i])}, {}, [net |-> u[i]])]
    BY <1>2
  <2>2. t = [i \in DOMAIN v |-> EmitAdd("/ipv6 address", {"from-pool", "advertise", "interface"},
                                       {Svi(v[i])}, {}, [net |-> v[i]])]
    BY <1>2
  <2> HIDE DEF s, t
  <2>. QED
    BY <2>1, <2>2 DEF Address6Lines, ListOf
<1>4. DOMAIN a = d.addresses6 /\ DOMAIN b = d.pooled
  OBVIOUS
<1>5. /\ \A n \in d.addresses6 : \E given :
           a[n] = EmitAdd("/ipv6 address", given, {Svi(n)}, {}, [net |-> n])
      /\ \A n \in d.pooled : \E given :
           b[n] = EmitAdd("/ipv6 address", given, {Svi(n)}, {}, [net |-> n])
  OBVIOUS
<1> HIDE DEF a, b
<1>6. Lists(s, a) /\ Lists(t, b)
  BY <1>1, <1>4, ListOfIs
<1> HIDE DEF s, t
<1>7. /\ \A i \in 1 .. Len(s) : \E n \in d.addresses6 : s[i] = a[n]
      /\ \A i \in 1 .. Len(t) : \E n \in d.pooled : t[i] = b[n]
  <2>1. \A r, g : Lists(r, g) => \A i \in 1 .. Len(r) : \E x \in DOMAIN g : r[i] = g[x]
    BY DEF Lists
  <2>. QED
    BY <1>4, <1>6, <2>1
<1>8. /\ IsScript(s \o t) /\ Len(s) \in Nat /\ Len(t) \in Nat
      /\ Len(s \o t) = Len(s) + Len(t)
      /\ \A i \in 1 .. Len(s) : (s \o t)[i] = s[i]
      /\ \A j \in 1 .. Len(t) : (s \o t)[Len(s) + j] = t[j]
  BY <1>6, ConcatIs DEF Lists
<1>9. ASSUME NEW j \in 1 .. Len(s \o t)
      PROVE  \E n \in d.addresses6 \union d.pooled : \E given :
               (s \o t)[j] = EmitAdd("/ipv6 address", given, {Svi(n)}, {}, [net |-> n])
  <2>1. CASE j \in 1 .. Len(s)
    <3>1. PICK n \in d.addresses6 : (s \o t)[j] = a[n]
      BY <1>7, <1>8, <2>1
    <3>. QED
      BY <1>5, <3>1
  <2>2. CASE j \notin 1 .. Len(s)
    <3>1. j - Len(s) \in 1 .. Len(t) /\ j = Len(s) + (j - Len(s))
      BY <1>8, <2>2
    <3>2. PICK n \in d.pooled : (s \o t)[j] = b[n]
      BY <1>7, <1>8, <3>1
    <3>. QED
      BY <1>5, <3>2
  <2>. QED
    BY <2>1, <2>2
<1>. QED
  BY <1>3, <1>8, <1>9

LEMMA ShortScripts ==
  /\ IsScript(<<>>) /\ Len(<<>>) = 0
  /\ \A a : IsScript(<<a>>) /\ Len(<<a>>) = 1
  /\ \A a, b : IsScript(<<a, b>>) /\ Len(<<a, b>>) = 2
  /\ \A a, b, c, e : IsScript(<<a, b, c, e>>) /\ Len(<<a, b, c, e>>) = 4
<1>1. IsScript(<<>>) /\ Len(<<>>) = 0
  BY EmptySeq DEF IsScript
<1>2. ASSUME NEW a PROVE IsScript(<<a>>) /\ Len(<<a>>) = 1
  <2>1. <<a>> \in Seq({a})
    OBVIOUS
  <2>. QED
    BY <2>1 DEF IsScript
<1>3. ASSUME NEW a, NEW b PROVE IsScript(<<a, b>>) /\ Len(<<a, b>>) = 2
  <2>1. <<a, b>> \in Seq({a, b})
    OBVIOUS
  <2>. QED
    BY <2>1 DEF IsScript
<1>4. ASSUME NEW a, NEW b, NEW c, NEW e
      PROVE  IsScript(<<a, b, c, e>>) /\ Len(<<a, b, c, e>>) = 4
  <2>1. <<a, b, c, e>> \in Seq({a, b, c, e})
    OBVIOUS
  <2>. QED
    BY <2>1 DEF IsScript
<1>. QED
  BY <1>1, <1>2, <1>3, <1>4

\* The account, the ssh service, and three lines for each key.
LEMMA AccountsAre ==
  ASSUME NEW d, IsDocument(d)
  PROVE  /\ IsScript(AccountLines(d))
         /\ d.keys = {} => Len(AccountLines(d)) = 0
         /\ d.keys # {} =>
              \E n \in Nat \ {0} : \E q \in [1 .. n -> d.keys] :
                LET s == AccountLines(d) IN
                /\ Len(s) = 2 + 3 * n
                /\ s[1] = Caught(Line("/user", {"name", "group", "password"}, {}, {User}, <<>>))
                /\ s[2] = Line("/ip service", {"disabled", "port"}, {}, {}, "ssh")
                /\ \A i \in 1 .. n : /\ s[2 + (3 * i - 2)] = KeyLines(q[i])[1]
                                     /\ s[2 + (3 * i - 1)] = KeyLines(q[i])[2]
                                     /\ s[2 + 3 * i] = KeyLines(q[i])[3]
<1>1. CASE d.keys = {}
  BY <1>1, ShortScripts DEF AccountLines
<1>2. CASE d.keys # {}
  <2> DEFINE K == d.keys
             r == [k \in K |-> KeyLines(k)]
             t == ThreeOf(K, KeyLines)
             a == <<Caught(Line("/user", {"name", "group", "password"}, {}, {User}, <<>>)),
                    Line("/ip service", {"disabled", "port"}, {}, {}, "ssh")>>
             s == AccountLines(d)
  <2>1. IsFiniteSet(K)
    BY DEF IsDocument
  <2>2. SetToSeq(K) \in [1 .. Len(SetToSeq(K)) -> K] /\ Len(SetToSeq(K)) \in Nat
    BY <2>1, SetToSeqIs
  <2>3. t = [i \in 1 .. 3 * Len(SetToSeq(K)) |->
               KeyLines(SetToSeq(K)[(i + 2) \div 3])[1 + ((i - 1) % 3)]]
    BY DEF ThreeOf
  <2>4. s = a \o t
    BY <1>2 DEF AccountLines
  <2>5. a[1] = Caught(Line("/user", {"name", "group", "password"}, {}, {User}, <<>>))
        /\ a[2] = Line("/ip service", {"disabled", "port"}, {}, {}, "ssh")
    OBVIOUS
  <2>6. IsScript(a) /\ Len(a) = 2
    BY ShortScripts
  <2>7. K # {}
    BY <1>2
  <2> HIDE DEF t, a, s
  <2>8. \A i \in 1 .. 3 * Len(SetToSeq(K)) : (i + 2) \div 3 \in 1 .. Len(SetToSeq(K))
    BY <2>2
  <2> HIDE DEF K
  <2>9. \A i \in 1 .. 3 * Len(SetToSeq(K)) :
          r[SetToSeq(K)[(i + 2) \div 3]] = KeyLines(SetToSeq(K)[(i + 2) \div 3])
    BY <2>2, <2>8
  <2>10. DOMAIN r = K /\ \A k \in K : r[k] = KeyLines(k)
    OBVIOUS
  <2> HIDE DEF r
  <2>11. t = [i \in 1 .. 3 * Len(SetToSeq(DOMAIN r)) |->
                r[SetToSeq(DOMAIN r)[(i + 2) \div 3]][1 + ((i - 1) % 3)]]
    BY <2>3, <2>9, <2>10
  <2>12. PICK n \in Nat : \E q : Threes(t, r, n, q)
    BY <2>1, <2>10, <2>11, ThreeOfIs
  <2>13. PICK q : Threes(t, r, n, q)
    BY <2>12
  <2>14. /\ IsScript(t) /\ Len(t) = 3 * n /\ q \in [1 .. n -> K]
         /\ \A k \in K : \E i \in 1 .. n : q[i] = k
         /\ \A i \in 1 .. n : /\ t[3 * i - 2] = r[q[i]][1]
                              /\ t[3 * i - 1] = r[q[i]][2]
                              /\ t[3 * i] = r[q[i]][3]
    BY <2>10, <2>13 DEF Threes
  <2>15. /\ IsScript(s) /\ Len(s) = 2 + 3 * n
         /\ \A i \in 1 .. 2 : s[i] = a[i]
         /\ \A j \in 1 .. Len(t) : s[2 + j] = t[j]
    <3>1. /\ IsScript(a \o t) /\ Len(a \o t) = Len(a) + Len(t)
          /\ \A i \in 1 .. Len(a) : (a \o t)[i] = a[i]
          /\ \A j \in 1 .. Len(t) : (a \o t)[Len(a) + j] = t[j]
      <4>1. IsScript(a) /\ IsScript(t)
        BY <2>6, <2>14
      <4>. QED
        BY <4>1, ConcatIs
    <3>. QED
      BY <2>4, <2>6, <2>14, <3>1
  <2>16. n # 0
    BY <2>7, <2>14
  <2>17. s[1] = a[1] /\ s[2] = a[2]
    BY <2>15
  <2>18. ASSUME NEW i \in 1 .. n
         PROVE  /\ s[2 + (3 * i - 2)] = KeyLines(q[i])[1]
                /\ s[2 + (3 * i - 1)] = KeyLines(q[i])[2]
                /\ s[2 + 3 * i] = KeyLines(q[i])[3]
    <3>1. 3 * i - 2 \in 1 .. 3 * n /\ 3 * i - 1 \in 1 .. 3 * n /\ 3 * i \in 1 .. 3 * n
      OBVIOUS
    <3>2. r[q[i]] = KeyLines(q[i])
      BY <2>10, <2>14
    <3>. QED
      BY <2>14, <2>15, <3>1, <3>2, SMTT(30)
  <2>19. \E m \in Nat \ {0} : \E u \in [1 .. m -> K] :
           /\ Len(s) = 2 + 3 * m /\ s[1] = a[1] /\ s[2] = a[2]
           /\ \A i \in 1 .. m : /\ s[2 + (3 * i - 2)] = KeyLines(u[i])[1]
                                /\ s[2 + (3 * i - 1)] = KeyLines(u[i])[2]
                                /\ s[2 + 3 * i] = KeyLines(u[i])[3]
    <3>1. n \in Nat \ {0}
      BY <2>16
    <3>. QED
      BY <2>14, <2>15, <2>17, <2>18, <3>1, Zenon
  <2>. QED
    BY <1>2, <2>5, <2>15, <2>19, ZenonT(30) DEF K, s
<1>. QED
  BY <1>1, <1>2

LEMMA RulesListed ==
  ASSUME NEW d, IsDocument(d)
  PROVE  /\ IsScript(RuleLines(d)) /\ Len(RuleLines(d)) = Len(d.rules)
         /\ \A i \in 1 .. Len(d.rules) :
              RuleLines(d)[i] = EmitAdd("/interface ethernet switch rule",
                                        {"switch", "vlan-id", d.rules[i].says[1], "comment"},
                                        {Chip}, {}, d.rules[i])
<1>1. PICK S : d.rules \in Seq(S)
  BY DEF IsDocument, IsScript
<1> DEFINE line(r) == EmitAdd("/interface ethernet switch rule",
                              {"switch", "vlan-id", r.says[1], "comment"}, {Chip}, {}, r)
<1>2. Len(d.rules) \in Nat /\ DOMAIN d.rules = 1 .. Len(d.rules)
  BY <1>1, LenProperties
<1>3. RuleLines(d) = [i \in 1 .. Len(d.rules) |-> line(d.rules[i])]
  BY <1>2 DEF RuleLines
<1> HIDE DEF line
<1> DEFINE T == {line(d.rules[i]) : i \in 1 .. Len(d.rules)}
<1>4. RuleLines(d) \in [1 .. Len(d.rules) -> T]
  BY <1>3
<1> HIDE DEF T
<1>5. RuleLines(d) \in Seq(T) /\ Len(RuleLines(d)) = Len(d.rules)
  BY <1>2, <1>4
<1>6. IsScript(RuleLines(d))
  BY <1>5 DEF IsScript
<1>. QED
  BY <1>3, <1>5, <1>6 DEF line

LEMMA SettingsAre ==
  ASSUME NEW d
  PROVE  /\ IsScript(SettingsLines(d))
         /\ \A j \in 1 .. Len(SettingsLines(d)) :
              \E menu \in {"/interface ethernet switch l3hw-settings", "/ip settings",
                           "/ipv6 settings"} :
                \E props : SettingsLines(d)[j] = Plain(menu, props)
<1> DEFINE M == {"/interface ethernet switch l3hw-settings", "/ip settings", "/ipv6 settings"}
           Ok(s) == /\ IsScript(s)
                    /\ \A j \in 1 .. Len(s) : \E menu \in M : \E props : s[j] = Plain(menu, props)
<1>1. ASSUME NEW menu \in M, NEW given PROVE Ok(SettingsLine(menu, given))
  <2> DEFINE p == Plain(menu, given)
  <2>1. /\ IsScript(<<p>>) /\ Len(<<p>>) = 1 /\ <<p>>[1] = p
        /\ IsScript(<<>>) /\ Len(<<>>) = 0
    BY ShortScripts
  <2>2. SettingsLine(menu, given) = <<>> \/ SettingsLine(menu, given) = <<p>>
    BY DEF SettingsLine
  <2>3. Ok(<<>>) /\ Ok(<<p>>)
    <3> HIDE DEF M
    <3>1. \E m \in M : \E props : p = Plain(m, props)
      BY <1>1
    <3> HIDE DEF p
    <3>. QED
      BY <2>1, <3>1
  <2> HIDE DEF Ok
  <2>. QED
    BY <2>2, <2>3
<1>2. ASSUME NEW s, NEW t, Ok(s), Ok(t) PROVE Ok(s \o t)
  <2>1. /\ IsScript(s \o t) /\ Len(s) \in Nat /\ Len(t) \in Nat
        /\ Len(s \o t) = Len(s) + Len(t)
        /\ \A i \in 1 .. Len(s) : (s \o t)[i] = s[i]
        /\ \A j \in 1 .. Len(t) : (s \o t)[Len(s) + j] = t[j]
    <3>1. IsScript(s) /\ IsScript(t)
      BY <1>2
    <3>. QED
      BY <3>1, ConcatIs
  <2>2. ASSUME NEW j \in 1 .. Len(s \o t)
        PROVE  \E menu \in M : \E props : (s \o t)[j] = Plain(menu, props)
    <3>1. CASE j \in 1 .. Len(s)
      BY <1>2, <2>1, <3>1
    <3>2. CASE j \notin 1 .. Len(s)
      <4>1. j - Len(s) \in 1 .. Len(t) /\ j = Len(s) + (j - Len(s))
        BY <2>1, <3>2
      <4>2. (s \o t)[j] = t[j - Len(s)]
        BY <2>1, <4>1
      <4>. QED
        BY <1>2, <4>1, <4>2
    <3>. QED
      BY <3>1, <3>2
  <2>. QED
    BY <2>1, <2>2
<1>3. "/interface ethernet switch l3hw-settings" \in M /\ "/ip settings" \in M
      /\ "/ipv6 settings" \in M
  OBVIOUS
<1> HIDE DEF M, Ok
<1>4. Ok(SettingsLines(d))
  BY <1>1, <1>2, <1>3 DEF SettingsLines
<1>. QED
  BY <1>4 DEF Ok, M

\* A script is its parts, one after another.
LEMMA ScriptIsLaid ==
  ASSUME NEW d, IsDocument(d) PROVE IsLaid(Generate(d), PartOf(d), 21)
<1> DEFINE p == PartOf(d)
<1>1. /\ IsScript(p[1]) /\ IsScript(p[2]) /\ IsScript(p[3]) /\ IsScript(p[6])
      /\ IsScript(p[10]) /\ IsScript(p[11]) /\ IsScript(p[15]) /\ IsScript(p[19])
      /\ IsScript(p[21])
  BY ShortScripts, AccountsAre, SettingsAre, Addresses6Listed, RulesListed
     DEF PartOf, BridgeLines, ChipLines, FilteringLines
<1>2. /\ IsScript(p[4]) /\ IsScript(p[5]) /\ IsScript(p[7]) /\ IsScript(p[8]) /\ IsScript(p[9])
      /\ IsScript(p[12]) /\ IsScript(p[14]) /\ IsScript(p[16]) /\ IsScript(p[18])
      /\ IsScript(p[20])
  BY InterfacesListed, BondsListed, BridgePortsListed, VlanTableListed, VlanInterfacesListed,
     AddressesListed, RelaysListed, NdListed, ClientsListed, DisabledListed
     DEF PartOf, Lists
<1>3. IsScript(p[13]) /\ IsScript(p[17])
  BY RoutesListed DEF PartOf, Lists, IsDocument
<1>4. Generate(d) =
        p[1] \o p[2] \o p[3] \o p[4] \o p[5] \o p[6] \o p[7] \o p[8] \o p[9] \o p[10]
        \o p[11] \o p[12] \o p[13] \o p[14] \o p[15] \o p[16] \o p[17] \o p[18] \o p[19]
        \o p[20] \o p[21]
  BY DEF PartOf, Generate, SystemLines
<1> HIDE DEF p
<1>5. IsLaid(p[1] \o p[2] \o p[3], p, 3)
  BY <1>1, FirstPart, NextPart
<1> DEFINE s3 == p[1] \o p[2] \o p[3]
           s6 == s3 \o p[4] \o p[5] \o p[6]
           s9 == s6 \o p[7] \o p[8] \o p[9]
           s12 == s9 \o p[10] \o p[11] \o p[12]
           s15 == s12 \o p[13] \o p[14] \o p[15]
           s18 == s15 \o p[16] \o p[17] \o p[18]
<1> HIDE DEF s3
<1>6. IsLaid(s6, p, 6)
  BY <1>1, <1>2, <1>5, NextPart DEF s3
<1> HIDE DEF s6
<1>7. IsLaid(s9, p, 9)
  BY <1>2, <1>6, NextPart
<1> HIDE DEF s9
<1>8. IsLaid(s12, p, 12)
  BY <1>1, <1>2, <1>7, NextPart
<1> HIDE DEF s12
<1>9. IsLaid(s15, p, 15)
  BY <1>1, <1>2, <1>3, <1>8, NextPart
<1> HIDE DEF s15
<1>10. IsLaid(s18, p, 18)
  BY <1>2, <1>3, <1>9, NextPart
<1> HIDE DEF s18
<1>11. IsLaid(s18 \o p[19] \o p[20] \o p[21], p, 21)
  BY <1>1, <1>2, <1>10, NextPart
<1>. QED
  BY <1>4, <1>11 DEF p, s3, s6, s9, s12, s15, s18

----------------------------------------------------------------------------
(* The lines of a declaration's script                                     *)

Doc(f) == Project(Declared[f])
PartsOf(f) == PartOf(Doc(f))
Off(f) == CHOOSE off : Laid(ScriptOf[f], PartsOf(f), 21, off)

\* The part a line is of.
Part(f, i) == CHOOSE k \in 1 .. 21 : i - Off(f)[k] \in 1 .. Len(PartsOf(f)[k])

LEMMA ScriptOfIs ==
  ASSUME NEW f \in Fleets
  PROVE  /\ IsDeclaration(Declared[f]) /\ IsDocument(Doc(f))
         /\ Laid(ScriptOf[f], PartsOf(f), 21, Off(f))
         /\ Full(f) \in Nat
<1>1. IsDeclaration(Declared[f]) /\ IsDocument(Doc(f))
  BY DeclarationAssumption, ProjectIs DEF Doc
<1>2. IsLaid(ScriptOf[f], PartsOf(f), 21)
  <2>1. ScriptOf[f] = Generate(Doc(f))
    BY DEF ScriptOf, Doc
  <2>. QED
    BY <1>1, <2>1, ScriptIsLaid DEF PartsOf
<1>3. Laid(ScriptOf[f], PartsOf(f), 21, Off(f))
  BY <1>2 DEF IsLaid, Off
<1>. QED
  BY <1>1, <1>3 DEF Laid, Full

\* Which part that is, and where its lines are.
LEMMA PartIs ==
  ASSUME NEW f \in Fleets, NEW i \in 1 .. Full(f)
  PROVE  /\ Part(f, i) \in 1 .. 21
         /\ i - Off(f)[Part(f, i)] \in 1 .. Len(PartsOf(f)[Part(f, i)])
         /\ ScriptOf[f][i] = PartsOf(f)[Part(f, i)][i - Off(f)[Part(f, i)]]
<1>1. Laid(ScriptOf[f], PartsOf(f), 21, Off(f))
  BY ScriptOfIs
<1>2. \E k \in 1 .. 21 : i - Off(f)[k] \in 1 .. Len(PartsOf(f)[k])
  BY <1>1 DEF Laid, Full
<1>3. /\ Part(f, i) \in 1 .. 21
      /\ i - Off(f)[Part(f, i)] \in 1 .. Len(PartsOf(f)[Part(f, i)])
  BY <1>2 DEF Part
<1> DEFINE k == Part(f, i)
           j == i - Off(f)[k]
<1>4. Off(f)[k] \in Nat /\ i = Off(f)[k] + j
  <2>1. Off(f)[k] \in Nat
    <3>1. Off(f) \in [1 .. 21 -> Nat] /\ k \in 1 .. 21
      BY <1>1, <1>3 DEF Laid
    <3> HIDE DEF k
    <3>. QED
      BY <3>1
  <2>2. i \in Int
    OBVIOUS
  <2> HIDE DEF k
  <2>. QED
    BY <2>1, <2>2
<1>5. ScriptOf[f][Off(f)[k] + j] = PartsOf(f)[k][j]
  BY <1>1, <1>3 DEF Laid
<1>. QED
  BY <1>3, <1>4, <1>5

LEMMA PartOrder ==
  ASSUME NEW f \in Fleets, NEW i \in 1 .. Full(f), NEW h \in 1 .. Full(f), i <= h
  PROVE  Part(f, i) <= Part(f, h)
<1> DEFINE k == Part(f, i)
           l == Part(f, h)
           off == Off(f)
           p == PartsOf(f)
<1>1. /\ k \in 1 .. 21 /\ l \in 1 .. 21
      /\ i - off[k] \in 1 .. Len(p[k]) /\ h - off[l] \in 1 .. Len(p[l])
  BY PartIs
<1>2. /\ off[k] \in Nat /\ off[l] \in Nat /\ Len(p[k]) \in Nat /\ Len(p[l]) \in Nat
      /\ l < k => off[l] + Len(p[l]) <= off[k]
  BY <1>1, ScriptOfIs DEF Laid
<1> HIDE DEF k, l, off, p
<1>3. ~(l < k) /\ k \in Int /\ l \in Int
  BY <1>1, <1>2
<1>4. k <= l
  BY <1>3
<1>. QED
  BY <1>4 DEF k, l

LEMMA LineOf ==
  ASSUME NEW f \in Fleets, NEW k \in 1 .. 21, NEW j \in 1 .. Len(PartsOf(f)[k])
  PROVE  /\ Off(f)[k] \in Nat /\ Off(f)[k] + j \in 1 .. Full(f)
         /\ Part(f, Off(f)[k] + j) = k
         /\ ScriptOf[f][Off(f)[k] + j] = PartsOf(f)[k][j]
<1> DEFINE off == Off(f)
           p == PartsOf(f)
           i == off[k] + j
           l == Part(f, i)
<1>1. /\ off[k] \in Nat /\ Len(p[k]) \in Nat
      /\ i \in 1 .. Full(f) /\ ScriptOf[f][i] = p[k][j]
  BY ScriptOfIs DEF Laid, Full
<1>2. l \in 1 .. 21 /\ i - off[l] \in 1 .. Len(p[l])
  BY <1>1, PartIs
<1>3. /\ off[l] \in Nat /\ Len(p[l]) \in Nat
      /\ l < k => off[l] + Len(p[l]) <= off[k]
      /\ k < l => off[k] + Len(p[k]) <= off[l]
  BY <1>2, ScriptOfIs DEF Laid
<1>4. l = k
  <2>1. j \in 1 .. Len(p[k])
    OBVIOUS
  <2>2. i = off[k] + j
    OBVIOUS
  <2> HIDE DEF l, off, p, i
  <2>3. l \in Int /\ k \in Int
    BY <1>2
  <2> DEFINE a == off[k]
             b == off[l]
             m == Len(p[k])
             n == Len(p[l])
  <2>4. /\ a \in Nat /\ b \in Nat /\ m \in Nat /\ n \in Nat
        /\ j \in 1 .. m /\ i = a + j /\ i - b \in 1 .. n
        /\ l < k => b + n <= a
        /\ k < l => a + m <= b
    BY <1>1, <1>2, <1>3, <2>1, <2>2
  <2> HIDE DEF a, b, m, n
  <2>5. ~(l < k) /\ ~(k < l)
    BY <2>4
  <2>. QED
    BY <2>3, <2>5
<1>. QED
  BY <1>1, <1>4

\* Where a part lists the values of g, its lines are one for each.
LEMMA ListedOnce ==
  ASSUME NEW f \in Fleets, NEW k \in 1 .. 21, NEW g, Lists(PartsOf(f)[k], g)
  PROVE  \E q : \A i, h \in 1 .. Full(f) :
           Part(f, i) = k /\ Part(f, h) = k =>
             /\ q[i] \in DOMAIN g /\ ScriptOf[f][i] = g[q[i]]
             /\ q[i] = q[h] => i = h
<1> DEFINE s == PartsOf(f)[k]
           o == Off(f)[k]
<1>1. PICK r \in [1 .. Len(s) -> DOMAIN g] :
        /\ \A i \in 1 .. Len(s) : s[i] = g[r[i]]
        /\ \A i, j \in 1 .. Len(s) : r[i] = r[j] => i = j
        /\ \A x \in DOMAIN g : \E i \in 1 .. Len(s) : r[i] = x
  BY DEF Lists
<1> DEFINE q == [i \in 1 .. Full(f) |-> r[i - o]]
<1>2. ASSUME NEW i \in 1 .. Full(f), Part(f, i) = k
      PROVE  /\ i - o \in 1 .. Len(s) /\ q[i] = r[i - o] /\ q[i] \in DOMAIN g
             /\ ScriptOf[f][i] = g[q[i]] /\ i \in Int
  <2>1. i - o \in 1 .. Len(s) /\ ScriptOf[f][i] = s[i - o]
    BY <1>2, PartIs
  <2>. QED
    BY <1>1, <2>1
<1>4. o \in Nat
  BY ScriptOfIs DEF Laid
<1>5. ASSUME NEW i \in 1 .. Full(f), NEW h \in 1 .. Full(f),
             Part(f, i) = k, Part(f, h) = k, q[i] = q[h]
      PROVE  i = h
  <2>1. /\ i - o \in 1 .. Len(s) /\ q[i] = r[i - o] /\ i \in Int
        /\ h - o \in 1 .. Len(s) /\ q[h] = r[h - o] /\ h \in Int
    BY <1>2, <1>5
  <2>2. i - o = h - o
    BY <1>1, <1>5, <2>1
  <2>. QED
    BY <1>4, <2>1, <2>2
<1>. QED
  <2> HIDE DEF q, o, s
  <2>. QED
    BY <1>2, <1>5

LEMMA ListedAll ==
  ASSUME NEW f \in Fleets, NEW k \in 1 .. 21, NEW g, Lists(PartsOf(f)[k], g), NEW x \in DOMAIN g
  PROVE  \E i \in 1 .. Full(f) : Part(f, i) = k /\ ScriptOf[f][i] = g[x]
<1> DEFINE s == PartsOf(f)[k]
           o == Off(f)[k]
<1>1. PICK r \in [1 .. Len(s) -> DOMAIN g] :
        /\ \A i \in 1 .. Len(s) : s[i] = g[r[i]]
        /\ \A i, j \in 1 .. Len(s) : r[i] = r[j] => i = j
        /\ \A y \in DOMAIN g : \E i \in 1 .. Len(s) : r[i] = y
  BY DEF Lists
<1>2. PICK j \in 1 .. Len(s) : r[j] = x
  BY <1>1
<1>3. /\ o + j \in 1 .. Full(f) /\ Part(f, o + j) = k
      /\ ScriptOf[f][o + j] = s[j]
  BY LineOf
<1>. QED
  BY <1>1, <1>2, <1>3

----------------------------------------------------------------------------
(* What the lines of each part are                                         *)

Fits(l, menu, uses, makes) ==
  /\ l.menu = menu /\ l.uses = uses /\ l.makes = makes
  /\ l.drops = {} /\ l.caught = FALSE

LEMMA PartsAre ==
  ASSUME NEW f
  PROVE  /\ PartsOf(f)[1] = <<Plain("/system identity", {"name"})>>
         /\ PartsOf(f)[3] = <<Plain("/system clock", {"time-zone-name"}),
                              Plain("/ip dns", {"servers"}), Plain("/ip ssh", {"host-key-type"}),
                              Plain("/snmp", {"enabled"})>>
         /\ PartsOf(f)[2] = AccountLines(Doc(f))
         /\ PartsOf(f)[4] = InterfaceLines(Doc(f))
         /\ PartsOf(f)[5] = BondLines(Doc(f))
         /\ PartsOf(f)[6] = BridgeLines(Doc(f))
         /\ PartsOf(f)[7] = BridgePortLines(Doc(f))
         /\ PartsOf(f)[8] = VlanTableLines(Doc(f))
         /\ PartsOf(f)[9] = VlanInterfaceLines(Doc(f))
         /\ PartsOf(f)[10] = ChipLines(Doc(f))
         /\ PartsOf(f)[11] = SettingsLines(Doc(f))
         /\ PartsOf(f)[12] = AddressLines(Doc(f))
         /\ PartsOf(f)[13] = RouteLines("/ip route", Doc(f).routes)
         /\ PartsOf(f)[14] = RelayLines(Doc(f))
         /\ PartsOf(f)[15] = Address6Lines(Doc(f))
         /\ PartsOf(f)[16] = NdLines(Doc(f))
         /\ PartsOf(f)[17] = RouteLines("/ipv6 route", Doc(f).routes6)
         /\ PartsOf(f)[18] = ClientLines(Doc(f))
         /\ PartsOf(f)[19] = RuleLines(Doc(f))
         /\ PartsOf(f)[20] = DisableLines(Doc(f))
         /\ PartsOf(f)[21] = FilteringLines(Doc(f))
  BY DEF PartsOf, PartOf

\* A line of part k.
FitsPart(l, f, i, k) ==
  /\ k = 1 =>
       Fits(l, "/system identity", {}, {})
  /\ k = 3 =>
       \E menu \in {"/system clock", "/ip dns", "/ip ssh", "/snmp"} : Fits(l, menu, {}, {})
  /\ k = 4 =>
       \E p \in SetPorts(Doc(f)) :
         /\ Fits(l, "/interface ethernet", {Port(p)}, {})
         /\ l.row = [port |-> p, l2mtu |-> Doc(f).interfaces[p].l2mtu]
  /\ k = 5 =>
       \E b \in DOMAIN Doc(f).bonds :
         /\ Fits(l, "/interface bonding", {Port(p) : p \in Range(Doc(f).bonds[b])},
                  {Bond(b)})
         /\ l.row = [bond |-> b, slaves |-> Range(Doc(f).bonds[b])]
  /\ k = 6 =>
       Fits(l, "/interface bridge", {}, {Bridge}) /\ l.row = "bridge"
  /\ k = 7 =>
       \E h \in DOMAIN Doc(f).ports :
         /\ Fits(l, "/interface bridge port", {Bridge, Member(Doc(f), h)}, {})
         /\ l.row = [iface |-> h, pvid |-> Doc(f).ports[h]]
  /\ k = 8 =>
       \E v \in DOMAIN Doc(f).vlans :
         /\ Fits(l, "/interface bridge vlan",
                  {Bridge} \union {Member(Doc(f), h) :
                      h \in Doc(f).vlans[v].tagged \union Doc(f).vlans[v].untagged},
                  {})
         /\ l.row = [vlan |-> v, tagged |-> Doc(f).vlans[v].tagged,
                     untagged |-> Doc(f).vlans[v].untagged]
  /\ k = 9 =>
       \E n \in Doc(f).svis :
         Fits(l, "/interface vlan", {Bridge}, {Svi(n)})
  /\ k = 10 =>
       Fits(l, "/interface ethernet switch", {Chip}, {})
  /\ k = 11 =>
       \E menu \in {"/interface ethernet switch l3hw-settings", "/ip settings",
                    "/ipv6 settings"} : Fits(l, menu, {}, {})
  /\ k = 12 =>
       \E n \in Doc(f).addresses :
         /\ Fits(l, "/ip address", {Svi(n)}, {Address(n)})
         /\ l.row = [net |-> n]
  /\ k = 13 =>
       Fits(l, "/ip route", {}, {})
  /\ k = 14 =>
       \E n \in Doc(f).relays :
         Fits(l, "/ip dhcp-relay", {Svi(n), Address(n)}, {})
  /\ k = 15 =>
       \E n \in Doc(f).addresses6 \union Doc(f).pooled :
         Fits(l, "/ipv6 address", {Svi(n)}, {})
  /\ k = 16 =>
       \E n \in Doc(f).nd :
         Fits(l, "/ipv6 nd", {Svi(n)}, {})
  /\ k = 17 =>
       Fits(l, "/ipv6 route", {}, {})
  /\ k = 18 =>
       \E n \in Doc(f).clients :
         Fits(l, "/ipv6 dhcp-client", {Svi(n)}, {})
  /\ k = 19 =>
       \E j \in 1 .. Len(Doc(f).rules) :
         /\ Fits(l, "/interface ethernet switch rule", {Chip}, {})
         /\ l.row = Doc(f).rules[j] /\ i = Off(f)[19] + j
  /\ k = 20 =>
       \E p \in DisabledPorts(Doc(f)) :
         /\ Fits(l, "/interface ethernet", {Port(p)}, {})
         /\ l.row = [disabled |-> p]
  /\ k = 21 =>
       Fits(l, "/interface bridge", {Bridge}, {}) /\ l.row = "filtering"

LEMMA LinesAre ==
  ASSUME NEW f \in Fleets, NEW i \in 1 .. Full(f)
  PROVE  FitsPart(ScriptOf[f][i], f, i, Part(f, i))
<1> DEFINE l == ScriptOf[f][i]
<1> HIDE DEF l
<1> DEFINE j == i - Off(f)[Part(f, i)]
<1>0. /\ IsDocument(Doc(f)) /\ Part(f, i) \in 1 .. 21
      /\ l = PartsOf(f)[Part(f, i)][j] /\ j \in 1 .. Len(PartsOf(f)[Part(f, i)])
      /\ Off(f)[Part(f, i)] \in Nat
  <2>1. Laid(ScriptOf[f], PartsOf(f), 21, Off(f)) /\ Part(f, i) \in 1 .. 21
    BY ScriptOfIs, PartIs
  <2>. QED
    BY <2>1, ScriptOfIs, PartIs DEF Laid, l
<1>a. ASSUME NEW k \in 1 .. 21, NEW g, Lists(PartsOf(f)[k], g), Part(f, i) = k
      PROVE  \E x \in DOMAIN g : l = g[x]
  <2>1. \A h \in 1 .. Len(PartsOf(f)[k]) : \E x \in DOMAIN g : PartsOf(f)[k][h] = g[x]
    BY <1>a DEF Lists
  <2>. QED
    BY <1>0, <1>a, <2>1
<1> HIDE DEF j
<1>1. ASSUME Part(f, i) = 1
      PROVE  Fits(l, "/system identity", {}, {})
  <2> DEFINE x == Plain("/system identity", {"name"})
  <2>1. PartsOf(f)[1] = <<x>>
    BY PartsAre
  <2> HIDE DEF x
  <2>2. l = x
    BY <1>0, <1>1, <2>1, ShortScripts
  <2>3. Fits(x, "/system identity", {}, {})
    BY DEF x, Fits, Line, Plain
  <2>. QED
    BY <2>2, <2>3
<1>3. ASSUME Part(f, i) = 3
      PROVE  \E menu \in {"/system clock", "/ip dns", "/ip ssh", "/snmp"} : Fits(l, menu, {}, {})
  <2> DEFINE a == Plain("/system clock", {"time-zone-name"})
             b == Plain("/ip dns", {"servers"})
             c == Plain("/ip ssh", {"host-key-type"})
             e == Plain("/snmp", {"enabled"})
  <2>1. PartsOf(f)[3] = <<a, b, c, e>>
    BY PartsAre
  <2> HIDE DEF a, b, c, e
  <2>2. l \in {a, b, c, e}
    BY <1>0, <1>3, <2>1, ShortScripts
  <2>3. /\ Fits(a, "/system clock", {}, {}) /\ Fits(b, "/ip dns", {}, {})
        /\ Fits(c, "/ip ssh", {}, {}) /\ Fits(e, "/snmp", {}, {})
    BY DEF a, b, c, e, Fits, Plain, Line
  <2>. QED
    BY <2>2, <2>3
<1>4. ASSUME Part(f, i) = 4
      PROVE  \E p \in SetPorts(Doc(f)) :
               /\ Fits(l, "/interface ethernet", {Port(p)}, {})
               /\ l.row = [port |-> p, l2mtu |-> Doc(f).interfaces[p].l2mtu]
  <2> DEFINE g == InterfaceList(Doc(f))
  <2>1. Lists(PartsOf(f)[4], g) /\ DOMAIN g = SetPorts(Doc(f))
    BY <1>0, PartsAre, InterfacesListed DEF InterfaceList
  <2> HIDE DEF g
  <2>2. PICK x \in SetPorts(Doc(f)) : l = g[x]
    BY <1>4, <1>a, <2>1
  <2>3. /\ Fits(g[x], "/interface ethernet", {Port(x)}, {})
        /\ g[x].row = [port |-> x, l2mtu |-> Doc(f).interfaces[x].l2mtu]
    BY <2>2 DEF g, InterfaceList, Fits, Line
  <2>. QED
    BY <2>2, <2>3
<1>5. ASSUME Part(f, i) = 5
      PROVE  \E b \in DOMAIN Doc(f).bonds :
               /\ Fits(l, "/interface bonding", {Port(p) : p \in Range(Doc(f).bonds[b])},
                        {Bond(b)})
               /\ l.row = [bond |-> b, slaves |-> Range(Doc(f).bonds[b])]
  <2> DEFINE g == BondList(Doc(f))
  <2>1. Lists(PartsOf(f)[5], g) /\ DOMAIN g = DOMAIN Doc(f).bonds
    BY <1>0, PartsAre, BondsListed DEF BondList
  <2> HIDE DEF g
  <2>2. PICK x \in DOMAIN Doc(f).bonds : l = g[x]
    BY <1>5, <1>a, <2>1
  <2>3. /\ Fits(g[x], "/interface bonding", {Port(p) : p \in Range(Doc(f).bonds[x])},
                 {Bond(x)})
        /\ g[x].row = [bond |-> x, slaves |-> Range(Doc(f).bonds[x])]
    BY <2>2 DEF g, BondList, Fits, Line
  <2>. QED
    BY <2>2, <2>3
<1>6. ASSUME Part(f, i) = 6
      PROVE  Fits(l, "/interface bridge", {}, {Bridge}) /\ l.row = "bridge"
  <2> DEFINE x == Line("/interface bridge",
                       {"name", "protocol-mode", "igmp-snooping", "multicast-querier",
                        "multicast-router", "igmp-version", "mld-version"}, {}, {Bridge}, "bridge")
  <2>1. PartsOf(f)[6] = <<x>>
    BY PartsAre DEF BridgeLines
  <2> HIDE DEF x
  <2>2. l = x
    BY <1>0, <1>6, <2>1, ShortScripts
  <2>3. Fits(x, "/interface bridge", {}, {Bridge}) /\ x.row = "bridge"
    BY DEF x, Fits, Line
  <2>. QED
    BY <2>2, <2>3
<1>7. ASSUME Part(f, i) = 7
      PROVE  \E h \in DOMAIN Doc(f).ports :
               /\ Fits(l, "/interface bridge port", {Bridge, Member(Doc(f), h)}, {})
               /\ l.row = [iface |-> h, pvid |-> Doc(f).ports[h]]
  <2> DEFINE g == BridgePortList(Doc(f))
  <2>1. Lists(PartsOf(f)[7], g) /\ DOMAIN g = DOMAIN Doc(f).ports
    BY <1>0, PartsAre, BridgePortsListed DEF BridgePortList
  <2> HIDE DEF g
  <2>2. PICK x \in DOMAIN Doc(f).ports : l = g[x]
    BY <1>7, <1>a, <2>1
  <2>3. /\ Fits(g[x], "/interface bridge port", {Bridge, Member(Doc(f), x)}, {})
        /\ g[x].row = [iface |-> x, pvid |-> Doc(f).ports[x]]
    BY <2>2 DEF g, BridgePortList, Fits, Line
  <2>. QED
    BY <2>2, <2>3
<1>8. ASSUME Part(f, i) = 8
      PROVE  \E v \in DOMAIN Doc(f).vlans :
               /\ Fits(l, "/interface bridge vlan",
                        {Bridge} \union {Member(Doc(f), h) :
                            h \in Doc(f).vlans[v].tagged \union Doc(f).vlans[v].untagged},
                        {})
               /\ l.row = [vlan |-> v, tagged |-> Doc(f).vlans[v].tagged,
                           untagged |-> Doc(f).vlans[v].untagged]
  <2> DEFINE g == VlanTableList(Doc(f))
  <2>1. Lists(PartsOf(f)[8], g) /\ DOMAIN g = DOMAIN Doc(f).vlans
    BY <1>0, PartsAre, VlanTableListed DEF VlanTableList
  <2> HIDE DEF g
  <2>2. PICK x \in DOMAIN Doc(f).vlans : l = g[x]
    BY <1>8, <1>a, <2>1
  <2>3. /\ Fits(g[x], "/interface bridge vlan",
                 {Bridge} \union {Member(Doc(f), h) :
                     h \in Doc(f).vlans[x].tagged \union Doc(f).vlans[x].untagged},
                 {})
        /\ g[x].row = [vlan |-> x, tagged |-> Doc(f).vlans[x].tagged,
                    untagged |-> Doc(f).vlans[x].untagged]
    BY <2>2 DEF g, VlanTableList, Fits, Line
  <2>. QED
    BY <2>2, <2>3
<1>9. ASSUME Part(f, i) = 9
      PROVE  \E n \in Doc(f).svis :
               Fits(l, "/interface vlan", {Bridge}, {Svi(n)})
  <2> DEFINE g == VlanInterfaceList(Doc(f))
  <2>1. Lists(PartsOf(f)[9], g) /\ DOMAIN g = Doc(f).svis
    BY <1>0, PartsAre, VlanInterfacesListed DEF VlanInterfaceList
  <2> HIDE DEF g
  <2>2. PICK x \in Doc(f).svis : l = g[x]
    BY <1>9, <1>a, <2>1
  <2>3. Fits(g[x], "/interface vlan", {Bridge}, {Svi(x)})
    BY <2>2 DEF g, VlanInterfaceList, Fits, Line, EmitAdd
  <2>. QED
    BY <2>2, <2>3
<1>10. ASSUME Part(f, i) = 10
      PROVE  Fits(l, "/interface ethernet switch", {Chip}, {})
  <2> DEFINE x == Line("/interface ethernet switch",
                       Rendered("/interface ethernet switch", {"l3-hw-offloading"}),
                       {Chip}, {}, <<>>)
  <2>1. PartsOf(f)[10] \in {<<>>, <<x>>}
    BY PartsAre DEF ChipLines
  <2> HIDE DEF x
  <2>2. l = x
    BY <1>0, <1>10, <2>1, ShortScripts
  <2>3. Fits(x, "/interface ethernet switch", {Chip}, {})
    BY DEF x, Fits, Line
  <2>. QED
    BY <2>2, <2>3
<1>11. ASSUME Part(f, i) = 11
      PROVE  \E menu \in {"/interface ethernet switch l3hw-settings", "/ip settings",
                          "/ipv6 settings"} : Fits(l, menu, {}, {})
  <2> DEFINE s == SettingsLines(Doc(f))
  <2>1. l = s[j] /\ j \in 1 .. Len(s)
    BY <1>0, <1>11, PartsAre
  <2>2. PICK menu \in {"/interface ethernet switch l3hw-settings", "/ip settings",
                       "/ipv6 settings"} : \E props : s[j] = Plain(menu, props)
    BY <2>1, SettingsAre
  <2>3. \A props : Fits(Plain(menu, props), menu, {}, {})
    BY DEF Fits, Plain, Line
  <2> HIDE DEF s
  <2>. QED
    BY <2>1, <2>2, <2>3
<1>12. ASSUME Part(f, i) = 12
      PROVE  \E n \in Doc(f).addresses :
               /\ Fits(l, "/ip address", {Svi(n)}, {Address(n)})
               /\ l.row = [net |-> n]
  <2> DEFINE g == AddressList(Doc(f))
  <2>1. Lists(PartsOf(f)[12], g) /\ DOMAIN g = Doc(f).addresses
    BY <1>0, PartsAre, AddressesListed DEF AddressList
  <2> HIDE DEF g
  <2>2. PICK x \in Doc(f).addresses : l = g[x]
    BY <1>12, <1>a, <2>1
  <2>3. /\ Fits(g[x], "/ip address", {Svi(x)}, {Address(x)})
        /\ g[x].row = [net |-> x]
    BY <2>2 DEF g, AddressList, Fits, Line, EmitAdd
  <2>. QED
    BY <2>2, <2>3
<1>13. ASSUME Part(f, i) = 13
      PROVE  Fits(l, "/ip route", {}, {})
  <2> DEFINE g == RouteList("/ip route", Doc(f).routes)
  <2>1. Lists(PartsOf(f)[13], g)
    BY <1>0, PartsAre, RoutesListed DEF IsDocument
  <2> HIDE DEF g
  <2>2. PICK x \in DOMAIN g : l = g[x]
    BY <1>13, <1>a, <2>1
  <2>3. Fits(g[x], "/ip route", {}, {})
    BY <2>2 DEF g, RouteList, EmitAdd, Fits, Line
  <2>. QED
    BY <2>2, <2>3
<1>14. ASSUME Part(f, i) = 14
      PROVE  \E n \in Doc(f).relays :
               Fits(l, "/ip dhcp-relay", {Svi(n), Address(n)}, {})
  <2> DEFINE g == RelayList(Doc(f))
  <2>1. Lists(PartsOf(f)[14], g) /\ DOMAIN g = Doc(f).relays
    BY <1>0, PartsAre, RelaysListed DEF RelayList
  <2> HIDE DEF g
  <2>2. PICK x \in Doc(f).relays : l = g[x]
    BY <1>14, <1>a, <2>1
  <2>3. Fits(g[x], "/ip dhcp-relay", {Svi(x), Address(x)}, {})
    BY <2>2 DEF g, RelayList, Fits, Line, EmitAdd
  <2>. QED
    BY <2>2, <2>3
<1>15. ASSUME Part(f, i) = 15
      PROVE  \E n \in Doc(f).addresses6 \union Doc(f).pooled :
               Fits(l, "/ipv6 address", {Svi(n)}, {})
  <2> DEFINE s == Address6Lines(Doc(f))
  <2>1. l = s[j] /\ j \in 1 .. Len(s)
    BY <1>0, <1>15, PartsAre
  <2>2. PICK n \in Doc(f).addresses6 \union Doc(f).pooled : \E given :
          s[j] = EmitAdd("/ipv6 address", given, {Svi(n)}, {}, [net |-> n])
    BY <1>0, <2>1, Addresses6Listed
  <2>3. \A given : Fits(EmitAdd("/ipv6 address", given, {Svi(n)}, {}, [net |-> n]),
                       "/ipv6 address", {Svi(n)}, {})
    BY DEF EmitAdd, Fits, Line
  <2> HIDE DEF s
  <2>. QED
    BY <2>1, <2>2, <2>3
<1>16. ASSUME Part(f, i) = 16
      PROVE  \E n \in Doc(f).nd :
               Fits(l, "/ipv6 nd", {Svi(n)}, {})
  <2> DEFINE g == NdList(Doc(f))
  <2>1. Lists(PartsOf(f)[16], g) /\ DOMAIN g = Doc(f).nd
    BY <1>0, PartsAre, NdListed DEF NdList
  <2> HIDE DEF g
  <2>2. PICK x \in Doc(f).nd : l = g[x]
    BY <1>16, <1>a, <2>1
  <2>3. Fits(g[x], "/ipv6 nd", {Svi(x)}, {})
    BY <2>2 DEF g, NdList, Fits, Line, EmitAdd
  <2>. QED
    BY <2>2, <2>3
<1>17. ASSUME Part(f, i) = 17
      PROVE  Fits(l, "/ipv6 route", {}, {})
  <2> DEFINE g == RouteList("/ipv6 route", Doc(f).routes6)
  <2>1. Lists(PartsOf(f)[17], g)
    BY <1>0, PartsAre, RoutesListed DEF IsDocument
  <2> HIDE DEF g
  <2>2. PICK x \in DOMAIN g : l = g[x]
    BY <1>17, <1>a, <2>1
  <2>3. Fits(g[x], "/ipv6 route", {}, {})
    BY <2>2 DEF g, RouteList, EmitAdd, Fits, Line
  <2>. QED
    BY <2>2, <2>3
<1>18. ASSUME Part(f, i) = 18
      PROVE  \E n \in Doc(f).clients :
               Fits(l, "/ipv6 dhcp-client", {Svi(n)}, {})
  <2> DEFINE g == ClientList(Doc(f))
  <2>1. Lists(PartsOf(f)[18], g) /\ DOMAIN g = Doc(f).clients
    BY <1>0, PartsAre, ClientsListed DEF ClientList
  <2> HIDE DEF g
  <2>2. PICK x \in Doc(f).clients : l = g[x]
    BY <1>18, <1>a, <2>1
  <2>3. Fits(g[x], "/ipv6 dhcp-client", {Svi(x)}, {})
    BY <2>2 DEF g, ClientList, Fits, Line, EmitAdd
  <2>. QED
    BY <2>2, <2>3
<1>19. ASSUME Part(f, i) = 19
      PROVE  \E r \in 1 .. Len(Doc(f).rules) :
               /\ Fits(l, "/interface ethernet switch rule", {Chip}, {})
               /\ l.row = Doc(f).rules[r] /\ i = Off(f)[19] + r
  <2>1. PartsOf(f)[19] = RuleLines(Doc(f))
    BY PartsAre
  <2>2. j \in 1 .. Len(Doc(f).rules)
    BY <1>0, <1>19, <2>1, RulesListed
  <2> DEFINE x == EmitAdd("/interface ethernet switch rule",
                          {"switch", "vlan-id", Doc(f).rules[j].says[1], "comment"},
                          {Chip}, {}, Doc(f).rules[j])
  <2>3. l = x
    <3>1. l = RuleLines(Doc(f))[j]
      BY <1>0, <1>19, <2>1
    <3>2. RuleLines(Doc(f))[j] = x
      BY <1>0, <2>2, RulesListed
    <3>. QED
      BY <3>1, <3>2
  <2>4. i = Off(f)[19] + j
    BY <1>0, <1>19 DEF j
  <2>5. /\ Fits(x, "/interface ethernet switch rule", {Chip}, {})
        /\ x.row = Doc(f).rules[j]
    BY DEF EmitAdd, Fits, Line
  <2> HIDE DEF x
  <2>. QED
    BY <2>2, <2>3, <2>4, <2>5
<1>20. ASSUME Part(f, i) = 20
      PROVE  \E p \in DisabledPorts(Doc(f)) :
               /\ Fits(l, "/interface ethernet", {Port(p)}, {})
               /\ l.row = [disabled |-> p]
  <2> DEFINE g == DisabledList(Doc(f))
  <2>1. Lists(PartsOf(f)[20], g) /\ DOMAIN g = DisabledPorts(Doc(f))
    BY <1>0, PartsAre, DisabledListed DEF DisabledList
  <2> HIDE DEF g
  <2>2. PICK x \in DisabledPorts(Doc(f)) : l = g[x]
    BY <1>20, <1>a, <2>1
  <2>3. /\ Fits(g[x], "/interface ethernet", {Port(x)}, {})
        /\ g[x].row = [disabled |-> x]
    BY <2>2 DEF g, DisabledList, Fits, Line
  <2>. QED
    BY <2>2, <2>3
<1>21. ASSUME Part(f, i) = 21
      PROVE  Fits(l, "/interface bridge", {Bridge}, {}) /\ l.row = "filtering"
  <2> DEFINE x == Line("/interface bridge", {"vlan-filtering"}, {Bridge}, {}, "filtering")
  <2>1. PartsOf(f)[21] \in {<<>>, <<x>>}
    BY PartsAre DEF FilteringLines
  <2> HIDE DEF x
  <2>2. l = x
    BY <1>0, <1>21, <2>1, ShortScripts
  <2>3. Fits(x, "/interface bridge", {Bridge}, {}) /\ x.row = "filtering"
    BY DEF x, Fits, Line
  <2>. QED
    BY <2>2, <2>3
<1>. QED
  BY <1>1, <1>3, <1>4, <1>5, <1>6, <1>7, <1>8, <1>9, <1>10, <1>11,
     <1>12, <1>13, <1>14, <1>15, <1>16, <1>17, <1>18, <1>19, <1>20, <1>21 DEF FitsPart, l

----------------------------------------------------------------------------
(* The account's lines                                                     *)

MakesUser(l) ==
  l.menu = "/user" /\ l.uses = {} /\ l.makes = {User} /\ l.drops = {} /\ l.caught = TRUE
AllowsSsh(l) == Fits(l, "/ip service", {}, {}) /\ l.row = "ssh"
PutsKey(l, k) == Fits(l, "/file", {}, {File(k)})
ImportsKey(l, k) ==
  /\ Fits(l, "/user ssh-keys", {File(k), User}, {}) /\ l.row = "key"
  /\ l.props = {"public-key-file", "user"}
RemovesKey(l, k) ==
  l.menu = "/file" /\ l.uses = {} /\ l.makes = {} /\ l.drops = {File(k)} /\ l.caught = TRUE

LEMMA AccountKinds ==
  /\ MakesUser(Caught(Line("/user", {"name", "group", "password"}, {}, {User}, <<>>)))
  /\ AllowsSsh(Line("/ip service", {"disabled", "port"}, {}, {}, "ssh"))
  /\ \A k : /\ PutsKey(KeyLines(k)[1], k) /\ ImportsKey(KeyLines(k)[2], k)
            /\ RemovesKey(KeyLines(k)[3], k)
<1>1. MakesUser(Caught(Line("/user", {"name", "group", "password"}, {}, {User}, <<>>)))
  BY DEF MakesUser, Caught, Line
<1>2. AllowsSsh(Line("/ip service", {"disabled", "port"}, {}, {}, "ssh"))
  BY DEF AllowsSsh, Fits, Line
<1>3. ASSUME NEW k PROVE PutsKey(KeyLines(k)[1], k)
  BY DEF KeyLines, PutsKey, Fits, Line
<1>4. ASSUME NEW k PROVE ImportsKey(KeyLines(k)[2], k)
  BY DEF KeyLines, ImportsKey, Fits, Line
<1>5. ASSUME NEW k PROVE RemovesKey(KeyLines(k)[3], k)
  BY DEF KeyLines, RemovesKey, Caught, Plain, Line
<1>. QED
  BY <1>1, <1>2, <1>3, <1>4, <1>5

\* The j-th of the account's lines, and the one before it.
AccountStep(s, j) ==
  \/ j = 1 /\ MakesUser(s[j])
  \/ j = 2 /\ AllowsSsh(s[j]) /\ MakesUser(s[j - 1])
  \/ /\ j > 2 /\ \E k \in Keys : PutsKey(s[j], k)
     /\ AllowsSsh(s[j - 1]) \/ \E h \in Keys : RemovesKey(s[j - 1], h)
  \/ j > 2 /\ \E k \in Keys : ImportsKey(s[j], k) /\ PutsKey(s[j - 1], k)
  \/ j > 2 /\ \E k \in Keys : RemovesKey(s[j], k) /\ ImportsKey(s[j - 1], k)

LEMMA AccountSteps ==
  ASSUME NEW d, IsDocument(d), d.keys \subseteq Keys
  PROVE  LET s == AccountLines(d) IN
         /\ \A j \in 1 .. Len(s) : AccountStep(s, j)
         /\ Len(s) # 0 => \E k \in Keys : RemovesKey(s[Len(s)], k)
         /\ d.keys # {} => /\ \E j \in 1 .. Len(s) : AllowsSsh(s[j])
                           /\ \E j \in 1 .. Len(s) : \E k : ImportsKey(s[j], k)
<1> DEFINE s == AccountLines(d)
<1>1. CASE d.keys = {}
  <2>1. Len(s) = 0
    BY <1>1, AccountsAre
  <2> HIDE DEF s
  <2>2. \A j \in 1 .. Len(s) : FALSE
    BY <2>1
  <2>. QED
    BY <1>1, <2>1, <2>2 DEF s
<1>2. CASE d.keys # {}
  <2>1. PICK n \in Nat \ {0} : \E q \in [1 .. n -> d.keys] :
          /\ Len(s) = 2 + 3 * n
          /\ s[1] = Caught(Line("/user", {"name", "group", "password"}, {}, {User}, <<>>))
          /\ s[2] = Line("/ip service", {"disabled", "port"}, {}, {}, "ssh")
          /\ \A i \in 1 .. n : /\ s[2 + (3 * i - 2)] = KeyLines(q[i])[1]
                               /\ s[2 + (3 * i - 1)] = KeyLines(q[i])[2]
                               /\ s[2 + 3 * i] = KeyLines(q[i])[3]
    BY <1>2, AccountsAre, ZenonT(30)
  <2>2. PICK q \in [1 .. n -> d.keys] :
          /\ Len(s) = 2 + 3 * n
          /\ s[1] = Caught(Line("/user", {"name", "group", "password"}, {}, {User}, <<>>))
          /\ s[2] = Line("/ip service", {"disabled", "port"}, {}, {}, "ssh")
          /\ \A i \in 1 .. n : /\ s[2 + (3 * i - 2)] = KeyLines(q[i])[1]
                               /\ s[2 + (3 * i - 1)] = KeyLines(q[i])[2]
                               /\ s[2 + 3 * i] = KeyLines(q[i])[3]
    BY <2>1
  <2>a. Len(s) = 2 + 3 * n
    BY <2>2, Zenon
  <2> HIDE DEF s
  <2>3. MakesUser(s[1]) /\ AllowsSsh(s[2])
    BY <2>2, AccountKinds
  <2>4. ASSUME NEW i \in 1 .. n
        PROVE  /\ q[i] \in Keys /\ PutsKey(s[3 * i], q[i])
               /\ ImportsKey(s[3 * i + 1], q[i]) /\ RemovesKey(s[3 * i + 2], q[i])
    <3>1. 2 + (3 * i - 2) = 3 * i /\ 2 + (3 * i - 1) = 3 * i + 1 /\ 2 + 3 * i = 3 * i + 2
      OBVIOUS
    <3>2. /\ s[3 * i] = KeyLines(q[i])[1] /\ s[3 * i + 1] = KeyLines(q[i])[2]
          /\ s[3 * i + 2] = KeyLines(q[i])[3]
      BY <2>2, <3>1
    <3>3. q[i] \in Keys
      BY <2>2
    <3>. QED
      BY <3>2, <3>3, AccountKinds
  <2>5. ASSUME NEW j \in 1 .. Len(s) PROVE AccountStep(s, j)
    <3>1. CASE j \in {1, 2}
      BY <2>3, <3>1 DEF AccountStep
    <3>2. CASE j \notin {1, 2}
      <4> DEFINE i == j \div 3
      <4>1. /\ i \in 1 .. n /\ j > 2 /\ j \in Int
            /\ j = 3 * i \/ j = 3 * i + 1 \/ j = 3 * i + 2
            /\ i = 1 \/ i - 1 \in 1 .. n
        BY <2>a, <3>2, SMTT(60)
      <4> HIDE DEF i
      <4>2. CASE j = 3 * i
        <5>1. CASE i = 1
          <6>1. j - 1 = 2
            BY <4>2, <5>1
          <6>. QED
            BY <2>3, <2>4, <4>1, <4>2, <6>1 DEF AccountStep
        <5>2. CASE i - 1 \in 1 .. n
          <6>1. 3 * (i - 1) + 2 = j - 1
            BY <4>1, <4>2
          <6>2. RemovesKey(s[j - 1], q[i - 1]) /\ q[i - 1] \in Keys
            BY <2>4, <5>2, <6>1
          <6>. QED
            BY <2>4, <4>1, <4>2, <6>2 DEF AccountStep
        <5>. QED
          BY <4>1, <5>1, <5>2
      <4>3. CASE j = 3 * i + 1
        <5>1. j - 1 = 3 * i
          BY <4>1, <4>3
        <5>. QED
          BY <2>4, <4>1, <4>3, <5>1 DEF AccountStep
      <4>4. CASE j = 3 * i + 2
        <5>1. j - 1 = 3 * i + 1
          BY <4>1, <4>4
        <5>. QED
          BY <2>4, <4>1, <4>4, <5>1 DEF AccountStep
      <4>. QED
        BY <4>1, <4>2, <4>3, <4>4
    <3>. QED
      BY <3>1, <3>2
  <2>6. n \in 1 .. n /\ 3 * n + 2 = Len(s)
    BY <2>a
  <2>7. RemovesKey(s[Len(s)], q[n]) /\ q[n] \in Keys
    BY <2>4, <2>6
  <2>8. 2 \in 1 .. Len(s) /\ AllowsSsh(s[2])
    BY <2>a, <2>3
  <2>9. 1 \in 1 .. n /\ 4 \in 1 .. Len(s) /\ 3 * 1 + 1 = 4
    BY <2>a
  <2>10. ImportsKey(s[4], q[1])
    BY <2>4, <2>9
  <2>11. \E j \in 1 .. Len(s) : \E k : ImportsKey(s[j], k)
    BY <2>9, <2>10
  <2>. QED
    BY <2>5, <2>7, <2>8, <2>11 DEF s
<1>. QED
  BY <1>1, <1>2

\* The same of a script.  A key that is put on the flash is imported next and
\* then removed.
LEMMA AccountLinesAre ==
  ASSUME NEW f \in Fleets, NEW i \in 1 .. Full(f), Part(f, i) = 2
  PROVE  LET s == ScriptOf[f] IN
         /\ \/ MakesUser(s[i]) /\ (i - 1 \in 1 .. Full(f) => Part(f, i - 1) # 2)
            \/ /\ i - 1 \in 1 .. Full(f)
               /\ \/ AllowsSsh(s[i]) /\ MakesUser(s[i - 1])
                  \/ /\ \E k \in Keys : PutsKey(s[i], k)
                     /\ AllowsSsh(s[i - 1]) \/ \E h \in Keys : RemovesKey(s[i - 1], h)
                  \/ \E k \in Keys : ImportsKey(s[i], k) /\ PutsKey(s[i - 1], k)
                  \/ \E k \in Keys : RemovesKey(s[i], k) /\ ImportsKey(s[i - 1], k)
         /\ \/ i + 1 \in 1 .. Full(f) /\ Part(f, i + 1) = 2
            \/ \E k \in Keys : RemovesKey(s[i], k)
<1> DEFINE s == ScriptOf[f]
           t == AccountLines(Doc(f))
           o == Off(f)[2]
           j == i - o
<1>1. Doc(f).keys \subseteq Keys
  BY ScriptOfIs DEF Doc, Project, IsDeclaration
<1>2. /\ \A h \in 1 .. Len(t) : AccountStep(t, h)
      /\ Len(t) # 0 => \E k \in Keys : RemovesKey(t[Len(t)], k)
  BY <1>1, ScriptOfIs, AccountSteps
<1>3. PartsOf(f)[2] = t
  BY PartsAre
<1>4. j \in 1 .. Len(t) /\ s[i] = t[j] /\ o \in Nat /\ Len(t) \in Nat
  <2>1. o \in Nat /\ Len(PartsOf(f)[2]) \in Nat
    BY ScriptOfIs DEF Laid
  <2>. QED
    BY <1>3, <2>1, PartIs
<1>5. ASSUME NEW h \in 1 .. Len(t)
      PROVE  o + h \in 1 .. Full(f) /\ Part(f, o + h) = 2 /\ s[o + h] = t[h]
  BY <1>3, LineOf
<1>6. ASSUME i - 1 \in 1 .. Full(f), Part(f, i - 1) = 2
      PROVE  j # 1
  <2>1. i - 1 - o \in 1 .. Len(t)
    BY <1>3, <1>6, PartIs
  <2>. QED
    BY <1>4, <2>1
<1> HIDE DEF s, t, o
<1>7. ASSUME j # 1
      PROVE  i - 1 \in 1 .. Full(f) /\ s[i - 1] = t[j - 1]
  <2>1. j - 1 \in 1 .. Len(t) /\ o + (j - 1) = i - 1
    BY <1>4, <1>7
  <2>. QED
    BY <1>5, <2>1
<1>8. CASE j = Len(t)
  BY <1>2, <1>4, <1>6, <1>7, <1>8 DEF AccountStep, s
<1>9. CASE j # Len(t)
  <2>1. j + 1 \in 1 .. Len(t) /\ o + (j + 1) = i + 1
    BY <1>4, <1>9
  <2>2. i + 1 \in 1 .. Full(f) /\ Part(f, i + 1) = 2
    BY <1>5, <2>1
  <2>. QED
    BY <1>2, <1>4, <1>6, <1>7, <2>2 DEF AccountStep, s
<1>. QED
  BY <1>8, <1>9

----------------------------------------------------------------------------
(* Objects: what a line refers to has been made before, and is made once   *)

LEMMA ObjectsApart ==
  /\ \A x : /\ Port(x)[1] = "port" /\ Port(x)[2] = x /\ Bond(x)[1] = "bond" /\ Bond(x)[2] = x
            /\ Svi(x)[1] = "svi" /\ Svi(x)[2] = x
            /\ Address(x)[1] = "address" /\ Address(x)[2] = x
            /\ File(x)[1] = "file" /\ File(x)[2] = x
  /\ Bridge[1] = "bridge" /\ User[1] = "user" /\ Chip[1] = "chip"
  BY DEF Port, Bond, Svi, Address, File, Bridge, User, Chip

KeyFiles == {File(k) : k \in Keys}

\* What a part of a declaration's script makes.
MadeIn(f, k) ==
  CASE k = 5 -> {Bond(b) : b \in DOMAIN Doc(f).bonds}
    [] k = 6 -> {Bridge}
    [] k = 9 -> {Svi(n) : n \in Doc(f).svis}
    [] k = 12 -> {Address(n) : n \in Doc(f).addresses}
    [] OTHER -> {}
\* What is there for a part's lines to refer to.
Known(f, k) ==
  {Port(p) : p \in KnownPorts(Doc(f))} \union {Chip} \union UNION {MadeIn(f, h) : h \in 1 .. k - 1}

\* What a sound declaration refers to, it declares.
LEMMA SoundDocument ==
  ASSUME NEW f \in Fleets, Sound(Declared[f])
  PROVE  /\ ActivePorts(Declared[f]) \subseteq KnownPorts(Doc(f))
         /\ DOMAIN Doc(f).interfaces = ActivePorts(Declared[f])
         /\ \A b \in DOMAIN Doc(f).bonds : Range(Doc(f).bonds[b]) \subseteq KnownPorts(Doc(f))
         /\ DOMAIN Doc(f).ports \subseteq DOMAIN Doc(f).bonds \union KnownPorts(Doc(f))
         /\ \A v \in DOMAIN Doc(f).vlans :
              Doc(f).vlans[v].tagged \union Doc(f).vlans[v].untagged
                \subseteq DOMAIN Doc(f).ports \union {"bridge1"}
         /\ Doc(f).svis = Doc(f).addresses
         /\ Doc(f).relays \union Doc(f).addresses6 \union Doc(f).pooled \union Doc(f).nd
              \union Doc(f).clients \subseteq Doc(f).addresses
<1> DEFINE e == Declared[f]
           d == Doc(f)
<1>1. IsDeclaration(e)
  BY ScriptOfIs
<1>2. /\ d.model = e.model /\ d.bonds = e.bonds /\ d.svis = e.addresses
      /\ d.addresses = e.addresses /\ DOMAIN d.interfaces = ActivePorts(e)
      /\ DOMAIN d.ports = BridgeIfaces(e, ActivePorts(e))
      /\ d.vlans = [v \in UsedVlans(e) |-> VlanEntry(e, v)]
      /\ d.relays \subseteq e.addresses /\ d.addresses6 = e.v6 /\ d.pooled \subseteq e.addresses
      /\ d.nd \subseteq e.v6 /\ d.clients = {e.over} \ {NoNet}
  BY DEF Doc, Project
<1>3. ActivePorts(e) \subseteq DOMAIN e.ports
  BY <1>1, PortsAreFinite
<1> HIDE DEF e, d
<1>4. ActivePorts(e) \subseteq KnownPorts(d)
  BY <1>2, <1>3 DEF Sound, KnownPorts, e
<1>5. \A b \in DOMAIN d.bonds : Range(d.bonds[b]) \subseteq KnownPorts(d)
  BY <1>2, <1>4 DEF Sound, e
<1>6. \A p : BridgeIface(e, p) \in DOMAIN e.bonds \union {p}
  BY DEF BridgeIface
<1>7. DOMAIN d.ports \subseteq DOMAIN d.bonds \union KnownPorts(d)
  BY <1>2, <1>4, <1>6 DEF BridgeIfaces
<1>8. ASSUME NEW v \in DOMAIN d.vlans
      PROVE  d.vlans[v].tagged \union d.vlans[v].untagged
               \subseteq DOMAIN d.ports \union {"bridge1"}
  <2>1. d.vlans[v] = VlanEntry(e, v)
    BY <1>2
  <2>2. /\ \A p \in TypedPorts(e, "access") : BridgeIface(e, p) \in DOMAIN d.ports
        /\ \A p \in TypedPorts(e, "trunk") : BridgeIface(e, p) \in DOMAIN d.ports
    BY <1>1, <1>2, PortsAreFinite DEF BridgeIfaces
  <2>. QED
    BY <2>1, <2>2 DEF VlanEntry, BridgeIfaces
<1>9. d.relays \union d.addresses6 \union d.pooled \union d.nd \union d.clients
        \subseteq d.addresses
  BY <1>1, <1>2 DEF IsDeclaration, Sound, e
<1>. QED
  BY <1>2, <1>4, <1>5, <1>7, <1>8, <1>9 DEF d, e

LEMMA MembersAreKnown ==
  ASSUME NEW f \in Fleets, Sound(Declared[f]), NEW k \in 7 .. 21,
         NEW h \in DOMAIN Doc(f).ports \union {"bridge1"}
  PROVE  Member(Doc(f), h) \in Known(f, k)
<1>1. 5 \in 1 .. k - 1 /\ 6 \in 1 .. k - 1
  OBVIOUS
<1>2. Bridge \in Known(f, k)
  BY <1>1 DEF Known, MadeIn
<1>3. \A b \in DOMAIN Doc(f).bonds : Bond(b) \in Known(f, k)
  BY <1>1 DEF Known, MadeIn
<1>4. \A p \in KnownPorts(Doc(f)) : Port(p) \in Known(f, k)
  BY DEF Known
<1>5. h = "bridge1" \/ h \in DOMAIN Doc(f).bonds \/ h \in KnownPorts(Doc(f))
  BY SoundDocument
<1>. QED
  BY <1>2, <1>3, <1>4, <1>5 DEF Member

\* A line of another part than the account's refers to what is known there,
\* makes what its part makes and removes nothing.
LEMMA OtherLinesAre ==
  ASSUME NEW f \in Fleets, NEW i \in 1 .. Full(f), Part(f, i) # 2
  PROVE  LET l == ScriptOf[f][i]
             k == Part(f, i)
         IN  /\ Sound(Declared[f]) => l.uses \subseteq Known(f, k)
             /\ l.makes \subseteq MadeIn(f, k) /\ l.drops = {} /\ l.caught = FALSE
             /\ l.uses \intersect KeyFiles = {}
             /\ l.menu \notin {"/user", "/ip service", "/file", "/user ssh-keys"}
<1> DEFINE l == ScriptOf[f][i]
           k == Part(f, i)
           Fit(uses, makes) == /\ l.uses = uses /\ l.makes = makes
                               /\ l.drops = {} /\ l.caught = FALSE
                               /\ l.menu \notin {"/user", "/ip service", "/file", "/user ssh-keys"}
<1>1. k \in 1 .. 21 /\ k # 2
  BY PartIs
<1>2. /\ {Chip} \subseteq Known(f, k) /\ {} \subseteq Known(f, k)
      /\ \A p \in KnownPorts(Doc(f)) : Port(p) \in Known(f, k)
      /\ k > 6 => Bridge \in Known(f, k)
      /\ k > 9 => \A n \in Doc(f).svis : Svi(n) \in Known(f, k)
      /\ k > 12 => \A n \in Doc(f).addresses : Address(n) \in Known(f, k)
  <2>1. k > 6 => Bridge \in Known(f, k)
    <3> SUFFICES ASSUME k > 6 PROVE Bridge \in Known(f, k)
      OBVIOUS
    <3>1. 6 \in 1 .. k - 1 /\ Bridge \in MadeIn(f, 6)
      BY <1>1 DEF MadeIn
    <3>. QED
      BY <3>1 DEF Known
  <2>2. k > 9 => \A n \in Doc(f).svis : Svi(n) \in Known(f, k)
    <3> SUFFICES ASSUME k > 9, NEW n \in Doc(f).svis PROVE Svi(n) \in Known(f, k)
      OBVIOUS
    <3>1. 9 \in 1 .. k - 1 /\ Svi(n) \in MadeIn(f, 9)
      BY <1>1 DEF MadeIn
    <3>. QED
      BY <3>1 DEF Known
  <2>3. k > 12 => \A n \in Doc(f).addresses : Address(n) \in Known(f, k)
    <3> SUFFICES ASSUME k > 12, NEW n \in Doc(f).addresses PROVE Address(n) \in Known(f, k)
      OBVIOUS
    <3>1. 12 \in 1 .. k - 1 /\ Address(n) \in MadeIn(f, 12)
      BY <1>1 DEF MadeIn
    <3>. QED
      BY <3>1 DEF Known
  <2>. QED
    BY <2>1, <2>2, <2>3 DEF Known
<1>3. /\ \A x \in KeyFiles : x[1] = "file"
      /\ \A x \in Known(f, k) : x[1] # "file"
      /\ \A x : Member(Doc(f), x)[1] # "file"
  <2>1. \A x \in KeyFiles : x[1] = "file"
    BY ObjectsApart DEF KeyFiles
  <2>2. \A x \in Known(f, k) : x[1] # "file"
    BY ObjectsApart DEF Known, MadeIn
  <2>. QED
    BY <2>1, <2>2, ObjectsApart DEF Member
<1> DEFINE Claim == /\ Sound(Declared[f]) => l.uses \subseteq Known(f, k)
                    /\ l.makes \subseteq MadeIn(f, k) /\ l.drops = {} /\ l.caught = FALSE
                    /\ l.uses \intersect KeyFiles = {}
                    /\ l.menu \notin {"/user", "/ip service", "/file", "/user ssh-keys"}
<1>4. ASSUME NEW uses, NEW makes, Fit(uses, makes), makes \subseteq MadeIn(f, k),
             Sound(Declared[f]) => uses \subseteq Known(f, k), \A x \in uses : x[1] # "file"
      PROVE  Claim
  BY <1>3, <1>4
<1>0. FitsPart(l, f, i, k)
  BY LinesAre
<1> HIDE DEF l, k, Claim
<1>a1. ASSUME k = 1 PROVE Claim
  <2>1. Fit({}, {})
    BY <1>a1, <1>0 DEF FitsPart, Fits
  <2>2. {} \subseteq MadeIn(f, k)
    OBVIOUS
  <2>3. Sound(Declared[f]) => {} \subseteq Known(f, k)
    OBVIOUS
  <2>4. \A x \in {} : x[1] # "file"
    OBVIOUS
  <2>. QED
    BY <1>4, <2>1, <2>2, <2>3, <2>4
<1>a3. ASSUME k = 3 PROVE Claim
  <2>1. Fit({}, {})
    BY <1>a3, <1>0 DEF FitsPart, Fits
  <2>2. {} \subseteq MadeIn(f, k)
    OBVIOUS
  <2>3. Sound(Declared[f]) => {} \subseteq Known(f, k)
    OBVIOUS
  <2>4. \A x \in {} : x[1] # "file"
    OBVIOUS
  <2>. QED
    BY <1>4, <2>1, <2>2, <2>3, <2>4
<1>a4. ASSUME k = 4 PROVE Claim
  <2>1. PICK p \in SetPorts(Doc(f)) :
          Fit({Port(p)}, {})
    BY <1>a4, <1>0 DEF FitsPart, Fits
  <2>2. {} \subseteq MadeIn(f, k)
    OBVIOUS
  <2>3. Sound(Declared[f]) =>
          {Port(p)} \subseteq Known(f, k)
    BY <1>2 DEF SetPorts
  <2>4. \A x \in {Port(p)} : x[1] # "file"
    BY ObjectsApart
  <2>. QED
    BY <1>4, <2>1, <2>2, <2>3, <2>4
<1>a5. ASSUME k = 5 PROVE Claim
  <2>1. PICK b \in DOMAIN Doc(f).bonds :
          Fit({Port(p) : p \in Range(Doc(f).bonds[b])}, {Bond(b)})
    BY <1>a5, <1>0 DEF FitsPart, Fits
  <2>2. {Bond(b)} \subseteq MadeIn(f, k)
    BY <1>a5 DEF MadeIn
  <2>3. Sound(Declared[f]) =>
          {Port(p) : p \in Range(Doc(f).bonds[b])} \subseteq Known(f, k)
    BY <1>2, SoundDocument
  <2>4. \A x \in {Port(p) : p \in Range(Doc(f).bonds[b])} : x[1] # "file"
    BY ObjectsApart
  <2>. QED
    BY <1>4, <2>1, <2>2, <2>3, <2>4
<1>a6. ASSUME k = 6 PROVE Claim
  <2>1. Fit({}, {Bridge})
    BY <1>a6, <1>0 DEF FitsPart, Fits
  <2>2. {Bridge} \subseteq MadeIn(f, k)
    BY <1>a6 DEF MadeIn
  <2>3. Sound(Declared[f]) => {} \subseteq Known(f, k)
    OBVIOUS
  <2>4. \A x \in {} : x[1] # "file"
    OBVIOUS
  <2>. QED
    BY <1>4, <2>1, <2>2, <2>3, <2>4
<1>a7. ASSUME k = 7 PROVE Claim
  <2>1. PICK h \in DOMAIN Doc(f).ports :
          Fit({Bridge, Member(Doc(f), h)}, {})
    BY <1>a7, <1>0 DEF FitsPart, Fits
  <2>2. {} \subseteq MadeIn(f, k)
    OBVIOUS
  <2>3. Sound(Declared[f]) =>
          {Bridge, Member(Doc(f), h)} \subseteq Known(f, k)
    BY <1>2, <1>a7, MembersAreKnown
  <2>4. \A x \in {Bridge, Member(Doc(f), h)} : x[1] # "file"
    BY <1>3, ObjectsApart
  <2>. QED
    BY <1>4, <2>1, <2>2, <2>3, <2>4
<1>a8. ASSUME k = 8 PROVE Claim
  <2>1. PICK v \in DOMAIN Doc(f).vlans :
          Fit({Bridge} \union {Member(Doc(f), h) : h \in Doc(f).vlans[v].tagged
                           \union Doc(f).vlans[v].untagged}, {})
    BY <1>a8, <1>0 DEF FitsPart, Fits
  <2>2. {} \subseteq MadeIn(f, k)
    OBVIOUS
  <2>3. Sound(Declared[f]) =>
          {Bridge} \union {Member(Doc(f), h) : h \in Doc(f).vlans[v].tagged
                           \union Doc(f).vlans[v].untagged} \subseteq Known(f, k)
    BY <1>2, <1>a8, SoundDocument, MembersAreKnown
  <2>4. \A x \in {Bridge} \union {Member(Doc(f), h) : h \in Doc(f).vlans[v].tagged
                           \union Doc(f).vlans[v].untagged} : x[1] # "file"
    BY <1>3, ObjectsApart
  <2>. QED
    BY <1>4, <2>1, <2>2, <2>3, <2>4
<1>a9. ASSUME k = 9 PROVE Claim
  <2>1. PICK n \in Doc(f).svis :
          Fit({Bridge}, {Svi(n)})
    BY <1>a9, <1>0 DEF FitsPart, Fits
  <2>2. {Svi(n)} \subseteq MadeIn(f, k)
    BY <1>a9 DEF MadeIn
  <2>3. Sound(Declared[f]) =>
          {Bridge} \subseteq Known(f, k)
    BY <1>2, <1>a9
  <2>4. \A x \in {Bridge} : x[1] # "file"
    BY ObjectsApart
  <2>. QED
    BY <1>4, <2>1, <2>2, <2>3, <2>4
<1>a10. ASSUME k = 10 PROVE Claim
  <2>1. Fit({Chip}, {})
    BY <1>a10, <1>0 DEF FitsPart, Fits
  <2>2. {} \subseteq MadeIn(f, k)
    OBVIOUS
  <2>3. Sound(Declared[f]) => {Chip} \subseteq Known(f, k)
    BY <1>2
  <2>4. \A x \in {Chip} : x[1] # "file"
    BY ObjectsApart
  <2>. QED
    BY <1>4, <2>1, <2>2, <2>3, <2>4
<1>a11. ASSUME k = 11 PROVE Claim
  <2>1. Fit({}, {})
    BY <1>a11, <1>0 DEF FitsPart, Fits
  <2>2. {} \subseteq MadeIn(f, k)
    OBVIOUS
  <2>3. Sound(Declared[f]) => {} \subseteq Known(f, k)
    OBVIOUS
  <2>4. \A x \in {} : x[1] # "file"
    OBVIOUS
  <2>. QED
    BY <1>4, <2>1, <2>2, <2>3, <2>4
<1>a12. ASSUME k = 12 PROVE Claim
  <2>1. PICK n \in Doc(f).addresses :
          Fit({Svi(n)}, {Address(n)})
    BY <1>a12, <1>0 DEF FitsPart, Fits
  <2>2. {Address(n)} \subseteq MadeIn(f, k)
    BY <1>a12 DEF MadeIn
  <2>3. Sound(Declared[f]) =>
          {Svi(n)} \subseteq Known(f, k)
    BY <1>2, <1>a12, SoundDocument
  <2>4. \A x \in {Svi(n)} : x[1] # "file"
    BY ObjectsApart
  <2>. QED
    BY <1>4, <2>1, <2>2, <2>3, <2>4
<1>a13. ASSUME k = 13 PROVE Claim
  <2>1. Fit({}, {})
    BY <1>a13, <1>0 DEF FitsPart, Fits
  <2>2. {} \subseteq MadeIn(f, k)
    OBVIOUS
  <2>3. Sound(Declared[f]) => {} \subseteq Known(f, k)
    OBVIOUS
  <2>4. \A x \in {} : x[1] # "file"
    OBVIOUS
  <2>. QED
    BY <1>4, <2>1, <2>2, <2>3, <2>4
<1>a14. ASSUME k = 14 PROVE Claim
  <2>1. PICK n \in Doc(f).relays :
          Fit({Svi(n), Address(n)}, {})
    BY <1>a14, <1>0 DEF FitsPart, Fits
  <2>2. {} \subseteq MadeIn(f, k)
    OBVIOUS
  <2>3. Sound(Declared[f]) =>
          {Svi(n), Address(n)} \subseteq Known(f, k)
    BY <1>2, <1>a14, SoundDocument
  <2>4. \A x \in {Svi(n), Address(n)} : x[1] # "file"
    BY ObjectsApart
  <2>. QED
    BY <1>4, <2>1, <2>2, <2>3, <2>4
<1>a15. ASSUME k = 15 PROVE Claim
  <2>1. PICK n \in Doc(f).addresses6 \union Doc(f).pooled :
          Fit({Svi(n)}, {})
    BY <1>a15, <1>0 DEF FitsPart, Fits
  <2>2. {} \subseteq MadeIn(f, k)
    OBVIOUS
  <2>3. Sound(Declared[f]) =>
          {Svi(n)} \subseteq Known(f, k)
    BY <1>2, <1>a15, SoundDocument
  <2>4. \A x \in {Svi(n)} : x[1] # "file"
    BY ObjectsApart
  <2>. QED
    BY <1>4, <2>1, <2>2, <2>3, <2>4
<1>a16. ASSUME k = 16 PROVE Claim
  <2>1. PICK n \in Doc(f).nd :
          Fit({Svi(n)}, {})
    BY <1>a16, <1>0 DEF FitsPart, Fits
  <2>2. {} \subseteq MadeIn(f, k)
    OBVIOUS
  <2>3. Sound(Declared[f]) =>
          {Svi(n)} \subseteq Known(f, k)
    BY <1>2, <1>a16, SoundDocument
  <2>4. \A x \in {Svi(n)} : x[1] # "file"
    BY ObjectsApart
  <2>. QED
    BY <1>4, <2>1, <2>2, <2>3, <2>4
<1>a17. ASSUME k = 17 PROVE Claim
  <2>1. Fit({}, {})
    BY <1>a17, <1>0 DEF FitsPart, Fits
  <2>2. {} \subseteq MadeIn(f, k)
    OBVIOUS
  <2>3. Sound(Declared[f]) => {} \subseteq Known(f, k)
    OBVIOUS
  <2>4. \A x \in {} : x[1] # "file"
    OBVIOUS
  <2>. QED
    BY <1>4, <2>1, <2>2, <2>3, <2>4
<1>a18. ASSUME k = 18 PROVE Claim
  <2>1. PICK n \in Doc(f).clients :
          Fit({Svi(n)}, {})
    BY <1>a18, <1>0 DEF FitsPart, Fits
  <2>2. {} \subseteq MadeIn(f, k)
    OBVIOUS
  <2>3. Sound(Declared[f]) =>
          {Svi(n)} \subseteq Known(f, k)
    BY <1>2, <1>a18, SoundDocument
  <2>4. \A x \in {Svi(n)} : x[1] # "file"
    BY ObjectsApart
  <2>. QED
    BY <1>4, <2>1, <2>2, <2>3, <2>4
<1>a19. ASSUME k = 19 PROVE Claim
  <2>1. Fit({Chip}, {})
    BY <1>a19, <1>0 DEF FitsPart, Fits
  <2>2. {} \subseteq MadeIn(f, k)
    OBVIOUS
  <2>3. Sound(Declared[f]) => {Chip} \subseteq Known(f, k)
    BY <1>2
  <2>4. \A x \in {Chip} : x[1] # "file"
    BY ObjectsApart
  <2>. QED
    BY <1>4, <2>1, <2>2, <2>3, <2>4
<1>a20. ASSUME k = 20 PROVE Claim
  <2>1. PICK p \in DisabledPorts(Doc(f)) :
          Fit({Port(p)}, {})
    BY <1>a20, <1>0 DEF FitsPart, Fits
  <2>2. {} \subseteq MadeIn(f, k)
    OBVIOUS
  <2>3. Sound(Declared[f]) =>
          {Port(p)} \subseteq Known(f, k)
    BY <1>2 DEF DisabledPorts
  <2>4. \A x \in {Port(p)} : x[1] # "file"
    BY ObjectsApart
  <2>. QED
    BY <1>4, <2>1, <2>2, <2>3, <2>4
<1>a21. ASSUME k = 21 PROVE Claim
  <2>1. Fit({Bridge}, {})
    BY <1>a21, <1>0 DEF FitsPart, Fits
  <2>2. {} \subseteq MadeIn(f, k)
    OBVIOUS
  <2>3. Sound(Declared[f]) =>
          {Bridge} \subseteq Known(f, k)
    BY <1>2, <1>a21
  <2>4. \A x \in {Bridge} : x[1] # "file"
    BY ObjectsApart
  <2>. QED
    BY <1>4, <2>1, <2>2, <2>3, <2>4
<1> HIDE DEF k
<1>5. Claim
  BY <1>1, <1>a1, <1>a3, <1>a4, <1>a5, <1>a6, <1>a7, <1>a8, <1>a9, <1>a10,
     <1>a11, <1>a12, <1>a13, <1>a14, <1>a15, <1>a16, <1>a17, <1>a18, <1>a19, <1>a20, <1>a21
<1>. QED
  BY <1>5 DEF Claim, l, k

LEMMA MakerOf ==
  ASSUME NEW f \in Fleets, NEW k \in 1 .. 21, NEW x \in MadeIn(f, k)
  PROVE  \E h \in 1 .. Full(f) : Part(f, h) = k /\ x \in ScriptOf[f][h].makes
<1>0. IsDocument(Doc(f))
  BY ScriptOfIs
<1>5. CASE k = 5
  <2> DEFINE g == BondList(Doc(f))
  <2>1. Lists(PartsOf(f)[5], g) /\ DOMAIN g = DOMAIN Doc(f).bonds
    BY <1>0, PartsAre, BondsListed DEF BondList
  <2>2. PICK b \in DOMAIN Doc(f).bonds : x = Bond(b)
    BY <1>5 DEF MadeIn
  <2>3. x \in g[b].makes
    BY <2>2 DEF BondList, Line
  <2> HIDE DEF g
  <2>4. \E h \in 1 .. Full(f) : Part(f, h) = 5 /\ ScriptOf[f][h] = g[b]
    BY <2>1, <2>2, ListedAll
  <2>. QED
    BY <1>5, <2>1, <2>3, <2>4
<1>6. CASE k = 6
  <2> DEFINE l == Line("/interface bridge",
                       {"name", "protocol-mode", "igmp-snooping", "multicast-querier",
                        "multicast-router", "igmp-version", "mld-version"}, {}, {Bridge}, "bridge")
  <2>1. PartsOf(f)[6] = <<l>>
    BY PartsAre DEF BridgeLines
  <2>2. x = Bridge
    BY <1>6 DEF MadeIn
  <2>3. x \in l.makes
    BY <2>2 DEF Line
  <2> HIDE DEF l
  <2>4. 1 \in 1 .. Len(PartsOf(f)[6]) /\ PartsOf(f)[6][1] = l
    BY <2>1, ShortScripts
  <2> DEFINE h == Off(f)[6] + 1
  <2>5. h \in 1 .. Full(f) /\ Part(f, h) = 6 /\ ScriptOf[f][h] = PartsOf(f)[6][1]
    BY <2>4, LineOf
  <2> HIDE DEF h
  <2>. QED
    BY <1>6, <2>3, <2>4, <2>5
<1>9. CASE k = 9
  <2> DEFINE g == VlanInterfaceList(Doc(f))
  <2>1. Lists(PartsOf(f)[9], g) /\ DOMAIN g = Doc(f).svis
    BY <1>0, PartsAre, VlanInterfacesListed DEF VlanInterfaceList
  <2>2. PICK n \in Doc(f).svis : x = Svi(n)
    BY <1>9 DEF MadeIn
  <2>3. x \in g[n].makes
    BY <2>2 DEF VlanInterfaceList, EmitAdd, Line
  <2> HIDE DEF g
  <2>4. \E h \in 1 .. Full(f) : Part(f, h) = 9 /\ ScriptOf[f][h] = g[n]
    BY <2>1, <2>2, ListedAll
  <2>. QED
    BY <1>9, <2>1, <2>3, <2>4
<1>12. CASE k = 12
  <2> DEFINE g == AddressList(Doc(f))
  <2>1. Lists(PartsOf(f)[12], g) /\ DOMAIN g = Doc(f).addresses
    BY <1>0, PartsAre, AddressesListed DEF AddressList
  <2>2. PICK n \in Doc(f).addresses : x = Address(n)
    BY <1>12 DEF MadeIn
  <2>3. x \in g[n].makes
    BY <2>2 DEF AddressList, EmitAdd, Line
  <2> HIDE DEF g
  <2>4. \E h \in 1 .. Full(f) : Part(f, h) = 12 /\ ScriptOf[f][h] = g[n]
    BY <2>1, <2>2, ListedAll
  <2>. QED
    BY <1>12, <2>1, <2>3, <2>4
<1>. QED
  BY <1>5, <1>6, <1>9, <1>12 DEF MadeIn

\* A list whose members make different things makes each of them once.
MakesApart(g) == \A y, z \in DOMAIN g : g[y].makes \intersect g[z].makes # {} => y = z

LEMMA ListMakesOnce ==
  ASSUME NEW f \in Fleets, NEW k \in 1 .. 21, NEW g, Lists(PartsOf(f)[k], g), MakesApart(g)
  PROVE  \A i, h \in 1 .. Full(f) :
           /\ Part(f, i) = k /\ Part(f, h) = k
           /\ ScriptOf[f][i].makes \intersect ScriptOf[f][h].makes # {}
           => i = h
<1> SUFFICES ASSUME NEW i \in 1 .. Full(f), NEW h \in 1 .. Full(f),
                    Part(f, i) = k, Part(f, h) = k,
                    ScriptOf[f][i].makes \intersect ScriptOf[f][h].makes # {}
             PROVE  i = h
  OBVIOUS
<1>1. \E q : \A a, b \in 1 .. Full(f) :
        Part(f, a) = k /\ Part(f, b) = k =>
          /\ q[a] \in DOMAIN g /\ ScriptOf[f][a] = g[q[a]]
          /\ q[a] = q[b] => a = b
  BY ListedOnce
<1>2. PICK q : \A a, b \in 1 .. Full(f) :
        Part(f, a) = k /\ Part(f, b) = k =>
          /\ q[a] \in DOMAIN g /\ ScriptOf[f][a] = g[q[a]]
          /\ q[a] = q[b] => a = b
  BY <1>1
<1>3. /\ q[i] \in DOMAIN g /\ ScriptOf[f][i] = g[q[i]]
      /\ q[h] \in DOMAIN g /\ ScriptOf[f][h] = g[q[h]]
      /\ q[i] = q[h] => i = h
  BY <1>2
<1>4. q[i] = q[h]
  BY <1>3 DEF MakesApart
<1>. QED
  BY <1>3, <1>4

LEMMA MadeOnce ==
  ASSUME NEW f \in Fleets, NEW i \in 1 .. Full(f), NEW h \in 1 .. Full(f),
         Part(f, i) # 2, Part(f, h) # 2,
         NEW x, x \in ScriptOf[f][i].makes, x \in ScriptOf[f][h].makes
  PROVE  i = h
<1>0. IsDocument(Doc(f)) /\ Part(f, i) \in 1 .. 21 /\ Part(f, h) \in 1 .. 21
  BY ScriptOfIs, PartIs
<1>1. x \in MadeIn(f, Part(f, i)) /\ x \in MadeIn(f, Part(f, h))
  BY OtherLinesAre
<1>2. Part(f, h) = Part(f, i) /\ Part(f, i) \in {5, 6, 9, 12}
  BY <1>1, ObjectsApart DEF MadeIn
<1>5. CASE Part(f, i) = 5
  <2> DEFINE g == BondList(Doc(f))
  <2>1. Lists(PartsOf(f)[5], g)
    BY <1>0, PartsAre, BondsListed
  <2>2. \A y \in DOMAIN g : g[y].makes = {Bond(y)}
    BY DEF BondList, Line
  <2> HIDE DEF g
  <2>3. MakesApart(g)
    BY <2>2, ObjectsApart DEF MakesApart
  <2>4. \A a, b \in 1 .. Full(f) :
          /\ Part(f, a) = 5 /\ Part(f, b) = 5
          /\ ScriptOf[f][a].makes \intersect ScriptOf[f][b].makes # {}
          => a = b
    BY <2>1, <2>3, ListMakesOnce
  <2>. QED
    BY <1>2, <1>5, <2>4
<1>6. CASE Part(f, i) = 6
  <2>1. Len(PartsOf(f)[6]) = 1
    BY PartsAre, ShortScripts DEF BridgeLines
  <2>2. i - Off(f)[6] \in 1 .. 1 /\ h - Off(f)[6] \in 1 .. 1 /\ Off(f)[6] \in Nat
    <3>1. Off(f)[6] \in Nat
      BY ScriptOfIs DEF Laid
    <3>. QED
      BY <1>2, <1>6, <2>1, <3>1, PartIs
  <2>. QED
    BY <2>2
<1>9. CASE Part(f, i) = 9
  <2> DEFINE g == VlanInterfaceList(Doc(f))
  <2>1. Lists(PartsOf(f)[9], g)
    BY <1>0, PartsAre, VlanInterfacesListed
  <2>2. \A y \in DOMAIN g : g[y].makes = {Svi(y)}
    BY DEF VlanInterfaceList, EmitAdd, Line
  <2> HIDE DEF g
  <2>3. MakesApart(g)
    BY <2>2, ObjectsApart DEF MakesApart
  <2>4. \A a, b \in 1 .. Full(f) :
          /\ Part(f, a) = 9 /\ Part(f, b) = 9
          /\ ScriptOf[f][a].makes \intersect ScriptOf[f][b].makes # {}
          => a = b
    BY <2>1, <2>3, ListMakesOnce
  <2>. QED
    BY <1>2, <1>9, <2>4
<1>12. CASE Part(f, i) = 12
  <2> DEFINE g == AddressList(Doc(f))
  <2>1. Lists(PartsOf(f)[12], g)
    BY <1>0, PartsAre, AddressesListed
  <2>2. \A y \in DOMAIN g : g[y].makes = {Address(y)}
    BY DEF AddressList, EmitAdd, Line
  <2> HIDE DEF g
  <2>3. MakesApart(g)
    BY <2>2, ObjectsApart DEF MakesApart
  <2>4. \A a, b \in 1 .. Full(f) :
          /\ Part(f, a) = 12 /\ Part(f, b) = 12
          /\ ScriptOf[f][a].makes \intersect ScriptOf[f][b].makes # {}
          => a = b
    BY <2>1, <2>3, ListMakesOnce
  <2>. QED
    BY <1>2, <1>12, <2>4
<1>. QED
  BY <1>2, <1>5, <1>6, <1>9, <1>12

----------------------------------------------------------------------------
(* Key files                                                               *)

\* The key file that is on the flash after i lines of an import.
Pending(f, i) ==
  IF i = 0 THEN {}
  ELSE (ScriptOf[f][i].uses \union ScriptOf[f][i].makes) \intersect KeyFiles

LEMMA KeyKinds ==
  /\ \A k, l : PutsKey(l, k) =>
       l.uses \intersect KeyFiles = {}
       /\ l.makes \intersect KeyFiles = {File(k)} \intersect KeyFiles
       /\ l.drops = {} /\ l.menu = "/file"
  /\ \A k, l : ImportsKey(l, k) =>
       l.uses \intersect KeyFiles = {File(k)} \intersect KeyFiles
       /\ l.makes \intersect KeyFiles = {} /\ l.drops = {} /\ l.menu = "/user ssh-keys"
  /\ \A k, l : RemovesKey(l, k) =>
       l.uses \intersect KeyFiles = {} /\ l.makes \intersect KeyFiles = {} /\ l.drops = {File(k)}
       /\ l.menu = "/file" /\ l.caught
  /\ \A l : AllowsSsh(l) \/ MakesUser(l) =>
       l.uses \intersect KeyFiles = {} /\ l.makes \intersect KeyFiles = {} /\ l.drops = {}
  /\ \A k \in Keys : {File(k)} \intersect KeyFiles = {File(k)}
<1>1. \A x \in KeyFiles : x[1] = "file"
  BY ObjectsApart DEF KeyFiles
<1>2. User \notin KeyFiles
  BY <1>1, ObjectsApart
<1>3. \A k, l : PutsKey(l, k) =>
        l.uses \intersect KeyFiles = {}
        /\ l.makes \intersect KeyFiles = {File(k)} \intersect KeyFiles
        /\ l.drops = {} /\ l.menu = "/file"
  BY DEF PutsKey, Fits
<1>4. \A k, l : ImportsKey(l, k) =>
        l.uses \intersect KeyFiles = {File(k)} \intersect KeyFiles
        /\ l.makes \intersect KeyFiles = {} /\ l.drops = {} /\ l.menu = "/user ssh-keys"
  <2>1. \A k, l : ImportsKey(l, k) =>
          l.uses = {File(k), User} /\ l.makes = {} /\ l.drops = {} /\ l.menu = "/user ssh-keys"
    BY DEF ImportsKey, Fits
  <2>. QED
    BY <1>2, <2>1
<1>5. \A k, l : RemovesKey(l, k) =>
        l.uses \intersect KeyFiles = {} /\ l.makes \intersect KeyFiles = {} /\ l.drops = {File(k)}
        /\ l.menu = "/file" /\ l.caught
  BY DEF RemovesKey
<1>6. \A l : AllowsSsh(l) \/ MakesUser(l) =>
        l.uses \intersect KeyFiles = {} /\ l.makes \intersect KeyFiles = {} /\ l.drops = {}
  <2>1. \A l : AllowsSsh(l) \/ MakesUser(l) =>
          l.uses = {} /\ l.makes \subseteq {User} /\ l.drops = {}
    BY DEF AllowsSsh, MakesUser, Fits
  <2>. QED
    BY <1>2, <2>1
<1>7. \A k \in Keys : {File(k)} \intersect KeyFiles = {File(k)}
  BY DEF KeyFiles
<1>. QED
  BY <1>3, <1>4, <1>5, <1>6, <1>7

LEMMA OthersLeaveFiles ==
  ASSUME NEW f \in Fleets, NEW i \in 1 .. Full(f), Part(f, i) # 2
  PROVE  /\ ScriptOf[f][i].uses \intersect KeyFiles = {}
         /\ ScriptOf[f][i].makes \intersect KeyFiles = {}
         /\ ScriptOf[f][i].drops = {} /\ Pending(f, i) = {}
<1>1. /\ ScriptOf[f][i].uses \intersect KeyFiles = {} /\ ScriptOf[f][i].drops = {}
      /\ ScriptOf[f][i].makes \subseteq MadeIn(f, Part(f, i))
  BY OtherLinesAre
<1>2. \A x \in KeyFiles : x[1] = "file"
  BY ObjectsApart DEF KeyFiles
<1>3. \A x \in MadeIn(f, Part(f, i)) : x[1] # "file"
  BY ObjectsApart DEF MadeIn
<1>4. ScriptOf[f][i].makes \intersect KeyFiles = {}
  BY <1>1, <1>2, <1>3
<1>5. i # 0
  OBVIOUS
<1>. QED
  BY <1>1, <1>4, <1>5 DEF Pending

\* Before a line of another part, and at the end, no key file is on the flash.
LEMMA NothingPending ==
  ASSUME NEW f \in Fleets, NEW i \in 0 .. Full(f),
         i = Full(f) \/ Part(f, i + 1) # 2
  PROVE  Pending(f, i) = {}
<1>1. CASE i = 0
  BY <1>1 DEF Pending
<1>2. CASE i # 0
  <2>1. i \in 1 .. Full(f) /\ Full(f) \in Nat
    BY <1>2, ScriptOfIs
  <2>2. CASE Part(f, i) # 2
    BY <2>1, <2>2, OthersLeaveFiles
  <2>3. CASE Part(f, i) = 2
    <3>1. ~(i + 1 \in 1 .. Full(f) /\ Part(f, i + 1) = 2)
      BY <2>1
    <3>2. PICK k \in Keys : RemovesKey(ScriptOf[f][i], k)
      BY <2>1, <2>3, <3>1, AccountLinesAre
    <3>. QED
      BY <1>2, <3>2, KeyKinds DEF Pending
  <2>. QED
    BY <2>2, <2>3
<1>. QED
  BY <1>1, <1>2

LEMMA PendingStep ==
  ASSUME NEW f \in Fleets, NEW i \in 1 .. Full(f)
  PROVE  LET l == ScriptOf[f][i] IN
         /\ (Pending(f, i - 1) \union (l.makes \intersect KeyFiles)) \ l.drops = Pending(f, i)
         /\ l.uses \intersect KeyFiles \subseteq Pending(f, i - 1)
         /\ l.makes \intersect Pending(f, i - 1) = {}
         /\ l.makes \intersect KeyFiles # {} => l.menu = "/file"
         /\ Pending(f, i - 1) # {} => l.caught \/ \E k \in Keys : ImportsKey(l, k)
<1> DEFINE s == ScriptOf[f]
           l == s[i]
           b == Pending(f, i - 1)
<1>0. i # 0 /\ i - 1 \in 0 .. Full(f) /\ i - 1 + 1 = i /\ Full(f) \in Nat /\ i \in Int
  BY ScriptOfIs
<1>1. CASE Part(f, i) # 2
  <2>1. b = {}
    BY <1>0, <1>1, NothingPending
  <2>. QED
    BY <1>1, <2>1, OthersLeaveFiles
<1>2. CASE Part(f, i) = 2
  <2>1. Pending(f, i) = (l.uses \union l.makes) \intersect KeyFiles
    BY <1>0 DEF Pending
  <2>2. i - 1 \in 1 .. Full(f) => b = (s[i - 1].uses \union s[i - 1].makes) \intersect KeyFiles
    BY <1>0 DEF Pending
  <2>3. /\ \/ MakesUser(l) /\ (i - 1 \in 1 .. Full(f) => Part(f, i - 1) # 2)
           \/ /\ i - 1 \in 1 .. Full(f)
              /\ \/ AllowsSsh(l) /\ MakesUser(s[i - 1])
                 \/ /\ \E k \in Keys : PutsKey(l, k)
                    /\ AllowsSsh(s[i - 1]) \/ \E h \in Keys : RemovesKey(s[i - 1], h)
                 \/ \E k \in Keys : ImportsKey(l, k) /\ PutsKey(s[i - 1], k)
                 \/ \E k \in Keys : RemovesKey(l, k) /\ ImportsKey(s[i - 1], k)
    BY <1>2, AccountLinesAre
  <2>4. i - 1 \notin 1 .. Full(f) => b = {}
    <3>1. i - 1 \notin 1 .. Full(f) => i - 1 = 0
      BY <1>0
    <3>. QED
      BY <3>1 DEF Pending
  <2>5. i - 1 \in 1 .. Full(f) /\ Part(f, i - 1) # 2 => b = {}
    BY OthersLeaveFiles
  <2> DEFINE Claim == /\ (b \union (l.makes \intersect KeyFiles)) \ l.drops = Pending(f, i)
                      /\ l.uses \intersect KeyFiles \subseteq b
                      /\ l.makes \intersect b = {}
                      /\ l.makes \intersect KeyFiles # {} => l.menu = "/file"
                      /\ b # {} => l.caught \/ \E k \in Keys : ImportsKey(l, k)
             c == s[i - 1]
  <2> HIDE DEF s, l, b, c
  <2>6. ASSUME MakesUser(l), i - 1 \in 1 .. Full(f) => Part(f, i - 1) # 2
        PROVE  Claim
    <3>1. b = {}
      BY <2>4, <2>5, <2>6
    <3>2. l.uses \intersect KeyFiles = {} /\ l.makes \intersect KeyFiles = {} /\ l.drops = {}
      BY <2>6, KeyKinds
    <3>. QED
      BY <2>1, <3>1, <3>2
  <2>7. ASSUME i - 1 \in 1 .. Full(f), AllowsSsh(l), MakesUser(c)
        PROVE  Claim
    <3>1. /\ l.uses \intersect KeyFiles = {} /\ l.makes \intersect KeyFiles = {} /\ l.drops = {}
          /\ c.uses \intersect KeyFiles = {} /\ c.makes \intersect KeyFiles = {}
      BY <2>7, KeyKinds
    <3>2. b = {}
      BY <2>2, <2>7, <3>1 DEF c
    <3>. QED
      BY <2>1, <3>1, <3>2
  <2>8. ASSUME i - 1 \in 1 .. Full(f), NEW k \in Keys, PutsKey(l, k),
               AllowsSsh(c) \/ \E h \in Keys : RemovesKey(c, h)
        PROVE  Claim
    <3>1. c.uses \intersect KeyFiles = {} /\ c.makes \intersect KeyFiles = {}
      BY <2>8, KeyKinds
    <3>2. b = {}
      BY <2>2, <2>8, <3>1 DEF c
    <3>3. /\ l.uses \intersect KeyFiles = {} /\ l.makes \intersect KeyFiles = {File(k)}
          /\ l.drops = {} /\ l.menu = "/file"
      BY <2>8, KeyKinds
    <3>. QED
      BY <2>1, <3>2, <3>3
  <2>9. ASSUME i - 1 \in 1 .. Full(f), NEW k \in Keys, ImportsKey(l, k), PutsKey(c, k)
        PROVE  Claim
    <3>1. c.uses \intersect KeyFiles = {} /\ c.makes \intersect KeyFiles = {File(k)}
      BY <2>9, KeyKinds
    <3>2. b = {File(k)}
      BY <2>2, <2>9, <3>1 DEF c
    <3>3. /\ l.uses \intersect KeyFiles = {File(k)} /\ l.makes \intersect KeyFiles = {}
          /\ l.drops = {}
      BY <2>9, KeyKinds
    <3>4. File(k) \in KeyFiles
      BY DEF KeyFiles
    <3>. QED
      BY <2>1, <2>9, <3>2, <3>3, <3>4
  <2>10. ASSUME i - 1 \in 1 .. Full(f), NEW k \in Keys, RemovesKey(l, k), ImportsKey(c, k)
         PROVE  Claim
    <3>1. c.uses \intersect KeyFiles = {File(k)} /\ c.makes \intersect KeyFiles = {}
      BY <2>10, KeyKinds
    <3>2. b = {File(k)}
      BY <2>2, <2>10, <3>1 DEF c
    <3>3. /\ l.uses \intersect KeyFiles = {} /\ l.makes \intersect KeyFiles = {}
          /\ l.drops = {File(k)} /\ l.caught
      BY <2>10, KeyKinds
    <3>4. File(k) \in KeyFiles
      BY DEF KeyFiles
    <3>. QED
      BY <2>1, <3>2, <3>3, <3>4
  <2>11. Claim
    BY <2>3, <2>6, <2>7, <2>8, <2>9, <2>10 DEF c
  <2>. QED
    BY <2>11 DEF s, l, b
<1>. QED
  BY <1>1, <1>2

----------------------------------------------------------------------------
(* What the switch is given, and what an import leaves on its flash        *)

Settled == {c \in Configurations : c.upto <= c.len}
RscOk == rsc.of \in Fleets /\ rsc.len \in 0 .. Full(rsc.of)

JobOk(o) ==
  /\ ~At(o, "idle") => job[o].of \in Fleets /\ SchemaViolations(SchemaOf[job[o].schema]) = {}
  /\ job[o].at \in Committed => job[o].saved \in Settled
  /\ job[o].at \in {"uploading", "reset"} => RscOk

TypeInv ==
  /\ firmware \in Firmwares /\ state \in {"up", "importing", "halted"}
  /\ \A o \in Operators : JobOk(o)
  /\ rsc = Nothing \/ RscOk
  /\ device \in Settled /\ fetched \subseteq Settled
  /\ files \subseteq KeyFiles /\ lapses \subseteq {"overlap", "cut"}

\* An import finds the key files that its own lines have put there; without a
\* lapse, and where keys are imported, no other.
FilesInv ==
  /\ state = "importing" => /\ SchemaViolations(SchemaOf[by.schema]) = {}
                            /\ Pending(device.of, device.upto) \subseteq files
  /\ lapses = {} /\ ~KeysStick =>
       /\ state = "importing" => /\ device.len = Full(device.of)
                                 /\ files = Pending(device.of, device.upto)
       /\ state # "importing" => files = {}

ImportInv == TypeInv /\ FilesInv

LEMMA SettledIs ==
  /\ \A f \in Fleets : \A n \in 0 .. Full(f) : \A u \in 0 .. n :
       [of |-> f, len |-> n, upto |-> u] \in Settled
  /\ \A c \in Settled :
       /\ c.of \in Fleets /\ c.len \in 0 .. Full(c.of) /\ c.upto \in 0 .. c.len
       /\ c = [of |-> c.of, len |-> c.len, upto |-> c.upto]
       /\ Full(c.of) \in Nat
<1>1. ASSUME NEW f \in Fleets, NEW n \in 0 .. Full(f), NEW u \in 0 .. n
      PROVE  [of |-> f, len |-> n, upto |-> u] \in Settled
  <2>1. Full(f) \in Nat
    BY ScriptOfIs
  <2>2. [of |-> f, len |-> n, upto |-> u] \in [of : {f}, len : 0 .. Full(f), upto : 0 .. Full(f)]
    BY <2>1
  <2>. QED
    BY <2>2 DEF Settled, Configurations
<1>2. ASSUME NEW c \in Settled
      PROVE  /\ c.of \in Fleets /\ c.len \in 0 .. Full(c.of) /\ c.upto \in 0 .. c.len
             /\ c = [of |-> c.of, len |-> c.len, upto |-> c.upto]
             /\ Full(c.of) \in Nat
  <2>1. c \in Configurations /\ c.upto <= c.len
    BY DEF Settled
  <2>2. PICK f \in Fleets : c \in [of : {f}, len : 0 .. Full(f), upto : 0 .. Full(f)]
    BY <2>1 DEF Configurations
  <2>3. Full(f) \in Nat
    BY ScriptOfIs
  <2>. QED
    BY <2>1, <2>2, <2>3
<1>. QED
  BY <1>1, <1>2

LEMMA InitImport == Init => ImportInv
<1> SUFFICES ASSUME Init PROVE ImportInv
  OBVIOUS
<1>1. PICK f \in Fleets : device = [of |-> f, len |-> Full(f), upto |-> Full(f)]
  BY DEF Init
<1>2. Full(f) \in Nat
  BY ScriptOfIs
<1>3. device \in Settled
  BY <1>1, <1>2, SettledIs
<1>4. \A o \in Operators : job[o] = Idle
  BY DEF Init
<1>5. TypeInv
  BY <1>3, <1>4 DEF Init, TypeInv, JobOk, At, Idle, Committed
<1>6. FilesInv
  BY DEF Init, FilesInv
<1>. QED
  BY <1>5, <1>6 DEF ImportInv

\* The jobs where no step of one is taken, and the file is not written.
LEMMA JobsStay ==
  ASSUME TypeInv, UNCHANGED <<job, rsc>> PROVE \A o \in Operators : JobOk(o)'
  BY DEF TypeInv, JobOk, At, RscOk, Full

LEMMA BuildImport ==
  ASSUME IInv, ImportInv, NEW o \in Operators, NEW f \in Fleets, Build(o, f)
  PROVE  ImportInv'
<1>1. /\ job'[o] = [at |-> "save", of |-> f, schema |-> schema]
      /\ \A p \in Operators \ {o} : job'[p] = job[p]
      /\ SchemaViolations(SchemaOf[schema]) = {}
      /\ UNCHANGED <<firmware, rsc, device, state, files, fetched, by>>
      /\ lapses \subseteq lapses' /\ lapses' \subseteq lapses \union {"overlap"}
  BY DEF Build, switch, IInv, JobInv, Lapse
<1>2. JobOk(o)'
  BY <1>1 DEF JobOk, At, Committed
<1>3. \A p \in Operators \ {o} : JobOk(p)'
  BY <1>1 DEF ImportInv, TypeInv, JobOk, At, RscOk, Full
<1>4. TypeInv'
  BY <1>1, <1>2, <1>3 DEF ImportInv, TypeInv, RscOk, Full
<1>5. FilesInv'
  BY <1>1 DEF ImportInv, FilesInv, Pending, Full
<1>. QED
  BY <1>4, <1>5 DEF ImportInv

LEMMA SaveImport ==
  ASSUME IInv, ImportInv, NEW o \in Operators, Save(o) PROVE ImportInv'
<1>1. /\ job'[o] = [at |-> "fetch", of |-> job[o].of, schema |-> job[o].schema,
                    saved |-> device]
      /\ \A p \in Operators \ {o} : job'[p] = job[p]
      /\ At(o, "save")
      /\ UNCHANGED <<firmware, rsc, device, state, files, fetched, by>>
      /\ lapses \subseteq lapses' /\ lapses' \subseteq lapses \union {"overlap"}
  BY DEF Save, switch, IInv, JobInv, Lapse
<1>2. JobOk(o)'
  BY <1>1 DEF ImportInv, TypeInv, JobOk, At, Committed
<1>3. \A p \in Operators \ {o} : JobOk(p)'
  BY <1>1 DEF ImportInv, TypeInv, JobOk, At, RscOk, Full
<1>4. TypeInv'
  BY <1>1, <1>2, <1>3 DEF ImportInv, TypeInv, RscOk, Full
<1>5. FilesInv'
  BY <1>1 DEF ImportInv, FilesInv, Pending, Full
<1>. QED
  BY <1>4, <1>5 DEF ImportInv

LEMMA FetchImport ==
  ASSUME IInv, ImportInv, NEW o \in Operators, Fetch(o) PROVE ImportInv'
<1>1. /\ job'[o] = [at |-> "upload", of |-> job[o].of, schema |-> job[o].schema,
                    saved |-> job[o].saved]
      /\ \A p \in Operators \ {o} : job'[p] = job[p]
      /\ At(o, "fetch") /\ fetched' = fetched \union {job[o].saved}
      /\ UNCHANGED <<firmware, rsc, device, state, files, by, lapses>>
  BY GotoKeeps DEF Fetch, switch, At, Committed
<1>2. JobOk(o)' /\ job[o].saved \in Settled
  BY <1>1 DEF ImportInv, TypeInv, JobOk, At, Committed
<1>3. \A p \in Operators \ {o} : JobOk(p)'
  BY <1>1 DEF ImportInv, TypeInv, JobOk, At, RscOk, Full
<1>4. TypeInv'
  BY <1>1, <1>2, <1>3 DEF ImportInv, TypeInv, RscOk, Full
<1>5. FilesInv'
  BY <1>1 DEF ImportInv, FilesInv, Pending, Full
<1>. QED
  BY <1>4, <1>5 DEF ImportInv

LEMMA UploadImport ==
  ASSUME IInv, ImportInv, NEW o \in Operators, Upload(o) \/ Uploaded(o) PROVE ImportInv'
<1>1. PICK at \in {"uploading", "reset"} :
        /\ Goto(o, at) /\ job[o].at \in Committed
        /\ rsc'.of = job[o].of /\ rsc'.len \in 0 .. Full(job[o].of)
  <2>1. job[o].of \in Fleets
    BY DEF Upload, Uploaded, At, ImportInv, TypeInv, JobOk
  <2>2. Full(job[o].of) \in Nat
    BY <2>1, ScriptOfIs
  <2>3. CASE Upload(o)
    <3>1. PICK n \in Cuts \intersect (0 .. Full(job[o].of) - 1) :
            rsc' = [of |-> job[o].of, len |-> n]
      BY <2>3 DEF Upload
    <3>. QED
      BY <2>2, <2>3, <3>1 DEF Upload, At, Committed
  <2>4. CASE Uploaded(o)
    BY <2>2, <2>4 DEF Uploaded, At, Committed
  <2>. QED
    BY <2>3, <2>4
<1>2. /\ job'[o] = [at |-> at, of |-> job[o].of, schema |-> job[o].schema,
                    saved |-> job[o].saved]
      /\ \A p \in Operators \ {o} : job'[p] = job[p]
  BY <1>1, GotoKeeps DEF Committed
<1>3. UNCHANGED <<firmware, device, state, files, fetched, by, lapses>>
  BY DEF Upload, Uploaded
<1>4. job[o].of \in Fleets
  BY DEF Upload, Uploaded, At, ImportInv, TypeInv, JobOk
<1>5. RscOk'
  BY <1>1, <1>4 DEF RscOk, Full
<1>6. JobOk(o)'
  BY <1>1, <1>2, <1>5 DEF ImportInv, TypeInv, JobOk, At, Committed
<1>7. \A p \in Operators \ {o} : JobOk(p)'
  BY <1>2, <1>5 DEF ImportInv, TypeInv, JobOk, At
<1>8. TypeInv'
  BY <1>3, <1>5, <1>6, <1>7 DEF ImportInv, TypeInv
<1>9. FilesInv'
  BY <1>3 DEF ImportInv, FilesInv, Pending, Full
<1>. QED
  BY <1>8, <1>9 DEF ImportInv

LEMMA ResetImport ==
  ASSUME IInv, ImportInv, NEW o \in Operators, Reset(o) PROVE ImportInv'
<1>1. /\ \A p \in Operators : job'[p] = IF p = o THEN Idle ELSE job[p]
      /\ At(o, "reset") /\ device' = [of |-> rsc.of, len |-> rsc.len, upto |-> 0]
      /\ state' = "importing" /\ by'.schema = job[o].schema
      /\ UNCHANGED <<firmware, rsc, files, fetched, lapses>>
  BY EndKeeps DEF Reset
<1>2. RscOk /\ SchemaViolations(SchemaOf[job[o].schema]) = {}
  BY <1>1 DEF ImportInv, TypeInv, JobOk, At
<1>3. device' \in Settled
  <2>1. 0 \in 0 .. rsc.len
    BY <1>2 DEF RscOk
  <2>. QED
    BY <1>1, <1>2, <2>1, SettledIs DEF RscOk
<1>4. \A p \in Operators : JobOk(p)'
  BY <1>1 DEF ImportInv, TypeInv, JobOk, At, RscOk, Full, Idle, Committed
<1>5. TypeInv'
  BY <1>1, <1>3, <1>4 DEF ImportInv, TypeInv, RscOk, Full
<1>6. Pending(device'.of, device'.upto) = {}
  BY <1>1 DEF Pending
\* Without a lapse it is the deploy's own script, whole, and no import is cut off.
<1>7. lapses = {} /\ ~KeysStick => rsc.len = Full(rsc.of) /\ files = {}
  <2> SUFFICES ASSUME lapses = {}, ~KeysStick PROVE rsc.len = Full(rsc.of) /\ files = {}
    OBVIOUS
  <2>1. Progress(o)
    BY DEF IInv, SafeInv
  <2>2. rsc = [of |-> job[o].of, len |-> Full(job[o].of)] /\ state # "importing"
    BY <1>1, <2>1 DEF Progress, At, Committed
  <2>. QED
    BY <2>2 DEF ImportInv, FilesInv
<1>8. FilesInv'
  BY <1>1, <1>2, <1>6, <1>7 DEF FilesInv, Pending, Full
<1>. QED
  BY <1>5, <1>8 DEF ImportInv

LEMMA ImportLineImport ==
  ASSUME ImportInv, ImportLine PROVE ImportInv'
<1> DEFINE f == device.of
           i == device.upto + 1
           l == ScriptOf[f][i]
<1>1. /\ device \in Settled /\ device.upto < device.len /\ state = "importing"
      /\ device' = [device EXCEPT !.upto = @ + 1]
      /\ files' = (files \union (l.makes \intersect KeyFiles)) \ l.drops
      /\ UNCHANGED <<firmware, rsc, state, job, fetched, by, lapses>>
  BY DEF ImportLine, NextLine, KeyFiles, ImportInv, TypeInv
<1>2. /\ f \in Fleets /\ device.len \in 0 .. Full(f) /\ device.upto \in 0 .. device.len
      /\ device = [of |-> f, len |-> device.len, upto |-> device.upto] /\ Full(f) \in Nat
  BY <1>1, SettledIs
<1>3. i \in 1 .. device.len /\ i \in 1 .. Full(f) /\ i - 1 = device.upto
  BY <1>1, <1>2
<1>4. device' = [of |-> f, len |-> device.len, upto |-> i]
  BY <1>1, <1>2
<1>5. device' \in Settled
  BY <1>2, <1>3, <1>4, SettledIs
<1>6. \A o \in Operators : JobOk(o)'
  BY <1>1, JobsStay DEF ImportInv
<1>7. TypeInv'
  BY <1>1, <1>5, <1>6 DEF ImportInv, TypeInv, RscOk, Full
<1>8. (Pending(f, device.upto) \union (l.makes \intersect KeyFiles)) \ l.drops = Pending(f, i)
  BY <1>2, <1>3, PendingStep
<1> HIDE DEF l, i, f
<1>9. /\ device'.of = f /\ device'.len = device.len /\ device'.upto = i
      /\ device.of = f
  BY <1>4 DEF f
<1>10. Pending(device.of, device.upto)' = Pending(f, i)
  BY <1>9 DEF Pending
<1>11. FilesInv'
  BY <1>1, <1>8, <1>9, <1>10 DEF ImportInv, FilesInv, Full
<1>. QED
  BY <1>7, <1>11 DEF ImportInv

\* Where an import halts no key file is left, unless keys cannot be imported.
LEMMA HaltsImport ==
  ASSUME ImportInv, ImportHalts PROVE ImportInv'
<1> DEFINE f == device.of
           i == device.upto + 1
           l == ScriptOf[f][i]
<1>1. /\ device \in Settled /\ device.upto < device.len /\ state = "importing"
      /\ state' = "halted" /\ Refuses(l)
      /\ UNCHANGED <<firmware, rsc, device, files, job, fetched, by, lapses>>
  BY DEF ImportHalts, NextLine, ImportInv, TypeInv
<1>2. f \in Fleets /\ i \in 1 .. Full(f) /\ i - 1 = device.upto
  <2>1. /\ f \in Fleets /\ device.len \in 0 .. Full(f) /\ device.upto \in 0 .. device.len
        /\ Full(f) \in Nat
    BY <1>1, SettledIs
  <2>. QED
    BY <1>1, <2>1
<1>3. TypeInv'
  BY <1>1, JobsStay DEF ImportInv, TypeInv, RscOk, Full
<1>4. ASSUME Pending(f, device.upto) # {}, Pending(f, device.upto) \subseteq files
      PROVE  KeysStick
  <2>1. /\ l.uses \intersect KeyFiles \subseteq files
        /\ l.caught \/ \E k \in Keys : ImportsKey(l, k)
    BY <1>2, <1>4, PendingStep
  <2>2. ~l.caught
    BY <1>1 DEF Refuses
  <2> HIDE DEF l
  <2>3. PICK k \in Keys : ImportsKey(l, k)
    BY <2>1, <2>2
  <2>4. /\ l.uses = {File(k), User} /\ l.makes = {} /\ l.menu = "/user ssh-keys"
        /\ l.props = {"public-key-file", "user"}
    BY <2>3 DEF ImportsKey, Fits
  <2>5. File(k) \in files /\ files \subseteq Objects /\ User \in Objects
    BY <2>1, <2>4 DEF Objects, KeyFiles
  <2>6. Unknown(l)
    BY <1>1, <2>4, <2>5 DEF Refuses, l
  <2>7. firmware \in Firmwares
    BY DEF ImportInv, TypeInv
  <2>. QED
    BY <2>4, <2>6, <2>7 DEF Unknown, KeysStick
<1>5. lapses = {} /\ ~KeysStick => files = {}
  <2> HIDE DEF f, l, i
  <2>. QED
    BY <1>1, <1>4 DEF ImportInv, FilesInv, f
<1>6. FilesInv'
  BY <1>1, <1>5 DEF FilesInv
<1>. QED
  BY <1>3, <1>6 DEF ImportInv

LEMMA RestImport ==
  ASSUME ImportInv,
         LearnSchema \/ ImportEnds \/ PowerCut \/ Upgrade \/ Load \/ UNCHANGED vars
           \/ \E o \in Operators : Fails(o),
         IInv
  PROVE  ImportInv'
<1>1. CASE LearnSchema \/ UNCHANGED vars
  <2>1. UNCHANGED <<firmware, rsc, device, state, files, job, fetched, by, lapses>>
    BY <1>1 DEF LearnSchema, vars, switch
  <2>2. TypeInv'
    BY <2>1, JobsStay DEF ImportInv, TypeInv, RscOk, Full
  <2>. QED
    BY <2>1, <2>2 DEF ImportInv, FilesInv, Pending, Full
<1>2. CASE ImportEnds
  <2>1. /\ state = "importing" /\ device.upto = device.len /\ state' = "up"
        /\ UNCHANGED <<firmware, rsc, device, files, job, fetched, by, lapses>>
    BY <1>2 DEF ImportEnds
  <2>2. TypeInv'
    BY <2>1, JobsStay DEF ImportInv, TypeInv, RscOk, Full
  <2>3. device.len = Full(device.of) => Pending(device.of, device.upto) = {}
    <3>1. device.of \in Fleets /\ device.len \in 0 .. Full(device.of)
      BY SettledIs DEF ImportInv, TypeInv
    <3>. QED
      BY <2>1, <3>1, NothingPending
  <2>. QED
    BY <2>1, <2>2, <2>3 DEF ImportInv, FilesInv
<1>3. CASE PowerCut
  <2>1. /\ state' = "up" /\ "cut" \in lapses' /\ lapses' \subseteq lapses \union {"cut"}
        /\ UNCHANGED <<firmware, rsc, device, files, job, fetched, by>>
    BY <1>3 DEF PowerCut, Lapse
  <2>2. TypeInv'
    BY <2>1, JobsStay DEF ImportInv, TypeInv, RscOk, Full
  <2>. QED
    BY <2>1, <2>2 DEF ImportInv, FilesInv
<1>4. CASE Upgrade
  <2>1. /\ firmware' \in Firmwares /\ state # "importing"
        /\ UNCHANGED <<rsc, device, state, files, job, fetched, by, lapses>>
    BY <1>4 DEF Upgrade
  <2>2. TypeInv'
    BY <2>1, JobsStay DEF ImportInv, TypeInv, RscOk, Full
  <2>. QED
    BY <2>1, <2>2 DEF ImportInv, FilesInv
<1>5. CASE Load
  <2>1. /\ state # "importing" /\ device' \in fetched /\ state' = "up"
        /\ lapses \subseteq lapses' /\ lapses' \subseteq lapses \union {"overlap"}
        /\ UNCHANGED <<firmware, rsc, files, job, fetched, by>>
    BY <1>5 DEF Load, Lapse
  <2>2. TypeInv'
    BY <2>1, JobsStay DEF ImportInv, TypeInv, RscOk, Full
  <2>. QED
    BY <2>1, <2>2 DEF ImportInv, FilesInv
<1>6. ASSUME NEW o \in Operators, Fails(o) PROVE ImportInv'
  <2>1. /\ \A p \in Operators : job'[p] = IF p = o THEN Idle ELSE job[p]
        /\ UNCHANGED <<firmware, rsc, device, state, files, fetched, by, lapses>>
    BY <1>6, EndKeeps DEF Fails, switch
  <2>2. \A p \in Operators : JobOk(p)'
    BY <2>1 DEF ImportInv, TypeInv, JobOk, At, RscOk, Full, Idle, Committed
  <2>3. TypeInv'
    BY <2>1, <2>2 DEF ImportInv, TypeInv, RscOk, Full
  <2>. QED
    BY <2>1, <2>3 DEF ImportInv, FilesInv, Pending, Full
<1>. QED
  BY <1>1, <1>2, <1>3, <1>4, <1>5, <1>6

LEMMA StepImport == IInv /\ ImportInv /\ [Next]_vars => ImportInv'
<1> SUFFICES ASSUME IInv, ImportInv, [Next]_vars PROVE ImportInv'
  OBVIOUS
<1>1. ASSUME NEW o \in Operators, Deploy(o) PROVE ImportInv'
  BY <1>1, SaveImport, FetchImport, UploadImport, ResetImport, RestImport DEF Deploy
<1>. QED
  BY <1>1, BuildImport, ImportLineImport, HaltsImport, RestImport DEF Next

\* In every execution the switch has been given scripts of declarations, and
\* its flash no other key files than those of the import that is under way.
THEOREM ImportInvariance == Spec => []ImportInv
<1>. QED
  BY InitImport, StepImport, Invariance, PTL DEF Spec

\* No import goes beyond what the switch was given, and what it was given is of
\* a declaration.
THEOREM TypeCorrect == Spec => []TypeOK
<1>1. IInv /\ ImportInv => TypeOK
  <2> SUFFICES ASSUME IInv, ImportInv PROVE TypeOK
    OBVIOUS
  <2>1. ASSUME NEW o \in Operators
        PROVE  \/ job[o] = Idle
               \/ /\ job[o].at \in {"save", "fetch", "upload", "uploading", "reset"}
                  /\ job[o].of \in Fleets
    BY DEF IInv, JobInv, Committed, ImportInv, TypeInv, JobOk, At
  <2>2. \A c \in Settled : c \in Configurations /\ c.upto <= c.len
    BY DEF Settled
  <2>. QED
    BY <2>1, <2>2 DEF ImportInv, TypeInv, RscOk, KeyFiles, TypeOK
<1>. QED
  BY <1>1, Invariance, ImportInvariance, PTL

----------------------------------------------------------------------------
(* Why an import halts                                                     *)

\* The lines that have been imported.
LEMMA DoneIs ==
  ASSUME device \in Settled
  PROVE  /\ device.of \in Fleets /\ device.upto \in 0 .. Full(device.of)
         /\ DOMAIN Done = 1 .. device.upto /\ device.upto \in Nat
         /\ \A i \in 1 .. device.upto : i \in 1 .. Full(device.of)
                                        /\ Done[i] = ScriptOf[device.of][i]
<1>1. /\ device.of \in Fleets /\ device.len \in 0 .. Full(device.of)
      /\ device.upto \in 0 .. device.len /\ Full(device.of) \in Nat
  BY SettledIs
<1>2. IsScript(ScriptOf[device.of])
  BY <1>1, ScriptOfIs DEF Laid
<1>3. PICK S : ScriptOf[device.of] \in Seq(S)
  BY <1>2 DEF IsScript
<1>4. device.upto \in 0 .. Full(device.of) /\ device.upto \in Nat
  BY <1>1
<1> DEFINE s == ScriptOf[device.of]
           n == device.upto
<1>5. s \in Seq(S) /\ n \in 0 .. Len(s) /\ n \in Nat
  BY <1>3, <1>4 DEF Full
<1> HIDE DEF s, n
<1>6. /\ DOMAIN SubSeq(s, 1, n) = 1 .. n
      /\ \A i \in 1 .. n : SubSeq(s, 1, n)[i] = s[i]
  BY <1>5
<1>7. /\ DOMAIN Done = 1 .. device.upto
      /\ \A i \in 1 .. device.upto : Done[i] = ScriptOf[device.of][i]
  BY <1>6 DEF s, n, Done
<1>8. \A i \in 1 .. device.upto : i \in 1 .. Full(device.of)
  BY <1>1
<1>. QED
  BY <1>1, <1>4, <1>7, <1>8

\* What is made by the lines of the account is a user or a key file.
LEMMA AccountMakes ==
  ASSUME NEW f \in Fleets, NEW i \in 1 .. Full(f), Part(f, i) = 2
  PROVE  /\ ScriptOf[f][i].uses \subseteq KeyFiles \union {User}
         /\ ScriptOf[f][i].makes \subseteq KeyFiles \union {User}
         /\ User \in ScriptOf[f][i].makes => ScriptOf[f][i].caught
<1> DEFINE l == ScriptOf[f][i]
<1>1. \/ MakesUser(l) \/ AllowsSsh(l)
      \/ \E k \in Keys : PutsKey(l, k) \/ ImportsKey(l, k) \/ RemovesKey(l, k)
  BY AccountLinesAre
<1> HIDE DEF l
<1>2. \A k \in Keys : File(k) \in KeyFiles /\ File(k) # User
  BY ObjectsApart DEF KeyFiles
<1>3. CASE MakesUser(l)
  BY <1>3 DEF MakesUser, l
<1>4. CASE AllowsSsh(l)
  BY <1>4 DEF AllowsSsh, Fits, l
<1>5. ASSUME NEW k \in Keys, PutsKey(l, k) \/ ImportsKey(l, k) \/ RemovesKey(l, k)
      PROVE  /\ l.uses \subseteq KeyFiles \union {User}
             /\ l.makes \subseteq KeyFiles \union {User}
             /\ User \in l.makes => l.caught
  <2>1. l.uses \subseteq {File(k), User} /\ l.makes \subseteq {File(k)}
    BY <1>5 DEF PutsKey, ImportsKey, RemovesKey, Fits
  <2>. QED
    BY <1>2, <2>1
<1>. QED
  BY <1>1, <1>3, <1>4, <1>5 DEF l

\* What an account's line refers to is there if its key file is; what another
\* line refers to is there in any case.
LEMMA UsesFound ==
  ASSUME device \in Settled, device.upto < Full(device.of), Sound(Declared[device.of]),
         Pending(device.of, device.upto) \subseteq files
  PROVE  NextLine.uses \subseteq Objects
<1> DEFINE f == device.of
           i == device.upto + 1
           s == ScriptOf[f]
           k == Part(f, i)
<1>1. /\ f \in Fleets /\ device.upto \in Nat /\ Full(f) \in Nat
      /\ DOMAIN Done = 1 .. device.upto
      /\ \A h \in 1 .. device.upto : h \in 1 .. Full(f) /\ Done[h] = s[h]
  BY DoneIs, ScriptOfIs
<1>2. i \in 1 .. Full(f) /\ i - 1 = device.upto
  BY <1>1
<1>3. NextLine = s[i]
  BY DEF NextLine
<1>4. files \subseteq Objects /\ {Chip, User} \subseteq Objects
      /\ \A p \in KnownPorts(Doc(f)) : Port(p) \in Objects
  BY <1>1 DEF Objects, PortsOf, Doc
<1>5. CASE k = 2
  <2>1. s[i].uses \intersect KeyFiles \subseteq files
    BY <1>1, <1>2, PendingStep
  <2>2. s[i].uses \subseteq KeyFiles \union {User}
    BY <1>1, <1>2, <1>5, AccountMakes
  <2>. QED
    BY <1>3, <1>4, <2>1, <2>2
<1>6. CASE k # 2
  <2>1. s[i].uses \subseteq Known(f, k) /\ k \in 1 .. 21
    BY <1>1, <1>2, <1>6, OtherLinesAre, PartIs
  <2>2. ASSUME NEW h \in 1 .. k - 1, NEW x \in MadeIn(f, h) PROVE x \in Objects
    <3>1. h \in 1 .. 21 /\ h < k
      BY <2>1
    <3>2. PICK g \in 1 .. Full(f) : Part(f, g) = h /\ x \in s[g].makes
      BY <1>1, <3>1, MakerOf
    <3>3. g \in 1 .. device.upto
      <4>1. i <= g => k <= Part(f, g)
        BY <1>1, <1>2, PartOrder
      <4>2. ~(i <= g)
        BY <2>1, <3>1, <3>2, <4>1
      <4>. QED
        BY <1>1, <4>2
    <3>4. x \notin {File(y) : y \in Keys}
      BY ObjectsApart DEF MadeIn
    <3>5. x \in UNION {Done[y].makes : y \in DOMAIN Done}
      BY <1>1, <3>2, <3>3
    <3>. QED
      BY <3>4, <3>5 DEF Objects
  <2>3. \A x \in Known(f, k) : x \in Objects
    BY <1>4, <2>2 DEF Known
  <2>. QED
    BY <1>3, <2>1, <2>3
<1>. QED
  BY <1>5, <1>6

\* A name that is taken is that of a key file.
LEMMA MakesNew ==
  ASSUME device \in Settled, device.upto < Full(device.of), files \subseteq KeyFiles,
         ~NextLine.caught, NEW x \in NextLine.makes \intersect Objects
  PROVE  x \in files
<1> DEFINE f == device.of
           i == device.upto + 1
           s == ScriptOf[f]
<1>1. /\ f \in Fleets /\ device.upto \in Nat /\ Full(f) \in Nat
      /\ DOMAIN Done = 1 .. device.upto
      /\ \A h \in 1 .. device.upto : h \in 1 .. Full(f) /\ Done[h] = s[h]
  BY DoneIs, ScriptOfIs
<1>2. i \in 1 .. Full(f) /\ i \notin 1 .. device.upto
  BY <1>1
<1>3. NextLine = s[i]
  BY DEF NextLine
<1>4. \A k \in KeyFiles : k[1] = "file"
  BY ObjectsApart DEF KeyFiles
<1>5. x \in Objects
  OBVIOUS
<1>6. CASE Part(f, i) = 2
  <2>1. x \in KeyFiles
    BY <1>1, <1>2, <1>3, <1>6, AccountMakes
  <2>2. x \notin {Port(p) : p \in PortsOf[device.of]} \union {Chip, User}
    BY <1>4, <2>1, ObjectsApart
  <2>. QED
    BY <1>5, <2>1, <2>2 DEF Objects, KeyFiles
<1>7. CASE Part(f, i) # 2
  <2>1. x \in MadeIn(f, Part(f, i))
    BY <1>1, <1>2, <1>3, <1>7, OtherLinesAre
  <2>2. x[1] \in {"bond", "bridge", "svi", "address"}
    BY <2>1, ObjectsApart DEF MadeIn
  <2>3. x \notin {Port(p) : p \in PortsOf[device.of]} \union {Chip, User}
    BY <2>2, ObjectsApart
  <2>4. CASE x \in UNION {Done[h].makes : h \in DOMAIN Done}
    <3>1. PICK h \in 1 .. device.upto : x \in s[h].makes
      BY <1>1, <2>4
    <3>2. Part(f, h) # 2
      <4>1. \A z \in KeyFiles \union {User} : z[1] \in {"file", "user"}
        BY <1>4, ObjectsApart
      <4>. QED
        BY <1>1, <2>2, <3>1, <4>1, AccountMakes
    <3>3. h = i
      BY <1>1, <1>2, <1>3, <1>7, <3>1, <3>2, MadeOnce
    <3>. QED
      BY <1>2, <3>3
  <2>. QED
    BY <1>5, <2>3, <2>4 DEF Objects
<1>. QED
  BY <1>6, <1>7

\* What a firmware does not know the check has found missing in its schema.
LEMMA UnknownIsExplained ==
  ASSUME NEW l, Unknown(l), firmware \in Firmwares, NEW captured,
         SchemaViolations(SchemaOf[captured]) = {}, SchemaOf[captured] = SchemaOf[firmware],
         l.menu \in DOMAIN SchemaOf[captured]
  PROVE  \E p \in l.props \ Sections[l.menu] : <<l.menu, p>> \in Lacks[firmware].props
<1> DEFINE S == SchemaOf[firmware]
<1>1. S = IF firmware = Nothing THEN <<>> ELSE ParseSchema(Lacks[firmware])
  BY DEF SchemaOf
<1>2. S = ParseSchema(Lacks[firmware])
  <2>1. CASE firmware = Nothing
    <3>1. DOMAIN S = {}
      BY <1>1, <2>1
    <3>. QED
      BY <3>1
  <2>. QED
    BY <1>1, <2>1
<1> DEFINE m == l.menu
<1>3. /\ m \in DOMAIN Sections \ Lacks[firmware].menus
      /\ S[m] = {p \in Sections[m] : <<m, p>> \notin Lacks[firmware].props}
      /\ m \in DOMAIN S
  BY <1>2 DEF ParseSchema
<1>4. PICK p \in l.props : <<m, p>> \in Lacks[firmware].props
  BY <1>3 DEF Unknown
<1>5. p \notin Sections[m]
  <2> SUFFICES ASSUME p \in Sections[m] PROVE FALSE
    OBVIOUS
  <2>1. p \in Sections[m] \ S[m]
    BY <1>3, <1>4
  <2> HIDE DEF S, m
  <2>2. <<m, p>> \in SchemaViolations(S)
    BY <1>3, <2>1 DEF SchemaViolations
  <2>. QED
    BY <2>2 DEF S
<1>. QED
  BY <1>4, <1>5

\* Only a /file line makes a key file, and never one that is there for the
\* lines before it.
LEMMA KeyFileMade ==
  ASSUME NEW f \in Fleets, NEW i \in 1 .. Full(f)
  PROVE  /\ ScriptOf[f][i].makes \intersect KeyFiles # {} => ScriptOf[f][i].menu = "/file"
         /\ ScriptOf[f][i].makes \intersect Pending(f, i - 1) = {}
  BY PendingStep

\* An import halts only for what the declaration takes for granted, for a
\* firmware that the schema check could not see, or at a key file that a lapse
\* has left on the flash: generate never refers to what it has not made, nor
\* makes anything twice, whatever is declared.
THEOREM HaltsExplained == Spec => HaltsAreExplained
<1> DEFINE Why == \/ ~Sound(Declared[device.of])
                  \/ /\ Unknown(NextLine)
                     /\ \/ SchemaOf[by.schema] # SchemaOf[firmware]
                        \/ NextLine.menu \notin DOMAIN SchemaOf[by.schema]
                        \/ \E p \in NextLine.props \ Sections[NextLine.menu] :
                             <<NextLine.menu, p>> \in Lacks[firmware].props
                  \/ NextLine.menu = "/file" /\ (lapses # {} \/ KeysStick)
<1>1. ASSUME ImportInv, ImportHalts PROVE Why
  <2>1. /\ state = "importing" /\ device.upto < device.len /\ Refuses(NextLine)
        /\ device \in Settled /\ files \subseteq KeyFiles /\ firmware \in Firmwares
        /\ SchemaViolations(SchemaOf[by.schema]) = {}
        /\ Pending(device.of, device.upto) \subseteq files
    BY <1>1 DEF ImportHalts, ImportInv, TypeInv, FilesInv
  <2>2. /\ device.of \in Fleets /\ device.upto + 1 \in 1 .. Full(device.of)
        /\ device.upto < Full(device.of) /\ (device.upto + 1) - 1 = device.upto
    <3>1. /\ device.of \in Fleets /\ device.len \in 0 .. Full(device.of)
          /\ device.upto \in 0 .. device.len /\ Full(device.of) \in Nat
      BY <2>1, SettledIs
    <3>. QED
      BY <2>1, <3>1
  <2>3. CASE Unknown(NextLine)
    BY <2>1, <2>3, UnknownIsExplained
  <2>4. CASE Sound(Declared[device.of]) /\ ~Unknown(NextLine)
    <3>1. NextLine.uses \subseteq Objects
      BY <2>1, <2>2, <2>4, UsesFound
    <3>2. PICK x : x \in NextLine.makes \intersect Objects
      BY <2>1, <2>4, <3>1 DEF Refuses
    <3>3. x \in files /\ x \in KeyFiles
      BY <2>1, <2>2, <3>2, MakesNew DEF Refuses
    <3>4. /\ NextLine.makes \intersect KeyFiles # {} => NextLine.menu = "/file"
          /\ NextLine.makes \intersect Pending(device.of, device.upto) = {}
      <4>1. NextLine = ScriptOf[device.of][device.upto + 1]
        BY DEF NextLine
      <4> DEFINE f == device.of
                 i == device.upto + 1
      <4>2. f \in Fleets /\ i \in 1 .. Full(f)
        BY <2>2
      <4> HIDE DEF f, i
      <4>3. /\ ScriptOf[f][i].makes \intersect KeyFiles # {} => ScriptOf[f][i].menu = "/file"
            /\ ScriptOf[f][i].makes \intersect Pending(f, i - 1) = {}
        BY <4>2, KeyFileMade
      <4>4. NextLine = ScriptOf[f][i]
        BY <4>1 DEF f, i
      <4>5. f = device.of /\ i - 1 = device.upto
        BY <2>2 DEF f, i
      <4>. QED
        BY <4>3, <4>4, <4>5
    <3>5. lapses # {} \/ KeysStick
      BY <1>1, <2>1, <3>2, <3>3, <3>4 DEF ImportInv, FilesInv
    <3>. QED
      BY <3>2, <3>3, <3>4, <3>5
  <2>. QED
    BY <2>3, <2>4
<1>2. ImportInv /\ [Next]_vars => [ImportHalts => Why]_vars
  BY <1>1
<1>. QED
  BY <1>2, ImportInvariance, PTL DEF Spec, HaltsAreExplained

----------------------------------------------------------------------------
(* What a declaration asks for                                             *)

LEMMA LargestIs ==
  ASSUME NEW S, IsFiniteSet(S), S # {}, S \subseteq Nat
  PROVE  \E m \in S : \A k \in S : k <= m
<1> DEFINE Above(m) == {k \in S : m < k}
           T == {Above(m) : m \in S}
           R == StrictSubsetOrdering(S)
<1>1. IsWellFoundedOn(R, SUBSET S)
  BY FS_StrictSubsetOrderingWellFounded, FS_FiniteSubsetsOfFinite
<1>2. T \subseteq SUBSET S /\ T # {}
  OBVIOUS
<1> HIDE DEF R, T
<1>3. PICK U \in T : \A V \in T : ~(<<V, U>> \in R)
  BY <1>1, <1>2, WFMin
<1>4. PICK m \in S : U = Above(m)
  BY <1>3 DEF T
<1>5. ASSUME NEW k \in S, ~(k <= m) PROVE FALSE
  <2>0. k \in Nat /\ m \in Nat /\ m < k /\ \A x \in S : x \in Nat
    BY <1>5
  <2>1. k \in Above(m) /\ k \notin Above(k) /\ Above(k) \subseteq Above(m)
    <3>1. k \in Above(m)
      BY <2>0
    <3>2. k \notin Above(k)
      BY <2>0
    <3>3. ASSUME NEW x \in Above(k) PROVE x \in Above(m)
      <4>1. x \in S /\ x \in Nat /\ k < x
        BY <2>0
      <4>2. m < x
        BY <2>0, <4>1
      <4>. QED
        BY <4>1, <4>2
    <3> HIDE DEF Above
    <3>. QED
      BY <3>1, <3>2, <3>3
  <2>2. Above(k) \in SUBSET S /\ Above(m) \in SUBSET S /\ Above(k) # Above(m)
    BY <2>1
  <2>3. Above(k) \in T
    BY DEF T
  <2> HIDE DEF Above
  <2>4. <<Above(k), U>> \in R
    BY <1>4, <2>1, <2>2 DEF R, StrictSubsetOrdering
  <2>. QED
    BY <1>3, <2>3, <2>4
<1>. QED
  BY <1>5

\* A frame of any network with an address fits the ports.
LEMMA FramesFit ==
  ASSUME NEW f, IsDeclaration(f), NEW n \in f.addresses, MtuOf[n] > 1500
  PROVE  PortL2mtu(f) \in Nat /\ PortL2mtu(f) # 0 /\ PortL2mtu(f) >= MtuOf[n] + 4
<1> DEFINE jumbo == {MtuOf[m] : m \in f.addresses} \ (0 .. 1500)
<1>1. f.addresses \in SUBSET Nets /\ \A m \in Nets : MtuOf[m] \in Nat
  BY NetAssumption DEF IsDeclaration
<1>2. IsFiniteSet(jumbo)
  <2>1. IsFiniteSet(f.addresses)
    BY <1>1, NetAssumption, FS_Subset
  <2> DEFINE g == [m \in f.addresses |-> MtuOf[m]]
  <2>2. {g[m] : m \in DOMAIN g} = {MtuOf[m] : m \in f.addresses} /\ DOMAIN g = f.addresses
    <3>1. DOMAIN g = f.addresses /\ \A m \in f.addresses : g[m] = MtuOf[m]
      OBVIOUS
    <3> HIDE DEF g
    <3>2. ASSUME NEW y PROVE y \in {g[m] : m \in DOMAIN g} <=> y \in {MtuOf[m] : m \in f.addresses}
      BY <3>1
    <3>. QED
      BY <3>1, <3>2
  <2> HIDE DEF g
  <2>3. IsFiniteSet({MtuOf[m] : m \in f.addresses})
    BY <2>1, <2>2, FiniteImage
  <2>. QED
    BY <2>3, FS_Subset
<1>3. MtuOf[n] \in Nat /\ MtuOf[n] \in jumbo /\ jumbo # {} /\ jumbo \subseteq Nat
  <2>1. MtuOf[n] \in Nat /\ \A m \in f.addresses : MtuOf[m] \in Nat
    BY <1>1
  <2>2. MtuOf[n] \notin 0 .. 1500
    <3> DEFINE x == MtuOf[n]
    <3>1. x > 1500 /\ x \in Nat
      BY <2>1
    <3> HIDE DEF x
    <3>2. x \notin 0 .. 1500
      BY <3>1
    <3>. QED
      BY <3>2 DEF x
  <2>3. jumbo \subseteq {MtuOf[m] : m \in f.addresses}
    OBVIOUS
  <2>4. MtuOf[n] \in jumbo
    BY <2>2
  <2>5. jumbo \subseteq Nat
    BY <2>1, <2>3
  <2> HIDE DEF jumbo
  <2>. QED
    BY <2>1, <2>4, <2>5
<1>4. PortL2mtu(f) = IF jumbo = {} THEN 0 ELSE 4 + CHOOSE m \in jumbo : \A k \in jumbo : k <= m
  BY DEF PortL2mtu
<1> HIDE DEF jumbo
<1>5. \E m \in jumbo : \A k \in jumbo : k <= m
  <2>1. IsFiniteSet(jumbo) /\ jumbo # {} /\ jumbo \subseteq Nat
    BY <1>2, <1>3
  <2>. QED
    BY <2>1, LargestIs, ZenonT(30)
<1> DEFINE l == CHOOSE m \in jumbo : \A k \in jumbo : k <= m
<1>6. l \in jumbo /\ \A k \in jumbo : k <= l
  BY <1>5
<1>7. PortL2mtu(f) = 4 + l
  BY <1>3, <1>4
<1> HIDE DEF l
<1>. QED
  BY <1>1, <1>3, <1>6, <1>7

\* The interface of a port is its one bond, or the port.  Ports of one
\* interface are declared alike.
LEMMA IfaceIs ==
  ASSUME NEW f, IsDeclaration(f), Sound(f), NEW p \in HwPorts(f)
  PROVE  /\ \A b \in DOMAIN f.bonds : p \in Range(f.bonds[b]) => BridgeIface(f, p) = b
         /\ (\A b \in DOMAIN f.bonds : p \notin Range(f.bonds[b])) =>
              BridgeIface(f, p) = p /\ BridgeIface(f, p) \notin DOMAIN f.bonds
         /\ BridgeIface(f, p) # "bridge1"
<1>1. ASSUME NEW b \in DOMAIN f.bonds, p \in Range(f.bonds[b])
      PROVE  BridgeIface(f, p) = b
  <2> DEFINE B == {c \in DOMAIN f.bonds : p \in Range(f.bonds[c])}
  <2>1. b \in B
    BY <1>1
  <2>2. \A c \in B : c = b
    <3>1. \A c \in DOMAIN f.bonds \ {b} : Range(f.bonds[b]) \intersect Range(f.bonds[c]) = {}
      BY DEF Sound
    <3>. QED
      BY <1>1, <3>1
  <2>3. BridgeIface(f, p) = IF B = {} THEN p ELSE CHOOSE c \in B : TRUE
    BY DEF BridgeIface
  <2> HIDE DEF B
  <2>. QED
    BY <2>1, <2>2, <2>3
<1>2. ASSUME \A b \in DOMAIN f.bonds : p \notin Range(f.bonds[b])
      PROVE  BridgeIface(f, p) = p /\ BridgeIface(f, p) \notin DOMAIN f.bonds
  <2>1. BridgeIface(f, p) = p
    BY <1>2 DEF BridgeIface
  <2>. QED
    BY <2>1 DEF Sound
<1>3. "bridge1" \notin DOMAIN f.bonds /\ "bridge1" # p
  BY DEF Sound
<1>. QED
  BY <1>1, <1>2, <1>3

LEMMA BondedAlike ==
  ASSUME NEW f, IsDeclaration(f), Sound(f), NEW b \in DOMAIN f.bonds,
         NEW p \in Range(f.bonds[b]), NEW q \in Range(f.bonds[b])
  PROVE  PortCfg(f, p) = PortCfg(f, q)
<1>1. p \in ActivePorts(f) /\ q \in ActivePorts(f) /\ f.ports[p] = f.ports[q]
  BY DEF Sound
<1>2. p \in DOMAIN f.ports /\ q \in DOMAIN f.ports
  BY <1>1, PortsAreFinite
<1>. QED
  BY <1>1, <1>2 DEF PortCfg

LEMMA IfaceAlike ==
  ASSUME NEW f, IsDeclaration(f), Sound(f), NEW p \in HwPorts(f), NEW q \in HwPorts(f),
         BridgeIface(f, p) = BridgeIface(f, q)
  PROVE  PortCfg(f, p) = PortCfg(f, q)
<1>1. CASE \A b \in DOMAIN f.bonds : p \notin Range(f.bonds[b])
  <2>1. BridgeIface(f, p) = p /\ BridgeIface(f, p) \notin DOMAIN f.bonds
    BY <1>1, IfaceIs
  <2>2. \A b \in DOMAIN f.bonds : q \in Range(f.bonds[b]) => BridgeIface(f, q) = b
    BY IfaceIs
  <2>3. \A b \in DOMAIN f.bonds : q \notin Range(f.bonds[b])
    BY <2>1, <2>2
  <2>4. BridgeIface(f, q) = q
    BY <2>3, IfaceIs
  <2>. QED
    BY <2>1, <2>4
<1>2. ASSUME NEW b \in DOMAIN f.bonds, p \in Range(f.bonds[b])
      PROVE  PortCfg(f, p) = PortCfg(f, q)
  <2>1. BridgeIface(f, p) = b
    BY <1>2, IfaceIs
  <2>2. ~\A c \in DOMAIN f.bonds : q \notin Range(f.bonds[c])
    BY <2>1, IfaceIs
  <2>3. PICK c \in DOMAIN f.bonds : q \in Range(f.bonds[c])
    BY <2>2
  <2>4. BridgeIface(f, q) = c
    BY <2>3, IfaceIs
  <2>5. q \in Range(f.bonds[b])
    BY <2>1, <2>3, <2>4
  <2>. QED
    BY <1>2, <2>5, BondedAlike
<1>. QED
  BY <1>1, <1>2

\* What the bridge is told of a port that is used.
LEMMA PvidIs ==
  ASSUME NEW f, IsDeclaration(f), Sound(f), NEW p \in HwPorts(f)
  PROVE  BridgePvid(f, BridgeIface(f, p)) =
           IF PortType(PortCfg(f, p)) = "access" THEN PortCfg(f, p).vlan ELSE 1
<1>1. CASE \A b \in DOMAIN f.bonds : p \notin Range(f.bonds[b])
  <2>1. BridgeIface(f, p) = p /\ BridgeIface(f, p) \notin DOMAIN f.bonds
    BY <1>1, IfaceIs
  <2>. QED
    BY <2>1 DEF BridgePvid
<1>2. ASSUME NEW b \in DOMAIN f.bonds, p \in Range(f.bonds[b])
      PROVE  BridgePvid(f, BridgeIface(f, p)) =
               IF PortType(PortCfg(f, p)) = "access" THEN PortCfg(f, p).vlan ELSE 1
  <2>1. BridgeIface(f, p) = b
    BY <1>2, IfaceIs
  <2>2. Head(f.bonds[b]) \in Range(f.bonds[b])
    <3>1. f.bonds[b] \in Seq(Range(f.bonds[b])) /\ f.bonds[b] # <<>>
      BY DEF IsDeclaration
    <3>2. f.bonds[b][1] \in Range(f.bonds[b]) /\ Head(f.bonds[b]) = f.bonds[b][1]
      BY <3>1
    <3>. QED
      BY <3>2
  <2>3. PortCfg(f, Head(f.bonds[b])) = PortCfg(f, p)
    BY <1>2, <2>2, BondedAlike
  <2>. QED
    BY <2>1, <2>3 DEF BridgePvid
<1>. QED
  BY <1>1, <1>2

LEMMA EntriesAre ==
  ASSUME NEW f, IsDeclaration(f), Sound(f), NEW p \in HwPorts(f), NEW v
  PROVE  /\ BridgeIface(f, p) \in VlanEntry(f, v).untagged <=>
              PortType(PortCfg(f, p)) = "access" /\ PortCfg(f, p).vlan = v
         /\ BridgeIface(f, p) \in VlanEntry(f, v).tagged <=>
              PortType(PortCfg(f, p)) = "trunk" /\ v \in PortCfg(f, p).vlans
<1> DEFINE i == BridgeIface(f, p)
           c == PortCfg(f, p)
           A == {q \in TypedPorts(f, "access") : PortCfg(f, q).vlan = v}
           T == {q \in TypedPorts(f, "trunk") : v \in PortCfg(f, q).vlans}
<1>1. /\ VlanEntry(f, v).untagged = BridgeIfaces(f, A)
      /\ i \in VlanEntry(f, v).tagged <=> i \in BridgeIfaces(f, T)
  <2>1. i # "bridge1"
    BY IfaceIs
  <2>. QED
    BY <2>1 DEF VlanEntry
<1>2. \A q \in HwPorts(f) : BridgeIface(f, q) = i => PortCfg(f, q) = c
  BY IfaceAlike
<1>3. i \in BridgeIfaces(f, A) <=> PortType(c) = "access" /\ c.vlan = v
  <2>1. ASSUME NEW q \in A, BridgeIface(f, q) = i PROVE PortType(c) = "access" /\ c.vlan = v
    <3>1. PortCfg(f, q) = c
      BY <1>2, <2>1 DEF TypedPorts
    <3>. QED
      BY <3>1 DEF TypedPorts
  <2>2. PortType(c) = "access" /\ c.vlan = v => p \in A
    BY DEF TypedPorts
  <2> HIDE DEF A, c
  <2>. QED
    BY <2>1, <2>2 DEF BridgeIfaces
<1>4. i \in BridgeIfaces(f, T) <=> PortType(c) = "trunk" /\ v \in c.vlans
  <2>1. ASSUME NEW q \in T, BridgeIface(f, q) = i PROVE PortType(c) = "trunk" /\ v \in c.vlans
    <3>1. PortCfg(f, q) = c
      BY <1>2, <2>1 DEF TypedPorts
    <3>. QED
      BY <3>1 DEF TypedPorts
  <2>2. PortType(c) = "trunk" /\ v \in c.vlans => p \in T
    BY DEF TypedPorts
  <2> HIDE DEF T, c
  <2>. QED
    BY <2>1, <2>2 DEF BridgeIfaces
<1>. QED
  BY <1>1, <1>3, <1>4

----------------------------------------------------------------------------
(* What has been configured of that                                        *)

\* All lines of a part have been imported.
In(k) == \A h \in 1 .. Full(device.of) : Part(device.of, h) = k => h \in 1 .. device.upto

LEMMA EarlierIn ==
  ASSUME device \in Settled, NEW k \in 1 .. 21
  PROVE  /\ \A i \in 1 .. device.upto : k < Part(device.of, i) => In(k)
         /\ Whole => In(k)
<1>1. /\ device.of \in Fleets /\ device.upto \in Nat /\ Full(device.of) \in Nat
      /\ \A i \in 1 .. device.upto : i \in 1 .. Full(device.of)
  BY DoneIs, ScriptOfIs
<1>2. ASSUME NEW i \in 1 .. device.upto, k < Part(device.of, i),
             NEW h \in 1 .. Full(device.of), Part(device.of, h) = k
      PROVE  h \in 1 .. device.upto
  <2>1. i \in 1 .. Full(device.of) /\ Part(device.of, i) \in 1 .. 21
    BY <1>1, PartIs
  <2>2. i <= h => Part(device.of, i) <= k
    BY <1>1, <1>2, <2>1, PartOrder
  <2>3. ~(i <= h)
    BY <1>2, <2>1, <2>2
  <2>. QED
    BY <1>1, <2>3
<1>3. \A i \in 1 .. device.upto : k < Part(device.of, i) => In(k)
  BY <1>2 DEF In
<1>4. Whole => In(k)
  BY DEF Whole, In
<1>. QED
  BY <1>3, <1>4

\* The rows of a menu are those of its lines.
LEMMA RowsAre ==
  ASSUME device \in Settled
  PROVE  /\ \A i \in 1 .. device.upto :
              ScriptOf[device.of][i].row \in Rows(ScriptOf[device.of][i].menu)
         /\ \A menu : \A r \in Rows(menu) : \E i \in 1 .. device.upto :
              /\ i \in 1 .. Full(device.of)
              /\ ScriptOf[device.of][i].menu = menu /\ ScriptOf[device.of][i].row = r
<1>1. /\ DOMAIN Done = 1 .. device.upto
      /\ \A i \in 1 .. device.upto : i \in 1 .. Full(device.of)
                                     /\ Done[i] = ScriptOf[device.of][i]
  BY DoneIs
<1>2. \A menu : Rows(menu) = {Done[i].row : i \in {k \in 1 .. device.upto : Done[k].menu = menu}}
  BY <1>1 DEF Rows
<1>. QED
  BY <1>1, <1>2

LEMMA LineRow ==
  ASSUME device \in Settled, NEW i \in 1 .. device.upto
  PROVE  ScriptOf[device.of][i].row \in Rows(ScriptOf[device.of][i].menu)
  BY RowsAre

LEMMA RowLine ==
  ASSUME device \in Settled, NEW menu, NEW r \in Rows(menu)
  PROVE  \E i \in 1 .. device.upto :
           /\ i \in 1 .. Full(device.of)
           /\ ScriptOf[device.of][i].menu = menu /\ ScriptOf[device.of][i].row = r
  BY RowsAre

LEMMA ListIn ==
  ASSUME device \in Settled, NEW k \in 1 .. 21, In(k),
         NEW g, Lists(PartsOf(device.of)[k], g), NEW x \in DOMAIN g
  PROVE  g[x].row \in Rows(g[x].menu)
<1>1. device.of \in Fleets
  BY DoneIs
<1>2. PICK i \in 1 .. Full(device.of) :
        Part(device.of, i) = k /\ ScriptOf[device.of][i] = g[x]
  BY <1>1, ListedAll
<1>3. i \in 1 .. device.upto
  BY <1>2 DEF In
<1>. QED
  BY <1>2, <1>3, LineRow

\* The menus of the account's lines.
LEMMA AccountMenus ==
  ASSUME NEW f \in Fleets, NEW i \in 1 .. Full(f), Part(f, i) = 2
  PROVE  ScriptOf[f][i].menu \in {"/user", "/ip service", "/file", "/user ssh-keys"}
<1> DEFINE l == ScriptOf[f][i]
<1>1. \/ MakesUser(l) \/ AllowsSsh(l)
      \/ \E k \in Keys : PutsKey(l, k) \/ ImportsKey(l, k) \/ RemovesKey(l, k)
  BY AccountLinesAre
<1> HIDE DEF l
<1>2. l.menu \in {"/user", "/ip service", "/file", "/user ssh-keys"}
  BY <1>1 DEF MakesUser, AllowsSsh, PutsKey, ImportsKey, RemovesKey, Fits
<1>. QED
  BY <1>2 DEF l

\* The part and the row of a line, by its menu.
LEMMA MenuIs ==
  ASSUME NEW f \in Fleets, NEW i \in 1 .. Full(f)
  PROVE  LET l == ScriptOf[f][i] IN
         /\ l.menu = "/interface ethernet" =>
              \/ Part(f, i) = 4 /\ \E p \in SetPorts(Doc(f)) :
                   l.row = [port |-> p, l2mtu |-> Doc(f).interfaces[p].l2mtu]
              \/ Part(f, i) = 20 /\ \E p \in DisabledPorts(Doc(f)) : l.row = [disabled |-> p]
         /\ l.menu = "/interface bonding" =>
              \E b \in DOMAIN Doc(f).bonds :
                l.row = [bond |-> b, slaves |-> Range(Doc(f).bonds[b])]
         /\ l.menu = "/interface bridge" /\ l.row = "filtering" => Part(f, i) = 21
         /\ l.menu = "/interface bridge port" =>
              \E h \in DOMAIN Doc(f).ports : l.row = [iface |-> h, pvid |-> Doc(f).ports[h]]
         /\ l.menu = "/interface bridge vlan" =>
              \E v \in DOMAIN Doc(f).vlans :
                l.row = [vlan |-> v, tagged |-> Doc(f).vlans[v].tagged,
                         untagged |-> Doc(f).vlans[v].untagged]
         /\ l.menu = "/ip address" => Part(f, i) = 12
         /\ l.menu = "/interface ethernet switch rule" =>
              \E j \in 1 .. Len(Doc(f).rules) :
                l.row = Doc(f).rules[j] /\ i = Off(f)[19] + j
<1> DEFINE l == ScriptOf[f][i]
           k == Part(f, i)
<1>0. FitsPart(l, f, i, k)
  BY LinesAre
<1> HIDE DEF l, k
<1>1. k \in 1 .. 21
  BY PartIs DEF k
<1>2. k = 2 => l.menu \in {"/user", "/ip service", "/file", "/user ssh-keys"}
  BY AccountMenus DEF l, k
<1>3. /\ k = 1 => l.menu = "/system identity"
      /\ k = 3 => l.menu \in {"/system clock", "/ip dns", "/ip ssh", "/snmp"}
  BY <1>0 DEF FitsPart, Fits
<1>4. ASSUME k = 4
      PROVE  /\ l.menu = "/interface ethernet"
             /\ \E p \in SetPorts(Doc(f)) :
                  l.row = [port |-> p, l2mtu |-> Doc(f).interfaces[p].l2mtu]
  <2>1. PICK p \in SetPorts(Doc(f)) :
          /\ Fits(l, "/interface ethernet", {Port(p)}, {})
          /\ l.row = [port |-> p, l2mtu |-> Doc(f).interfaces[p].l2mtu]
    BY <1>4, <1>0 DEF FitsPart
  <2>. QED
    BY <2>1 DEF Fits
<1>5. k = 5 =>
        /\ l.menu = "/interface bonding"
        /\ \E b \in DOMAIN Doc(f).bonds :
            l.row = [bond |-> b, slaves |-> Range(Doc(f).bonds[b])]
  BY <1>0 DEF FitsPart, Fits
<1>6. k = 6 =>
        /\ l.menu = "/interface bridge"
        /\ l.row = "bridge"
  BY <1>0 DEF FitsPart, Fits
<1>7. ASSUME k = 7
      PROVE  /\ l.menu = "/interface bridge port"
             /\ \E h \in DOMAIN Doc(f).ports :
                  l.row = [iface |-> h, pvid |-> Doc(f).ports[h]]
  <2>1. PICK h \in DOMAIN Doc(f).ports :
          /\ Fits(l, "/interface bridge port", {Bridge, Member(Doc(f), h)}, {})
          /\ l.row = [iface |-> h, pvid |-> Doc(f).ports[h]]
    BY <1>7, <1>0 DEF FitsPart
  <2>. QED
    BY <2>1 DEF Fits
<1>8. ASSUME k = 8
      PROVE  /\ l.menu = "/interface bridge vlan"
             /\ \E v \in DOMAIN Doc(f).vlans :
                  l.row = [vlan |-> v, tagged |-> Doc(f).vlans[v].tagged,
                   untagged |-> Doc(f).vlans[v].untagged]
  <2>1. PICK v \in DOMAIN Doc(f).vlans :
          /\ Fits(l, "/interface bridge vlan",
                  {Bridge} \union {Member(Doc(f), h) :
                        h \in Doc(f).vlans[v].tagged \union Doc(f).vlans[v].untagged},
                  {})
          /\ l.row = [vlan |-> v, tagged |-> Doc(f).vlans[v].tagged,
                   untagged |-> Doc(f).vlans[v].untagged]
    BY <1>8, <1>0 DEF FitsPart
  <2>. QED
    BY <2>1 DEF Fits
<1>9. /\ k = 9 => l.menu = "/interface vlan"
      /\ k = 10 => l.menu = "/interface ethernet switch"
      /\ k = 12 => l.menu = "/ip address"
      /\ k = 13 => l.menu = "/ip route"
      /\ k = 14 => l.menu = "/ip dhcp-relay"
  BY <1>0 DEF FitsPart, Fits
<1>10. k = 11 => l.menu \in {"/interface ethernet switch l3hw-settings", "/ip settings",
                                      "/ipv6 settings"}
  BY <1>0 DEF FitsPart, Fits
<1>11. /\ k = 15 => l.menu = "/ipv6 address"
       /\ k = 16 => l.menu = "/ipv6 nd"
       /\ k = 17 => l.menu = "/ipv6 route"
       /\ k = 18 => l.menu = "/ipv6 dhcp-client"
       /\ k = 21 => l.menu = "/interface bridge"
  BY <1>0 DEF FitsPart, Fits
<1>12. k = 19 =>
        /\ l.menu = "/interface ethernet switch rule"
        /\ \E j \in 1 .. Len(Doc(f).rules) :
            l.row = Doc(f).rules[j] /\ i = Off(f)[19] + j
  BY <1>0 DEF FitsPart, Fits
<1>13. ASSUME k = 20
      PROVE  /\ l.menu = "/interface ethernet"
             /\ \E p \in DisabledPorts(Doc(f)) :
                  l.row = [disabled |-> p]
  <2>1. PICK p \in DisabledPorts(Doc(f)) :
          /\ Fits(l, "/interface ethernet", {Port(p)}, {})
          /\ l.row = [disabled |-> p]
    BY <1>13, <1>0 DEF FitsPart
  <2>. QED
    BY <2>1 DEF Fits
<1>14. k \in {1, 2, 3, 4, 5, 6, 7, 8, 9, 10, 11, 12, 13, 14, 15, 16, 17, 18, 19, 20, 21}
  BY <1>1
<1>. QED
  BY <1>2, <1>3, <1>4, <1>5, <1>6, <1>7, <1>8, <1>9, <1>10, <1>11, <1>12, <1>13, <1>14 DEF l, k

\* The account's lines let the administrators in.
LEMMA WayIn ==
  ASSUME device \in Settled, Sound(Declared[device.of]), In(2)
  PROVE  "ssh" \in Rows("/ip service") /\ "key" \in Rows("/user ssh-keys")
<1> DEFINE f == device.of
           t == AccountLines(Doc(f))
<1>1. f \in Fleets /\ IsDocument(Doc(f))
  BY DoneIs, ScriptOfIs
<1>2. Doc(f).keys \subseteq Keys /\ Doc(f).keys # {}
  <2>1. Doc(f).keys = Declared[f].keys
    BY DEF Doc, Project
  <2>2. Declared[f].keys \subseteq Keys /\ Declared[f].keys # {}
    BY <1>1, ScriptOfIs DEF IsDeclaration, Sound
  <2>. QED
    BY <2>1, <2>2
<1>3. /\ \E j \in 1 .. Len(t) : AllowsSsh(t[j])
      /\ \E j \in 1 .. Len(t) : \E k : ImportsKey(t[j], k)
  BY <1>1, <1>2, AccountSteps
<1>4. PartsOf(f)[2] = t
  BY PartsAre
<1> HIDE DEF t, f
<1>5. ASSUME NEW j \in 1 .. Len(t)
      PROVE  /\ Off(f)[2] + j \in 1 .. device.upto
             /\ ScriptOf[f][Off(f)[2] + j] = t[j]
  <2>1. /\ Off(f)[2] + j \in 1 .. Full(f) /\ Part(f, Off(f)[2] + j) = 2
        /\ ScriptOf[f][Off(f)[2] + j] = t[j]
    BY <1>1, <1>4, LineOf
  <2>. QED
    BY <2>1 DEF In, f
<1>6. PICK j \in 1 .. Len(t) : AllowsSsh(t[j])
  BY <1>3
<1>7. t[j].menu = "/ip service" /\ t[j].row = "ssh"
  BY <1>6 DEF AllowsSsh, Fits
<1>8. "ssh" \in Rows("/ip service")
  <2>1. ScriptOf[f][Off(f)[2] + j].row \in Rows(ScriptOf[f][Off(f)[2] + j].menu)
    BY <1>5, LineRow DEF f
  <2>. QED
    BY <1>5, <1>7, <2>1
<1>9. PICK h \in 1 .. Len(t) : \E k : ImportsKey(t[h], k)
  BY <1>3
<1>10. t[h].menu = "/user ssh-keys" /\ t[h].row = "key"
  BY <1>9 DEF ImportsKey, Fits
<1>11. "key" \in Rows("/user ssh-keys")
  <2>1. ScriptOf[f][Off(f)[2] + h].row \in Rows(ScriptOf[f][Off(f)[2] + h].menu)
    BY <1>5, LineRow DEF f
  <2>. QED
    BY <1>5, <1>10, <2>1
<1>. QED
  BY <1>8, <1>11

\* The document's parts that the ports depend on.
LEMMA DocIs ==
  ASSUME NEW f \in Fleets
  PROVE  LET e == Declared[f]
             d == Doc(f)
         IN  /\ d.model = e.model /\ d.bonds = e.bonds
             /\ DOMAIN d.interfaces = ActivePorts(e)
             /\ \A p \in ActivePorts(e) :
                  d.interfaces[p] = [enabled |-> TRUE, l2mtu |-> PortL2mtu(e)]
             /\ DOMAIN d.ports = BridgeIfaces(e, ActivePorts(e))
             /\ \A i \in DOMAIN d.ports : d.ports[i] = BridgePvid(e, i)
             /\ DOMAIN d.vlans = UsedVlans(e)
             /\ \A v \in UsedVlans(e) : d.vlans[v] = VlanEntry(e, v)
             /\ d.addresses = e.addresses /\ d.rules = SwitchRules(e)
             /\ d.filtering /\ d.chip = e.chip
  BY DEF Doc, Project

\* Once the bonds are made, a port is reached by its interface.
LEMMA CarrierIs ==
  ASSUME device \in Settled, Sound(Declared[device.of]), In(5),
         NEW p \in HwPorts(Declared[device.of])
  PROVE  Carrier(p) = BridgeIface(Declared[device.of], p)
<1> DEFINE f == device.of
           e == Declared[f]
           row(b) == [bond |-> b, slaves |-> Range(e.bonds[b])]
           B == {r \in Rows("/interface bonding") : p \in r.slaves}
<1>1. f \in Fleets /\ IsDeclaration(e) /\ Doc(f).bonds = e.bonds
  BY DoneIs, ScriptOfIs, DocIs
<1>2. ASSUME NEW b \in DOMAIN e.bonds PROVE row(b) \in Rows("/interface bonding")
  <2> DEFINE g == BondList(Doc(f))
  <2>1. Lists(PartsOf(f)[5], g) /\ b \in DOMAIN g
    BY <1>1, ScriptOfIs, PartsAre, BondsListed DEF BondList
  <2>2. g[b].row = row(b) /\ g[b].menu = "/interface bonding"
    BY <1>1, <2>1 DEF BondList, Line
  <2> HIDE DEF g
  <2>3. g[b].row \in Rows(g[b].menu)
    BY <2>1, ListIn
  <2>. QED
    BY <2>2, <2>3
<1>3. ASSUME NEW r \in Rows("/interface bonding") PROVE \E b \in DOMAIN e.bonds : r = row(b)
  <2>1. PICK i \in 1 .. Full(f) :
          ScriptOf[f][i].menu = "/interface bonding" /\ ScriptOf[f][i].row = r
    BY RowsAre, ZenonT(30)
  <2>2. \E b \in DOMAIN Doc(f).bonds :
          ScriptOf[f][i].row = [bond |-> b, slaves |-> Range(Doc(f).bonds[b])]
    BY <1>1, <2>1, MenuIs
  <2>. QED
    BY <1>1, <2>1, <2>2
<1>4. Carrier(p) = IF B = {} THEN p ELSE (CHOOSE r \in B : TRUE).bond
  BY DEF Carrier
<1>5. CASE \A b \in DOMAIN e.bonds : p \notin Range(e.bonds[b])
  <2>1. BridgeIface(e, p) = p
    BY <1>1, <1>5, IfaceIs
  <2>2. ASSUME NEW r \in B PROVE FALSE
    <3>1. PICK b \in DOMAIN e.bonds : r = row(b)
      BY <1>3
    <3>2. p \in Range(e.bonds[b])
      BY <3>1
    <3>. QED
      BY <1>5, <3>2
  <2> HIDE DEF B
  <2>. QED
    BY <1>4, <2>1, <2>2
<1>6. ASSUME NEW b \in DOMAIN e.bonds, p \in Range(e.bonds[b])
      PROVE  Carrier(p) = BridgeIface(e, p)
  <2>1. row(b) \in B
    BY <1>2, <1>6
  <2>2. ASSUME NEW r \in B PROVE r.bond = BridgeIface(e, p)
    <3>1. PICK c \in DOMAIN e.bonds : r = row(c)
      BY <1>3
    <3>2. r.bond = c /\ p \in Range(e.bonds[c])
      BY <3>1
    <3>3. BridgeIface(e, p) = c
      BY <1>1, <3>2, IfaceIs
    <3>. QED
      BY <3>2, <3>3
  <2> HIDE DEF B
  <2>3. (CHOOSE r \in B : TRUE) \in B /\ B # {}
    BY <2>1
  <2>. QED
    BY <1>4, <2>2, <2>3
<1>. QED
  BY <1>5, <1>6

LEMMA PvidsAre ==
  ASSUME device \in Settled, Sound(Declared[device.of]), In(7),
         NEW p \in HwPorts(Declared[device.of])
  PROVE  LET e == Declared[device.of]
             c == PortCfg(e, p)
         IN  Pvids(BridgeIface(e, p)) =
               IF p \notin ActivePorts(e) THEN {}
               ELSE {IF PortType(c) = "access" THEN c.vlan ELSE 1}
<1> DEFINE f == device.of
           e == Declared[f]
           i == BridgeIface(e, p)
           d == Doc(f)
           row(h) == [iface |-> h, pvid |-> d.ports[h]]
           R == Rows("/interface bridge port")
<1>1. /\ f \in Fleets /\ IsDeclaration(e) /\ DOMAIN d.ports = BridgeIfaces(e, ActivePorts(e))
      /\ \A h \in DOMAIN d.ports : d.ports[h] = BridgePvid(e, h)
  BY DoneIs, ScriptOfIs, DocIs
<1>2. ASSUME NEW h \in DOMAIN d.ports PROVE row(h) \in R
  <2> DEFINE g == BridgePortList(d)
  <2>1. Lists(PartsOf(f)[7], g) /\ h \in DOMAIN g
    BY <1>1, ScriptOfIs, PartsAre, BridgePortsListed DEF BridgePortList
  <2>2. g[h].row = row(h) /\ g[h].menu = "/interface bridge port"
    BY <2>1 DEF BridgePortList, Line
  <2> HIDE DEF g
  <2>3. g[h].row \in Rows(g[h].menu)
    BY <2>1, ListIn
  <2>. QED
    BY <2>2, <2>3
<1>3. ASSUME NEW r \in R PROVE \E h \in DOMAIN d.ports : r = row(h)
  <2>1. PICK j \in 1 .. Full(f) :
          ScriptOf[f][j].menu = "/interface bridge port" /\ ScriptOf[f][j].row = r
    BY RowsAre, ZenonT(30)
  <2>2. \E h \in DOMAIN Doc(f).ports :
          ScriptOf[f][j].row = [iface |-> h, pvid |-> Doc(f).ports[h]]
    BY <1>1, <2>1, MenuIs
  <2>. QED
    BY <2>1, <2>2
<1>4. i \in DOMAIN d.ports <=> p \in ActivePorts(e)
  <2>1. p \in ActivePorts(e) => i \in DOMAIN d.ports
    BY <1>1 DEF BridgeIfaces
  <2>2. ASSUME i \in DOMAIN d.ports PROVE p \in ActivePorts(e)
    <3>1. PICK q \in ActivePorts(e) : BridgeIface(e, q) = i
      BY <1>1, <2>2 DEF BridgeIfaces
    <3>2. PortCfg(e, q) = PortCfg(e, p) /\ q \in HwPorts(e)
      BY <1>1, <3>1, IfaceAlike DEF ActivePorts
    <3>. QED
      BY <3>1, <3>2 DEF ActivePorts, TypedPorts
  <2>. QED
    BY <2>1, <2>2
<1>5. Pvids(i) = {r.pvid : r \in {r \in R : r.iface = i}}
  BY DEF Pvids
<1>6. \A h : row(h).iface = h /\ row(h).pvid = d.ports[h]
  OBVIOUS
<1> HIDE DEF R, row
<1>7. Pvids(i) = IF i \in DOMAIN d.ports THEN {d.ports[i]} ELSE {}
  BY <1>2, <1>3, <1>5, <1>6
<1>8. d.ports[i] = BridgePvid(e, i) \/ i \notin DOMAIN d.ports
  BY <1>1
<1>9. BridgePvid(e, i) = IF PortType(PortCfg(e, p)) = "access" THEN PortCfg(e, p).vlan ELSE 1
  BY <1>1, PvidIs
<1>. QED
  BY <1>4, <1>7, <1>8, <1>9

\* Once the VLAN table is in, it has what the entries of the declaration say.
LEMMA VlanRowsAre ==
  ASSUME device \in Settled, In(8)
  PROVE  LET e == Declared[device.of] IN
         \A i : /\ Tagged(i) = {v \in UsedVlans(e) : i \in VlanEntry(e, v).tagged}
                /\ Untagged(i) = {v \in UsedVlans(e) : i \in VlanEntry(e, v).untagged}
<1> DEFINE f == device.of
           e == Declared[f]
           d == Doc(f)
           row(v) == [vlan |-> v, tagged |-> d.vlans[v].tagged, untagged |-> d.vlans[v].untagged]
           R == Rows("/interface bridge vlan")
<1>1. /\ f \in Fleets /\ DOMAIN d.vlans = UsedVlans(e)
      /\ \A v \in UsedVlans(e) : d.vlans[v] = VlanEntry(e, v)
  BY DoneIs, DocIs
<1>2. ASSUME NEW v \in UsedVlans(e) PROVE row(v) \in R
  <2> DEFINE g == VlanTableList(d)
  <2>1. Lists(PartsOf(f)[8], g) /\ v \in DOMAIN g
    BY <1>1, ScriptOfIs, PartsAre, VlanTableListed DEF VlanTableList
  <2>2. g[v].row = row(v) /\ g[v].menu = "/interface bridge vlan"
    BY <2>1 DEF VlanTableList, Line
  <2> HIDE DEF g
  <2>3. g[v].row \in Rows(g[v].menu)
    BY <2>1, ListIn
  <2>. QED
    BY <2>2, <2>3
<1>3. ASSUME NEW r \in R PROVE \E v \in UsedVlans(e) : r = row(v)
  <2>1. PICK j \in 1 .. Full(f) :
          ScriptOf[f][j].menu = "/interface bridge vlan" /\ ScriptOf[f][j].row = r
    BY RowsAre, ZenonT(30)
  <2>2. \E v \in DOMAIN Doc(f).vlans :
          ScriptOf[f][j].row = [vlan |-> v, tagged |-> Doc(f).vlans[v].tagged,
                                untagged |-> Doc(f).vlans[v].untagged]
    BY <1>1, <2>1, MenuIs
  <2>. QED
    BY <1>1, <2>1, <2>2
<1>4. \A v \in UsedVlans(e) : /\ row(v).vlan = v /\ row(v).tagged = VlanEntry(e, v).tagged
                              /\ row(v).untagged = VlanEntry(e, v).untagged
  BY <1>1
<1>5. ASSUME NEW i
      PROVE  /\ Tagged(i) = {r.vlan : r \in {r \in R : i \in r.tagged}}
             /\ Untagged(i) = {r.vlan : r \in {r \in R : i \in r.untagged}}
  BY DEF Tagged, Untagged, VlanRows
<1> HIDE DEF R, row
<1>6. ASSUME NEW i
      PROVE  Tagged(i) = {v \in UsedVlans(e) : i \in VlanEntry(e, v).tagged}
  <2>1. Tagged(i) = {r.vlan : r \in {r \in R : i \in r.tagged}}
    BY <1>5
  <2>. QED
    BY <1>2, <1>3, <1>4, <2>1
<1>7. ASSUME NEW i
      PROVE  Untagged(i) = {v \in UsedVlans(e) : i \in VlanEntry(e, v).untagged}
  <2>1. Untagged(i) = {r.vlan : r \in {r \in R : i \in r.untagged}}
    BY <1>5
  <2>. QED
    BY <1>2, <1>3, <1>4, <2>1
<1>. QED
  BY <1>6, <1>7

LEMMA PortVlansAre ==
  ASSUME device \in Settled, Sound(Declared[device.of]), In(8),
         NEW p \in HwPorts(Declared[device.of])
  PROVE  LET e == Declared[device.of]
             c == PortCfg(e, p)
             i == BridgeIface(e, p)
         IN  /\ Tagged(i) = IF PortType(c) = "trunk" THEN c.vlans ELSE {}
             /\ Untagged(i) = IF PortType(c) = "access" THEN {c.vlan} ELSE {}
<1> DEFINE e == Declared[device.of]
           c == PortCfg(e, p)
           i == BridgeIface(e, p)
<1>1. IsDeclaration(e)
  BY DoneIs, ScriptOfIs
<1>2. /\ Tagged(i) = {v \in UsedVlans(e) : i \in VlanEntry(e, v).tagged}
      /\ Untagged(i) = {v \in UsedVlans(e) : i \in VlanEntry(e, v).untagged}
  BY VlanRowsAre
<1>3. \A v : /\ i \in VlanEntry(e, v).untagged <=> PortType(c) = "access" /\ c.vlan = v
             /\ i \in VlanEntry(e, v).tagged <=> PortType(c) = "trunk" /\ v \in c.vlans
  BY <1>1, EntriesAre
<1>4. /\ PortType(c) = "access" => c.vlan \in UsedVlans(e)
      /\ PortType(c) = "trunk" => c.vlans \subseteq UsedVlans(e)
  BY DEF UsedVlans, TypedPorts
<1> HIDE DEF c, i, e
<1>5. Tagged(i) = IF PortType(c) = "trunk" THEN c.vlans ELSE {}
  BY <1>2, <1>3, <1>4
<1>6. Untagged(i) = IF PortType(c) = "access" THEN {c.vlan} ELSE {}
  BY <1>2, <1>3, <1>4
<1>. QED
  BY <1>5, <1>6 DEF c, i, e

\* The management VLAN reaches the switch itself.
LEMMA BridgeTagged ==
  ASSUME device \in Settled, Sound(Declared[device.of]), In(8)
  PROVE  VlanOf[MgmtNet] \in Tagged("bridge1")
<1> DEFINE e == Declared[device.of]
           v == VlanOf[MgmtNet]
<1>1. v \in UsedVlans(e) /\ v \in Vlans(e.addresses)
  BY DEF UsedVlans, Vlans, Sound
<1>2. "bridge1" \in VlanEntry(e, v).tagged
  BY <1>1 DEF VlanEntry
<1>3. Tagged("bridge1") = {w \in UsedVlans(e) : "bridge1" \in VlanEntry(e, w).tagged}
  BY VlanRowsAre
<1>. QED
  BY <1>1, <1>2, <1>3

LEMMA AddressIn ==
  ASSUME device \in Settled, In(12), NEW n \in Declared[device.of].addresses
  PROVE  [net |-> n] \in Rows("/ip address")
<1> DEFINE f == device.of
           g == AddressList(Doc(f))
<1>1. f \in Fleets /\ n \in Doc(f).addresses
  BY DoneIs, DocIs
<1>2. Lists(PartsOf(f)[12], g) /\ n \in DOMAIN g
  BY <1>1, ScriptOfIs, PartsAre, AddressesListed DEF AddressList
<1>3. g[n].row = [net |-> n] /\ g[n].menu = "/ip address"
  BY <1>2 DEF AddressList, EmitAdd, Line
<1> HIDE DEF g
<1>4. g[n].row \in Rows(g[n].menu)
  BY <1>2, ListIn
<1>. QED
  BY <1>3, <1>4

----------------------------------------------------------------------------
(* The rules                                                               *)

\* Where the rules of a VLAN are: one after another, or nowhere.
LEMMA RuleLinesAre ==
  ASSUME NEW f \in Fleets, Sound(Declared[f]), NEW n \in Nets
  PROVE  LET e == Declared[f]
             r == Doc(f).rules
             m == Matches(e)
         IN  \/ /\ n \notin e.denied \intersect e.addresses
                /\ \A x \in 1 .. Len(r) : r[x].vlan # VlanOf[n]
             \/ /\ n \in e.denied \intersect e.addresses
                /\ \E a \in Nat :
                     /\ \A j \in 1 .. Len(m) :
                          /\ a + j \in 1 .. Len(r)
                          /\ r[a + j] = [vlan |-> VlanOf[n], says |-> m[j]]
                     /\ \A x \in 1 .. Len(r) :
                          r[x].vlan = VlanOf[n] => \E j \in 1 .. Len(m) : x = a + j
<1> DEFINE e == Declared[f]
           D == e.denied \intersect e.addresses
           S == Vlans(D)
           r == Doc(f).rules
           m == Matches(e)
           k == Len(m)
<1>1. IsDeclaration(e) /\ r = SwitchRules(e) /\ (D # {} => e.chip)
  BY ScriptOfIs, DocIs DEF Sound
<1>2. VlanOf[n] \in S <=> n \in D
  <2>1. D \subseteq Nets
    BY <1>1 DEF IsDeclaration
  <2>. QED
    BY <2>1, NetAssumption DEF Vlans
<1>3. CASE ~e.chip
  <2>1. Len(r) = 0
    <3>1. r = <<>>
      BY <1>1, <1>3 DEF SwitchRules
    <3>. QED
      BY <3>1, EmptySeq
  <2> HIDE DEF r, e
  <2>2. \A j \in 1 .. Len(r) : FALSE
    BY <2>1
  <2>. QED
    BY <1>1, <1>3, <2>2 DEF r, e
<1>4. CASE e.chip
  <2>1. PICK c \in Nat : \E q : Blocks(r, S, m, c, q)
    BY <1>1, <1>4, RulesAre
  <2>2. PICK q : Blocks(r, S, m, c, q)
    BY <2>1
  <2>3. k \in Nat \ {0}
    BY <1>1, MatchesAre
  <2> HIDE DEF r, S, D, e, m
  <2>4. /\ Len(r) = k * c /\ q \in [1 .. c -> S]
        /\ \A i, j \in 1 .. c : q[i] = q[j] => i = j
        /\ \A v \in S : \E i \in 1 .. c : q[i] = v
        /\ \A i \in 1 .. c, j \in 1 .. k : r[k * (i - 1) + j] = [vlan |-> q[i], says |-> m[j]]
    BY <2>2 DEF Blocks
  <2> HIDE DEF k
  <2>5. ASSUME NEW x \in 1 .. Len(r)
        PROVE  \E i \in 1 .. c, j \in 1 .. k : x = k * (i - 1) + j /\ r[x].vlan = q[i]
    <3>0. x \in 1 .. k * c
      BY <2>4
    <3>1. PICK i \in 1 .. c, j \in 1 .. k : x = k * (i - 1) + j
      BY <2>3, <3>0, BlockOf
    <3>2. r[x] = [vlan |-> q[i], says |-> m[j]]
      BY <2>4, <3>1
    <3>. QED
      BY <3>1, <3>2
  <2>6. ASSUME n \notin D, NEW x \in 1 .. Len(r) PROVE r[x].vlan # VlanOf[n]
    BY <1>2, <2>4, <2>5, <2>6
  <2>7. ASSUME n \in D
        PROVE  \E a \in Nat :
                 /\ \A j \in 1 .. k : /\ a + j \in 1 .. Len(r)
                                      /\ r[a + j] = [vlan |-> VlanOf[n], says |-> m[j]]
                 /\ \A x \in 1 .. Len(r) :
                      r[x].vlan = VlanOf[n] => \E j \in 1 .. k : x = a + j
    <3>1. PICK i \in 1 .. c : q[i] = VlanOf[n]
      BY <1>2, <2>4, <2>7
    <3> DEFINE a == k * (i - 1)
    <3>2. a \in Nat
      BY <2>3, SMT
    <3>3. ASSUME NEW j \in 1 .. k
          PROVE  a + j \in 1 .. Len(r) /\ r[a + j] = [vlan |-> VlanOf[n], says |-> m[j]]
      <4>1. a + j \in 1 .. k * c
        BY <2>3, BlockAt
      <4>2. r[a + j] = [vlan |-> q[i], says |-> m[j]]
        BY <2>4
      <4>. QED
        BY <2>4, <3>1, <4>1, <4>2
    <3>4. ASSUME NEW x \in 1 .. Len(r), r[x].vlan = VlanOf[n]
          PROVE  \E j \in 1 .. k : x = a + j
      <4>1. PICK h \in 1 .. c, j \in 1 .. k : x = k * (h - 1) + j /\ r[x].vlan = q[h]
        BY <2>5
      <4>2. h = i
        BY <2>4, <3>1, <3>4, <4>1
      <4>. QED
        BY <4>1, <4>2
    <3> HIDE DEF a
    <3>. QED
      BY <3>2, <3>3, <3>4
  <2>. QED
    BY <2>6, <2>7 DEF r, D, e, m, k
<1>. QED
  BY <1>1, <1>3, <1>4 DEF IsDeclaration

\* The rules that have been imported.
LEMMA RulesIn ==
  ASSUME device \in Settled
  PROVE  LET f == device.of
             r == Doc(f).rules
             o == Off(f)[19]
         IN  /\ o \in Nat /\ Len(r) \in Nat
             /\ \A i \in 1 .. device.upto :
                  ScriptOf[f][i].menu = "/interface ethernet switch rule" =>
                    \E j \in 1 .. Len(r) : i = o + j /\ ScriptOf[f][i].row = r[j]
             /\ \A j \in 1 .. Len(r) :
                  /\ ScriptOf[f][o + j].menu = "/interface ethernet switch rule"
                  /\ ScriptOf[f][o + j].row = r[j]
                  /\ o + j \in 1 .. Full(f)
<1> DEFINE f == device.of
           r == Doc(f).rules
           o == Off(f)[19]
<1>1. f \in Fleets /\ IsDocument(Doc(f)) /\ \A i \in 1 .. device.upto : i \in 1 .. Full(f)
  BY DoneIs, ScriptOfIs
<1>2. /\ PartsOf(f)[19] = RuleLines(Doc(f)) /\ Len(RuleLines(Doc(f))) = Len(r)
      /\ o \in Nat /\ Len(r) \in Nat
  <2>1. PartsOf(f)[19] = RuleLines(Doc(f))
    BY PartsAre
  <2>2. Len(RuleLines(Doc(f))) = Len(r)
    BY <1>1, RulesListed
  <2>3. o \in Nat /\ Len(PartsOf(f)[19]) \in Nat
    BY <1>1, ScriptOfIs DEF Laid
  <2>. QED
    BY <2>1, <2>2, <2>3
<1>3. ASSUME NEW i \in 1 .. device.upto,
             ScriptOf[f][i].menu = "/interface ethernet switch rule"
      PROVE  \E j \in 1 .. Len(r) : i = o + j /\ ScriptOf[f][i].row = r[j]
  BY <1>1, <1>3, MenuIs
<1>4. ASSUME NEW j \in 1 .. Len(r)
      PROVE  /\ ScriptOf[f][o + j].menu = "/interface ethernet switch rule"
             /\ ScriptOf[f][o + j].row = r[j]
             /\ o + j \in 1 .. Full(f)
  <2>1. o + j \in 1 .. Full(f) /\ ScriptOf[f][o + j] = RuleLines(Doc(f))[j]
    BY <1>1, <1>2, LineOf
  <2>2. /\ RuleLines(Doc(f))[j].menu = "/interface ethernet switch rule"
        /\ RuleLines(Doc(f))[j].row = r[j]
    <3> DEFINE given == {"switch", "vlan-id", r[j].says[1], "comment"}
               row == r[j]
               l == RuleLines(Doc(f))[j]
    <3>1. l = EmitAdd("/interface ethernet switch rule", given, {Chip}, {}, row)
      BY <1>1, RulesListed
    <3> HIDE DEF given, row, l, r, o, f
    <3>3. EmitAdd("/interface ethernet switch rule", given, {Chip}, {}, row) =
            [menu |-> "/interface ethernet switch rule",
             props |-> Rendered("/interface ethernet switch rule", given), uses |-> {Chip},
             makes |-> {}, drops |-> {}, caught |-> FALSE, row |-> row]
      BY Zenon DEF EmitAdd, Line
    <3>4. l = [menu |-> "/interface ethernet switch rule",
               props |-> Rendered("/interface ethernet switch rule", given), uses |-> {Chip},
               makes |-> {}, drops |-> {}, caught |-> FALSE, row |-> row]
      BY <3>1, <3>3, Zenon
    <3>2. l.menu = "/interface ethernet switch rule" /\ l.row = row
      BY <3>4
    <3>. QED
      BY <3>2 DEF row, l
  <2>. QED
    BY <2>1, <2>2
<1>. QED
  BY <1>2, <1>3, <1>4

\* First match: what drops is met after all that lets a declared prefix through,
\* at any point of an import.
LEMMA DroppedIs ==
  ASSUME device \in Settled, Sound(Declared[device.of]), NEW n \in Nets,
         NEW dst \in Destinations
  PROVE  LET e == Declared[device.of]
             denied == n \in e.denied \intersect e.addresses /\ dst \intersect Inside(e) = {}
         IN  /\ Dropped(VlanOf[n], dst) => denied
             /\ Whole /\ denied => Dropped(VlanOf[n], dst)
<1> DEFINE f == device.of
           e == Declared[f]
           v == VlanOf[n]
           r == Doc(f).rules
           o == Off(f)[19]
           m == Matches(e)
           k == Len(m)
           M == Matching(v, dst)
<1>1. Dropped(v, dst) <=> \E i \in M : Done[i].row.says = Drop /\ \A h \in M : i <= h
  BY DEF Dropped
<1>2. /\ f \in Fleets /\ device.upto \in Nat /\ DOMAIN Done = 1 .. device.upto
      /\ \A i \in 1 .. device.upto : Done[i] = ScriptOf[f][i]
      /\ Whole => device.upto = Full(f)
  BY DoneIs DEF Whole
<1>3. /\ o \in Nat /\ Len(r) \in Nat
      /\ \A i \in 1 .. device.upto :
           Done[i].menu = "/interface ethernet switch rule" =>
             \E x \in 1 .. Len(r) : i = o + x /\ Done[i].row = r[x]
      /\ \A x \in 1 .. Len(r) : o + x \in 1 .. device.upto =>
           Done[o + x].menu = "/interface ethernet switch rule" /\ Done[o + x].row = r[x]
      /\ Whole => \A x \in 1 .. Len(r) : o + x \in 1 .. device.upto
  <2>1. /\ o \in Nat /\ Len(r) \in Nat
        /\ \A i \in 1 .. device.upto :
             ScriptOf[f][i].menu = "/interface ethernet switch rule" =>
               \E j \in 1 .. Len(r) : i = o + j /\ ScriptOf[f][i].row = r[j]
        /\ \A j \in 1 .. Len(r) :
             /\ ScriptOf[f][o + j].menu = "/interface ethernet switch rule"
             /\ ScriptOf[f][o + j].row = r[j]
             /\ o + j \in 1 .. Full(f)
    BY RulesIn
  <2> HIDE DEF f, o, r
  <2>. QED
    BY <1>2, <2>1
<1>4. \A i : i \in M <=> /\ i \in 1 .. device.upto
                         /\ Done[i].menu = "/interface ethernet switch rule"
                         /\ Done[i].row.vlan = v /\ Done[i].row.says \in dst \union {Drop}
  BY <1>2 DEF Matching
<1>5. /\ k \in Nat \ {0} /\ m[k] = Drop
      /\ \A j \in 1 .. k : j # k => m[j] \in Inside(e)
      /\ \A x \in Inside(e) : \E j \in 1 .. k : m[j] = x
      /\ Drop \notin Inside(e)
  BY <1>2, ScriptOfIs, MatchesAre
<1>6. \/ /\ n \notin e.denied \intersect e.addresses
         /\ \A x \in 1 .. Len(r) : r[x].vlan # v
      \/ /\ n \in e.denied \intersect e.addresses
         /\ \E a \in Nat :
              /\ \A j \in 1 .. k : /\ a + j \in 1 .. Len(r)
                                   /\ r[a + j] = [vlan |-> v, says |-> m[j]]
              /\ \A x \in 1 .. Len(r) : r[x].vlan = v => \E j \in 1 .. k : x = a + j
  BY <1>2, RuleLinesAre
<1> HIDE DEF M, o, r, v, k, m, e
<1>7. CASE n \notin e.denied \intersect e.addresses
  <2>1. \A x \in 1 .. Len(r) : r[x].vlan # v
    BY <1>6, <1>7
  <2>2. ASSUME NEW i \in M PROVE FALSE
    <3>1. PICK x \in 1 .. Len(r) : i = o + x /\ Done[i].row = r[x]
      BY <1>3, <1>4
    <3>. QED
      BY <1>4, <2>1, <3>1
  <2>. QED
    BY <1>1, <1>7, <2>2 DEF v, e
<1>8. CASE n \in e.denied \intersect e.addresses
  <2>1. PICK a \in Nat :
          /\ \A j \in 1 .. k : a + j \in 1 .. Len(r) /\ r[a + j] = [vlan |-> v, says |-> m[j]]
          /\ \A x \in 1 .. Len(r) : r[x].vlan = v => \E j \in 1 .. k : x = a + j
    BY <1>6, <1>8
  <2>2. ASSUME NEW i \in M
        PROVE  \E j \in 1 .. k : /\ i = o + (a + j) /\ Done[i].row.says = m[j]
                                 /\ m[j] \in dst \union {Drop} /\ i \in 1 .. device.upto
    <3>1. PICK x \in 1 .. Len(r) : i = o + x /\ Done[i].row = r[x]
      BY <1>3, <1>4
    <3>2. PICK j \in 1 .. k : x = a + j
      BY <1>4, <2>1, <3>1
    <3>3. r[x].says = m[j]
      <4>1. r[a + j] = [vlan |-> v, says |-> m[j]]
        BY <2>1
      <4>2. r[x] = [vlan |-> v, says |-> m[j]]
        BY <3>2, <4>1
      <4>. QED
        BY <4>2
    <3>. QED
      BY <1>4, <3>1, <3>2, <3>3
  <2>3. ASSUME NEW j \in 1 .. k, o + (a + j) \in 1 .. device.upto, m[j] \in dst \union {Drop}
        PROVE  o + (a + j) \in M /\ Done[o + (a + j)].row.says = m[j]
    <3>1. a + j \in 1 .. Len(r) /\ r[a + j].vlan = v /\ r[a + j].says = m[j]
      <4>1. a + j \in 1 .. Len(r) /\ r[a + j] = [vlan |-> v, says |-> m[j]]
        BY <2>1
      <4>2. r[a + j].vlan = v /\ r[a + j].says = m[j]
        BY <4>1
      <4>. QED
        BY <4>1, <4>2
    <3>2. /\ Done[o + (a + j)].menu = "/interface ethernet switch rule"
          /\ Done[o + (a + j)].row = r[a + j]
      BY <1>3, <2>3, <3>1
    <3>. QED
      BY <1>4, <2>3, <3>1, <3>2
  <2>4. ASSUME Dropped(v, dst), NEW x \in dst \intersect Inside(e) PROVE FALSE
    <3>1. PICK i \in M : Done[i].row.says = Drop /\ \A h \in M : i <= h
      BY <1>1, <2>4
    <3>2. PICK j \in 1 .. k : i = o + (a + j) /\ m[j] = Drop /\ i \in 1 .. device.upto
      BY <2>2, <3>1
    <3>3. j = k
      BY <1>5, <3>2
    <3>4. PICK h \in 1 .. k : m[h] = x /\ h # k
      BY <1>5
    <3>5. o + (a + h) \in 1 .. device.upto /\ o + (a + h) < i
      <4>1. /\ o \in Nat /\ a \in Nat /\ k \in Nat /\ device.upto \in Nat
            /\ i = o + (a + k) /\ i \in 1 .. device.upto
        BY <1>2, <1>3, <1>5, <3>2, <3>3
      <4>2. 1 <= h /\ h < k
        BY <4>1, <3>4
      <4>. QED
        BY <4>1, <4>2
    <3>6. o + (a + h) \in M
      BY <2>3, <3>4, <3>5
    <3>7. i <= o + (a + h)
      BY <3>1, <3>6
    <3>. QED
      BY <1>2, <3>2, <3>5, <3>7
  <2>5. ASSUME Whole, dst \intersect Inside(e) = {} PROVE Dropped(v, dst)
    <3> DEFINE b == o + (a + k)
    <3>1. k \in 1 .. k /\ b \in 1 .. device.upto
      <4>1. k \in 1 .. k
        BY <1>5
      <4>2. a + k \in 1 .. Len(r)
        BY <2>1, <4>1
      <4>. QED
        BY <1>3, <2>5, <4>1, <4>2
    <3>2. b \in M /\ Done[b].row.says = Drop
      BY <1>5, <2>3, <3>1
    <3>3. ASSUME NEW i \in M PROVE i = b
      <4>1. PICK j \in 1 .. k : i = o + (a + j) /\ m[j] \in dst \union {Drop}
        BY <2>2
      <4>2. j = k
        BY <1>5, <2>5, <4>1
      <4>. QED
        BY <4>1, <4>2
    <3>4. b <= b
      BY <1>2, <3>1
    <3> HIDE DEF b
    <3>. QED
      BY <1>1, <3>2, <3>3, <3>4
  <2>. QED
    BY <1>8, <2>4, <2>5 DEF v, e
<1>. QED
  BY <1>7, <1>8

----------------------------------------------------------------------------
(* What an import leaves configured                                        *)

\* A port is switched off by a line of the parts' last but one, for it.
LEMMA DisabledIs ==
  ASSUME device \in Settled, Sound(Declared[device.of]), NEW p
  PROVE  /\ Disabled(p) => p \in DisabledPorts(Doc(device.of))
         /\ In(20) /\ p \in DisabledPorts(Doc(device.of)) => Disabled(p)
<1> DEFINE f == device.of
           d == Doc(f)
           g == DisabledList(d)
<1>1. f \in Fleets /\ IsDocument(d)
  BY DoneIs, ScriptOfIs
<1>2. ASSUME Disabled(p) PROVE p \in DisabledPorts(d)
  <2>1. [disabled |-> p] \in Rows("/interface ethernet")
    BY <1>2 DEF Disabled
  <2>2. PICK i \in 1 .. device.upto :
          /\ i \in 1 .. Full(f)
          /\ ScriptOf[f][i].menu = "/interface ethernet" /\ ScriptOf[f][i].row = [disabled |-> p]
    <3> DEFINE x == [disabled |-> p]
    <3>1. x \in Rows("/interface ethernet")
      BY <2>1
    <3> HIDE DEF x
    <3>2. \E i \in 1 .. device.upto :
            /\ i \in 1 .. Full(device.of)
            /\ ScriptOf[device.of][i].menu = "/interface ethernet"
            /\ ScriptOf[device.of][i].row = x
      BY <3>1, RowLine
    <3>. QED
      BY <3>2 DEF x
  <2>3. \/ \E q \in SetPorts(d) :
             ScriptOf[f][i].row = [port |-> q, l2mtu |-> d.interfaces[q].l2mtu]
        \/ \E q \in DisabledPorts(d) : ScriptOf[f][i].row = [disabled |-> q]
    BY <1>1, <2>2, MenuIs
  <2>4. \A x, y, z : [disabled |-> x] # [port |-> y, l2mtu |-> z]
    <3>1. \A x : DOMAIN [disabled |-> x] = {"disabled"}
      OBVIOUS
    <3>2. \A y, z : DOMAIN [port |-> y, l2mtu |-> z] = {"port", "l2mtu"}
      OBVIOUS
    <3>3. {"disabled"} # {"port", "l2mtu"}
      OBVIOUS
    <3>. QED
      BY <3>1, <3>2, <3>3
  <2>5. PICK q \in DisabledPorts(d) : [disabled |-> p] = [disabled |-> q]
    BY <2>2, <2>3, <2>4
  <2>6. p = q
    BY <2>5
  <2>. QED
    BY <2>6
<1>3. ASSUME In(20), p \in DisabledPorts(d) PROVE Disabled(p)
  <2>1. Lists(PartsOf(f)[20], g) /\ p \in DOMAIN g
    BY <1>1, <1>3, PartsAre, DisabledListed DEF DisabledList
  <2>2. g[p].row = [disabled |-> p] /\ g[p].menu = "/interface ethernet"
    BY <2>1 DEF DisabledList, Line
  <2> HIDE DEF g
  <2>3. g[p].row \in Rows(g[p].menu)
    BY <1>3, <2>1, ListIn
  <2>. QED
    BY <2>2, <2>3 DEF Disabled
<1>. QED
  BY <1>2, <1>3

\* A port in use is not, and a spare one of a known model is.
LEMMA SpareIsDisabled ==
  ASSUME device \in Settled, Sound(Declared[device.of]),
         NEW p \in HwPorts(Declared[device.of])
  PROVE  LET e == Declared[device.of] IN
         /\ p \in ActivePorts(e) => ~Disabled(p)
         /\ In(20) /\ p \notin ActivePorts(e) /\ e.model \in DOMAIN ModelPorts => Disabled(p)
<1> DEFINE f == device.of
           e == Declared[f]
           d == Doc(f)
<1>1. f \in Fleets
  BY DoneIs
<1>2. /\ d.model = e.model /\ DOMAIN d.interfaces = ActivePorts(e)
      /\ \A q \in ActivePorts(e) : d.interfaces[q] = [enabled |-> TRUE, l2mtu |-> PortL2mtu(e)]
  BY <1>1, DocIs
<1>3. p \in ActivePorts(e) => p \notin DisabledPorts(d)
  BY <1>2 DEF DisabledPorts
<1>4. ASSUME p \notin ActivePorts(e), e.model \in DOMAIN ModelPorts
      PROVE  p \in DisabledPorts(d)
  <2>1. p \in ModelPorts[e.model]
    BY <1>4 DEF HwPorts, Sound
  <2>2. p \in KnownPorts(d)
    BY <1>2, <1>4, <2>1 DEF KnownPorts
  <2>. QED
    BY <1>2, <1>4, <2>2 DEF DisabledPorts
<1>. QED
  BY <1>3, <1>4, DisabledIs

LEMMA InterfaceRow ==
  ASSUME NEW d, NEW p \in SetPorts(d)
  PROVE  /\ InterfaceList(d)[p].menu = "/interface ethernet"
         /\ InterfaceList(d)[p].row = [port |-> p, l2mtu |-> d.interfaces[p].l2mtu]
  BY DEF InterfaceList, Line

LEMMA InterfaceIn ==
  ASSUME device \in Settled, Sound(Declared[device.of]), In(4),
         NEW p \in ActivePorts(Declared[device.of]), PortL2mtu(Declared[device.of]) # 0
  PROVE  [port |-> p, l2mtu |-> PortL2mtu(Declared[device.of])] \in Rows("/interface ethernet")
<1> DEFINE f == device.of
           e == Declared[f]
           d == Doc(f)
           g == InterfaceList(d)
           row == [port |-> p, l2mtu |-> PortL2mtu(e)]
<1>1. f \in Fleets /\ IsDocument(d)
  BY DoneIs, ScriptOfIs
<1>2. p \in SetPorts(d) /\ d.interfaces[p].l2mtu = PortL2mtu(e)
  <2>1. /\ DOMAIN d.interfaces = ActivePorts(e)
        /\ d.interfaces[p] = [enabled |-> TRUE, l2mtu |-> PortL2mtu(e)]
    BY <1>1, DocIs
  <2>2. p \in KnownPorts(d)
    BY <1>1, SoundDocument
  <2>. QED
    BY <2>1, <2>2 DEF SetPorts, DisabledPorts
<1>3. Lists(PartsOf(f)[4], g)
  BY <1>1, PartsAre, InterfacesListed
<1>4. p \in DOMAIN g
  BY <1>2 DEF InterfaceList
<1>5. g[p].row = row /\ g[p].menu = "/interface ethernet"
  BY <1>2, InterfaceRow
<1> HIDE DEF g, row
<1>6. g[p].row \in Rows(g[p].menu)
  BY <1>3, <1>4, ListIn
<1>7. row \in Rows("/interface ethernet")
  BY <1>5, <1>6
<1>. QED
  BY <1>7 DEF row

FrameFits(p, n) ==
  MtuOf[n] > 1500 =>
    \E r \in Rows("/interface ethernet") :
      "l2mtu" \in DOMAIN r /\ r.port = p /\ r.l2mtu >= MtuOf[n] + 4

LEMMA FramesSet ==
  ASSUME device \in Settled, Sound(Declared[device.of]), In(4),
         NEW p \in ActivePorts(Declared[device.of]), NEW n \in Declared[device.of].addresses
  PROVE  FrameFits(p, n)
<1> DEFINE m == PortL2mtu(Declared[device.of])
           row == [port |-> p, l2mtu |-> m]
           k == MtuOf[n] + 4
           R == Rows("/interface ethernet")
<1>1. IsDeclaration(Declared[device.of])
  BY DoneIs, ScriptOfIs
<1>2. MtuOf[n] > 1500 => m # 0 /\ m >= k
  BY <1>1, FramesFit
<1>3. m # 0 => row \in R
  BY InterfaceIn
<1>4. "l2mtu" \in DOMAIN row /\ row.port = p /\ row.l2mtu = m
  OBVIOUS
<1> HIDE DEF m, row, k, R
<1>5. MtuOf[n] > 1500 => \E r \in R : "l2mtu" \in DOMAIN r /\ r.port = p /\ r.l2mtu >= k
  BY <1>2, <1>3, <1>4
<1>. QED
  BY <1>5 DEF R, k, FrameFits

\* A port is in the VLANs it is declared for, once the script is in.
LEMMA PortIsConfigured ==
  ASSUME device \in Settled, Sound(Declared[device.of]), Whole,
         NEW p \in HwPorts(Declared[device.of])
  PROVE  LET f == Declared[device.of]
             c == PortCfg(f, p)
             i == Carrier(p)
         IN  CASE PortType(c) = "access" ->
                    ~Disabled(p) /\ Pvids(i) = {c.vlan} /\ Untagged(i) = {c.vlan} /\ Tagged(i) = {}
               [] PortType(c) = "trunk" ->
                    ~Disabled(p) /\ Pvids(i) = {1} /\ Untagged(i) = {} /\ Tagged(i) = c.vlans
               [] OTHER -> Pvids(i) = {} /\ (f.model \in DOMAIN ModelPorts => Disabled(p))
<1> DEFINE f == Declared[device.of]
           c == PortCfg(f, p)
           i == Carrier(p)
<1>1. In(5) /\ In(7) /\ In(8) /\ In(20)
  BY EarlierIn
<1>2. i = BridgeIface(f, p)
  BY <1>1, CarrierIs
<1>3. /\ Tagged(i) = IF PortType(c) = "trunk" THEN c.vlans ELSE {}
      /\ Untagged(i) = IF PortType(c) = "access" THEN {c.vlan} ELSE {}
  BY <1>1, <1>2, PortVlansAre
<1>4. Pvids(i) = IF p \notin ActivePorts(f) THEN {}
                 ELSE {IF PortType(c) = "access" THEN c.vlan ELSE 1}
  BY <1>1, <1>2, PvidsAre
<1>5. /\ p \in ActivePorts(f) => ~Disabled(p)
      /\ p \notin ActivePorts(f) /\ f.model \in DOMAIN ModelPorts => Disabled(p)
  BY <1>1, SpareIsDisabled
<1>6. p \in ActivePorts(f) <=> PortType(c) # "unused"
  BY DEF ActivePorts, TypedPorts
<1>7. PortType(c) \in {"access", "trunk", "unused"}
  BY DEF PortType
<1> HIDE DEF f, c, i
<1>8. CASE PortType(c) = "access"
  BY <1>3, <1>4, <1>5, <1>6, <1>8 DEF f, c, i
<1>9. CASE PortType(c) = "trunk"
  BY <1>3, <1>4, <1>5, <1>6, <1>9 DEF f, c, i
<1>10. CASE PortType(c) = "unused"
  BY <1>3, <1>4, <1>5, <1>6, <1>10 DEF f, c, i
<1>. QED
  BY <1>7, <1>8, <1>9, <1>10

\* A switch that has taken in all of a script of a sound declaration does what
\* was declared: generate's order of lines leaves out and overrides none.
\* (projection.nix, generate.)
THEOREM Configured == Spec => []DeclaredIsConfigured
<1>1. ImportInv => DeclaredIsConfigured
  <2> SUFFICES ASSUME device \in Settled, Whole, Sound(Declared[device.of])
               PROVE  DeclaredIsConfigured
    BY DEF ImportInv, TypeInv, DeclaredIsConfigured
  <2> DEFINE f == Declared[device.of]
  <2>1. \A p \in HwPorts(f) :
          LET c == PortCfg(f, p)
              i == Carrier(p)
          IN  CASE PortType(c) = "access" ->
                     ~Disabled(p) /\ Pvids(i) = {c.vlan} /\ Untagged(i) = {c.vlan}
                                  /\ Tagged(i) = {}
                [] PortType(c) = "trunk" ->
                     ~Disabled(p) /\ Pvids(i) = {1} /\ Untagged(i) = {} /\ Tagged(i) = c.vlans
                [] OTHER -> Pvids(i) = {} /\ (f.model \in DOMAIN ModelPorts => Disabled(p))
    BY PortIsConfigured
  <2>2. ASSUME NEW p \in ActivePorts(f), NEW n \in f.addresses
        PROVE  FrameFits(p, n)
    <3>1. In(4)
      BY EarlierIn
    <3>. QED
      BY <3>1, FramesSet
  <2>3. \A n \in Nets, dst \in Destinations :
          Dropped(VlanOf[n], dst)
            <=> n \in f.denied \intersect f.addresses /\ dst \intersect Inside(f) = {}
    BY DroppedIs
  <2>. QED
    BY <2>1, <2>2, <2>3 DEF DeclaredIsConfigured, FrameFits
<1>. QED
  BY <1>1, ImportInvariance, PTL

\* Wherever the import of a sound declaration's script stops, it leaves the way
\* in that it has made.  (generate's order.)
THEOREM WayInStays == Spec => []StaysManageable
<1>1. ImportInv => StaysManageable
  <2> SUFFICES ASSUME device \in Settled, Sound(Declared[device.of])
               PROVE  StaysManageable
    BY DEF ImportInv, TypeInv, StaysManageable
  <2> DEFINE f == Declared[device.of]
             v == VlanOf[MgmtNet]
  <2>1. device.of \in Fleets /\ IsDeclaration(f)
    BY DoneIs, ScriptOfIs
  <2>2. ASSUME Rows("/ip address") # {}
        PROVE  "ssh" \in Rows("/ip service") /\ "key" \in Rows("/user ssh-keys")
    <3>1. PICK r : r \in Rows("/ip address")
      BY <2>2
    <3>2. PICK i \in 1 .. device.upto :
            i \in 1 .. Full(device.of) /\ ScriptOf[device.of][i].menu = "/ip address"
      BY <3>1, RowLine
    <3>3. Part(device.of, i) = 12
      BY <2>1, <3>2, MenuIs
    <3>4. In(2)
      BY <3>3, EarlierIn
    <3>. QED
      BY <3>4, WayIn
  <2>3. ASSUME "filtering" \in Rows("/interface bridge")
        PROVE  /\ Reachable /\ v \in Tagged("bridge1")
               /\ \E p \in Carriers(f, v) : v \in Tagged(Carrier(p)) \union Untagged(Carrier(p))
    <3>1. PICK i \in 1 .. device.upto :
            /\ i \in 1 .. Full(device.of)
            /\ ScriptOf[device.of][i].menu = "/interface bridge"
            /\ ScriptOf[device.of][i].row = "filtering"
      BY <2>3, RowsAre, ZenonT(30)
    <3>2. Part(device.of, i) = 21
      BY <2>1, <3>1, MenuIs
    <3>3. In(2) /\ In(5) /\ In(8) /\ In(12)
      BY <3>2, EarlierIn
    <3>4. Reachable
      <4>1. MgmtNet \in f.addresses
        BY DEF Sound
      <4>2. [net |-> MgmtNet] \in Rows("/ip address")
        BY <3>3, <4>1, AddressIn
      <4>. QED
        BY <3>3, <4>2, WayIn DEF Reachable
    <3>5. v \in Tagged("bridge1")
      BY <3>3, BridgeTagged
    <3>6. PICK p : p \in Carriers(f, v)
      BY DEF Sound
    <3>7. p \in HwPorts(f)
      BY <3>6 DEF Carriers, ActivePorts
    <3> DEFINE c == PortCfg(f, p)
               i0 == BridgeIface(f, p)
    <3>8. Carrier(p) = i0
      BY <3>3, <3>7, CarrierIs
    <3>9. /\ Tagged(i0) = IF PortType(c) = "trunk" THEN c.vlans ELSE {}
          /\ Untagged(i0) = IF PortType(c) = "access" THEN {c.vlan} ELSE {}
      BY <3>3, <3>7, PortVlansAre
    <3>10. v # NoVlan
      BY NetAssumption
    <3>11. \/ c.vlan = v /\ PortType(c) = "access"
           \/ PortType(c) = "trunk" /\ v \in c.vlans
      BY <3>6, <3>10 DEF Carriers, PortType
    <3> HIDE DEF c, i0
    <3>12. v \in Tagged(Carrier(p)) \union Untagged(Carrier(p))
      BY <3>8, <3>9, <3>11
    <3>. QED
      BY <3>4, <3>5, <3>6, <3>12
  <2>4. ASSUME NEW n \in f.addresses, NEW dst \in Destinations, dst \intersect Inside(f) # {}
        PROVE  ~Dropped(VlanOf[n], dst)
    <3>1. n \in Nets
      BY <2>1 DEF IsDeclaration
    <3>. QED
      BY <2>4, <3>1, DroppedIs
  <2>. QED
    BY <2>2, <2>3, <2>4 DEF StaysManageable
<1>. QED
  BY <1>1, ImportInvariance, PTL
=============================================================================
