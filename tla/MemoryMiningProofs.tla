------------------------ MODULE MemoryMiningProofs ------------------------
(***************************************************************************)
(* What MemoryMining guarantees for any number of processes, attempts,     *)
(* phrases and sessions, any threshold and any budget.                     *)
(*                                                                         *)
(* Two of the properties need to be carried through the gaps between       *)
(* statements.  A support count that is about to be written is one that    *)
(* the occurrences had and, since they only grow, still bear (SeenInv);    *)
(* and as long as a row is behind the occurrences, some process is on its  *)
(* way to bring it up to date (CountInv).                                  *)
(* And a phrase with a snippet is decided or just being decided by the     *)
(* attempt that stored it (MinedInv), which no second attempt can be in    *)
(* possession of (FlightInv): a row is taken back only if it is stale, and *)
(* it becomes stale under an attempt only by an overrun.                   *)
(***************************************************************************)
EXTENDS MemoryMining, FiniteSetTheorems, TLAPS

SeenInv ==
  \A p \in Procs : saw[p].at = "upsert" =>
    saw[p].n \in MinSupport .. Cardinality(occ[saw[p].phrase])

\* What a row quotes, whether or not it is a candidate.
SupportInv ==
  \A h \in Phrases : /\ cand[h].support <= Cardinality(occ[h])
                     /\ cand[h].state # "none" => MinSupport <= cand[h].support

FlightInv ==
  \A h \in Phrases : \A m \in Attempts : InFlight(m, h) =>
    /\ cand[h].state # "none"
    /\ "overrun" \notin lapses =>
         /\ cand[h].state = "processing" /\ ~cand[h].stale
         /\ \A o \in Attempts : InFlight(o, h) => o = m

Storing(h) == \E m \in Attempts : attempt[m].at = "store" /\ attempt[m].phrase = h

MinedInv ==
  lapses \subseteq {"midnight", "cut"} =>
    ~twice /\ \A h \in mined : cand[h].state = "mined" \/ Storing(h)

BudgetInv == "midnight" \notin lapses => made = budget["today"]

IInv == TypeOK /\ SeenInv /\ SupportInv /\ FlightInv /\ MinedInv /\ BudgetInv

\* The process p is about to count h, or to write all that h was counted to.
Counting(p, h) ==
  \/ saw[p].at = "count" /\ saw[p].phrase = h
  \/ saw[p].at = "upsert" /\ saw[p].phrase = h /\ saw[p].n = Cardinality(occ[h])

CountInv ==
  "cut" \notin lapses => \A h \in Phrases :
    Cardinality(occ[h]) >= MinSupport =>
      cand[h].support = Cardinality(occ[h]) \/ \E p \in Procs : Counting(p, h)

----------------------------------------------------------------------------
(* Facts about the state                                                   *)

\* Support is a number, and an occurrence never lowers it.
LEMMA Support ==
  ASSUME TypeOK, NEW h \in Phrases
  PROVE  /\ Cardinality(occ[h]) \in Nat
         /\ \A s \in Sessions : /\ Cardinality(occ[h] \union {s}) \in Nat
                                /\ Cardinality(occ[h]) <= Cardinality(occ[h] \union {s})
<1>1. IsFiniteSet(Sessions) /\ occ[h] \subseteq Sessions
  BY MiningAssumption DEF TypeOK
<1>2. IsFiniteSet(occ[h]) /\ Cardinality(occ[h]) \in Nat
  BY <1>1, FS_Subset, FS_CardinalityType
<1>3. ASSUME NEW s \in Sessions
      PROVE  /\ Cardinality(occ[h] \union {s}) \in Nat
             /\ Cardinality(occ[h]) <= Cardinality(occ[h] \union {s})
  <2>1. CASE s \in occ[h]
    <3>1. Cardinality(occ[h] \union {s}) = Cardinality(occ[h])
      BY <1>2, <2>1, FS_AddElement
    <3>. QED
      BY <1>2, <3>1
  <2>2. CASE s \notin occ[h]
    <3>1. Cardinality(occ[h] \union {s}) = Cardinality(occ[h]) + 1
      BY <1>2, <2>2, FS_AddElement
    <3>. QED
      BY <1>2, <3>1
  <2>. QED
    BY <2>1, <2>2
<1>. QED
  BY <1>2, <1>3

\* A step that writes no support and makes no candidate.
LEMMA SupportKept ==
  ASSUME SupportInv, occ' = occ,
         \A h \in Phrases : /\ cand'[h].support = cand[h].support
                            /\ cand'[h].state # "none" => cand[h].state # "none"
  PROVE  SupportInv'
  BY DEF SupportInv

\* What an attempt under way knows, and what it leaves when it is finished.
LEMMA FinishRows ==
  ASSUME TypeOK, NEW m \in Attempts, attempt[m].at \in {"await", "store", "undo"},
         NEW state \in {"pending", "mined", "rejected"}, Finish(m, state),
         FlightInv
  PROVE  /\ attempt[m].phrase \in Phrases /\ InFlight(m, attempt[m].phrase)
         /\ cand'[attempt[m].phrase].state = state
         /\ \A h \in Phrases : /\ cand'[h].support = cand[h].support
                               /\ cand'[h].state # "none" => cand[h].state # "none"
                               /\ h # attempt[m].phrase => cand'[h] = cand[h]
<1>1. attempt[m] \in [at : {"await", "store", "undo"}, phrase : Phrases, live : BOOLEAN]
  BY DEF TypeOK, Mining, Idle
<1>2. attempt[m].phrase \in Phrases /\ InFlight(m, attempt[m].phrase)
  BY <1>1 DEF InFlight
<1>3. cand[attempt[m].phrase].state # "none"
  BY <1>2 DEF FlightInv
<1>. QED
  BY <1>2, <1>3 DEF Finish, TypeOK, Rows

\* A phrase in the hands of an attempt has no snippet before that attempt
\* stores it.
LEMMA NotMinedYet ==
  ASSUME TypeOK, FlightInv, MinedInv, lapses \subseteq {"midnight", "cut"},
         NEW m \in Attempts, attempt[m].at \in {"await", "undo"}
  PROVE  attempt[m].phrase \in Phrases \ mined
<1>1. attempt[m].phrase \in Phrases /\ InFlight(m, attempt[m].phrase)
  BY DEF TypeOK, Mining, Idle, InFlight
<1>2. /\ cand[attempt[m].phrase].state = "processing"
      /\ \A o \in Attempts : InFlight(o, attempt[m].phrase) => o = m
  BY <1>1 DEF FlightInv
<1>3. ~Storing(attempt[m].phrase)
  BY <1>2 DEF Storing, InFlight
<1>. QED
  BY <1>1, <1>2, <1>3 DEF MinedInv

\* Taking the connection from an attempt leaves the rest of it.
LEMMA OrphanTypes ==
  ASSUME TypeOK, NEW p \in Procs
  PROVE  Orphaned(p) \in [Attempts -> Mining]
<1>1. ASSUME NEW m \in Attempts PROVE Orphaned(p)[m] \in Mining
  <2>1. CASE Owner[m] = p /\ attempt[m].at = "await"
    <3>1. attempt[m] \in [at : {"await", "store", "undo"}, phrase : Phrases, live : BOOLEAN]
      BY <2>1 DEF TypeOK, Mining, Idle
    <3>. QED
      BY <2>1, <3>1 DEF Orphaned, Mining
  <2>2. CASE ~(Owner[m] = p /\ attempt[m].at = "await")
    BY <2>2 DEF Orphaned, TypeOK
  <2>. QED
    BY <2>1, <2>2
<1>. QED
  BY <1>1 DEF Orphaned

\* Rows that are taken back were under way, for an hour, and keep the rest.
LEMMA ReclaimedRows ==
  ASSUME TypeOK
  PROVE  /\ Reclaimed \in [Phrases -> Rows]
         /\ \A h \in Phrases :
              /\ Reclaimed[h].support = cand[h].support /\ Reclaimed[h].stale = cand[h].stale
              /\ \/ Reclaimed[h].state = cand[h].state
                 \/ /\ Reclaimed[h].state = "pending"
                    /\ cand[h].state = "processing" /\ cand[h].stale
<1>1. ASSUME NEW h \in Phrases
      PROVE  /\ Reclaimed[h] \in Rows
             /\ Reclaimed[h].support = cand[h].support /\ Reclaimed[h].stale = cand[h].stale
             /\ \/ Reclaimed[h].state = cand[h].state
                \/ /\ Reclaimed[h].state = "pending"
                   /\ cand[h].state = "processing" /\ cand[h].stale
  BY DEF Reclaimed, TypeOK, Rows
<1>. QED
  BY <1>1 DEF Reclaimed

\* A claim takes a pending row, and only that one leaves what it was taken back to.
LEMMA ClaimRows ==
  ASSUME TypeOK, NEW m \in Attempts, Claim(m)
  PROVE  \E h \in Phrases :
           /\ Reclaimed[h].state = "pending"
           /\ attempt' = [attempt EXCEPT ![m] = [at |-> "await", phrase |-> h, live |-> TRUE]]
           /\ cand' = [Reclaimed EXCEPT ![h].state = "processing", ![h].stale = FALSE]
           /\ cand' \in [Phrases -> Rows]
           /\ cand'[h].state = "processing" /\ cand'[h].stale = FALSE
           /\ cand'[h].support = cand[h].support
           /\ \A g \in Phrases \ {h} : cand'[g] = Reclaimed[g]
<1>1. PICK h \in Eligible(Reclaimed) :
        /\ cand' = [Reclaimed EXCEPT ![h].state = "processing", ![h].stale = FALSE]
        /\ attempt' = [attempt EXCEPT ![m] = [at |-> "await", phrase |-> h, live |-> TRUE]]
  BY DEF Claim
<1>2. h \in Phrases /\ Reclaimed[h].state = "pending"
  BY DEF Eligible
<1>3. /\ Reclaimed \in [Phrases -> Rows]
      /\ Reclaimed[h].support = cand[h].support
  BY <1>2, ReclaimedRows
<1>4. cand' = [Reclaimed EXCEPT ![h] = [Reclaimed[h] EXCEPT !.state = "processing", !.stale = FALSE]]
  BY <1>1, <1>2, <1>3
<1>5. [Reclaimed[h] EXCEPT !.state = "processing", !.stale = FALSE] \in Rows
  BY <1>2, <1>3 DEF Rows
<1>6. /\ cand' \in [Phrases -> Rows]
      /\ cand'[h] = [Reclaimed[h] EXCEPT !.state = "processing", !.stale = FALSE]
      /\ \A g \in Phrases \ {h} : cand'[g] = Reclaimed[g]
  BY <1>2, <1>3, <1>4, <1>5
<1>7. /\ cand'[h].state = "processing" /\ cand'[h].stale = FALSE
      /\ cand'[h].support = cand[h].support
  BY <1>2, <1>3, <1>6 DEF Rows
<1>. QED
  BY <1>1, <1>2, <1>6, <1>7

----------------------------------------------------------------------------
(* Initially and in every step                                             *)

LEMMA InitInv == Init => IInv
<1> SUFFICES ASSUME Init PROVE IInv
  OBVIOUS
<1>1. TypeOK
  <2>1. budget \in [{"today", "yesterday"} -> 0 .. MaxCalls]
    BY MiningAssumption DEF Init
  <2>2. cand \in [Phrases -> Rows]
    BY DEF Init, NoRow, Rows
  <2>3. saw \in [Procs -> Seeing] /\ attempt \in [Attempts -> Mining]
    BY DEF Init, Seeing, Mining
  <2>. QED
    BY <2>1, <2>2, <2>3 DEF Init, TypeOK
<1>2. SeenInv /\ SupportInv /\ BudgetInv
  BY FS_EmptySet DEF Init, SeenInv, SupportInv, BudgetInv, NoRow, NotSeeing
<1>3. FlightInv /\ MinedInv
  BY DEF Init, FlightInv, MinedInv, InFlight, Idle
<1>. QED
  BY <1>1, <1>2, <1>3 DEF IInv

LEMMA StepInv == IInv /\ [Next]_vars => IInv'
<1> SUFFICES ASSUME IInv, [Next]_vars PROVE IInv'
  OBVIOUS
<1>0. TypeOK /\ SeenInv /\ SupportInv /\ FlightInv /\ MinedInv /\ BudgetInv
  BY DEF IInv
<1>1. ASSUME NEW p \in Procs, NEW h \in Phrases, NEW s \in Sessions, ObserveInsert(p, h, s) PROVE IInv'
  <2>1. TypeOK'
    BY <1>0, <1>1 DEF ObserveInsert, store, history, TypeOK, Rows, Seeing, Mining,
       NotSeeing, Idle
  <2>2. SeenInv'
    <3>1. ASSUME NEW q \in Procs, saw'[q].at = "upsert"
          PROVE  saw'[q].n \in MinSupport .. Cardinality(occ'[saw'[q].phrase])
      <4>1. saw'[q] = saw[q] /\ saw[q].phrase \in Phrases /\ saw[q].n \in Nat
        BY <1>0, <1>1, <3>1 DEF ObserveInsert, TypeOK, Seeing, NotSeeing
      <4>2. saw[q].n \in MinSupport .. Cardinality(occ[saw[q].phrase])
        BY <1>0, <3>1, <4>1 DEF SeenInv
      <4>3. occ'[saw[q].phrase] = occ[saw[q].phrase] \/ occ'[saw[q].phrase] = occ[saw[q].phrase] \union {s}
        BY <1>0, <1>1, <4>1 DEF ObserveInsert, TypeOK
      <4>. QED
        BY <1>0, <4>1, <4>2, <4>3, Support, MiningAssumption
    <3>. QED
      BY <3>1 DEF SeenInv
  <2>3. SupportInv'
    <3>1. cand' = cand /\ \A g \in Phrases : cand[g].support \in Nat
      BY <1>0, <1>1 DEF ObserveInsert, TypeOK, Rows
    <3>2. \A g \in Phrases : occ'[g] = occ[g] \/ occ'[g] = occ[g] \union {s}
      BY <1>0, <1>1 DEF ObserveInsert, TypeOK
    <3>3. \A g \in Phrases : /\ Cardinality(occ[g]) \in Nat /\ Cardinality(occ'[g]) \in Nat
                             /\ Cardinality(occ[g]) <= Cardinality(occ'[g])
      BY <1>0, <3>2, Support
    <3>. QED
      BY <1>0, <3>1, <3>3 DEF SupportInv
  <2>4. FlightInv'
    BY <1>0, <1>1 DEF ObserveInsert, store, history, FlightInv, InFlight, TypeOK,
       Rows, Mining, Idle
  <2>5. MinedInv'
    BY <1>0, <1>1 DEF ObserveInsert, store, history, MinedInv, Storing, TypeOK,
       Rows, Mining, Idle
  <2>6. BudgetInv'
    BY <1>0, <1>1 DEF ObserveInsert, store, history, BudgetInv, TypeOK
  <2>. QED
    BY <2>1, <2>2, <2>3, <2>4, <2>5, <2>6 DEF IInv
<1>2. ASSUME NEW p \in Procs, ObserveCount(p) PROVE IInv'
  <2>1. TypeOK'
    <3>1. saw[p].phrase \in Phrases
      BY <1>0, <1>2 DEF ObserveCount, TypeOK, Seeing, NotSeeing
    <3>2. Cardinality(occ[saw[p].phrase]) \in Nat
      BY <1>0, <3>1, Support
    <3>3. saw' \in [Procs -> Seeing]
      BY <1>0, <1>2, <3>1, <3>2 DEF ObserveCount, TypeOK, Seeing
    <3>. QED
      BY <1>0, <1>2, <3>3 DEF ObserveCount, store, history, TypeOK
  <2>2. SeenInv'
    <3>1. saw[p].phrase \in Phrases
      BY <1>0, <1>2 DEF ObserveCount, TypeOK, Seeing, NotSeeing
    <3>2. Cardinality(occ[saw[p].phrase]) \in Nat
      BY <1>0, <3>1, Support
    <3>3. occ' = occ /\ \A q \in Procs \ {p} : saw'[q] = saw[q]
      BY <1>0, <1>2 DEF ObserveCount, store, TypeOK
    <3>4. saw'[p].at = "upsert" =>
            /\ saw'[p].phrase = saw[p].phrase /\ saw'[p].n = Cardinality(occ[saw[p].phrase])
            /\ saw'[p].n >= MinSupport
      BY <1>0, <1>2 DEF ObserveCount, TypeOK, NotSeeing
    <3>. QED
      BY <1>0, <3>1, <3>2, <3>3, <3>4, MiningAssumption DEF SeenInv
  <2>3. SupportInv'
    BY <1>0, <1>2 DEF ObserveCount, store, history, SupportInv, TypeOK,
       Rows
  <2>4. FlightInv'
    BY <1>0, <1>2 DEF ObserveCount, store, history, FlightInv, InFlight, TypeOK,
       Rows, Mining, Idle
  <2>5. MinedInv'
    BY <1>0, <1>2 DEF ObserveCount, store, history, MinedInv, Storing, TypeOK, Rows,
       Mining, Idle
  <2>6. BudgetInv'
    BY <1>0, <1>2 DEF ObserveCount, store, history, BudgetInv, TypeOK
  <2>. QED
    BY <2>1, <2>2, <2>3, <2>4, <2>5, <2>6 DEF IInv
<1>3. ASSUME NEW p \in Procs, ObserveUpsert(p) PROVE IInv'
  <2>1. TypeOK'
    BY <1>0, <1>3 DEF ObserveUpsert, store, history, TypeOK, Rows, Seeing, Mining,
       NotSeeing, Idle
  <2>2. SeenInv'
    BY <1>0, <1>3 DEF ObserveUpsert, store, history, SeenInv, TypeOK, Seeing,
       NotSeeing
  <2>3. SupportInv'
    <3> DEFINE h == saw[p].phrase
    <3>1. h \in Phrases /\ saw[p].n \in Nat
      BY <1>0, <1>3 DEF ObserveUpsert, TypeOK, Seeing, NotSeeing
    <3>2. saw[p].n \in MinSupport .. Cardinality(occ[h])
      BY <1>0, <1>3 DEF ObserveUpsert, SeenInv
    <3>3. occ' = occ /\ \A g \in Phrases \ {h} : cand'[g] = cand[g]
      BY <1>0, <1>3 DEF ObserveUpsert, TypeOK
    <3>4. /\ cand[h].support \in Nat
          /\ cand'[h].support = IF cand[h].support > saw[p].n THEN cand[h].support ELSE saw[p].n
      BY <1>0, <1>3, <3>1 DEF ObserveUpsert, TypeOK, Rows
    <3>5. Cardinality(occ[h]) \in Nat
      BY <1>0, <3>1, Support
    <3>. QED
      BY <1>0, <3>1, <3>2, <3>3, <3>4, <3>5, MiningAssumption DEF SupportInv
  <2>4. FlightInv'
    BY <1>0, <1>3 DEF ObserveUpsert, store, history, FlightInv, InFlight, TypeOK,
       Rows, Mining, Idle
  <2>5. MinedInv'
    BY <1>0, <1>3 DEF ObserveUpsert, store, history, MinedInv, Storing, TypeOK,
       Rows, Mining, Idle
  <2>6. BudgetInv'
    BY <1>0, <1>3 DEF ObserveUpsert, store, history, BudgetInv, TypeOK
  <2>. QED
    BY <2>1, <2>2, <2>3, <2>4, <2>5, <2>6 DEF IInv
<1>4. ASSUME NEW p \in Procs, Close(p) PROVE IInv'
  <2>1. TypeOK'
    <3>1. attempt' \in [Attempts -> Mining]
      BY <1>0, <1>4, OrphanTypes DEF Close
    <3>. QED
      BY <1>0, <1>4, <3>1 DEF Close, store, history, TypeOK
  <2>2. SeenInv'
    BY <1>0, <1>4 DEF Close, store, history, Orphaned, SeenInv, TypeOK, Seeing,
       NotSeeing
  <2>3. SupportInv'
    BY <1>0, <1>4 DEF Close, store, history, Orphaned, SupportInv,
       TypeOK, Rows
  <2>4. FlightInv'
    BY <1>0, <1>4 DEF Close, store, history, Orphaned, FlightInv, InFlight, TypeOK,
       Rows, Mining, Idle
  <2>5. MinedInv'
    BY <1>0, <1>4 DEF Close, store, history, Orphaned, MinedInv, Storing, TypeOK,
       Rows, Mining, Idle
  <2>6. BudgetInv'
    BY <1>0, <1>4 DEF Close, store, history, Orphaned, BudgetInv, TypeOK
  <2>. QED
    BY <2>1, <2>2, <2>3, <2>4, <2>5, <2>6 DEF IInv
<1>5. ASSUME NEW p \in Procs, HandlerFails(p) PROVE IInv'
  <2>1. TypeOK'
    <3>1. attempt' \in [Attempts -> Mining]
      BY <1>0, <1>5, OrphanTypes DEF HandlerFails
    <3>2. saw' \in [Procs -> Seeing]
      BY <1>0, <1>5 DEF HandlerFails, TypeOK, Seeing
    <3>. QED
      BY <1>0, <1>5, <3>1, <3>2 DEF HandlerFails, Lapse, store, history, TypeOK
  <2>2. SeenInv'
    BY <1>0, <1>5 DEF HandlerFails, Lapse, store, history, Orphaned, SeenInv, TypeOK,
       Seeing, NotSeeing
  <2>3. SupportInv'
    BY <1>0, <1>5 DEF HandlerFails, Lapse, store, history, Orphaned, SupportInv,
       TypeOK, Rows
  <2>4. FlightInv'
    BY <1>0, <1>5 DEF HandlerFails, Lapse, store, history, Orphaned, FlightInv, InFlight,
       TypeOK, Rows, Mining, Idle
  <2>5. MinedInv'
    BY <1>0, <1>5 DEF HandlerFails, Lapse, store, history, Orphaned, MinedInv, Storing,
       TypeOK, Rows, Mining, Idle
  <2>6. BudgetInv'
    BY <1>0, <1>5 DEF HandlerFails, Lapse, store, history, Orphaned, BudgetInv, TypeOK
  <2>. QED
    BY <2>1, <2>2, <2>3, <2>4, <2>5, <2>6 DEF IInv
<1>6. ASSUME NEW p \in Procs, Crash(p) PROVE IInv'
  <2>1. TypeOK'
    BY <1>0, <1>6 DEF Crash, store, history, Lapse, TypeOK, Rows, Seeing, Mining,
       NotSeeing, Idle
  <2>2. SeenInv'
    BY <1>0, <1>6 DEF Crash, store, history, Lapse, SeenInv, TypeOK, Seeing,
       NotSeeing
  <2>3. SupportInv'
    BY <1>0, <1>6 DEF Crash, store, history, Lapse, SupportInv, TypeOK,
       Rows
  <2>4. FlightInv'
    BY <1>0, <1>6 DEF Crash, store, history, Lapse, FlightInv, InFlight, TypeOK,
       Rows, Mining, Idle
  <2>5. MinedInv'
    <3>1. \A h \in Phrases : lapses' \subseteq {"midnight", "cut"} /\ Storing(h) => Storing(h)'
      BY <1>0, <1>6 DEF Crash, Storing, TypeOK
    <3>. QED
      BY <1>0, <1>6, <3>1 DEF Crash, store, MinedInv, TypeOK
  <2>6. BudgetInv'
    BY <1>0, <1>6 DEF Crash, store, history, Lapse, BudgetInv, TypeOK
  <2>. QED
    BY <2>1, <2>2, <2>3, <2>4, <2>5, <2>6 DEF IInv
<1>7. ASSUME NEW m \in Attempts, ClaimDay(m) PROVE IInv'
  <2>1. TypeOK'
    BY <1>0, <1>7 DEF ClaimDay, store, history, TypeOK, Rows, Seeing, Mining,
       NotSeeing, Idle
  <2>2. SeenInv'
    BY <1>0, <1>7 DEF ClaimDay, store, history, SeenInv, TypeOK, Seeing, NotSeeing
  <2>3. SupportInv'
    BY <1>0, <1>7 DEF ClaimDay, store, history, SupportInv, TypeOK, Rows
  <2>4. FlightInv'
    BY <1>0, <1>7 DEF ClaimDay, store, history, FlightInv, InFlight, TypeOK, Rows,
       Mining, Idle
  <2>5. MinedInv'
    BY <1>0, <1>7 DEF ClaimDay, store, history, MinedInv, Storing, TypeOK, Rows,
       Mining, Idle
  <2>6. BudgetInv'
    BY <1>0, <1>7 DEF ClaimDay, store, history, BudgetInv, TypeOK
  <2>. QED
    BY <2>1, <2>2, <2>3, <2>4, <2>5, <2>6 DEF IInv
<1>8. ASSUME NEW m \in Attempts, Claim(m) PROVE IInv'
  <2>1. TypeOK'
    <3>1. cand' \in [Phrases -> Rows] /\ attempt' \in [Attempts -> Mining]
      <4>1. PICK h \in Phrases :
              /\ attempt' = [attempt EXCEPT ![m] = [at |-> "await", phrase |-> h, live |-> TRUE]]
              /\ cand' \in [Phrases -> Rows]
        BY <1>0, <1>8, ClaimRows
      <4>2. [at |-> "await", phrase |-> h, live |-> TRUE] \in Mining
        BY DEF Mining
      <4>. QED
        BY <1>0, <4>1, <4>2 DEF TypeOK
    <3>2. attempt[m].day \in {"today", "yesterday"}
      BY <1>0, <1>8 DEF Claim, TypeOK, Mining, Idle
    <3>3. budget' \in [{"today", "yesterday"} -> 0 .. MaxCalls]
      BY <1>0, <1>8, <3>2, MiningAssumption DEF Claim, TypeOK
    <3>4. made' \in Nat /\ lapses' \subseteq {"overrun", "partial", "midnight", "cut"}
      BY <1>0, <1>8 DEF Claim, TypeOK, Lapse
    <3>. QED
      BY <1>0, <1>8, <3>1, <3>3, <3>4 DEF Claim, TypeOK
  <2>2. SeenInv'
    BY <1>0, <1>8 DEF Claim, store, history, Reclaimed, Eligible, Lapse, SeenInv,
       TypeOK, Seeing, NotSeeing
  <2>3. SupportInv'
    <3>1. PICK h \in Phrases : /\ Reclaimed[h].state = "pending"
                               /\ cand'[h].support = cand[h].support
                               /\ \A g \in Phrases \ {h} : cand'[g] = Reclaimed[g]
      BY <1>0, <1>8, ClaimRows
    <3>2. \A g \in Phrases : /\ cand'[g].support = cand[g].support
                             /\ cand'[g].state # "none" => cand[g].state # "none"
      BY <1>0, <3>1, ReclaimedRows
    <3>. QED
      BY <1>0, <1>8, <3>2, SupportKept DEF Claim
  <2>4. FlightInv'
    <3>1. PICK h \in Phrases :
            /\ Reclaimed[h].state = "pending"
            /\ attempt' = [attempt EXCEPT ![m] = [at |-> "await", phrase |-> h, live |-> TRUE]]
            /\ cand'[h].state = "processing" /\ cand'[h].stale = FALSE
            /\ \A g \in Phrases \ {h} : cand'[g] = Reclaimed[g]
      BY <1>0, <1>8, ClaimRows
    <3>2. \A o \in Attempts, f \in Phrases :
            InFlight(o, f)' <=> (o = m /\ f = h) \/ (o # m /\ InFlight(o, f))
      BY <1>0, <3>1 DEF InFlight, TypeOK
    <3>3. \A f \in Phrases, o \in Attempts : InFlight(o, f)' => cand'[f].state # "none"
      BY <1>0, <3>1, <3>2, ReclaimedRows DEF FlightInv
    <3>4. ASSUME "overrun" \notin lapses',
                 NEW g \in Phrases, NEW n \in Attempts, InFlight(n, g)'
          PROVE  /\ cand'[g].state = "processing" /\ ~cand'[g].stale
                 /\ \A o \in Attempts : InFlight(o, g)' => o = n
      <4>1. "overrun" \notin lapses
        BY <1>8, <3>4 DEF Claim, Lapse
      <4>2. \A o \in Attempts : ~InFlight(o, h)
        BY <1>0, <3>1, <4>1, ReclaimedRows DEF FlightInv
      <4>3. CASE g = h
        BY <3>1, <3>2, <3>4, <4>2, <4>3
      <4>4. CASE g # h
        <5>1. InFlight(n, g) /\ cand'[g] = Reclaimed[g]
          BY <3>1, <3>2, <3>4, <4>4
        <5>2. /\ cand[g].state = "processing" /\ ~cand[g].stale
              /\ \A o \in Attempts : InFlight(o, g) => o = n
          BY <1>0, <4>1, <5>1 DEF FlightInv
        <5>. QED
          BY <1>0, <3>2, <4>4, <5>1, <5>2, ReclaimedRows
      <4>. QED
        BY <4>3, <4>4
    <3>. QED
      BY <3>3, <3>4 DEF FlightInv
  <2>5. MinedInv'
    <3>1. PICK h \in Phrases :
            /\ Reclaimed[h].state = "pending"
            /\ attempt' = [attempt EXCEPT ![m] = [at |-> "await", phrase |-> h, live |-> TRUE]]
            /\ cand'[h].state = "processing" /\ cand'[h].stale = FALSE
            /\ \A g \in Phrases \ {h} : cand'[g] = Reclaimed[g]
      BY <1>0, <1>8, ClaimRows
    <3>2. mined' = mined /\ twice' = twice /\ lapses \subseteq lapses'
      BY <1>8 DEF Claim, Lapse
    <3>3. attempt[m].at = "claim"
      BY <1>8 DEF Claim
    <3>4. \A f \in Phrases : Storing(f) => Storing(f)'
      BY <1>0, <3>1, <3>3 DEF Storing, TypeOK
    <3>5. \A f \in Phrases : cand[f].state = "mined" => cand'[f].state = "mined"
      BY <1>0, <3>1, ReclaimedRows
    <3>. QED
      BY <1>0, <3>2, <3>4, <3>5 DEF MinedInv, TypeOK
  <2>6. BudgetInv'
    BY <1>0, <1>8 DEF Claim, store, history, Reclaimed, Eligible, Lapse, BudgetInv,
       TypeOK
  <2>. QED
    BY <2>1, <2>2, <2>3, <2>4, <2>5, <2>6 DEF IInv
<1>9. ASSUME NEW m \in Attempts, ClaimNothing(m) PROVE IInv'
  <2>1. TypeOK'
    BY <1>0, <1>9 DEF ClaimNothing, store, history, Reclaimed, TypeOK, Rows, Seeing,
       Mining, NotSeeing, Idle
  <2>2. SeenInv'
    BY <1>0, <1>9 DEF ClaimNothing, store, history, Reclaimed, SeenInv, TypeOK,
       Seeing, NotSeeing
  <2>3. SupportInv'
    BY <1>0, <1>9 DEF ClaimNothing, store, history, Reclaimed,
       SupportInv, TypeOK, Rows
  <2>4. FlightInv'
    BY <1>0, <1>9 DEF ClaimNothing, store, history, Reclaimed, FlightInv, InFlight,
       TypeOK, Rows, Mining, Idle
  <2>5. MinedInv'
    BY <1>0, <1>9 DEF ClaimNothing, store, history, Reclaimed, MinedInv, Storing,
       TypeOK, Rows, Mining, Idle
  <2>6. BudgetInv'
    BY <1>0, <1>9 DEF ClaimNothing, store, history, Reclaimed, BudgetInv, TypeOK
  <2>. QED
    BY <2>1, <2>2, <2>3, <2>4, <2>5, <2>6 DEF IInv
<1>10. ASSUME NEW m \in Attempts, ClaimThrows(m) PROVE IInv'
  <2>1. TypeOK'
    BY <1>0, <1>10 DEF ClaimThrows, store, history, TypeOK, Rows, Seeing, Mining,
       NotSeeing, Idle
  <2>2. SeenInv'
    BY <1>0, <1>10 DEF ClaimThrows, store, history, SeenInv, TypeOK, Seeing,
       NotSeeing
  <2>3. SupportInv'
    BY <1>0, <1>10 DEF ClaimThrows, store, history, SupportInv, TypeOK,
       Rows
  <2>4. FlightInv'
    BY <1>0, <1>10 DEF ClaimThrows, store, history, FlightInv, InFlight, TypeOK,
       Rows, Mining, Idle
  <2>5. MinedInv'
    BY <1>0, <1>10 DEF ClaimThrows, store, history, MinedInv, Storing, TypeOK, Rows,
       Mining, Idle
  <2>6. BudgetInv'
    BY <1>0, <1>10 DEF ClaimThrows, store, history, BudgetInv, TypeOK
  <2>. QED
    BY <2>1, <2>2, <2>3, <2>4, <2>5, <2>6 DEF IInv
<1>11. ASSUME NEW m \in Attempts, Reject(m) PROVE IInv'
  <2>1. TypeOK'
    BY <1>0, <1>11 DEF Reject, store, history, Finish, TypeOK, Rows, Seeing, Mining,
       NotSeeing, Idle
  <2>2. SeenInv'
    BY <1>0, <1>11 DEF Reject, store, history, Finish, SeenInv, TypeOK, Seeing,
       NotSeeing
  <2>3. SupportInv'
    <3>1. \A h \in Phrases : /\ cand'[h].support = cand[h].support
                             /\ cand'[h].state # "none" => cand[h].state # "none"
      BY <1>0, <1>11, FinishRows DEF Reject
    <3>. QED
      BY <1>0, <1>11, <3>1, SupportKept DEF Reject
  <2>4. FlightInv'
    BY <1>0, <1>11 DEF Reject, store, history, Finish, FlightInv, InFlight, TypeOK,
       Rows, Mining, Idle
  <2>5. MinedInv'
    <3>1. \A h \in Phrases : h # attempt[m].phrase => cand'[h] = cand[h]
      BY <1>0, <1>11, FinishRows DEF Reject
    <3>2. /\ mined' = mined /\ twice' = twice /\ lapses' = lapses
          /\ attempt[m].at # "store"
      BY <1>11 DEF Reject, history
    <3>3. \A f \in Phrases : Storing(f) => Storing(f)'
      BY <1>0, <1>11, <3>2 DEF Reject, Finish, Storing, TypeOK
    <3>4. lapses \subseteq {"midnight", "cut"} => attempt[m].phrase \notin mined
      BY <1>0, <1>11, NotMinedYet DEF Reject
    <3>. QED
      BY <1>0, <3>1, <3>2, <3>3, <3>4 DEF MinedInv, TypeOK
  <2>6. BudgetInv'
    BY <1>0, <1>11 DEF Reject, store, history, Finish, BudgetInv, TypeOK
  <2>. QED
    BY <2>1, <2>2, <2>3, <2>4, <2>5, <2>6 DEF IInv
<1>12. ASSUME NEW m \in Attempts, KeepInsert(m) PROVE IInv'
  <2>1. TypeOK'
    BY <1>0, <1>12 DEF KeepInsert, store, history, TypeOK, Rows, Seeing, Mining,
       NotSeeing, Idle
  <2>2. SeenInv'
    BY <1>0, <1>12 DEF KeepInsert, store, history, SeenInv, TypeOK, Seeing,
       NotSeeing
  <2>3. SupportInv'
    BY <1>0, <1>12 DEF KeepInsert, store, history, SupportInv, TypeOK,
       Rows
  <2>4. FlightInv'
    BY <1>0, <1>12 DEF KeepInsert, store, history, FlightInv, InFlight, TypeOK,
       Rows, Mining, Idle
  <2>5. MinedInv'
    <3>1. /\ mined' = mined \union {attempt[m].phrase} /\ lapses' = lapses /\ cand' = cand
          /\ twice' = (twice \/ attempt[m].phrase \in mined)
      BY <1>12 DEF KeepInsert, store
    <3>2. \A f \in Phrases : Storing(f) => Storing(f)'
      BY <1>0, <1>12 DEF KeepInsert, Storing, TypeOK, Mining, Idle
    <3>3. \A f \in Phrases : f = attempt[m].phrase => Storing(f)'
      <4>1. attempt'[m].at = "store" /\ attempt'[m].phrase = attempt[m].phrase
        BY <1>0, <1>12 DEF KeepInsert, TypeOK, Mining, Idle
      <4>. QED
        BY <4>1 DEF Storing
    <3>4. lapses \subseteq {"midnight", "cut"} => attempt[m].phrase \notin mined
      BY <1>0, <1>12, NotMinedYet DEF KeepInsert
    <3>5. SUFFICES ASSUME lapses \subseteq {"midnight", "cut"}
                   PROVE  ~twice' /\ \A h \in mined' : cand'[h].state = "mined" \/ Storing(h)'
      BY <3>1 DEF MinedInv
    <3>6. ~twice' /\ \A h \in mined : cand'[h].state = "mined" \/ Storing(h)'
      BY <1>0, <3>1, <3>2, <3>4, <3>5 DEF MinedInv, TypeOK
    <3>7. \A h \in mined' : h \in Phrases /\ (h \in mined \/ h = attempt[m].phrase)
      BY <2>1, <3>1 DEF TypeOK
    <3>. QED
      BY <3>3, <3>6, <3>7
  <2>6. BudgetInv'
    BY <1>0, <1>12 DEF KeepInsert, store, history, BudgetInv, TypeOK
  <2>. QED
    BY <2>1, <2>2, <2>3, <2>4, <2>5, <2>6 DEF IInv
<1>13. ASSUME NEW m \in Attempts, KeepFinish(m) PROVE IInv'
  <2>1. TypeOK'
    BY <1>0, <1>13 DEF KeepFinish, store, history, Finish, TypeOK, Rows, Seeing,
       Mining, NotSeeing, Idle
  <2>2. SeenInv'
    BY <1>0, <1>13 DEF KeepFinish, store, history, Finish, SeenInv, TypeOK, Seeing,
       NotSeeing
  <2>3. SupportInv'
    <3>1. \A h \in Phrases : /\ cand'[h].support = cand[h].support
                             /\ cand'[h].state # "none" => cand[h].state # "none"
      BY <1>0, <1>13, FinishRows DEF KeepFinish
    <3>. QED
      BY <1>0, <1>13, <3>1, SupportKept DEF KeepFinish
  <2>4. FlightInv'
    BY <1>0, <1>13 DEF KeepFinish, store, history, Finish, FlightInv, InFlight,
       TypeOK, Rows, Mining, Idle
  <2>5. MinedInv'
    BY <1>0, <1>13 DEF KeepFinish, store, history, Finish, MinedInv, Storing,
       TypeOK, Rows, Mining, Idle
  <2>6. BudgetInv'
    BY <1>0, <1>13 DEF KeepFinish, store, history, Finish, BudgetInv, TypeOK
  <2>. QED
    BY <2>1, <2>2, <2>3, <2>4, <2>5, <2>6 DEF IInv
<1>14. ASSUME NEW m \in Attempts, AttemptThrows(m) PROVE IInv'
  <2>1. TypeOK'
    BY <1>0, <1>14 DEF AttemptThrows, store, history, Lapse, TypeOK, Rows, Seeing,
       Mining, NotSeeing, Idle
  <2>2. SeenInv'
    BY <1>0, <1>14 DEF AttemptThrows, store, history, Lapse, SeenInv, TypeOK,
       Seeing, NotSeeing
  <2>3. SupportInv'
    BY <1>0, <1>14 DEF AttemptThrows, store, history, Lapse, SupportInv,
       TypeOK, Rows
  <2>4. FlightInv'
    BY <1>0, <1>14 DEF AttemptThrows, store, history, Lapse, FlightInv, InFlight,
       TypeOK, Rows, Mining, Idle
  <2>5. MinedInv'
    BY <1>0, <1>14 DEF AttemptThrows, store, history, Lapse, MinedInv, Storing,
       TypeOK, Rows, Mining, Idle
  <2>6. BudgetInv'
    BY <1>0, <1>14 DEF AttemptThrows, store, history, Lapse, BudgetInv, TypeOK
  <2>. QED
    BY <2>1, <2>2, <2>3, <2>4, <2>5, <2>6 DEF IInv
<1>15. ASSUME NEW m \in Attempts, Undo(m) PROVE IInv'
  <2>1. TypeOK'
    BY <1>0, <1>15 DEF Undo, store, history, Finish, TypeOK, Rows, Seeing, Mining,
       NotSeeing, Idle
  <2>2. SeenInv'
    BY <1>0, <1>15 DEF Undo, store, history, Finish, SeenInv, TypeOK, Seeing,
       NotSeeing
  <2>3. SupportInv'
    <3>1. \A h \in Phrases : /\ cand'[h].support = cand[h].support
                             /\ cand'[h].state # "none" => cand[h].state # "none"
      BY <1>0, <1>15, FinishRows DEF Undo
    <3>. QED
      BY <1>0, <1>15, <3>1, SupportKept DEF Undo
  <2>4. FlightInv'
    BY <1>0, <1>15 DEF Undo, store, history, Finish, FlightInv, InFlight, TypeOK,
       Rows, Mining, Idle
  <2>5. MinedInv'
    <3>1. \A h \in Phrases : h # attempt[m].phrase => cand'[h] = cand[h]
      BY <1>0, <1>15, FinishRows DEF Undo
    <3>2. /\ mined' = mined /\ twice' = twice /\ lapses' = lapses
          /\ attempt[m].at # "store"
      BY <1>15 DEF Undo, history
    <3>3. \A f \in Phrases : Storing(f) => Storing(f)'
      BY <1>0, <1>15, <3>2 DEF Undo, Finish, Storing, TypeOK
    <3>4. lapses \subseteq {"midnight", "cut"} => attempt[m].phrase \notin mined
      BY <1>0, <1>15, NotMinedYet DEF Undo
    <3>. QED
      BY <1>0, <3>1, <3>2, <3>3, <3>4 DEF MinedInv, TypeOK
  <2>6. BudgetInv'
    BY <1>0, <1>15 DEF Undo, store, history, Finish, BudgetInv, TypeOK
  <2>. QED
    BY <2>1, <2>2, <2>3, <2>4, <2>5, <2>6 DEF IInv
<1>16. ASSUME NEW m \in Attempts, Abandon(m) PROVE IInv'
  <2>1. TypeOK'
    BY <1>0, <1>16 DEF Abandon, store, history, TypeOK, Rows, Seeing, Mining,
       NotSeeing, Idle
  <2>2. SeenInv'
    BY <1>0, <1>16 DEF Abandon, store, history, SeenInv, TypeOK, Seeing, NotSeeing
  <2>3. SupportInv'
    BY <1>0, <1>16 DEF Abandon, store, history, SupportInv, TypeOK, Rows
  <2>4. FlightInv'
    BY <1>0, <1>16 DEF Abandon, store, history, FlightInv, InFlight, TypeOK, Rows,
       Mining, Idle
  <2>5. MinedInv'
    BY <1>0, <1>16 DEF Abandon, store, history, MinedInv, Storing, TypeOK, Rows,
       Mining, Idle
  <2>6. BudgetInv'
    BY <1>0, <1>16 DEF Abandon, store, history, BudgetInv, TypeOK
  <2>. QED
    BY <2>1, <2>2, <2>3, <2>4, <2>5, <2>6 DEF IInv
<1>17. ASSUME NEW h \in Phrases, HourPasses(h) PROVE IInv'
  <2>1. TypeOK'
    <3>1. cand' \in [Phrases -> Rows]
      BY <1>0, <1>17 DEF HourPasses, TypeOK, Rows
    <3>2. lapses' \subseteq {"overrun", "partial", "midnight", "cut"}
      BY <1>0, <1>17 DEF HourPasses, TypeOK, Lapse
    <3>. QED
      BY <1>0, <1>17, <3>1, <3>2 DEF HourPasses, TypeOK
  <2>2. SeenInv'
    BY <1>0, <1>17 DEF HourPasses, store, history, Lapse, SeenInv, TypeOK, Seeing,
       NotSeeing
  <2>3. SupportInv'
    BY <1>0, <1>17 DEF HourPasses, store, history, Lapse, SupportInv,
       TypeOK, Rows
  <2>4. FlightInv'
    BY <1>0, <1>17 DEF HourPasses, store, history, Lapse, FlightInv, InFlight,
       TypeOK, Rows, Mining, Idle
  <2>5. MinedInv'
    BY <1>0, <1>17 DEF HourPasses, store, history, Lapse, MinedInv, Storing, TypeOK,
       Rows, Mining, Idle
  <2>6. BudgetInv'
    BY <1>0, <1>17 DEF HourPasses, store, history, Lapse, BudgetInv, TypeOK
  <2>. QED
    BY <2>1, <2>2, <2>3, <2>4, <2>5, <2>6 DEF IInv
<1>18. CASE NewDay
  <2>1. TypeOK'
    <3>1. budget' \in [{"today", "yesterday"} -> 0 .. MaxCalls] /\ made' \in Nat
      BY <1>0, <1>18, MiningAssumption DEF NewDay, TypeOK
    <3>2. attempt' \in [Attempts -> Mining]
      <4>1. ASSUME NEW m \in Attempts PROVE attempt'[m] \in Mining
        <5>1. CASE attempt[m].at = "claim"
          <6>1. attempt[m] \in [at : {"claim"}, day : {"today", "yesterday"}]
            BY <1>0, <5>1 DEF TypeOK, Mining, Idle
          <6>. QED
            BY <1>18, <5>1, <6>1 DEF NewDay, Mining
        <5>2. CASE attempt[m].at # "claim"
          BY <1>0, <1>18, <5>2 DEF NewDay, TypeOK
        <5>. QED
          BY <5>1, <5>2
      <4>. QED
        BY <1>18, <4>1 DEF NewDay
    <3>. QED
      BY <1>0, <1>18, <3>1, <3>2 DEF NewDay, TypeOK
  <2>2. SeenInv'
    BY <1>0, <1>18 DEF NewDay, store, history, SeenInv, TypeOK, Seeing, NotSeeing
  <2>3. SupportInv'
    BY <1>0, <1>18 DEF NewDay, store, history, SupportInv, TypeOK, Rows
  <2>4. FlightInv'
    BY <1>0, <1>18 DEF NewDay, store, history, FlightInv, InFlight, TypeOK, Rows,
       Mining, Idle
  <2>5. MinedInv'
    BY <1>0, <1>18 DEF NewDay, store, history, MinedInv, Storing, TypeOK, Rows,
       Mining, Idle
  <2>6. BudgetInv'
    BY <1>0, <1>18 DEF NewDay, store, history, BudgetInv, TypeOK
  <2>. QED
    BY <2>1, <2>2, <2>3, <2>4, <2>5, <2>6 DEF IInv
<1>19. CASE UNCHANGED vars
  <2>1. TypeOK'
    BY <1>0, <1>19 DEF vars, store, history, TypeOK, Rows, Seeing, Mining,
       NotSeeing, Idle
  <2>2. SeenInv'
    BY <1>0, <1>19 DEF vars, store, history, SeenInv, TypeOK, Seeing, NotSeeing
  <2>3. SupportInv'
    BY <1>0, <1>19 DEF vars, store, history, SupportInv, TypeOK, Rows
  <2>4. FlightInv'
    BY <1>0, <1>19 DEF vars, store, history, FlightInv, InFlight, TypeOK, Rows,
       Mining, Idle
  <2>5. MinedInv'
    BY <1>0, <1>19 DEF vars, store, history, MinedInv, Storing, TypeOK, Rows,
       Mining, Idle
  <2>6. BudgetInv'
    BY <1>0, <1>19 DEF vars, store, history, BudgetInv, TypeOK
  <2>. QED
    BY <2>1, <2>2, <2>3, <2>4, <2>5, <2>6 DEF IInv
<1>. QED
  BY <1>1, <1>2, <1>3, <1>4, <1>5, <1>6, <1>7, <1>8, <1>9, <1>10, <1>11, <1>12,
     <1>13, <1>14, <1>15, <1>16, <1>17, <1>18, <1>19 DEF Next, Observe, Mine

----------------------------------------------------------------------------
\* In every execution the inductive invariant holds.
THEOREM Invariance == Spec => []IInv
<1>. QED
  BY InitInv, StepInv, PTL DEF Spec

\* A step of which the counts do not know.
LEMMA CountKept ==
  ASSUME CountInv, occ' = occ, saw' = saw, lapses \subseteq lapses',
         \A h \in Phrases : cand'[h].support = cand[h].support
  PROVE  CountInv'
  BY DEF CountInv, Counting

LEMMA CountStep == IInv /\ CountInv /\ [Next]_vars => CountInv'
<1> SUFFICES ASSUME IInv, CountInv, [Next]_vars PROVE CountInv'
  OBVIOUS
<1>0. TypeOK /\ SeenInv /\ SupportInv /\ FlightInv
  BY DEF IInv
<1>1. ASSUME NEW p \in Procs, NEW f \in Phrases, NEW s \in Sessions, ObserveInsert(p, f, s)
      PROVE  CountInv'
  <2>1. /\ cand' = cand /\ lapses' = lapses
        /\ \A h \in Phrases \ {f} : occ'[h] = occ[h]
        /\ saw'[p] = [at |-> "count", phrase |-> f] /\ saw[p].at = "idle"
        /\ \A q \in Procs \ {p} : saw'[q] = saw[q]
    BY <1>0, <1>1 DEF ObserveInsert, history, TypeOK, Free
  <2>2. Counting(p, f)'
    BY <2>1 DEF Counting
  <2>3. \A h \in Phrases \ {f}, q \in Procs : Counting(q, h) => Counting(q, h)'
    BY <2>1 DEF Counting
  <2>. QED
    BY <2>1, <2>2, <2>3 DEF CountInv
<1>2. ASSUME NEW p \in Procs, ObserveCount(p) PROVE CountInv'
  <2>1. /\ occ' = occ /\ cand' = cand /\ lapses' = lapses
        /\ \A q \in Procs \ {p} : saw'[q] = saw[q]
        /\ saw[p].phrase \in Phrases /\ saw[p].at = "count"
    BY <1>0, <1>2 DEF ObserveCount, store, history, TypeOK, Seeing, NotSeeing
  <2>2. \A h \in Phrases, q \in Procs \ {p} : Counting(q, h) => Counting(q, h)'
    BY <2>1 DEF Counting
  <2>3. \A h \in Phrases : h = saw[p].phrase /\ Cardinality(occ[h]) >= MinSupport
                             => Counting(p, h)'
    <3>1. Cardinality(occ[saw[p].phrase]) >= MinSupport =>
            saw'[p] = [at |-> "upsert", phrase |-> saw[p].phrase, n |-> Cardinality(occ[saw[p].phrase])]
      BY <1>0, <1>2 DEF ObserveCount, TypeOK
    <3>. QED
      BY <2>1, <3>1 DEF Counting
  <2>4. \A h \in Phrases : Counting(p, h) => h = saw[p].phrase
    BY DEF Counting
  <2>5. ASSUME NEW h \in Phrases, "cut" \notin lapses, Cardinality(occ[h]) >= MinSupport
        PROVE  cand[h].support = Cardinality(occ[h]) \/ \E q \in Procs : Counting(q, h)'
    BY <2>2, <2>3, <2>4, <2>5 DEF CountInv
  <2>. QED
    BY <2>1, <2>5 DEF CountInv
<1>3. ASSUME NEW p \in Procs, ObserveUpsert(p) PROVE CountInv'
  <2> DEFINE f == saw[p].phrase
  <2>1. /\ f \in Phrases /\ saw[p].n \in Nat /\ saw[p].at = "upsert"
        /\ occ' = occ /\ lapses' = lapses
        /\ \A h \in Phrases \ {f} : cand'[h] = cand[h]
        /\ \A q \in Procs \ {p} : saw'[q] = saw[q]
    BY <1>0, <1>3 DEF ObserveUpsert, history, TypeOK, Seeing, NotSeeing
  <2>2. /\ cand[f].support \in Nat
        /\ cand'[f].support = IF cand[f].support > saw[p].n THEN cand[f].support ELSE saw[p].n
    BY <1>0, <1>3, <2>1 DEF ObserveUpsert, TypeOK, Rows
  <2>3. Cardinality(occ[f]) \in Nat
    BY <1>0, <2>1, Support
  <2>4. saw[p].n <= Cardinality(occ[f]) /\ cand[f].support <= Cardinality(occ[f])
    BY <1>0, <2>1, <2>3, MiningAssumption DEF SeenInv, SupportInv
  <2>5. Counting(p, f) \/ cand[f].support = Cardinality(occ[f])
          => cand'[f].support = Cardinality(occ[f])
    BY <2>1, <2>2, <2>3, <2>4 DEF Counting
  <2>6. \A h \in Phrases, q \in Procs \ {p} : Counting(q, h) => Counting(q, h)'
    BY <2>1 DEF Counting
  <2>7. \A h \in Phrases : Counting(p, h) => h = f
    BY DEF Counting
  <2>. QED
    BY <2>1, <2>5, <2>6, <2>7 DEF CountInv
<1>4. ASSUME NEW p \in Procs, HandlerFails(p) \/ Crash(p) PROVE CountInv'
  <2>1. occ' = occ /\ cand' = cand /\ \A q \in Procs \ {p} : saw'[q] = saw[q]
    BY <1>0, <1>4 DEF HandlerFails, Crash, store, TypeOK
  <2>2. lapses \subseteq lapses' /\ (saw[p].at # "idle" => "cut" \in lapses')
    BY <1>4 DEF HandlerFails, Crash, Lapse
  <2>3. \A h \in Phrases, q \in Procs \ {p} : Counting(q, h) => Counting(q, h)'
    BY <2>1 DEF Counting
  <2>4. saw[p].at = "idle" => \A h \in Phrases : ~Counting(p, h)
    BY DEF Counting
  <2>. QED
    BY <2>1, <2>2, <2>3, <2>4 DEF CountInv
<1>5. ASSUME NEW m \in Attempts, Claim(m) PROVE CountInv'
  <2>1. occ' = occ /\ saw' = saw /\ lapses \subseteq lapses'
    BY <1>5 DEF Claim, Lapse
  <2>2. \A h \in Phrases : cand'[h].support = cand[h].support
    BY <1>0, <1>5, ClaimRows, ReclaimedRows
  <2>. QED
    BY <2>1, <2>2, CountKept
<1>6. ASSUME NEW m \in Attempts, ClaimNothing(m) PROVE CountInv'
  BY <1>0, <1>6, ReclaimedRows, CountKept DEF ClaimNothing, history
<1>7. ASSUME NEW m \in Attempts, Reject(m) \/ KeepFinish(m) \/ Undo(m) PROVE CountInv'
  <2>1. occ' = occ /\ saw' = saw /\ lapses' = lapses
    BY <1>7 DEF Reject, KeepFinish, Undo, history
  <2>2. \A h \in Phrases : cand'[h].support = cand[h].support
    BY <1>0, <1>7, FinishRows DEF Reject, KeepFinish, Undo
  <2>. QED
    BY <2>1, <2>2, CountKept
<1>8. ASSUME NEW h \in Phrases, HourPasses(h) PROVE CountInv'
  <2>1. occ' = occ /\ saw' = saw /\ lapses \subseteq lapses'
    BY <1>8 DEF HourPasses, Lapse
  <2>2. \A g \in Phrases : cand'[g].support = cand[g].support
    BY <1>0, <1>8 DEF HourPasses, TypeOK, Rows
  <2>. QED
    BY <2>1, <2>2, CountKept
<1>9. CASE cand' = cand /\ occ' = occ /\ saw' = saw /\ lapses \subseteq lapses'
  BY <1>9, CountKept
<1>. QED
  BY <1>1, <1>2, <1>3, <1>4, <1>5, <1>6, <1>7, <1>8, <1>9
  DEF Next, Observe, Mine, Close, ClaimDay, ClaimThrows, KeepInsert, AttemptThrows,
      Abandon, NewDay, Lapse, store, history, vars

\* A row that is behind what was seen has somebody on the way to it.
THEOREM CountInvariance == Spec => []CountInv
<1>1. Init => CountInv
  BY FS_EmptySet, MiningAssumption DEF Init, CountInv
<1>. QED
  BY <1>1, CountStep, Invariance, PTL DEF Spec

\* The variables keep their types, and no row of the budget exceeds it.
THEOREM TypeCorrect == Spec => []TypeOK
<1>1. IInv => TypeOK
  BY DEF IInv
<1>. QED
  BY <1>1, Invariance, PTL

\* However the statements of several processes interleave, a candidate rests
\* on as many sessions as its row says, and on enough of them; and a count that
\* comes late does not undo a later one.
THEOREM SupportIsReal == Spec => []SupportIsCounted
<1>1. IInv /\ CountInv => SupportIsCounted
  <2> SUFFICES ASSUME IInv, CountInv, NEW h \in Phrases
               PROVE  LET n == Cardinality(occ[h]) IN
                      /\ cand[h].state # "none" => cand[h].support \in MinSupport .. n
                      /\ "cut" \notin lapses /\ Unseen(h) /\ n >= MinSupport => cand[h].support = n
    BY DEF SupportIsCounted
  <2>1. cand[h].support \in Nat /\ Cardinality(occ[h]) \in Nat
    BY Support DEF IInv, TypeOK, Rows
  <2>2. /\ cand[h].support <= Cardinality(occ[h])
        /\ cand[h].state # "none" => MinSupport <= cand[h].support
    BY DEF IInv, SupportInv
  <2>3. Unseen(h) => ~ \E p \in Procs : Counting(p, h)
    BY DEF Unseen, Counting
  <2>. QED
    BY <2>1, <2>2, <2>3, MiningAssumption DEF CountInv
<1>. QED
  BY <1>1, Invariance, CountInvariance, PTL

\* While no attempt outlives its claim, no two attempts hold one candidate,
\* whichever processes claim, crash or close at the same time.
THEOREM ClaimsExclude == Spec => []OneAttemptPerCandidate
<1>1. IInv => OneAttemptPerCandidate
  BY DEF IInv, FlightInv, OneAttemptPerCandidate
<1>. QED
  BY <1>1, Invariance, PTL

\* No phrase yields two snippets, unless an attempt overran its claim or was cut
\* off between storing a snippet and recording that.
THEOREM OneSnippet == Spec => []MinedOnce
<1>1. IInv => MinedOnce
  BY DEF IInv, MinedInv, MinedOnce
<1>. QED
  BY <1>1, Invariance, PTL

\* The calls of a day stay within the budget, unless a claim crossed midnight.
THEOREM BudgetHolds == Spec => []CallsWithinBudget
<1>1. IInv => CallsWithinBudget
  BY MiningAssumption DEF IInv, BudgetInv, CallsWithinBudget, TypeOK
<1>. QED
  BY <1>1, Invariance, PTL

\* A candidate that was mined or rejected stays so, unless an attempt outlived
\* its claim.
THEOREM DecisionsAreFinal == Spec => DecisionsStay
<1>1. IInv /\ [Next]_vars =>
        [ "overrun" \notin lapses' =>
            \A h \in Phrases : cand[h].state \in {"mined", "rejected"} =>
                                 cand'[h].state = cand[h].state ]_vars
  <2> SUFFICES ASSUME IInv, Next, "overrun" \notin lapses',
                      NEW h \in Phrases, cand[h].state \in {"mined", "rejected"}
               PROVE  cand'[h].state = cand[h].state
    BY DEF Next
  <2>0. TypeOK /\ FlightInv
    BY DEF IInv
  <2>1. CASE cand' = cand
    BY <2>1
  <2>2. ASSUME NEW p \in Procs, ObserveUpsert(p) PROVE cand'[h].state = cand[h].state
    BY <2>0, <2>2 DEF ObserveUpsert, TypeOK, Rows
  <2>3. ASSUME NEW m \in Attempts, Claim(m) PROVE cand'[h].state = cand[h].state
    <3>1. PICK f \in Phrases : /\ Reclaimed[f].state = "pending"
                               /\ \A g \in Phrases \ {f} : cand'[g] = Reclaimed[g]
      BY <2>0, <2>3, ClaimRows
    <3>. QED
      BY <2>0, <3>1, ReclaimedRows
  <2>4. ASSUME NEW m \in Attempts, ClaimNothing(m) PROVE cand'[h].state = cand[h].state
    BY <2>0, <2>4, ReclaimedRows DEF ClaimNothing
  <2>5. ASSUME NEW m \in Attempts, Reject(m) \/ KeepFinish(m) \/ Undo(m)
        PROVE  cand'[h].state = cand[h].state
    <3>1. "overrun" \notin lapses
      BY <2>5 DEF Reject, KeepFinish, Undo, history
    <3>2. /\ attempt[m].phrase \in Phrases /\ InFlight(m, attempt[m].phrase)
          /\ \A g \in Phrases : g # attempt[m].phrase => cand'[g] = cand[g]
      BY <2>0, <2>5, FinishRows DEF Reject, KeepFinish, Undo
    <3>3. cand[attempt[m].phrase].state = "processing"
      BY <2>0, <3>1, <3>2 DEF FlightInv
    <3>. QED
      BY <3>2, <3>3
  <2>6. ASSUME NEW f \in Phrases, HourPasses(f) PROVE cand'[h].state = cand[h].state
    BY <2>0, <2>6 DEF HourPasses, TypeOK, Rows
  <2>. QED
    BY <2>1, <2>2, <2>3, <2>4, <2>5, <2>6 DEF Next, Observe, Mine, ObserveInsert,
       ObserveCount, Close, HandlerFails, Crash, ClaimDay, ClaimThrows, KeepInsert,
       AttemptThrows, Abandon, NewDay, store
<1>. QED
  BY <1>1, Invariance, PTL DEF Spec, DecisionsStay
============================================================================
