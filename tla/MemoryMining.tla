--------------------------- MODULE MemoryMining ---------------------------
(***************************************************************************)
(* packages/pi-agent/extensions/memory: several agent processes share one  *)
(* SQLite store.  Every user message feeds the phrase table; a phrase seen *)
(* in MinSupport sessions becomes a candidate; an attempt (mineOne) claims *)
(* one candidate under a daily budget, awaits a language model and records *)
(* the outcome.  Statements of different processes interleave; the only    *)
(* transaction is claimCandidate.                                          *)
(*                                                                         *)
(* Time is kept as what the code compares: whether a row's updated_at is   *)
(* more than an hour old (stale) and whether a day string still names the  *)
(* current UTC day.  A message carries one phrase; phrase length and the   *)
(* secret filter are decided before it reaches this model.                 *)
(***************************************************************************)
EXTENDS Naturals, FiniteSets

CONSTANTS
  Phrases,     \* normalised phrases (phrase_hash)
  Sessions,    \* session ids
  Procs,       \* processes, each with its own connection
  Attempts,    \* activations of mineOne that may be under way at once
  Owner,       \* Owner[m]: the process attempt m runs in
  MinSupport,  \* sessions that make a candidate (3 in the code)
  MaxCalls     \* PI_SNIPPET_DAILY_BUDGET

ASSUME MiningAssumption ==
  /\ Owner \in [Attempts -> Procs]
  /\ MinSupport \in Nat \ {0} /\ MaxCalls \in Nat
  /\ IsFiniteSet(Sessions)

VARIABLES
  occ,      \* phrase_occurrences: the sessions each phrase was seen in
  cand,     \* mining_candidates: [state, support, stale], state "none" if no row
  budget,   \* mining_budget: calls of the "today" and the "yesterday" row
  failed,   \* processes whose storeFailed is latched
  saw,      \* per process, where observePhrases is: [at, phrase, n]
  attempt,  \* per attempt: [at, day, phrase, live]
  mined,    \* history: phrases a snippet was stored for
  twice,    \* history: some phrase was stored twice
  made,     \* history: model calls started today
  lapses    \* history: "overrun", "partial", "midnight", "cut"

store == <<occ, cand, budget>>
history == <<mined, twice, made, lapses>>
vars == <<store, failed, saw, attempt, history>>

NoRow == [state |-> "none", support |-> 0, stale |-> FALSE]
NotSeeing == [at |-> "idle"]
Idle == [at |-> "idle"]
InFlight(m, h) == attempt[m].at \in {"await", "store", "undo"} /\ attempt[m].phrase = h
Live(m) == attempt[m].live

\* A handler and, but for the await, an attempt are synchronous: within one
\* process nothing else runs between their statements.
InCall(m) == attempt[m].at \notin {"idle", "await"}
Free(p) == saw[p].at = "idle" /\ \A m \in Attempts : Owner[m] = p => ~InCall(m)

Lapse(cond, name) == lapses' = IF cond THEN lapses \union {name} ELSE lapses

Init ==
  /\ occ = [h \in Phrases |-> {}]
  /\ cand = [h \in Phrases |-> NoRow]
  /\ budget = [today |-> 0, yesterday |-> 0]
  /\ failed = {}
  /\ saw = [p \in Procs |-> NotSeeing]
  /\ attempt = [m \in Attempts |-> Idle]
  /\ mined = {} /\ twice = FALSE /\ made = 0 /\ lapses = {}

----------------------------------------------------------------------------
(* observePhrases, statement by statement                                  *)

\* message_end of a user: the occurrence is inserted, once per session.
ObserveInsert(p, h, s) ==
  /\ p \notin failed /\ Free(p)
  /\ occ' = [occ EXCEPT ![h] = @ \union {s}]
  /\ saw' = [saw EXCEPT ![p] = [at |-> "count", phrase |-> h]]
  /\ UNCHANGED <<cand, budget, failed, attempt, history>>

\* SELECT count(*): a phrase below the threshold is left at that.
ObserveCount(p) ==
  LET h == saw[p].phrase
      support == Cardinality(occ[h])
  IN /\ saw[p].at = "count"
     /\ saw' = [saw EXCEPT ![p] =
          IF support >= MinSupport THEN [at |-> "upsert", phrase |-> h, n |-> support]
                                   ELSE NotSeeing]
     /\ UNCHANGED <<store, failed, attempt, history>>

\* Variant: the upsert opens the row again.
ObserveUpsertReopens(p) ==
  /\ saw[p].at = "upsert"
  /\ cand' = [cand EXCEPT ![saw[p].phrase] =
                [state |-> "pending", support |-> saw[p].n, stale |-> FALSE]]
  /\ saw' = [saw EXCEPT ![p] = NotSeeing]
  /\ UNCHANGED <<occ, budget, failed, attempt, history>>

\* Variant: the count that is written last stays.
ObserveUpsertLast(p) ==
  LET h == saw[p].phrase IN
  /\ saw[p].at = "upsert"
  /\ cand' = [cand EXCEPT ![h] =
       [state |-> IF @.state = "none" THEN "pending" ELSE @.state,
        support |-> saw[p].n, stale |-> FALSE]]
  /\ saw' = [saw EXCEPT ![p] = NotSeeing]
  /\ UNCHANGED <<occ, budget, failed, attempt, history>>

\* The upsert keeps the row's state, never lowers its support, renews updated_at.
ObserveUpsert(p) ==
  LET h == saw[p].phrase
      n == saw[p].n
  IN /\ saw[p].at = "upsert"
     /\ cand' = [cand EXCEPT ![h] =
          [state |-> IF @.state = "none" THEN "pending" ELSE @.state,
           support |-> IF @.support > n THEN @.support ELSE n,
           stale |-> FALSE]]
     /\ saw' = [saw EXCEPT ![p] = NotSeeing]
     /\ UNCHANGED <<occ, budget, failed, attempt, history>>

----------------------------------------------------------------------------
(* mineOne and claimCandidate                                              *)

\* claimCandidate names the day before it waits for the write lock.
ClaimDay(m) ==
  /\ attempt[m].at = "idle" /\ Owner[m] \notin failed /\ Free(Owner[m])
  /\ attempt' = [attempt EXCEPT ![m] = [at |-> "claim", day |-> "today"]]
  /\ UNCHANGED <<store, failed, saw, history>>

\* Variant: rows are taken back at once.
ReclaimedEarly ==
  [h \in Phrases |->
     IF cand[h].state = "processing" THEN [cand[h] EXCEPT !.state = "pending"] ELSE cand[h]]

\* Processing rows untouched for an hour go back to pending.
Reclaimed ==
  [h \in Phrases |->
     IF cand[h].state = "processing" /\ cand[h].stale
       THEN [cand[h] EXCEPT !.state = "pending"] ELSE cand[h]]

\* WHERE state = 'pending' ORDER BY support DESC
Eligible(rows) ==
  {h \in Phrases : /\ rows[h].state = "pending"
                   /\ \A g \in Phrases : rows[g].state = "pending" => rows[g].support <= rows[h].support}

\* Variant: the budget row is read but not charged.
ClaimUncharged(m) ==
  LET rows == Reclaimed
      day == attempt[m].day
  IN /\ attempt[m].at = "claim"
     /\ \E h \in Eligible(rows) :
          /\ budget[day] < MaxCalls
          /\ cand' = [rows EXCEPT ![h].state = "processing", ![h].stale = FALSE]
          /\ attempt' = [attempt EXCEPT ![m] = [at |-> "await", phrase |-> h, live |-> TRUE]]
     /\ made' = made + 1
     /\ Lapse(day # "today", "midnight")
     /\ UNCHANGED <<occ, budget, failed, saw, mined, twice>>

\* The transaction found a candidate and room in the budget row of its day;
\* the model is called.
Claim(m) ==
  LET rows == Reclaimed
      day == attempt[m].day
  IN /\ attempt[m].at = "claim"
     /\ \E h \in Eligible(rows) :
          /\ budget[day] < MaxCalls
          /\ budget' = [budget EXCEPT ![day] = @ + 1]
          /\ cand' = [rows EXCEPT ![h].state = "processing", ![h].stale = FALSE]
          /\ attempt' = [attempt EXCEPT ![m] = [at |-> "await", phrase |-> h, live |-> TRUE]]
     /\ made' = made + 1
     /\ Lapse(day # "today", "midnight")
     /\ UNCHANGED <<occ, failed, saw, mined, twice>>

\* No candidate or no budget: the reclaiming is committed all the same.
ClaimNothing(m) ==
  /\ attempt[m].at = "claim"
  /\ Eligible(Reclaimed) = {} \/ budget[attempt[m].day] >= MaxCalls
  /\ cand' = Reclaimed
  /\ attempt' = [attempt EXCEPT ![m] = Idle]
  /\ UNCHANGED <<occ, budget, failed, saw, history>>

\* BEGIN IMMEDIATE or a statement throws and the transaction is rolled back.
ClaimThrows(m) ==
  /\ attempt[m].at = "claim"
  /\ attempt' = [attempt EXCEPT ![m] = Idle]
  /\ UNCHANGED <<store, failed, saw, history>>

\* finishCandidate: whoever calls it last decides.
Finish(m, state) ==
  /\ cand' = [cand EXCEPT ![attempt[m].phrase].state = state,
                          ![attempt[m].phrase].stale = FALSE]
  /\ attempt' = [attempt EXCEPT ![m] = Idle]

\* The model declines, or what it wants to keep is too long.
Reject(m) ==
  /\ attempt[m].at = "await" /\ Free(Owner[m]) /\ Live(m)
  /\ Finish(m, "rejected")
  /\ UNCHANGED <<occ, budget, failed, saw, history>>

\* keep: addSnippet's INSERT succeeds.
KeepInsert(m) ==
  LET h == attempt[m].phrase IN
  /\ attempt[m].at = "await" /\ Free(Owner[m]) /\ Live(m)
  /\ mined' = mined \union {h}
  /\ twice' = (twice \/ h \in mined)
  /\ attempt' = [attempt EXCEPT ![m].at = "store"]
  /\ UNCHANGED <<store, failed, saw, made, lapses>>

\* Variant: the outcome of a kept phrase is not recorded as final.
KeepFinishPending(m) ==
  /\ attempt[m].at = "store"
  /\ Finish(m, "pending")
  /\ UNCHANGED <<occ, budget, failed, saw, history>>

KeepFinish(m) ==
  /\ attempt[m].at = "store"
  /\ Finish(m, "mined")
  /\ UNCHANGED <<occ, budget, failed, saw, history>>

\* Anything in the try throws: the call, JSON.parse, any statement on a closed
\* connection, addSnippet's INSERT, or the event record it appends after that.
AttemptThrows(m) ==
  /\ \/ attempt[m].at = "store"
     \/ attempt[m].at = "await" /\ Free(Owner[m])
  /\ attempt' = [attempt EXCEPT ![m].at = "undo"]
  /\ Lapse(attempt[m].at = "store", "partial")
  /\ UNCHANGED <<store, failed, saw, mined, twice, made>>

\* catch: the candidate is pending again ...
Undo(m) ==
  /\ attempt[m].at = "undo" /\ Live(m)
  /\ Finish(m, "pending")
  /\ UNCHANGED <<occ, budget, failed, saw, history>>

\* ... unless that throws too, and the row stays processing.
Abandon(m) ==
  /\ attempt[m].at = "undo"
  /\ attempt' = [attempt EXCEPT ![m] = Idle]
  /\ UNCHANGED <<store, failed, saw, history>>

----------------------------------------------------------------------------
(* Processes and time                                                      *)

\* The attempts of p that await keep the connection they captured; it is closed.
Orphaned(p) ==
  [m \in Attempts |->
     IF Owner[m] = p /\ attempt[m].at = "await" THEN [attempt[m] EXCEPT !.live = FALSE]
                                               ELSE attempt[m]]

\* session_shutdown closes the store under whatever is awaiting.
Close(p) ==
  /\ Free(p)
  /\ attempt' = Orphaned(p)
  /\ UNCHANGED <<store, failed, saw, history>>

\* safely: a handler's statement throws (a busy database, a full disk), the
\* store is closed and logging is off for the rest of the process.
HandlerFails(p) ==
  /\ p \notin failed
  /\ Free(p) \/ saw[p].at # "idle"
  /\ failed' = failed \union {p}
  /\ saw' = [saw EXCEPT ![p] = NotSeeing]
  /\ attempt' = Orphaned(p)
  /\ Lapse(saw[p].at # "idle", "cut")
  /\ UNCHANGED <<store, mined, twice, made>>

\* The process dies and a new one takes its place.
Crash(p) ==
  /\ failed' = failed \ {p}
  /\ saw' = [saw EXCEPT ![p] = NotSeeing]
  /\ attempt' = [m \in Attempts |-> IF Owner[m] = p THEN Idle ELSE attempt[m]]
  /\ lapses' = lapses
       \union {l \in {"partial"} : \E m \in Attempts : Owner[m] = p /\ attempt[m].at \in {"store", "undo"}}
       \union {l \in {"cut"} : saw[p].at # "idle"}
  /\ UNCHANGED <<store, mined, twice, made>>

\* An hour passes without a write to the row.
HourPasses(h) ==
  /\ cand[h].state = "processing" /\ ~cand[h].stale
  /\ cand' = [cand EXCEPT ![h].stale = TRUE]
  /\ Lapse(\E m \in Attempts : InFlight(m, h), "overrun")
  /\ UNCHANGED <<occ, budget, failed, saw, attempt, mined, twice, made>>

\* Midnight UTC.  A claim waits for the lock for seconds, not for a day.
NewDay ==
  /\ \A m \in Attempts : attempt[m].at = "claim" => attempt[m].day = "today"
  /\ budget' = [today |-> 0, yesterday |-> budget.today]
  /\ attempt' = [m \in Attempts |->
       IF attempt[m].at = "claim" THEN [attempt[m] EXCEPT !.day = "yesterday"] ELSE attempt[m]]
  /\ made' = 0
  /\ UNCHANGED <<occ, cand, failed, saw, mined, twice, lapses>>

----------------------------------------------------------------------------
Observe(p) ==
  \/ \E h \in Phrases, s \in Sessions : ObserveInsert(p, h, s)
  \/ ObserveCount(p) \/ ObserveUpsert(p)

Mine(m) ==
  \/ ClaimDay(m) \/ Claim(m) \/ ClaimNothing(m) \/ ClaimThrows(m)
  \/ Reject(m) \/ KeepInsert(m) \/ KeepFinish(m)
  \/ AttemptThrows(m) \/ Undo(m) \/ Abandon(m)

Next ==
  \/ \E p \in Procs : Observe(p) \/ Close(p) \/ HandlerFails(p) \/ Crash(p)
  \/ \E m \in Attempts : Mine(m)
  \/ \E h \in Phrases : HourPasses(h)
  \/ NewDay

Spec == Init /\ [][Next]_vars

----------------------------------------------------------------------------
(* Properties                                                              *)

Rows == [state : {"none", "pending", "processing", "mined", "rejected"},
         support : Nat, stale : BOOLEAN]
Seeing == {NotSeeing} \union [at : {"count"}, phrase : Phrases]
                      \union [at : {"upsert"}, phrase : Phrases, n : Nat]
Mining == {Idle} \union [at : {"claim"}, day : {"today", "yesterday"}]
                 \union [at : {"await", "store", "undo"}, phrase : Phrases, live : BOOLEAN]

TypeOK ==
  /\ occ \in [Phrases -> SUBSET Sessions]
  /\ cand \in [Phrases -> Rows]
  /\ budget \in [{"today", "yesterday"} -> 0 .. MaxCalls]
  /\ failed \subseteq Procs /\ mined \subseteq Phrases /\ twice \in BOOLEAN /\ made \in Nat
  /\ saw \in [Procs -> Seeing]
  /\ attempt \in [Attempts -> Mining]
  /\ lapses \subseteq {"overrun", "partial", "midnight", "cut"}

\* The support a candidate is claimed by, and quoted to the model with, rests on
\* that many sessions; and it is all of them whenever nobody is between seeing
\* the phrase and listing it: a count that arrives late is not written over a
\* later one, unless a process was cut off in between.
Unseen(h) == \A p \in Procs : saw[p].at = "idle" \/ saw[p].phrase # h
SupportIsCounted ==
  \A h \in Phrases :
    LET n == Cardinality(occ[h]) IN
    /\ cand[h].state # "none" => cand[h].support \in MinSupport .. n
    /\ "cut" \notin lapses /\ Unseen(h) /\ n >= MinSupport => cand[h].support = n

\* While no attempt outlives its one-hour claim, a candidate is with one
\* attempt at a time, and its row says so.
OneAttemptPerCandidate ==
  "overrun" \notin lapses =>
    \A h \in Phrases : \A m \in Attempts : InFlight(m, h) =>
      /\ cand[h].state = "processing"
      /\ \A o \in Attempts : InFlight(o, h) => o = m

\* A phrase yields one snippet, provided also that no attempt is cut off
\* between storing the snippet and recording that.
MinedOnce == lapses \subseteq {"midnight", "cut"} => ~twice

\* A decided candidate is not mined again: no late attempt takes it back.
DecisionsStay ==
  [][ "overrun" \notin lapses' =>
        \A h \in Phrases : cand[h].state \in {"mined", "rejected"} => cand'[h].state = cand[h].state ]_vars

\* At most PI_SNIPPET_DAILY_BUDGET calls are made per UTC day, if no claim that
\* named its day before midnight gets the write lock after it.
CallsWithinBudget == "midnight" \notin lapses => made <= MaxCalls

============================================================================
