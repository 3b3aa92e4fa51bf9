-------------------------- MODULE ConfirmedCommit --------------------------
(***************************************************************************)
(* What packages/commit-confirm promises, without its scripts and units:   *)
(* a host changes its configuration only inside a window that somebody     *)
(* opened, keeps a new one only if the operator has verified it, and goes  *)
(* back to the one before if the window runs out.  The promise is void     *)
(* once something has happened that the tool does not provide for.         *)
(***************************************************************************)
CONSTANTS Configs

VARIABLES
  current,   \* the configuration the host runs
  fallback,  \* the one it returns to
  open,      \* whether a window is open
  verified,  \* what the operator has verified
  void

avars == <<current, fallback, open, verified, void>>

Init ==
  /\ current \in Configs /\ fallback = current
  /\ open = FALSE /\ verified = {current} /\ void = FALSE

Open ==
  /\ ~open /\ open' = TRUE
  /\ current \in verified /\ fallback' = current
  /\ UNCHANGED <<current, verified>>

\* Within a window anything can be tried.
Try ==
  /\ open /\ current' \in Configs
  /\ UNCHANGED <<fallback, open, verified>>

Verify ==
  /\ verified' = verified \union {current}
  /\ UNCHANGED <<current, fallback, open>>

\* A window is closed over a configuration that has been verified.
Close ==
  /\ open /\ open' = FALSE
  /\ current \in verified /\ fallback' = current
  /\ UNCHANGED <<current, verified>>

\* A return that was asked for leaves the window open until it is closed.
Return ==
  /\ open /\ open' \in BOOLEAN
  /\ current' = fallback
  /\ UNCHANGED <<fallback, verified>>

Kept == Open \/ Try \/ Verify \/ Close \/ Return

Next == void' = TRUE \/ (void' = void /\ Kept)

\* A window does not stay open: it is closed, or the host returns.
Fairness == WF_avars(void' = void /\ ~void /\ Return)

Safe == Init /\ [][Next]_avars
Spec == Safe /\ Fairness
============================================================================
