---------------------------- MODULE VmAuthProofs ----------------------------
(***************************************************************************)
(* The safety of VmAuth for every set of key pairs and any number of       *)
(* mishaps.                                                                *)
(*                                                                         *)
(* FilesAgree says nothing of the files while they are moved, so it does   *)
(* not carry itself across the moves: MovesInv adds which of the three     *)
(* are already those of the new pair at each of them.  WrapIsLastResort    *)
(* is inductive given the types.                                           *)
(***************************************************************************)
EXTENDS VmAuth, TLAPS

\* What has been moved so far.
MovesInv ==
  /\ unit \in {"key", "ca"} => cert = issued
  /\ unit = "ca" => key = issued

IInv == TypeOK /\ MovesInv /\ FilesAgree /\ WrapIsLastResort

----------------------------------------------------------------------------
LEMMA InitInv == Init => IInv
<1> SUFFICES ASSUME Init PROVE IInv
  OBVIOUS
<1>1. TypeOK
  <2>1. mishaps \in 0 .. MaxMishaps
    BY VmAuthAssumption DEF Init
  <2>2. wrap \in BOOLEAN /\ hyper \in BOOLEAN /\ bao \in BOOLEAN /\ clean \in BOOLEAN
    BY Zenon DEF Init
  <2>. QED
    BY <2>1, <2>2 DEF Init, TypeOK, Running
<1>2. MovesInv /\ FilesAgree /\ WrapIsLastResort
  BY DEF Init, MovesInv, FilesAgree, WrapIsLastResort
<1>. QED
  BY <1>1, <1>2 DEF IInv

LEMMA MishapTypes ==
  ASSUME TypeOK, Mishap
  PROVE  mishaps' \in 0 .. MaxMishaps /\ clean' \in BOOLEAN
<1>1. mishaps' \in 0 .. MaxMishaps
  BY VmAuthAssumption DEF Mishap, TypeOK
<1>2. clean' \in BOOLEAN
  BY Zenon DEF Mishap
<1>. QED
  BY <1>1, <1>2

\* What every request does to the counter, whatever its answer.
LEMMA AnswerTypes ==
  ASSUME TypeOK, NEW answered \in BOOLEAN,
         IF bao /\ ~answered THEN Mishap
         ELSE UNCHANGED mishaps /\ clean' = (clean /\ answered)
  PROVE  mishaps' \in 0 .. MaxMishaps /\ clean' \in BOOLEAN
<1>1. CASE bao /\ ~answered
  BY <1>1, MishapTypes
<1>2. CASE ~(bao /\ ~answered)
  <2>1. mishaps' \in 0 .. MaxMishaps
    BY <1>2 DEF TypeOK
  <2>2. clean' \in BOOLEAN
    BY <1>2, Zenon DEF TypeOK
  <2>. QED
    BY <2>1, <2>2
<1>. QED
  BY <1>1, <1>2

LEMMA AsksTypes ==
  ASSUME TypeOK, NEW answered \in BOOLEAN, Asks(answered)
  PROVE  mishaps' \in 0 .. MaxMishaps /\ trouble' \in BOOLEAN /\ clean' \in BOOLEAN
<1>1. mishaps' \in 0 .. MaxMishaps /\ clean' \in BOOLEAN
  BY AnswerTypes DEF Asks
<1>2. trouble' \in BOOLEAN
  BY Zenon DEF Asks, TypeOK
<1>. QED
  BY <1>1, <1>2

LEMMA StepInv == IInv /\ [Next]_vars => IInv'
<1> SUFFICES ASSUME IInv, [Next]_vars PROVE IInv'
  OBVIOUS
<1>0. TypeOK /\ MovesInv /\ FilesAgree /\ WrapIsLastResort
  BY DEF IInv
<1>1. CASE Check
  <2>1. TypeOK'
    BY <1>0, <1>1, VmAuthAssumption DEF Check, TypeOK, files, server, history,
       Running, Lapsed
  <2>2. MovesInv' /\ FilesAgree'
    BY <1>0, <1>1 DEF Check, MovesInv, FilesAgree, TypeOK,
       files, server, history, Running, Lapsed
  <2>3. WrapIsLastResort'
    BY <1>0, <1>1 DEF Check, WrapIsLastResort, CertWorks, TypeOK, files,
       server, history, Running, Lapsed
  <2>. QED
    BY <2>1, <2>2, <2>3 DEF IInv
<1>2. CASE Renew
  <2>1. TypeOK'
    BY <1>0, <1>2, AsksTypes, VmAuthAssumption DEF Renew, TypeOK, Running,
       files
  <2>2. MovesInv' /\ FilesAgree'
    BY <1>0, <1>2 DEF Renew, MovesInv, FilesAgree, TypeOK,
       files, Running
  <2>3. WrapIsLastResort'
    BY <1>0, <1>2 DEF Renew, WrapIsLastResort, CertWorks, files, Asks, Running
  <2>. QED
    BY <2>1, <2>2, <2>3 DEF IInv
<1>3. CASE Reissue
  <2>1. TypeOK'
    BY <1>0, <1>3, AsksTypes, VmAuthAssumption DEF Reissue, TypeOK, Running,
       files
  <2>2. MovesInv' /\ FilesAgree'
    BY <1>0, <1>3 DEF Reissue, MovesInv, FilesAgree, TypeOK,
       files, Running
  <2>3. WrapIsLastResort'
    BY <1>0, <1>3 DEF Reissue, WrapIsLastResort, CertWorks, files, Asks,
       Running
  <2>. QED
    BY <2>1, <2>2, <2>3 DEF IInv
<1>4. CASE Unwrap
  <2>1. TypeOK'
    <3>1. mishaps' \in 0 .. MaxMishaps /\ trouble' \in BOOLEAN /\ clean' \in BOOLEAN
      BY <1>0, <1>4, AsksTypes DEF Unwrap
    <3>2. wrap' \in BOOLEAN
      BY <1>0, <1>4, Zenon DEF Unwrap, TypeOK
    <3>. QED
      BY <1>0, <1>4, <3>1, <3>2 DEF Unwrap, TypeOK, Running, files
  <2>2. MovesInv' /\ FilesAgree'
    BY <1>0, <1>4 DEF Unwrap, MovesInv, FilesAgree, TypeOK,
       files, Running
  <2>3. WrapIsLastResort'
    BY <1>0, <1>4 DEF Unwrap, WrapIsLastResort, CertWorks, files, Asks,
       Running
  <2>. QED
    BY <2>1, <2>2, <2>3 DEF IInv
<1>5. CASE Issue
  <2>1. TypeOK'
    BY <1>0, <1>5, AsksTypes, VmAuthAssumption DEF Issue, TypeOK, Running,
       files
  <2>2. MovesInv' /\ FilesAgree'
    BY <1>0, <1>5 DEF Issue, MovesInv, FilesAgree, TypeOK,
       files, Running
  <2>3. WrapIsLastResort'
    BY <1>0, <1>5 DEF Issue, WrapIsLastResort, CertWorks, files, Asks, Running
  <2>. QED
    BY <2>1, <2>2, <2>3 DEF IInv
<1>6. CASE MoveCert
  <2>1. TypeOK'
    BY <1>0, <1>6, VmAuthAssumption DEF MoveCert, TypeOK, files, server,
       history, Running
  <2>2. MovesInv' /\ FilesAgree'
    BY <1>0, <1>6 DEF MoveCert, MovesInv, FilesAgree,
       TypeOK, files, server, history
  <2>3. WrapIsLastResort'
    BY <1>0, <1>6 DEF MoveCert, WrapIsLastResort, CertWorks, TypeOK, files,
       server, history
  <2>. QED
    BY <2>1, <2>2, <2>3 DEF IInv
<1>7. CASE MoveKey
  <2>1. TypeOK'
    BY <1>0, <1>7, VmAuthAssumption DEF MoveKey, TypeOK, files, server,
       history, Running
  <2>2. MovesInv' /\ FilesAgree'
    BY <1>0, <1>7 DEF MoveKey, MovesInv, FilesAgree, TypeOK,
       files, server, history
  <2>3. WrapIsLastResort'
    BY <1>0, <1>7 DEF MoveKey, WrapIsLastResort, CertWorks, TypeOK, files,
       server, history
  <2>. QED
    BY <2>1, <2>2, <2>3 DEF IInv
<1>8. CASE MoveCa
  <2>1. TypeOK'
    BY <1>0, <1>8, VmAuthAssumption, ZenonT(30) DEF MoveCa, TypeOK, files, server,
       history, Running
  <2>2. MovesInv' /\ FilesAgree'
    BY <1>0, <1>8 DEF MoveCa, MovesInv, FilesAgree, TypeOK,
       files, server, history
  <2>3. WrapIsLastResort'
    BY <1>0, <1>8 DEF MoveCa, WrapIsLastResort, CertWorks, TypeOK, files,
       server, history
  <2>. QED
    BY <2>1, <2>2, <2>3 DEF IInv
<1>9. CASE Login
  <2>1. TypeOK'
    BY <1>0, <1>9, AsksTypes, VmAuthAssumption DEF Login, TypeOK, Running,
       files
  <2>2. MovesInv' /\ FilesAgree'
    BY <1>0, <1>9 DEF Login, MovesInv, FilesAgree, TypeOK,
       files, Running
  <2>3. WrapIsLastResort'
    BY <1>0, <1>9 DEF Login, WrapIsLastResort, CertWorks, files, Asks, Running
  <2>. QED
    BY <2>1, <2>2, <2>3 DEF IInv
<1>10. CASE TimesOut
  <2>1. TypeOK'
    <3>1. mishaps' \in 0 .. MaxMishaps /\ clean' \in BOOLEAN
      BY <1>0, <1>10, MishapTypes DEF TimesOut
    <3>2. torn' \in BOOLEAN
      BY <1>0, <1>10, Zenon DEF TimesOut, TypeOK
    <3>. QED
      BY <1>0, <1>10, <3>1, <3>2 DEF TimesOut, TypeOK, files
  <2>2. MovesInv' /\ FilesAgree'
    BY <1>0, <1>10 DEF TimesOut, MovesInv, FilesAgree,
       TypeOK, files, server, history, Mishap, Running
  <2>3. WrapIsLastResort'
    BY <1>0, <1>10 DEF TimesOut, WrapIsLastResort, CertWorks, TypeOK, files,
       server, history, Mishap, Running
  <2>. QED
    BY <2>1, <2>2, <2>3 DEF IInv
<1>11. CASE Hourly
  <2>1. TypeOK'
    BY <1>0, <1>11, VmAuthAssumption, ZenonT(30) DEF Hourly, TypeOK, files, server,
       history, Running
  <2>2. MovesInv' /\ FilesAgree'
    BY <1>0, <1>11 DEF Hourly, MovesInv, FilesAgree, TypeOK,
       files, server, history, Running
  <2>3. WrapIsLastResort'
    BY <1>0, <1>11 DEF Hourly, WrapIsLastResort, CertWorks, TypeOK, files,
       server, history, Running
  <2>. QED
    BY <2>1, <2>2, <2>3 DEF IInv
<1>12. CASE SshSign
  <2>1. TypeOK'
    <3>1. mishaps' \in 0 .. MaxMishaps /\ clean' \in BOOLEAN
      BY <1>0, <1>12, AnswerTypes DEF SshSign
    <3>. QED
      BY <1>0, <1>12, <3>1 DEF SshSign, TypeOK, files
  <2>2. MovesInv' /\ FilesAgree'
    BY <1>0, <1>12 DEF SshSign, MovesInv, FilesAgree,
       TypeOK, files, Running
  <2>3. WrapIsLastResort'
    BY <1>0, <1>12 DEF SshSign, WrapIsLastResort, CertWorks, files, Asks,
       Running
  <2>. QED
    BY <2>1, <2>2, <2>3 DEF IInv
<1>13. CASE Restart
  <2>1. TypeOK'
    <3>1. mishaps' \in 0 .. MaxMishaps
      BY <1>0, <1>13, VmAuthAssumption DEF Restart, TypeOK
    <3>2. hyper' \in BOOLEAN /\ wrap' \in BOOLEAN
      BY <1>0, <1>13, Zenon DEF Restart, Mints, TypeOK
    <3>3. torn' \in BOOLEAN /\ clean' \in BOOLEAN
      BY <1>0, <1>13, Zenon DEF Restart, TypeOK
    <3>. QED
      BY <1>0, <1>13, <3>1, <3>2, <3>3 DEF Restart, TypeOK, files, Running
  <2>2. MovesInv' /\ FilesAgree'
    BY <1>0, <1>13 DEF Restart, MovesInv, FilesAgree,
       TypeOK, files, server, history, Running
  <2>3. WrapIsLastResort'
    BY <1>0, <1>13 DEF Restart, WrapIsLastResort, CertWorks, TypeOK, files,
       server, history, Running
  <2>. QED
    BY <2>1, <2>2, <2>3 DEF IInv
<1>14. CASE HostLogin
  <2>1. TypeOK'
    BY <1>0, <1>14, VmAuthAssumption DEF HostLogin, TypeOK, files, server,
       history, Running
  <2>2. MovesInv' /\ FilesAgree'
    BY <1>0, <1>14 DEF HostLogin, MovesInv, FilesAgree,
       TypeOK, files, server, history
  <2>3. WrapIsLastResort'
    BY <1>0, <1>14 DEF HostLogin, WrapIsLastResort, CertWorks, TypeOK, files,
       server, history
  <2>. QED
    BY <2>1, <2>2, <2>3 DEF IInv
<1>15. CASE Ages
  <2>1. TypeOK'
    BY <1>0, <1>15, VmAuthAssumption DEF Ages, TypeOK, files, server, history,
       Running
  <2>2. MovesInv' /\ FilesAgree'
    BY <1>0, <1>15 DEF Ages, MovesInv, FilesAgree, TypeOK,
       files, server, history
  <2>3. WrapIsLastResort'
    BY <1>0, <1>15 DEF Ages, WrapIsLastResort, CertWorks, TypeOK, files,
       server, history
  <2>. QED
    BY <2>1, <2>2, <2>3 DEF IInv
<1>16. CASE WrapLapses
  <2>1. TypeOK'
    <3>1. wrap' \in BOOLEAN /\ clean' \in BOOLEAN
      BY <1>16, Zenon DEF WrapLapses
    <3>. QED
      BY <1>0, <1>16, <3>1 DEF WrapLapses, TypeOK, files, server
  <2>2. MovesInv' /\ FilesAgree'
    BY <1>0, <1>16 DEF WrapLapses, MovesInv, FilesAgree,
       TypeOK, files, server, history
  <2>3. WrapIsLastResort'
    BY <1>0, <1>16 DEF WrapLapses, WrapIsLastResort, CertWorks, TypeOK, files,
       server, history
  <2>. QED
    BY <2>1, <2>2, <2>3 DEF IInv
<1>17. CASE BaoDown
  <2>1. TypeOK'
    <3>1. mishaps' \in 0 .. MaxMishaps /\ clean' \in BOOLEAN
      BY <1>0, <1>17, MishapTypes DEF BaoDown
    <3>2. bao' \in BOOLEAN
      BY <1>17, Zenon DEF BaoDown
    <3>. QED
      BY <1>0, <1>17, <3>1, <3>2 DEF BaoDown, TypeOK, files
  <2>2. MovesInv' /\ FilesAgree'
    BY <1>0, <1>17 DEF BaoDown, MovesInv, FilesAgree,
       TypeOK, files, server, history, Mishap
  <2>3. WrapIsLastResort'
    BY <1>0, <1>17 DEF BaoDown, WrapIsLastResort, CertWorks, TypeOK, files,
       server, history, Mishap
  <2>. QED
    BY <2>1, <2>2, <2>3 DEF IInv
<1>18. CASE BaoUp
  <2>1. TypeOK'
    BY <1>0, <1>18, VmAuthAssumption DEF BaoUp, TypeOK, files, server,
       history, Running
  <2>2. MovesInv' /\ FilesAgree'
    BY <1>0, <1>18 DEF BaoUp, MovesInv, FilesAgree, TypeOK,
       files, server, history
  <2>3. WrapIsLastResort'
    BY <1>0, <1>18 DEF BaoUp, WrapIsLastResort, CertWorks, TypeOK, files,
       server, history
  <2>. QED
    BY <2>1, <2>2, <2>3 DEF IInv
<1>19. CASE UNCHANGED vars
  BY <1>0, <1>19 DEF IInv, TypeOK, MovesInv, FilesAgree, WrapIsLastResort,
     CertWorks, vars, files, server, history
<1>. QED
  BY <1>1, <1>2, <1>3, <1>4, <1>5, <1>6, <1>7, <1>8, <1>9, <1>10, <1>11,
     <1>12, <1>13, <1>14, <1>15, <1>16, <1>17, <1>18, <1>19 DEF Next, Guest

----------------------------------------------------------------------------
\* In every execution the inductive invariant holds.
THEOREM Invariance == Spec => []IInv
<1>. QED
  BY InitInv, StepInv, PTL DEF Spec

\* The variables keep their types for every set of key pairs.
THEOREM TypeCorrect == Spec => []TypeOK
<1>1. IInv => TypeOK
  BY DEF IInv
<1>. QED
  BY <1>1, Invariance, PTL

\* Through renewals that fail, lost answers and restarts, certificate, key
\* and CA belong together unless a run was cut short between two moves.
THEOREM OneSetOfFiles == Spec => []FilesAgree
<1>1. IInv => FilesAgree
  BY DEF IInv
<1>. QED
  BY <1>1, Invariance, PTL

\* The wrap token is never spent while the certificate works, unless a
\* request of the run found no answer.
THEOREM WrapTokenIsKept == Spec => []WrapIsLastResort
<1>1. IInv => WrapIsLastResort
  BY DEF IInv
<1>. QED
  BY <1>1, Invariance, PTL
=============================================================================
