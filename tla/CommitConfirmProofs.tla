------------------------ MODULE CommitConfirmProofs ------------------------
(***************************************************************************)
(* The safety properties of CommitConfirm, for every set of configurations.*)
(*                                                                         *)
(* The properties are not inductive: that the armed revert leads back to   *)
(* something good depends on what the profile held when the snapshot was   *)
(* taken, which depends on how the previous window closed.  IInv says, for *)
(* each stage of an apply, which of profile, running and boot have moved.  *)
(***************************************************************************)
EXTENDS CommitConfirm, TLAPS

\* Profile, running system and boot default are one verified configuration.
AtRest == profile = running /\ boot = running /\ running \in verified

\* The service is loaded exactly while the timer or the service needs it.
UnitInv == target # None <=> timer = "armed" \/ revert # "idle"

\* A commit report excludes an armed timer, and an apply withdraws the report.
ReportInv ==
  /\ reported # None => timer = "off"
  /\ script \in {"snapshot", "disarm", "arm", "colmena", "waiting"} => reported = None

\* An apply knows what it deploys, and from its first ssh call what it replaces.
ArgsInv ==
  /\ script \in {"snapshot", "disarm", "arm", "colmena"} => wanted # None
  /\ script \in {"disarm", "arm"} => prev # None

\* Nobody verifies a configuration that cuts the host off.
VerifiedInv == verified \intersect Broken = {}

\* Where the script is tells what the host is doing.
ScriptInv ==
  /\ script \in {"snapshot", "disarm", "arm"} => ~WindowOpen
  /\ script \in {"disarm", "arm"} => prev = profile
  /\ script \in {"colmena", "waiting"} => timer = "armed" /\ revert = "idle"
  /\ script = "colmena" => ~Deploying /\ AtRest /\ target = running
  /\ script = "commit" => running \in verified /\ (Deploying => running = wanted)
  /\ script = "commit" /\ timer = "armed" /\ revert = "idle" => AtRest
  /\ script = "cancel" /\ timer = "armed" => ~Deploying
  /\ script = "cancel" /\ timer = "armed" /\ revert = "idle" => AtRest

\* What an activation and a revert have moved so far.
WindowInv ==
  /\ ~WindowOpen => AtRest
  /\ timer = "armed" \/ revert # "idle" => target \in verified
  /\ revert # "idle" => ~Deploying
  /\ revert = "switch" => profile = target
  /\ timer = "armed" /\ revert = "idle" =>
       /\ boot = running
       /\ running \in {target, wanted} /\ profile \in {target, wanted}
       /\ running = wanted => profile = wanted
  /\ Deploying => deploy.cfg = wanted /\ boot = running
  /\ deploy.at = "switch" => profile = wanted
  /\ Deploying /\ timer = "off" => AtRest /\ running = wanted

Clean == lapses = {}
BaseInv == TypeOK /\ UnitInv /\ ReportInv /\ ArgsInv /\ VerifiedInv
IInv == BaseInv /\ (Clean => ScriptInv /\ WindowInv)

----------------------------------------------------------------------------
(* Initially and in every step                                             *)

LEMMA InitInv == Init => IInv
BY ConfigAssumption DEF Init, IInv, NoDeploy, BaseInv, Clean, ScriptInv,
   WindowInv, ArgsInv, ReportInv, TypeOK, UnitInv, VerifiedInv, AtRest,
   Deploying, WindowOpen

LEMMA StepInv == IInv /\ [Next]_vars => IInv'
<1> SUFFICES ASSUME IInv, [Next]_vars PROVE IInv'
  OBVIOUS
<1>0. BaseInv
  BY DEF IInv
<1>1. ASSUME NEW c \in Configs, ApplyStart(c) PROVE IInv'
  <2>1. BaseInv'
    BY <1>0, <1>1, ConfigAssumption DEF ApplyStart, BaseInv, Lapse, Lapses, WindowOpen,
       host, unit, ArgsInv, ReportInv, TypeOK, UnitInv, VerifiedInv, Deploying,
       NoDeploy
  <2>2. Clean' => ScriptInv' /\ WindowInv'
    BY <1>0, <1>1 DEF ApplyStart, IInv, Lapse, WindowOpen, host, unit, BaseInv,
       Clean, ScriptInv, WindowInv, Deploying, ArgsInv, TypeOK, UnitInv,
       AtRest, NoDeploy
  <2>. QED
    BY <2>1, <2>2 DEF IInv
<1>2. CASE ApplySnapshot
  <2>1. BaseInv'
    BY <1>0, <1>2, ConfigAssumption DEF ApplySnapshot, BaseInv, Reachable,
       history, host, unit, ArgsInv, ReportInv, TypeOK, UnitInv, VerifiedInv,
       NoDeploy
  <2>2. Clean' => ScriptInv' /\ WindowInv'
    BY <1>0, <1>2 DEF ApplySnapshot, IInv, Reachable, history, host, unit,
       BaseInv, Clean, ScriptInv, WindowInv, ArgsInv, TypeOK, UnitInv, AtRest,
       Deploying, WindowOpen, NoDeploy
  <2>. QED
    BY <2>1, <2>2 DEF IInv
<1>3. CASE ApplyDisarm
  <2>1. BaseInv'
    BY <1>0, <1>3, ConfigAssumption DEF ApplyDisarm, BaseInv, Reachable,
       StopTimer, history, host, ArgsInv, ReportInv, TypeOK, UnitInv,
       VerifiedInv, NoDeploy
  <2>2. Clean' => ScriptInv' /\ WindowInv'
    BY <1>0, <1>3 DEF ApplyDisarm, IInv, Reachable, StopTimer, history, host,
       BaseInv, Clean, ScriptInv, WindowInv, ArgsInv, TypeOK, UnitInv, AtRest,
       Deploying, WindowOpen, NoDeploy
  <2>. QED
    BY <2>1, <2>2 DEF IInv
<1>4. CASE ApplyArm
  <2>1. BaseInv'
    BY <1>0, <1>4, ConfigAssumption DEF ApplyArm, BaseInv, history, host,
       ArgsInv, ReportInv, TypeOK, UnitInv, VerifiedInv, NoDeploy
  <2>2. Clean' => ScriptInv' /\ WindowInv'
    BY <1>0, <1>4 DEF ApplyArm, IInv, history, host, BaseInv, Clean, ScriptInv,
       WindowInv, ArgsInv, TypeOK, UnitInv, AtRest, Deploying, WindowOpen,
       NoDeploy
  <2>. QED
    BY <2>1, <2>2 DEF IInv
<1>5. CASE ColmenaActivate
  <2>1. BaseInv'
    BY <1>0, <1>5, ConfigAssumption DEF ColmenaActivate, BaseInv, Deploying,
       Reachable, history, host, unit, ArgsInv, ReportInv, TypeOK, UnitInv,
       VerifiedInv, NoDeploy
  <2>2. Clean' => ScriptInv' /\ WindowInv'
    BY <1>0, <1>5 DEF ColmenaActivate, IInv, Deploying, Reachable, history,
       host, unit, BaseInv, Clean, ScriptInv, WindowInv, ArgsInv, TypeOK,
       UnitInv, AtRest, WindowOpen, NoDeploy
  <2>. QED
    BY <2>1, <2>2 DEF IInv
<1>6. CASE ColmenaReturn
  <2>1. BaseInv'
    BY <1>0, <1>6, ConfigAssumption DEF ColmenaReturn, BaseInv, Deploying,
       history, host, unit, ArgsInv, ReportInv, TypeOK, UnitInv, VerifiedInv,
       NoDeploy
  <2>2. Clean' => ScriptInv' /\ WindowInv'
    BY <1>0, <1>6 DEF ColmenaReturn, IInv, Deploying, history, host, unit,
       BaseInv, Clean, ScriptInv, WindowInv, ArgsInv, TypeOK, UnitInv, AtRest,
       WindowOpen, NoDeploy
  <2>. QED
    BY <2>1, <2>2 DEF IInv
<1>7. CASE CommitStart
  <2>1. BaseInv'
    BY <1>0, <1>7, ConfigAssumption DEF CommitStart, Lapse, Lapses, BaseInv, Reachable, host,
       unit, ArgsInv, ReportInv, TypeOK, UnitInv, VerifiedInv, NoDeploy
  <2>2. Clean' => ScriptInv' /\ WindowInv'
    BY <1>0, <1>7 DEF CommitStart, Lapse, IInv, Reachable, host, unit, BaseInv, Clean,
       ScriptInv, WindowInv, ArgsInv, TypeOK, UnitInv, AtRest, Deploying,
       WindowOpen, NoDeploy
  <2>. QED
    BY <2>1, <2>2 DEF IInv
<1>8. CASE CommitStop
  <2>1. BaseInv'
    BY <1>0, <1>8, ConfigAssumption DEF CommitStop, BaseInv, Reachable,
       StopTimer, host, ArgsInv, ReportInv, TypeOK, UnitInv, VerifiedInv,
       NoDeploy
  <2>2. Clean' => ScriptInv' /\ WindowInv'
    BY <1>0, <1>8 DEF CommitStop, IInv, Reachable, StopTimer, host, BaseInv,
       Clean, ScriptInv, WindowInv, ArgsInv, TypeOK, UnitInv, AtRest,
       Deploying, WindowOpen, NoDeploy
  <2>. QED
    BY <2>1, <2>2 DEF IInv
<1>9. CASE RevertFire
  <2>1. BaseInv'
    BY <1>0, <1>9, ConfigAssumption DEF RevertFire, BaseInv, Applying, Lapse, Lapses,
       Reachable, StartService, host, ArgsInv, ReportInv, TypeOK, UnitInv,
       VerifiedInv, Deploying, NoDeploy
  <2>2. Clean' => ScriptInv' /\ WindowInv'
    BY <1>0, <1>9 DEF RevertFire, IInv, Applying, Lapse, Reachable,
       StartService, host, BaseInv, Clean, ScriptInv, WindowInv, Deploying,
       ArgsInv, TypeOK, UnitInv, AtRest, WindowOpen, NoDeploy
  <2>. QED
    BY <2>1, <2>2 DEF IInv
<1>10. CASE RevertCancel
  <2>1. BaseInv'
    BY <1>0, <1>10, ConfigAssumption DEF RevertCancel, BaseInv, Reachable,
       StopTimer, history, host, ArgsInv, ReportInv, TypeOK, UnitInv,
       VerifiedInv, NoDeploy
  <2>2. Clean' => ScriptInv' /\ WindowInv'
    BY <1>0, <1>10 DEF RevertCancel, IInv, Reachable, StopTimer, history, host,
       BaseInv, Clean, ScriptInv, WindowInv, ArgsInv, TypeOK, UnitInv, AtRest,
       Deploying, WindowOpen, NoDeploy
  <2>. QED
    BY <2>1, <2>2 DEF IInv
<1>11. CASE ScriptAbort
  <2>1. BaseInv'
    BY <1>0, <1>11, ConfigAssumption DEF ScriptAbort, BaseInv, history, host,
       unit, ArgsInv, ReportInv, TypeOK, UnitInv, VerifiedInv, NoDeploy
  <2>2. Clean' => ScriptInv' /\ WindowInv'
    BY <1>0, <1>11 DEF ScriptAbort, IInv, history, host, unit, BaseInv, Clean,
       ScriptInv, WindowInv, ArgsInv, TypeOK, UnitInv, AtRest, Deploying,
       WindowOpen, NoDeploy
  <2>. QED
    BY <2>1, <2>2 DEF IInv
<1>12. CASE DeploySet
  <2>1. BaseInv'
    BY <1>0, <1>12, ConfigAssumption DEF DeploySet, BaseInv, history, operator,
       unit, ArgsInv, ReportInv, TypeOK, UnitInv, VerifiedInv, NoDeploy
  <2>2. Clean' => ScriptInv' /\ WindowInv'
    BY <1>0, <1>12 DEF DeploySet, IInv, history, operator, unit, BaseInv,
       Clean, ScriptInv, WindowInv, ArgsInv, TypeOK, UnitInv, AtRest,
       Deploying, WindowOpen, NoDeploy
  <2>. QED
    BY <2>1, <2>2 DEF IInv
<1>13. CASE DeploySwitch
  <2>1. BaseInv'
    BY <1>0, <1>13, ConfigAssumption DEF DeploySwitch, BaseInv, NoDeploy,
       history, operator, unit, ArgsInv, ReportInv, TypeOK, UnitInv,
       VerifiedInv
  <2>2. Clean' => ScriptInv' /\ WindowInv'
    BY <1>0, <1>13 DEF DeploySwitch, IInv, NoDeploy, history, operator, unit,
       BaseInv, Clean, ScriptInv, WindowInv, ArgsInv, TypeOK, UnitInv, AtRest,
       Deploying, WindowOpen
  <2>. QED
    BY <2>1, <2>2 DEF IInv
<1>14. CASE DeployDies
  <2>1. BaseInv'
    BY <1>0, <1>14, ConfigAssumption DEF DeployDies, BaseInv, Deploying,
       NoDeploy, history, host, operator, unit, ArgsInv, ReportInv, TypeOK,
       UnitInv, VerifiedInv
  <2>2. Clean' => ScriptInv' /\ WindowInv'
    BY <1>0, <1>14 DEF DeployDies, IInv, Deploying, NoDeploy, history, host,
       operator, unit, BaseInv, Clean, ScriptInv, WindowInv, ArgsInv, TypeOK,
       UnitInv, AtRest, WindowOpen
  <2>. QED
    BY <2>1, <2>2 DEF IInv
<1>15. CASE TimerFire
  <2>1. BaseInv'
    BY <1>0, <1>15, ConfigAssumption DEF TimerFire, BaseInv, Applying, Lapse, Lapses,
       StartService, host, operator, ArgsInv, ReportInv, TypeOK, UnitInv,
       VerifiedInv, Deploying, NoDeploy
  <2>2. Clean' => ScriptInv' /\ WindowInv'
    BY <1>0, <1>15 DEF TimerFire, IInv, Applying, Lapse, StartService, host,
       operator, BaseInv, Clean, ScriptInv, WindowInv, Deploying, ArgsInv,
       TypeOK, UnitInv, AtRest, WindowOpen, NoDeploy
  <2>. QED
    BY <2>1, <2>2 DEF IInv
<1>16. CASE RevertSet
  <2>1. BaseInv'
    BY <1>0, <1>16, ConfigAssumption DEF RevertSet, BaseInv, history, operator,
       ArgsInv, ReportInv, TypeOK, UnitInv, VerifiedInv, NoDeploy
  <2>2. Clean' => ScriptInv' /\ WindowInv'
    BY <1>0, <1>16 DEF RevertSet, IInv, history, operator, BaseInv, Clean,
       ScriptInv, WindowInv, ArgsInv, TypeOK, UnitInv, AtRest, Deploying,
       WindowOpen, NoDeploy
  <2>. QED
    BY <2>1, <2>2 DEF IInv
<1>17. CASE RevertSwitch
  <2>1. BaseInv'
    BY <1>0, <1>17, ConfigAssumption DEF RevertSwitch, BaseInv, ServiceEnds,
       history, operator, ArgsInv, ReportInv, TypeOK, UnitInv, VerifiedInv,
       NoDeploy
  <2>2. Clean' => ScriptInv' /\ WindowInv'
    BY <1>0, <1>17 DEF RevertSwitch, IInv, ServiceEnds, history, operator,
       BaseInv, Clean, ScriptInv, WindowInv, ArgsInv, TypeOK, UnitInv, AtRest,
       Deploying, WindowOpen, NoDeploy
  <2>. QED
    BY <2>1, <2>2 DEF IInv
<1>18. CASE RevertFails
  <2>1. BaseInv'
    BY <1>0, <1>18, ConfigAssumption DEF RevertFails, BaseInv, Lapse, Lapses,
       ServiceEnds, host, operator, ArgsInv, ReportInv, TypeOK, UnitInv,
       VerifiedInv, NoDeploy
  <2>2. ~Clean'
    BY <1>18 DEF RevertFails, Clean, Lapse
  <2>. QED
    BY <2>1, <2>2 DEF IInv
<1>19. CASE Reboot
  <2>1. BaseInv'
    BY <1>0, <1>19, ConfigAssumption DEF Reboot, BaseInv, Lapse, Lapses, NoDeploy,
       operator, ArgsInv, ReportInv, TypeOK, UnitInv, VerifiedInv
  <2>2. ~Clean'
    BY <1>19 DEF Reboot, Clean, Lapse
  <2>. QED
    BY <2>1, <2>2 DEF IInv
<1>20. CASE UNCHANGED vars
  BY <1>20 DEF vars, IInv, history, host, operator, unit, BaseInv, Clean,
     ScriptInv, WindowInv, ArgsInv, ReportInv, TypeOK, UnitInv, VerifiedInv,
     AtRest, Deploying, WindowOpen, NoDeploy
<1>. QED
  BY <1>1, <1>2, <1>3, <1>4, <1>5, <1>6, <1>7, <1>8, <1>9, <1>10, <1>11, <1>12, <1>13, <1>14, <1>15, <1>16, <1>17, <1>18, <1>19, <1>20
     DEF Next, Script, Host

----------------------------------------------------------------------------
(* The theorems                                                            *)

\* IInv holds in every reachable state.
THEOREM Invariance == Spec => []IInv
BY InitInv, StepInv, PTL DEF Spec

\* The variables keep their types, whatever the operator does.
THEOREM TypeCorrect == Spec => []TypeOK
<1>1. IInv => TypeOK
  BY DEF IInv, BaseInv
<1>. QED
  BY <1>1, Invariance, PTL

\* While no precondition of the tool is broken, an unverified configuration
\* runs only under an armed revert.
THEOREM Guarded == Spec => []SilenceIsGuarded
<1>1. IInv => SilenceIsGuarded
  BY DEF IInv, BaseInv, TypeOK, Clean, UnitInv, WindowInv, WindowOpen,
     AtRest, SilenceIsGuarded, Unverified, RevertPending
<1>. QED
  BY <1>1, Invariance, PTL

\* Under the same conditions a host that cannot be reached is about to return
\* to a configuration that can.
THEOREM NeverStranded == Spec => []NotStranded
<1>1. IInv => NotStranded
  BY DEF IInv, BaseInv, TypeOK, Clean, UnitInv, VerifiedInv, WindowInv,
     WindowOpen, AtRest, NotStranded, Reachable, RevertPending
<1>. QED
  BY <1>1, Invariance, PTL

\* Between deployments all three places agree on a verified configuration.
THEOREM HostSettles == Spec => []Settled
<1>1. IInv => Settled
  BY DEF IInv, Clean, WindowInv, AtRest, Settled
<1>. QED
  BY <1>1, Invariance, PTL

\* Every revert that completes under those conditions is whole.
THEOREM RevertsAreWhole == Spec => RevertIsWhole
<1>1. IInv /\ [Next]_vars
        => [lapses' = {} /\ revert = "switch" /\ revert' = "idle"
              => profile' = target /\ running' = target /\ boot' = target]_vars
  <2> SUFFICES ASSUME IInv, Next, lapses' = {}, revert = "switch", revert' = "idle"
               PROVE  profile' = target /\ running' = target /\ boot' = target
    OBVIOUS
  <2>1. RevertSwitch
    BY DEF Next, Script, Host, ApplyStart, ApplySnapshot, ApplyDisarm, ApplyArm,
       ColmenaActivate, ColmenaReturn, CommitStart, CommitStop, RevertFire,
       RevertCancel, ScriptAbort, DeploySet, DeploySwitch, DeployDies, TimerFire,
       RevertSet, RevertFails, Reboot, StopTimer, StartService, Lapse, unit
  <2>2. profile = target
    BY <2>1 DEF RevertSwitch, IInv, Clean, WindowInv, history
  <2>. QED
    BY <2>1, <2>2 DEF RevertSwitch
<1>. QED
  BY <1>1, Invariance, PTL DEF RevertIsWhole, Spec

\* Once commit has returned, no revert starts before the next apply.
THEOREM CommitStays == Spec => CommitIsFinal
<1>1. IInv /\ [Next]_vars
        => [reported # None /\ reported' = reported /\ revert = "idle" => revert' = "idle"]_vars
  <2> SUFFICES ASSUME IInv, Next, reported # None, revert = "idle"
               PROVE  revert' = "idle"
    OBVIOUS
  <2>1. timer = "off" /\ target = None
    BY DEF IInv, BaseInv, UnitInv, ReportInv
  <2>. QED
    BY <2>1 DEF Next, Script, Host, ApplyStart, ApplySnapshot, ApplyDisarm,
       ApplyArm, ColmenaActivate, ColmenaReturn, CommitStart, CommitStop,
       RevertFire, RevertCancel, ScriptAbort, DeploySet, DeploySwitch,
       DeployDies, TimerFire, RevertSet, RevertSwitch, RevertFails, Reboot,
       StopTimer, StartService, ServiceEnds, unit
<1>. QED
  BY <1>1, Invariance, PTL DEF CommitIsFinal, Spec

----------------------------------------------------------------------------
(* The promise                                                             *)

\* Without a lapse each step of the tool and of the host is a step of
\* ConfirmedCommit, or changes nothing there.
LEMMA StepsKeepPromise ==
  IInv /\ IInv' /\ [Next]_vars => [Promise!Next]_(Promise!avars)
<1> SUFFICES ASSUME IInv, IInv', [Next]_vars
             PROVE  Promise!Next \/ UNCHANGED Promise!avars
  OBVIOUS
<1> DEFINE Same == /\ running' = running /\ verified' = verified
                   /\ RevertPending' = RevertPending
                   /\ RevertPending => target' = target
           Steps == Promise!Open \/ Promise!Try \/ Promise!Verify \/ Promise!Close
                    \/ Promise!Return
<1>0. TypeOK /\ TypeOK'
  BY DEF IInv, BaseInv
<1>1. CASE lapses' # {}
  BY <1>1 DEF Promise!Next
<1>2. CASE lapses' = {} /\ vars' = vars
  BY <1>2 DEF Promise!avars, vars, host, unit, history, RevertPending
<1>3. CASE lapses' = {} /\ Next
  <2>1. lapses = {}
    BY <1>3, <1>0 DEF Next, Script, Host, ApplyStart, ApplySnapshot, ApplyDisarm, ApplyArm,
       ColmenaActivate, ColmenaReturn, CommitStart, CommitStop, RevertFire, RevertCancel,
       ScriptAbort, DeploySet, DeploySwitch, DeployDies, TimerFire, RevertSet, RevertSwitch,
       RevertFails, Reboot, Lapse, history
  <2>2. Clean /\ Clean' /\ BaseInv /\ ScriptInv /\ WindowInv /\ BaseInv' /\ ScriptInv' /\ WindowInv'
    BY <2>1, <1>3 DEF IInv, Clean
  <2>3. SUFFICES Same \/ Steps
    BY <2>1, <1>3 DEF Promise!Next, Promise!Kept, Promise!avars, RevertPending
  <2>4. CASE ApplyArm
    <3>1. CASE revert = "idle"
      <4>1. running \in verified /\ prev = running /\ ~RevertPending /\ prev # None
        BY <2>2, <2>4, <3>1 DEF ApplyArm, ScriptInv, WindowInv, AtRest, WindowOpen,
           RevertPending, BaseInv, ArgsInv
      <4>2. RevertPending' /\ target' = running
        BY <4>1, <2>4, <3>1 DEF ApplyArm, RevertPending
      <4>. QED
        BY <4>1, <4>2, <2>4 DEF ApplyArm, Promise!Open, host, history
    <3>2. CASE revert # "idle"
      BY <3>2, <2>4 DEF ApplyArm, RevertPending, host, history
    <3>. QED
      BY <3>1, <3>2
  <2>5. CASE DeploySwitch
    <3>1. deploy.cfg = wanted /\ running' = wanted /\ Deploying
      BY <2>2, <2>5 DEF DeploySwitch, WindowInv, Deploying
    <3>2. CASE RevertPending
      <4>1. running' \in Configs
        BY <1>0 DEF TypeOK
      <4>. QED
        BY <3>2, <4>1, <2>5 DEF DeploySwitch, Promise!Try, RevertPending, unit, history
    <3>3. CASE ~RevertPending
      <4>1. timer = "off"
        BY <3>3, <2>2, <1>0 DEF RevertPending, TypeOK, UnitInv, BaseInv
      <4>. QED
        BY <4>1, <3>1, <2>2, <2>5 DEF DeploySwitch, WindowInv, RevertPending, unit, history
    <3>. QED
      BY <3>2, <3>3
  <2>6. CASE CommitStart
    BY <2>6 DEF CommitStart, Lapse, Promise!Verify, RevertPending, host, unit
  <2>7. ASSUME script \in {"commit", "cancel"}, StopTimer, UNCHANGED <<host, verified>>
        PROVE  Same \/ Steps
    <3>1. CASE RevertPending /\ revert = "idle"
      <4>1. running \in verified
        BY <2>2, <2>7, <3>1 DEF RevertPending, ScriptInv, AtRest
      <4>2. RevertPending' = FALSE
        BY <2>7, <3>1 DEF StopTimer, RevertPending
      <4>3. running' = running /\ verified' = verified
        BY <2>7 DEF host
      <4>. QED
        BY <4>1, <4>2, <4>3, <3>1 DEF Promise!Close
    <3>2. CASE ~RevertPending \/ revert # "idle"
      BY <3>2, <2>7, <2>2 DEF StopTimer, RevertPending, host, BaseInv, UnitInv
    <3>. QED
      BY <3>1, <3>2
  <2>8. CASE RevertSwitch
    <3>1. RevertPending
      BY <2>8, <2>2 DEF RevertSwitch, RevertPending, BaseInv, UnitInv
    <3>2. running' = target /\ verified' = verified /\ RevertPending' \in BOOLEAN
      BY <2>8 DEF RevertSwitch, history, RevertPending
    <3>3. RevertPending' => target' = target
      BY <2>8, <1>0 DEF RevertSwitch, ServiceEnds, RevertPending, TypeOK
    <3>. QED
      BY <3>1, <3>2, <3>3 DEF Promise!Return
  <2>9. CASE CommitStop \/ RevertCancel
    BY <2>7, <2>9 DEF CommitStop, RevertCancel, history
  <2>10. CASE ApplyDisarm
    <3>1. ~WindowOpen
      BY <2>2, <2>10 DEF ApplyDisarm, ScriptInv
    <3>. QED
      BY <3>1, <2>10, <1>0 DEF ApplyDisarm, StopTimer, WindowOpen, RevertPending, host, history
  <2>11. CASE TimerFire \/ RevertFire
    BY <2>11, <1>0, <2>2 DEF TimerFire, RevertFire, StartService, RevertPending, host, BaseInv,
       UnitInv, TypeOK
  <2>12. CASE RevertFails \/ Reboot
    BY <2>12, <1>3 DEF RevertFails, Reboot, Lapse
  <2>. QED
    BY <1>3, <2>4, <2>5, <2>6, <2>8, <2>9, <2>10, <2>11, <2>12
    DEF Next, Script, Host, ApplyStart, ApplySnapshot, ColmenaActivate, ColmenaReturn,
        ScriptAbort, DeploySet, DeployDies, RevertSet, RevertPending, host, unit, history
<1>. QED
  BY <1>1, <1>2, <1>3

\* The tool implements the safety part of ConfirmedCommit: no configuration
\* changes outside a window, none stays that was not verified, and a window
\* that is not closed leads back to what was there before it.
THEOREM KeepsPromise == Spec => Promise!Safe
<1>1. Init => Promise!Init
  BY ConfigAssumption DEF Init, Promise!Init, RevertPending
<1>. QED
  BY <1>1, StepsKeepPromise, Invariance, PTL DEF Spec, Promise!Safe

============================================================================
