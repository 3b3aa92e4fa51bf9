--------------------------- MODULE CommitConfirm ---------------------------
(***************************************************************************)
(* packages/commit-confirm: a colmena deploy wrapped in a self-firing      *)
(* rollback.  An operator's script (`apply', `commit' or `revert', one run *)
(* at a time) talks over ssh to one host.  On the host a transient systemd *)
(* timer and service hold the armed revert, and the remote half of colmena *)
(* activates the new configuration.  A configuration in Broken cuts the    *)
(* host off once it is running: no ssh step of the script succeeds then.   *)
(*                                                                         *)
(* What the tool's header presupposes of its user, and what hardware may   *)
(* do, is not built into the guards: the step is taken and named in the    *)
(* history variable `lapses', so that each property says which of them it  *)
(* tolerates.                                                              *)
(***************************************************************************)
CONSTANTS
  Configs,  \* system closures that can be deployed
  Broken,   \* those that leave the host unreachable once active
  Initial,  \* the configuration the host starts from
  None      \* no configuration

ASSUME ConfigAssumption ==
  /\ Broken \subseteq Configs
  /\ Initial \in Configs \ Broken
  /\ None \notin Configs

VARIABLES
  profile,   \* what /nix/var/nix/profiles/system points at
  running,   \* the activated configuration
  boot,      \* the boot loader's default
  timer,     \* commit-confirm-revert.timer: "off" or "armed"
  target,    \* the $prev baked into commit-confirm-revert.service, None if unloaded
  revert,    \* what the service does next: "idle", "set" or "switch"
  deploy,    \* colmena's remote half: [at, cfg], at = "idle", "set" or "switch"
  script,    \* where the operator's script is
  wanted,    \* the configuration of the last `apply'
  prev,      \* the script's own $prev
  verified,  \* history: configurations a `commit' was issued for, and Initial
  reported,  \* history: what the last `commit' called current, None since `apply'
  lapses     \* history: "early", "reapply", "premature", "fault", "reboot"

host == <<profile, running, boot>>
unit == <<timer, target, revert>>
operator == <<script, wanted, prev>>
history == <<verified, reported, lapses>>
vars == <<host, unit, deploy, operator, history>>

Reachable == running \notin Broken
NoDeploy == [at |-> "idle", cfg |-> None]
Deploying == deploy.at # "idle"

\* An `apply' is between arming the revert and the end of the activation.
Applying == script \in {"colmena", "waiting"} \/ Deploying

\* A previous `apply' has been neither committed nor reverted.
WindowOpen == timer = "armed" \/ revert # "idle" \/ Deploying

Lapse(cond, name) == lapses' = IF cond THEN lapses \union {name} ELSE lapses

\* `systemctl stop ...timer || true': with --collect the stopped timer takes
\* the service's definition with it, but not a service that is running.
StopTimer ==
  /\ timer' = "off"
  /\ target' = IF revert = "idle" THEN None ELSE target
  /\ UNCHANGED revert

Init ==
  /\ profile = Initial /\ running = Initial /\ boot = Initial
  /\ timer = "off" /\ target = None /\ revert = "idle"
  /\ deploy = NoDeploy
  /\ script = "idle" /\ wanted = None /\ prev = None
  /\ verified = {Initial} /\ reported = None /\ lapses = {}

----------------------------------------------------------------------------
(* commit-confirm apply                                                    *)

ApplyStart(c) ==
  /\ script = "idle"
  /\ script' = "snapshot" /\ wanted' = c /\ reported' = None
  /\ Lapse(WindowOpen, "reapply")
  /\ UNCHANGED <<host, unit, deploy, prev, verified>>

\* Variant: the path being deployed is taken for the one deployed before.
ApplySnapshotOfNew ==
  /\ script = "snapshot" /\ Reachable
  /\ script' = "disarm" /\ prev' = wanted
  /\ UNCHANGED <<host, unit, deploy, wanted, history>>

\* prev=$(ssh ... readlink -f $sysprofile)
ApplySnapshot ==
  /\ script = "snapshot" /\ Reachable
  /\ script' = "disarm" /\ prev' = profile
  /\ UNCHANGED <<host, unit, deploy, wanted, history>>

\* The first half of the arming ssh command.
ApplyDisarm ==
  /\ script = "disarm" /\ Reachable
  /\ StopTimer
  /\ script' = "arm"
  /\ UNCHANGED <<host, deploy, wanted, prev, history>>

\* Variant: the timer is forgotten.
ApplyArmNoTimer ==
  /\ script = "arm"
  /\ script' = "colmena"
  /\ UNCHANGED <<host, unit, deploy, wanted, prev, history>>

\* The second half: systemd-run refuses a unit name that is still loaded,
\* and set -e then ends the script.
ApplyArm ==
  /\ script = "arm"
  /\ IF revert = "idle"
       THEN timer' = "armed" /\ target' = prev /\ script' = "colmena"
       ELSE script' = "idle" /\ UNCHANGED <<timer, target>>
  /\ UNCHANGED <<host, revert, deploy, wanted, prev, history>>

\* colmena has evaluated, built and pushed, and starts the remote activation.
ColmenaActivate ==
  /\ script = "colmena" /\ Reachable /\ ~Deploying
  /\ deploy' = [at |-> "set", cfg |-> wanted]
  /\ script' = "waiting"
  /\ UNCHANGED <<host, unit, wanted, prev, history>>

\* colmena comes back, with or without an error: the script is over either way.
ColmenaReturn ==
  /\ script = "waiting" /\ ~Deploying
  /\ script' = "idle"
  /\ UNCHANGED <<host, unit, deploy, wanted, prev, history>>

----------------------------------------------------------------------------
(* The remote half of colmena, which outlives the script when ssh drops.   *)

DeploySet ==
  /\ deploy.at = "set"
  /\ profile' = deploy.cfg
  /\ deploy' = [deploy EXCEPT !.at = "switch"]
  /\ UNCHANGED <<running, boot, unit, operator, history>>

\* Variant: `switch-to-configuration test'.
DeployTest ==
  /\ deploy.at = "switch"
  /\ running' = deploy.cfg
  /\ deploy' = NoDeploy
  /\ UNCHANGED <<profile, boot, unit, operator, history>>

DeploySwitch ==
  /\ deploy.at = "switch"
  /\ running' = deploy.cfg /\ boot' = deploy.cfg
  /\ deploy' = NoDeploy
  /\ UNCHANGED <<profile, unit, operator, history>>

\* The profile may be set already when the activation is lost.
DeployDies ==
  /\ Deploying
  /\ deploy' = NoDeploy
  /\ UNCHANGED <<host, unit, operator, history>>

----------------------------------------------------------------------------
(* commit-confirm commit                                                   *)

\* The operator looked at the running system, is satisfied and types commit.
\* Nothing holds him to what the last `apply' deployed: it may not run yet, or
\* no more.
CommitStart ==
  /\ script = "idle" /\ Reachable
  /\ script' = "commit"
  /\ verified' = verified \union {running}
  /\ Lapse(running # wanted, "premature")
  /\ UNCHANGED <<host, unit, deploy, wanted, prev, reported>>

\* Variant: nothing is stopped.
CommitForgets ==
  /\ script = "commit" /\ Reachable
  /\ script' = "idle" /\ reported' = wanted
  /\ UNCHANGED <<host, unit, deploy, wanted, prev, verified, lapses>>

CommitStop ==
  /\ script = "commit" /\ Reachable
  /\ StopTimer
  /\ script' = "idle" /\ reported' = wanted
  /\ UNCHANGED <<host, deploy, wanted, prev, verified, lapses>>

----------------------------------------------------------------------------
(* commit-confirm revert                                                   *)

StartService == revert' = IF target # None /\ revert = "idle" THEN "set" ELSE revert

\* `systemctl start ...service || true': nothing happens if it is not loaded.
RevertFire ==
  /\ script = "idle" /\ Reachable
  /\ StartService
  /\ script' = "cancel"
  /\ Lapse(Applying /\ target # None, "early")
  /\ UNCHANGED <<host, timer, target, deploy, wanted, prev, verified, reported>>

RevertCancel ==
  /\ script = "cancel" /\ Reachable
  /\ StopTimer
  /\ script' = "idle"
  /\ UNCHANGED <<host, deploy, wanted, prev, history>>

\* A failing ssh step, an error of colmena, a signal: set -e ends the script.
ScriptAbort ==
  /\ script # "idle"
  /\ script' = "idle"
  /\ UNCHANGED <<host, unit, deploy, wanted, prev, history>>

----------------------------------------------------------------------------
(* The armed revert on the host.                                           *)

TimerFire ==
  /\ timer = "armed"
  /\ timer' = "off" /\ StartService
  /\ Lapse(Applying, "early")
  /\ UNCHANGED <<host, target, deploy, operator, verified, reported>>

\* Variant: the profile rollback is left out.
RevertSetSkipped ==
  /\ revert = "set"
  /\ revert' = "switch"
  /\ UNCHANGED <<host, timer, target, deploy, operator, history>>

\* nix-env -p $sysprofile --set $prev
RevertSet ==
  /\ revert = "set"
  /\ profile' = target /\ revert' = "switch"
  /\ UNCHANGED <<running, boot, timer, target, deploy, operator, history>>

ServiceEnds ==
  /\ revert' = "idle"
  /\ target' = IF timer = "off" THEN None ELSE target
  /\ UNCHANGED timer

\* Variant: `switch-to-configuration boot', which waits for a reboot.
RevertBoot ==
  /\ revert = "switch"
  /\ boot' = target
  /\ ServiceEnds
  /\ UNCHANGED <<profile, running, deploy, operator, history>>

\* $prev/bin/switch-to-configuration switch
RevertSwitch ==
  /\ revert = "switch"
  /\ running' = target /\ boot' = target
  /\ ServiceEnds
  /\ UNCHANGED <<profile, deploy, operator, history>>

\* Either command fails: the && leaves the rest undone.
RevertFails ==
  /\ revert # "idle"
  /\ ServiceEnds
  /\ Lapse(TRUE, "fault")
  /\ UNCHANGED <<host, deploy, operator, verified, reported>>

\* Transient units do not survive a reboot.
Reboot ==
  /\ running' = boot
  /\ timer' = "off" /\ target' = None /\ revert' = "idle" /\ deploy' = NoDeploy
  /\ Lapse(TRUE, "reboot")
  /\ UNCHANGED <<profile, boot, operator, verified, reported>>

----------------------------------------------------------------------------
Script ==
  \/ \E c \in Configs : ApplyStart(c)
  \/ ApplySnapshot \/ ApplyDisarm \/ ApplyArm \/ ColmenaActivate \/ ColmenaReturn
  \/ CommitStart \/ CommitStop
  \/ RevertFire \/ RevertCancel
  \/ ScriptAbort

Host ==
  \/ DeploySet \/ DeploySwitch \/ DeployDies
  \/ TimerFire \/ RevertSet \/ RevertSwitch \/ RevertFails
  \/ Reboot

Next == Script \/ Host

\* systemd runs a due timer and its service; nothing obliges the operator.
Fairness == WF_vars(TimerFire) /\ WF_vars(RevertSet) /\ WF_vars(RevertSwitch)

Spec == Init /\ [][Next]_vars /\ Fairness

----------------------------------------------------------------------------
(* Properties                                                              *)

Lapses == {"early", "reapply", "premature", "fault", "reboot"}

\* The variables stay in their sets.
TypeOK ==
  /\ {profile, running, boot} \subseteq Configs
  /\ timer \in {"off", "armed"} /\ revert \in {"idle", "set", "switch"}
  /\ {target, wanted, prev, reported} \subseteq Configs \union {None}
  /\ deploy \in {NoDeploy} \union [at : {"set", "switch"}, cfg : Configs]
  /\ script \in {"idle", "snapshot", "disarm", "arm", "colmena", "waiting", "commit", "cancel"}
  /\ verified \subseteq Configs /\ lapses \subseteq Lapses

Unverified == running \notin verified
RevertPending == (timer = "armed" \/ revert # "idle") /\ target # None

\* "Silence must mean revert": a configuration nobody has verified only ever
\* runs with a revert armed or under way, when the window covers the apply and
\* each apply is settled before the next.
SilenceIsGuarded == lapses = {} /\ Unverified => RevertPending

\* A host that cannot be reached is about to return to one that can.
NotStranded == lapses = {} /\ ~Reachable => RevertPending /\ target \notin Broken

\* Between deployments the profile, the running system and the boot default
\* agree, on a configuration the operator has verified.
Settled ==
  lapses = {} /\ ~WindowOpen /\ script \in {"idle", "snapshot"} =>
    profile = running /\ boot = running /\ running \in verified

\* A revert that ran to its end put back all three: a later reboot does not
\* bring the rejected configuration back.
RevertIsWhole ==
  [][ lapses' = {} /\ revert = "switch" /\ revert' = "idle"
        => profile' = target /\ running' = target /\ boot' = target ]_vars

\* Whatever went before, once `commit' has returned no revert starts until
\* the next `apply'.
CommitIsFinal ==
  [][ reported # None /\ reported' = reported /\ revert = "idle" => revert' = "idle" ]_vars

\* An operator who stays silent gets the snapshot back: an unverified
\* configuration does not stay.
SilenceReverts == Unverified ~> ~Unverified \/ lapses # {}

\* The tool keeps the promise of ConfirmedCommit: the window is open while a
\* revert is armed or under way, and the fallback is its target.
Promise == INSTANCE ConfirmedCommit WITH
  current  <- running,
  fallback <- IF RevertPending THEN target ELSE running,
  open     <- RevertPending,
  void     <- lapses # {}
ImplementsPromise == Promise!Spec
============================================================================
