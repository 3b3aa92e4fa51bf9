# nixclyx: TLA+ models, checks and proofs

nixclyx is the Nix configuration of a homelab. Most of it is declarative: pure
evaluation that turns a graph of entities (`lib/egregore`, `configs/egregore`)
into the configuration of hosts and switches. Its own *programs* are fewer, and
they are what this project models: the tools that change a remote machine while
being connected through it, the daemons that keep kernel state in step with an
uplink, the codecs that turn a document into a switch's backup image, and a
small shared database.

What these have in common is that they are sequences of independent commands to
a machine that other actors change too, without transactions, and with failure
as the normal reason for running them. That is hard to test and easy to model.

## Inventory

| Component | State it keeps | Operations | What is hard | Module |
|---|---|---|---|---|
| `packages/commit-confirm` | a host's profile, running system and boot default; a transient timer and its service; where colmena and the script are | `apply`, `commit`, `revert`; timer, revert service, activation | the timer races everything; the script can die with its ssh connection, the remote half goes on | `CommitConfirm` |
| `packages/pi-agent/extensions/memory` | an SQLite store of phrases, candidates, budget, snippets | observe a message, claim, ask a model, store the outcome | several processes, statements autocommitted, an `await` of minutes, claims that expire | `MemoryMining` |
| `modules/nixos/network/prefix-delegation*` | Kea's pools, kernel routes, the lease | reconcile at start and per netlink line | the lease moves under a reconcile; Kea, links and the binder restart | `PrefixDelegation` |
| `lib/platform/ilo` | BIOS attributes, live and staged | mappings, fetch, plan, ETag, PATCH; the host's POST | other writers between any two requests; staged is not live | `IloApply` |
| `modules/nixos/network/wan-failover.nix` | two policy rules, conntrack, three variables of a script | probe, switch over, switch back, re-assert | killed between any two commands; rules purged; route withdrawn | `WanFailover` |
| `lib/platform/sodola`, `modules/sodola` | a backup image, stored and running | project, generate, parse; login, restore, reboot | an interleaved binary layout that overflows silently; lost requests | `SodolaCodec`, `SodolaDeploy` |
| `lib/platform/swos` | ten sections of a switch's configuration | encode, decode; a POST per section | a push that changes its own password or address; half a configuration | `SwosCodec`, `SwosDeploy` |
| `modules/nixos/services/openbao/{vm-auth,login,vm-ssh-host}.nix`, `derived/openbao-vm-auth.nix` | a guest's certificate, key, CA and token; one-time wrap tokens; the hypervisor's login | check, renew, bootstrap, install, log in; mint; sign the host key | files moved one by one, single-use tokens, units that count as active | `VmAuth` |
| `modules/nixos/services/openbao/{kv,pki,cert-publish}.nix` | files fetched with the token | fetch and reload | the token is gone when the unit failed | not modelled |
| `modules/nixos/services/openbao/{cluster,seal-oracle}.nix` | an OpenBao cluster's initialisation and policies | auto-init, userpass bootstrap, revoke root | a crash between initialising and keeping what was returned | planned |
| `lib/platform/routeros`, `modules/routeros` | a switch's configuration, a script file, a captured schema | project, generate, check against the schema; save, fetch, upload, wipe and import | the import stops at the first refused line of a script of hundreds | `RouterosConfig`, `RouterosDeploy` |
| `lib/bcachefs-prune.nix`, `filesystems/{impermanence,bcachefs-snapshots}.nix` | timestamped snapshots, `@live` | rollback at boot, prune | retention over time; a power cut during the rollback | planned |
| `lib/egregore`, `lib/spec`, `modules/egregore`, `modules/nixos/derived`, hosts, home, darwin, docs | none | evaluation | none of the kinds a state machine shows | not modelled |

`PROJECT.json` lists every part with its sources, and the reason where it is
not modelled. The hazards it lists, each at its line, are what the properties
are for.

How the parts meet: the switch platforms get their document from a projection
of the fleet's data (`modules/{sodola,routeros,swos}/projection.nix`), which is
modelled for Sodola and RouterOS, whose codec and script depend on it;
the hypervisor's login (`login.nix`) mints what the guest's unit
(`vm-auth.nix`) spends, and `vm-ssh-host.nix` uses the token that comes of it:
`VmAuth` composes the three;
the prefix binder and the failover watchdog run on the same gateway but share
no state (one owns Kea's pools and IPv6 routes, the other IPv4 policy rules);
commit-confirm wraps the colmena deployment that installs all of the others.

## Conventions

* One module per component; a codec is a module of operators that the module of
  its deployment EXTENDS. `MC...` modules hold only what a configuration cannot
  say: structured constants, symmetry and state constraints. Runs without one take the
  component's module itself.
* Modules with proofs are separate (`...Proofs`) and extend the component and
  `TLAPS`. No module declares a RECURSIVE operator. `GatewayProofs` extends both
  daemons of a gateway, so `WanFailover` names its `Init`, `Next`, `Spec`,
  `TypeOK` and `vars` with `Wan` (`wan`) before them, and the position of the
  script `at`, the binder's being `pc`.
* Each module has one type invariant, `TypeOK`. Where a theorem proves it for
  every instance (`TypeCorrect`), the run leaves it out; but those of the switch
  platforms, where it says what images, sections and scripts there can be, are
  checked as well.
* An action is one command or request of the program: what another actor may
  see in between. A handler that runs without interruption is one action.
* History variables are named as such. `lapses` (in `PrefixDelegation`:
  `unseen`) records that something happened which a guarantee does not cover.
  Nothing is forbidden by it: the step is taken, and each property names the
  lapses it excludes. So a reader can see what a guarantee depends on, and what
  the program does otherwise is still explored.
* Operators commented "Variant" are not part of any specification. Each is the
  definition that follows it with a plausible error; putting it in the place of
  the definition must make the check of some property fail, which shows that
  the property says something about that definition.
* Bounds are constants named `Max...`, used in guards, or named state
  constraints in the `MC...` module.

## The models

### CommitConfirm

*Code.* `packages/commit-confirm/commit-confirm.sh` and the systemd units it
creates on the host. *State.* The host's `profile`, `running` and `boot`
configuration; the transient `timer` and `target` (the `$prev` written into the
service) and how far the revert has come; `deploy`, the remote half of colmena,
which goes on when ssh is lost; the operator's `script`.

| Action | Code |
|---|---|
| `ApplyStart`, `ApplySnapshot`, `ApplyDisarm`, `ApplyArm` | `apply`: usage, `prev=$(ssh ... readlink)`, stop, `systemd-run --on-active` |
| `ColmenaActivate`, `DeploySet`, `DeploySwitch`, `DeployDies`, `ColmenaReturn` | `colmena apply` and what it does on the host |
| `CommitStart`, `CommitStop` | `commit` |
| `RevertFire`, `RevertCancel` | `revert` |
| `TimerFire`, `RevertSet`, `RevertSwitch`, `RevertFails` | the armed service: `nix-env --set` and `switch-to-configuration switch` |
| `ScriptAbort`, `Reboot` | errexit, a lost connection, a signal; the host restarts |

A configuration in `Broken` cuts the host off: no ssh step is enabled while it
runs. Lapses: `early` (the timer fires while an apply is under way), `reapply`
(an apply begins with the window of the last one open), `premature` (a commit
while what runs is not what the last apply was to deploy: the script does not
look), `fault` (a revert command fails), `reboot`.

*Run `commit_confirm`* (three configurations, one of them broken; no bound is needed, the
state space is finite): `SilenceIsGuarded`, `NotStranded`, `Settled`,
`RevertIsWhole`, `CommitIsFinal` and, under fairness, `SilenceReverts`. Without
lapses an unverified or broken configuration runs only with a revert pending,
to a configuration that was verified; a revert puts back all three of profile,
running system and boot default; nothing starts after `commit`.

*Refinement.* `ConfirmedCommit` is the promise without its mechanism: a window
is opened over a verified configuration, anything may be tried in it, it is
closed over a verified configuration, or the host returns to the one before; a
window does not stay open for ever. `CommitConfirm` implements it
(`ImplementsPromise`) under the mapping `current` = `running`, `fallback` = the
target of an armed or running revert, else `running`, `open` = a revert is
armed or at work, `void` = some lapse has occurred. So every ssh step, timer
and unit is a step of the promise or a stutter. The safety part is also proved
(`KeepsPromise`).

*Fairness.* `WF` of `TimerFire`, `RevertSet` and `RevertSwitch`: systemd runs a
timer that is due and the commands of its service. Nothing is assumed of the
operator, of colmena or of ssh.

*What the code does otherwise.* Firing early is not "a harmless no-op"
(`commit-confirm.sh:20`): it uses up the only revert, and the apply goes on
without one; hence the lapse `early`. `commit` stops the timer but not a
service that has started, and reports success while the host goes back
(`commit-confirm.sh:83-84`); hence `CommitIsFinal` speaks of a revert that had
not begun.

### MemoryMining

*Code.* `packages/pi-agent/extensions/memory/{store,index}.ts`. *State.* The
tables as functions from phrases; per process where `observePhrases` is; per
attempt (`mineOne`) where it is, for which phrase, under which day. Each
autocommitted statement is an action, `claimCandidate` (the only transaction)
is one. Within a process nothing runs between the statements of a handler, but
for the `await` of the model: `Free`. Time is what the code compares: `stale`
(a row's `updated_at` is over an hour old) and whether a day string still names
today. The state `error' of a candidate is in the schema and never written, so
it is not in the model. Left out: the text of phrases (length, normalisation, the secret
filter), snippet names, `recall` and the commands that only read.

*Run `memory_mining`* (two processes with an attempt each, two phrases, three
sessions, `MinSupport` 2, one call a day; one kind of lapse at a time, and three
sessions see one phrase only, without the lapses of mining, `MCFocus`; symmetric
in sessions, phrases and in exchanging the processes): `SupportIsCounted`,
`OneAttemptPerCandidate`, `MinedOnce`, `CallsWithinBudget`, `DecisionsStay`.
Two attempts suffice for every race in the code, which are all between one
that holds a candidate and one that takes it. Three
sessions over a `MinSupport` of 2 make a stale count and a newer one;
`SupportIsCounted` says that the newer one stays, so that candidates are claimed
in the order of what was seen. A budget of 1 is exhausted by the first claim. Lapses:
`cut` (a process fails between seeing a phrase and listing it),
`overrun` (an attempt outlives its claim), `partial` (death between the snippet
and its record), `midnight` (a claim names yesterday). They are not faults of
the model: nothing in the code prevents them, and each property says which it
depends on. No liveness is claimed: a candidate whose attempts fail is claimed
first again, whatever the scheduling, since claims go by support
(`index.ts:193`).

### PrefixDelegation

*Code.* `modules/nixos/network/prefix-delegation-bind.py` and its unit.
*State.* The lease (destinations of unreachable DHCP routes), Kea and its pools,
kernel routes; the binder's `pc`, the prefix it read, the routers it has still
to route, whether `ip monitor` listens and the lines in its pipe. `Read`, `Get`,
`Set`, `Route`, `Routed` are the reconcile, `Event` the loop, `Die`/`Start` the
unit's restart. Environment: `Leased`, `Withdrawn` (networkd adds a new prefix
before it removes the old one, so two at a time are possible), `KeaStops`,
`KeaStarts`, `LinkFlaps`, `Fails`, together at most `MaxMoves`.

*Run `prefix_delegation`* (two routers; three prefixes, two of which hold the
plan; six moves, which is enough for a prefix to be replaced, Kea to restart
and a link to flap within one reconcile): `WrittenIsLeased`, a prefix that was
read earlier is written to Kea or the kernel only while it is the one lease, or
with news in the pipe that brings another reconcile, or before the monitor
listens; `QuietIsCurrent`; `Converges`. Deadlock is not checked: a binder that waits for a line, after the last move of the
environment, has nothing to do.

*Fairness.* `WF` of the binder's next step, of systemd's restart and of `ip
monitor` getting to listen. `Converges` assumes in its antecedent that the
lease stops moving and Kea stays up; the environment has no fairness.

*Finding.* `prefix_delegation_kea_start`: `wantedBy` does not re-apply the
prefix at a Kea start, since the binder is running already.

### IloApply

*Code.* `lib/platform/ilo/render/ilo_config.py`, `apply` and what it calls.
*State.* The BMC's `live` and `staged` attributes and the ETag of the latter;
per invocation where it is and what it computed. `Map`, `Fetch`, `Etag`,
`Patch` are its requests, the last one unconditional where the BMC gave no ETag
(`NoTag`, line 86); `PatchUnheard`, `PatchRefused` and `Fails` how they
go wrong; `Edit` is another tool, `Post` the host's firmware. `Expand` and
`Diff` are `expand_network_boot` and `diff`.

*Run `ilo_apply`* (two invocations, two offered seats and one the firmware lacks, one
other attribute, four specs that overlap in every way, three writes, so that
two runs and an editor can all write): `PromiseKept`, what an invocation
reports done is what the next POST makes live, if nothing else was pending
when it looked; `LeftAlone`, it changes nothing the spec does not manage, and
nothing in a dry run.

*What the code does otherwise.* `If-Match` does not catch a change "mid-run"
(`ilo_config.py:87-88`), since the ETag is read only after the plan is made
(line 242): a write of another tool between the two is overwritten in part and
reported as done. `PromiseKept` is about runs for which nothing else was
pending. A spec with seats names the state of every seat the
firmware offers, against "a NIC left enabled by omission" (lines 140-142); one
without `network_boot` leaves the seats as an earlier spec had them.

### WanFailover

*Code.* The script of `modules/nixos/network/wan-failover.nix`; NixOS runs
service scripts under `bash -e`, so an `ip rule add` that fails ends it; an
`ip rule del` that fails merely ends its loop, and a `conntrack -F` that fails is
passed over (`|| true`, line 128): the lapses `delfail` and `flushfail`. `flushConntrack`
has its default, true.
*State.* The uplink (`path`, `route`), the two `rules`, the uplinks that
established `flows` are NATed to, the script's counters and `state`. One action
per command: `Probe` (a cycle and its decision), `AddSup`, `AddSel`, `AgainSup`,
`AgainSel`, `DelSup`, `DelSel`, `Flush`, `Wake`; `Restart` by systemd. Counters
are kept up to their thresholds, beyond which the code does not tell values
apart. `MaxFaults` bounds kills, purges and failing commands; the uplink may
change for ever. `flushfail` and `withdrawn` (the primary's route went away) last
until the next flush that works: `NoStaleFlows` excludes the time in between,
and says that this flush makes up for all of it.

*Run `wan_failover`* (thresholds 2 and 3, two faults: a kill and a failure
during the recovery from it): `StateIsTruth`, `ShadowOnlyInFailover`,
`NoStaleFlows`, `Recovers`, `FailsOver`.

*Fairness.* `WF` of the script's next command and of systemd's restart
(`Restart=always`). The two liveness properties ask for an uplink that settles.

*What the code does otherwise.* "If the watchdog is dead, no failover rules
exist" (`wan-failover.nix:37-38`) holds of one that is stopped before a
switch-over or after a switch-back. Stopped between its two removals it leaves
the one rule that the header calls unsafe, until it is started again:
`ShadowOnlyInFailover` is about a watchdog that is not stopped (`faults = 0`).
A switch whose flush fails is reported as done and leaves established flows on
the uplink it left, until the next switch.

### SodolaCodec and SodolaDeploy

*Code.* `lib/platform/sodola/render/sodola_config.py` (`generate`, `parse` and
their helpers), `modules/sodola/projection.nix`,
`modules/egregore/lib/switch-port.nix`, `lib/platform/sodola/cli`. *Codec.* The
image keeps its structure (the table of ids with its repeated first slot, the
interleaved blocks of members and names, the uplink's byte apart, all of which
the code computes offsets for) and loses its bytes: masks are sets, names
opaque. `NumPorts` and `Slots` are 9 and 32 in the code. *Deployment.* The
fleet's deploy script and somebody at a desk push concurrently; a push is
generate, login, restore, reboot, each a request that can be lost, or its
answer.

*Run `sodola_deploy`* (three ports, five slots; declarations with one, two and
four VLANs, the uplink as trunk and as access port; two pushes and one edit of
any kind): `ReadsBack`, `FleetReachesPorts`, `PullPushIsQuiet`,
`BehindOnlyIfMissed`. With five slots a table that is empty, full and
overflowing all occur, and there are two interleaved blocks and a slot without
one, as in the switch. The codec is checked on every document that the
projection and an edit can make of these; all of it is proved for any number of
slots and ports.

*What a push can lose.* No request carries a version: an edited pull undoes the
deploys since, and a deploy restores the default password hash.

### SwosCodec and SwosDeploy

*Code.* `lib/platform/swos/render/swos_config.py` (`_encode`, `_decode` and the
text format), `lib/platform/swos/cli/push.py`. *Codec.* The tables of keys are
kept whole, since confusing two keys is what can go wrong; a value is 0 or 1.
`Section` is one section of a document, `Encode` all ten, `Serialize` the text in
the order of the file and `File` what the parser makes of it; `IsDocument` says
what `_decode` can return. *Deployment.* push.py posts the sections in order, notes what fails, goes on,
and exits with whether anything failed. A push may change the password or the
address that the rest of it needs.

*Run `swos_deploy`* (two ports, one VLAN, a firmware that lacks two of the
optional keys; two invocations, two pushes, one edit of any one field, one lost
request or answer; requests are not lost while two pushes overlap, and only the
edits of password, address and VLAN table meet a second push, `MCFocus`):
`SectionsReadBack`, `ReportIsTrue`, `LockStops`. Editing one field at a time is what
tells two confused keys apart; that no document of any size is changed by
encoding and decoding is proved. The example pattern of `push.py:14` has no
leading dot, which the names of the sections do.

### RouterosConfig and RouterosDeploy

*Code.* `modules/routeros/projection.nix`,
`lib/platform/routeros/render/routeros_config.py`,
`lib/platform/routeros/modules/deploy.nix`. *Script.* `Project` makes of a
declaration the document, `Generate` of the document the script: a sequence of
lines, in the order and under the conditions of `generate`. A line keeps its
menu, the properties it names, what it refers to, creates and removes, whether
its error is caught, and what of its values a property needs (`row`); addresses,
comments and spelling are gone. `Sections` is the table of the same name, and
`SchemaViolations` the check against a captured schema. *Deployment.* `Build`
(generate and the check), `Save`, `Fetch`, `Upload`, `Uploaded`, `Reset` and
`Fails` are `routeros-deploy`; `LearnSchema` is `learn-schema`; `ImportLine`,
`ImportHalts`, `ImportEnds`, `PowerCut`, `Upgrade` and `Load` are the switch. An
import goes line by line and halts at a line that names an unknown property or
menu, refers to nothing that is there, or creates what is.

*Run `routeros_deploy`* (two operators, two deploys, one power cut, one
upgrade; four declarations that the projection serves, a router with a bond,
delegation, denied networks, two internal IPv4 prefixes and a ULA prefix, the
same without any prefix and with one IPv4 prefix only, and a bridge of an
unknown model, and two it does not, `Sound`; four firmwares: one that lacks nothing, and one each that
lacks a property of a table, one spelt out by hand, and a menu; power cuts,
upgrades and overlaps are each explored without the others, `MCFocus`):

* `HaltsAreExplained`: when an import halts, the declaration is one the
  projection does not serve, or the firmware lacks what the line names and the
  check could not see it, or a key file is in the way that an earlier import
  left. So the order of the script is never a reason;
* `DeclaredIsConfigured`: a script taken in whole does what was declared, port
  by port, VLAN by VLAN. A destination is the set of declared prefixes it lies
  in: what a denied network sends is dropped exactly when it goes to none of
  them;
* `StaysManageable`: wherever an import stops, the way in that it has made is
  open, and no rule is in that drops what goes to a declared prefix;
* `WipedIsFetched`: a reset interrupts no import, wipes only what has been
  fetched and imports its own script, where no deploys overlap.

Two deploys are what an overlap takes; two prefixes, one and none are what
permits and drop can look like; the script of the router has a line of
every kind that `generate` emits, and each line in turn is the last before a
power cut.

*What the code does otherwise.* The schema is not read "on every apply"
(`routeros_config.py:721-725`), but by `learn-schema` only. The check passes
over a menu that the schema lacks, and over the properties `generate` spells
out by hand. Nothing checks what `Sound` says: slaves of a bond that are not
declared are disabled with the spare ports; a DHCPv6 client over a network
without an address halts the import; a denied network on a model without a
switch chip is not enforced; the layer-2 MTU of the ports follows the networks
with an address, not a jumbo VLAN that is only switched. A network that is denied a way off-site keeps what goes to a declared prefix
and nothing else (`projection.nix:60-62`): with `internalPrefixes` and the ULA
prefix at their defaults, which are empty, its internal traffic is dropped as
well. A key file left by a
power cut makes the next import's `/file` line fail (`routeros_config.py:384`).
The list of a model's ports stands in three places.

### VmAuth

*Code.* `modules/nixos/services/openbao/vm-auth.nix` (the guest's unit, its
timer and its script), `login.nix` (the hypervisor's login),
`modules/nixos/derived/openbao-vm-auth.nix` (the minter),
`vm-ssh-host.nix`. *State.* Which key pair each of the three files belongs to,
the `stage` of the certificate's life, where the script is or how the unit
ended, the wrap token, the hypervisor's token, the ssh certificate, whether
OpenBao answers.

| Action | Code |
|---|---|
| `Check`, `Renew`, `Reissue`, `Unwrap`, `Issue`, `Login` | the branches and requests of the script, each answered or not |
| `MoveCert`, `MoveKey`, `MoveCa` | the three `mv` of `mint_cert` |
| `TimesOut`, `Hourly` | systemd: `TimeoutStartSec`, `startAt` |
| `Restart`, `HostLogin` | the guest starts, alone or with its host, after the minter; the hypervisor's hourly login |
| `SshSign` | `vm-ssh-host`, after the unit, once per boot (`vm-ssh-host.nix:104`) |
| `Ages`, `WrapLapses`, `BaoDown`, `BaoUp` | time and the server |

*Run `vm_auth`* (three key pairs, six mishaps; a mishap is a restart, an outage,
a killed run or a lost answer, and two of a kind in one recovery take four):
`FilesAgree`, certificate, key and CA are one set unless a run was cut short
between its moves; `WrapIsLastResort`; `RestartHeals` and `OutageHeals`, the two
ways out that the comments name.

*Fairness.* `WF` of the script as a whole (it is not stopped for ever between
two commands, `TimeoutStartSec` sees to that), of the timer, of `vm-ssh-host`
and of the end of an outage. Nothing is assumed of restarts, of the
hypervisor's login or of the minter. `clean` and the escape `~clean` say that
the guarantee is void after a further mishap.

*Findings.* `vm_auth_failed_renewal`: a renewal that gets a login but no
certificate moves three empty files over a certificate that works, since bash
ignores errexit left of `||`. `vm_auth_hourly`: the hourly timer never renews
anything, since the unit that succeeded stays active.

## Modelled from use

Code that is not in the repository is modelled from how the repository uses it:

* systemd: a stopped transient timer takes its collected service with it, but
  not one that is running; `systemd-run` refuses a unit that is loaded;
  `Restart=always`; `Wants=` and a timer start nothing that is active; a failed
  unit loses its runtime directory. Kernel: routes leave with
  their link. Kea: `config-set` lasts until the process ends.
* iLO: whether it gives an ETag is left open. A PATCH with a matching ETag or
  without one is merged into Settings, or refused; Settings are taken over at
  POST.
* Sodola: a restore is stored at once and runs from the next boot.
* SwOS: each section is replaced by its POST. When a new password or address
  takes effect is left open (`Adopt`: at once, or at any time later). Whether
  the switch has a resource `pwd.b`, the path under which push.py posts the
  section `.pwd.b`, cannot be told from the code: both are explored (`served`).
* RouterOS: `/import` stops at the first error and keeps what it has done;
  `reset-configuration` keeps users and files; an error inside `do ... on-error`
  is caught. OpenBao: a wrap token unwraps once, even if the answer is lost.

## Runs

| Run | Instance and bounds | Distinct states | Shows |
|---|---|---|---|
| `commit_confirm` | 3 configurations, 1 broken; unbounded | 647 000 | safety, revert after silence, the refinement |
| `memory_mining` | 2 processes, 2 attempts, 2 phrases, 3 sessions | 650 000 | support, claims, budget, decisions |
| `prefix_delegation` | 2 routers, 3 prefixes, 6 moves | 44 000 | what is written was leased, currency, convergence |
| `prefix_delegation_kea_start` | 3 moves | violation | finding |
| `ilo_apply` | 2 invocations, 4 attributes, 3 writes | 381 000 | a report is kept, the rest left alone |
| `wan_failover` | thresholds 2 and 3, 2 faults | 34 000 | rules follow the state, flows follow the rules, recovery |
| `sodola_deploy` | 3 ports, 5 slots, 2 pushes, 1 edit | 62 000 | the codec and the pushes |
| `swos_deploy` | 2 ports, 2 pushes, 1 edit, 1 fault | 49 000 | the codec and the report of a push |
| `routeros_deploy` | 4 ports, 2 deploys, 1 cut, 1 upgrade | 68 000 | scripts, halts, resets |
| `vm_auth` | 3 key pairs, 6 mishaps | 82 000 | files, wrap token, healing |
| `vm_auth_failed_renewal`, `vm_auth_hourly` | 2 mishaps | violation | findings |

Deadlock is checked except where the system may stop: a binder that waits for a
line after the environment's last move, a guest after the last mishap, a switch
nobody deploys to any more.

## Proofs

TLAPS proves for every value of the constants what the runs show for one. Each
proof module states an inductive invariant `IInv` (`RouterosDeployProofs` a
second one, `ImportInv`), proves it of `Init` and, action by action, of every
step, and derives the properties.

* `CommitConfirmProofs`, from `ConfigAssumption`: `TypeCorrect`, `Guarded`
  (`SilenceIsGuarded`), `NeverStranded`, `HostSettles`, `RevertsAreWhole`,
  `CommitStays`, and `KeepsPromise`, the safety of the refinement: initial
  states map to initial states, every step to a step of `ConfirmedCommit` or a
  stutter. The properties are not inductive, since they do not say what
  `target` and `prev` are: the invariant ties the script's position and the
  remote activation to what is armed, and says that in the absence of lapses
  what is armed is the verified configuration the host had when the apply
  began.
* `MemoryMiningProofs`, from `MiningAssumption`: `TypeCorrect`, `SupportIsReal`
  (`SupportIsCounted`), `ClaimsExclude` (`OneAttemptPerCandidate`),
  `OneSnippet` (`MinedOnce`), `DecisionsAreFinal` (`DecisionsStay`),
  `BudgetHolds` (`CallsWithinBudget`), for any number of processes, attempts and
  phrases. What has to be carried through the gaps between statements is the
  count that is about to be written, which the growing occurrences still bear
  (`SeenInv`), the process that is on its way to a row that is behind
  (`CountInv`), and the attempt that holds a phrase, which is alone with it
  unless it overran its claim (`FlightInv`, `MinedInv`).
* `GatewayProofs`, of the binder, from `DelegationAssumption`: `TypeCorrect`,
  `WritesAreAnnounced` (`WrittenIsLeased`), `RestIsCurrent` (`QuietIsCurrent`), for any plan
  and any number of moves. The invariant says at each point of a reconcile what
  is done already and which change, announced or not, could have undone it.
  Of the watchdog, from `WanAssumption`: `WanTypeCorrect`, `StateTellsTheRules`
  (`StateIsTruth`), `ShadowIsBrief` (`ShadowOnlyInFailover`), `FlowsFollow`
  (`NoStaleFlows`), for all thresholds and any number of faults. `WanInv`
  follows the rules, and the flows made under them, command by command.
* `IloApplyProofs`, from `IloAssumption`: `TypeCorrect`, `ReportsAreKept`
  (`PromiseKept`), `OthersAreLeftAlone` (`LeftAlone`), for any number of
  invocations, any seats, attributes and specs. `RunInv` carries from the fetch
  to the PATCH that what a run does not patch is as it should be and that
  nobody overwrote it since.
* `VmAuthProofs`, from `VmAuthAssumption`: `TypeCorrect`, `OneSetOfFiles`
  (`FilesAgree`), `WrapTokenIsKept` (`WrapIsLastResort`), for any number of
  mishaps. `MovesInv` says which of the files are those of the new pair at each
  of the three moves.
* `SodolaDeployProofs`, from `SodolaAssumption` and `FleetAssumption` (the
  VLANs of a fleet are finitely many): `TypeCorrect`, `BehindIsMissed`
  (`BehindOnlyIfMissed`), `ImagesReadBack` (`ReadsBack`), `PullPushQuiet`
  (`PullPushIsQuiet`), `FleetIsReached` (`FleetReachesPorts`) and
  `SlotsAreKept`, that the interleaved blocks are read as they were written, for
  any number of ports and slots and any documents. The codec is settled first,
  without a switch: an id of a sorted table is in the place that the number of
  ids below it gives (`AscendingLists`), so the table that `parse` reads is the
  beginning of the one `generate` was given (`TableReadsBack`), and with
  `SlotReadsBack` and `PortReadsBack` both compositions of the two are known.
  The invariant (`MadeInv`, `PushInv`) then says that the image a switch holds,
  and that of every push under way, is the one `Generate` makes of the document
  recorded with it.
* `SwosDeployProofs`, from `SwosAssumption` and `SwosDeployAssumption` (the switch
  was set up with a document, and a firmware may lack only the keys that
  `_decode` has a default for): `TypeCorrect`, `CodecKeeps` (`SectionsReadBack`),
  `ReportsHold` (`ReportIsTrue`), `LocksExplain` (`LockStops`), for any number of
  ports, VLANs, invocations, pushes and faults. The codec is settled first. The
  tables of `_encode` and `_decode` are inverse to each other (`MaskTables`,
  `ListTables`, `VlanTables`, `SysTables`, `SnmpTables`), and the text loses nothing
  (`FileOfSerialize`). A switch that was pushed to in part holds sections of
  several documents, without the keys it does not know: `Written` says that of what
  is read, and `DecodedIs` and `CutDecoded` what becomes of it field by field and
  section by section. `DecodeOfEncode` is the case of one document and all keys,
  `EncodeOfDecode` that of a switch. The invariant then has `DeviceInv` (each
  section is some document's), `WrittenInv` (while nothing failed, all that was
  posted is in the switch) and `LockInv`: wherever the switch answers, or is about
  to answer, to other credentials than the invocation has, the invocation has
  itself posted them and is past that section (`TurnedBy`). Without the second
  half it is not inductive, since `Adopt` may come at any time. TLC checked
  `WrittenInv` and `LockInv` on the run before they were proved.
* `RouterosDeployProofs`, from `NetAssumption` (networks have different VLANs,
  none of them 1; networks, keys and the ports of a model are finitely many) and
  `DeclarationAssumption` (the shape of a declaration; that it is `Sound` is a
  hypothesis in the properties, never an assumption), for any number of
  operators, any declarations, firmwares and schemas:
  * `NothingIsLost` (`WipedIsFetched`). The program checks neither the backup
    nor the file at the reset; `SafeInv` carries from command to command what the
    ones before it left, which holds as long as no deploys overlap.
  * `TypeCorrect` and `HaltsExplained` (`HaltsAreExplained`), from `ImportInv`
    (`ImportInvariance`): what the switch holds is the beginning of a script, and
    the only key files on its flash are those that the import under way has put
    there and not yet removed, unless a lapse, or a firmware that cannot import
    keys, has left others. The script is laid out in 21 parts (`PartOf`, `Laid`), each with one line, or
    three, or (the rules) one per declared prefix and one more, for each member
    of a set (`Lists`, `Threes`, `Blocks`); a line refers only to what an earlier part
    makes (`Known`), and no two lines make the same (`MadeIn`), but for key files,
    which are there from one line to the next but one (`Pending`).
  * `WayInStays` (`StaysManageable`): what has been imported is some whole parts
    and the beginning of one (`In`), so a row of a later part shows that all
    lines of the earlier ones are in.
  * `Configured` (`DeclaredIsConfigured`): with every part in, the rows of each
    menu are exactly those its part makes of the declaration. The rules of a
    denied network are consecutive, the drop last (`RulesAre`), so a packet is
    dropped if and only if no prefix covers it (`DroppedIs`), whatever the
    number of prefixes.

  `ImportInv` was also checked by TLC before it was proved, on an instance without
  the constraint of the run (13.7 million distinct states).

Induction over data is avoided where a script or a table is a list of a set's
members: it is a bijection from positions to members that the proofs reason
about, from the library's facts on cardinalities.

Only model-checked: liveness (`SilenceReverts`, `Converges`, `Recovers`,
`FailsOver`, `RestartHeals`, `OutageHeals` and the fairness of
`ImplementsPromise`), since the prover does neither fairness nor ENABLED. Every
other property of a passing run is a theorem. The findings are counterexamples
of TLC.

## Not modelled

Evaluation in Nix has no states: egregore's graph, derived options, hosts. Of
the modelled programs, the following is left out: usage messages and argument
parsing; the reading of credentials (`lib/platform/lib/credentials.nix`), whose
outcome is a pair of constants; the bytes of the two backup formats (checksums,
field widths, name encodings); the duration of timeouts, which are events that
may come at any time; concurrent commit-confirm operators, of which the tool's
lock-free design presupposes one.

What a guest does with its token (`kv.nix`, `pki.nix`, `cert-publish.nix`) is
fetching files and reloading services; `VmAuth` ends where the token is there.
The initialisation of the OpenBao cluster and the snapshots of bcachefs are
named below; the scripts of Kerberos, PostgreSQL and the other stateful services
create what does not exist, statement by statement, around servers that are not
in the repository.

## Plan

What would come next, in this order:

1. `OpenBaoInit`: auto-init with crashes (`cluster.nix:377`). Properties: the
   recovery keys are kept before the root token is revoked, a cluster that is
   initialised can still be configured.
2. `SnapshotPrune`: the pruning walk as a fold over snapshots, against a
   definition of the policy in its header; the rollback with power cuts
   (`impermanence.nix:56`).
3. Abstract specifications: a switch that jumps from one declared document to
   another, implemented by `SodolaDeploy` (not by `SwosDeploy`, which passes
   through mixtures).
