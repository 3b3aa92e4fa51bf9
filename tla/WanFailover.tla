---------------------------- MODULE WanFailover ----------------------------
(***************************************************************************)
(* modules/nixos/network/wan-failover.nix: a watchdog probes the primary   *)
(* uplink and owns two policy rules that steer internet traffic onto it.   *)
(* psup masks the main table's default route, psel looks the default up in *)
(* the primary's table; without them the fallback's default applies.       *)
(*                                                                         *)
(* The uplinks, networkd and systemd are the environment.  MaxFaults       *)
(* bounds what goes wrong with the watchdog itself; the uplink may change  *)
(* forever.                                                                *)
(*                                                                         *)
(* The prefix binder (PrefixDelegation) runs on the same gateway; they     *)
(* share no state.  Their proofs are in one module, hence the names with   *)
(* Wan.                                                                    *)
(***************************************************************************)
EXTENDS Naturals

CONSTANTS
  RecoverThreshold, FailThreshold,
  MaxFaults   \* bound on kills, purges and failing commands

ASSUME WanAssumption ==
  /\ RecoverThreshold \in Nat \ {0} /\ FailThreshold \in Nat \ {0}
  /\ MaxFaults \in Nat

VARIABLES
  path,    \* the primary's way to the internet: "good", "flaky" or "dead"
  route,   \* networkd has a default route in the primary's table
  rules,   \* the policy rules in the kernel
  flows,   \* uplinks that established flows are NATed to
  at,      \* where the script is; "stopped" until systemd restarts it
  up, down,\* consecutive healthy and failed cycles, up to their thresholds
  state,   \* the script's state
  faults,  \* number of faults so far
  lapses   \* history: "purge", "delfail"; since the last flush that worked,
           \* "flushfail", "withdrawn"

script == <<at, up, down, state>>
uplink == <<path, route>>
wanVars == <<uplink, rules, flows, script, faults, lapses>>

Both == {"psup", "psel"}
Egress == IF "psel" \in rules /\ route THEN "primary" ELSE "fallback"

\* psel alone takes the main table's specific routes out of use as well.
Shadow == "psel" \in rules /\ "psup" \notin rules

WanInit ==
  /\ path \in {"good", "flaky", "dead"} /\ route \in BOOLEAN
  /\ rules = {} /\ flows = {}
  /\ at = "probe" /\ up = 0 /\ down = 0 /\ state = "unknown"
  /\ faults = 0 /\ lapses = {}

----------------------------------------------------------------------------
(* The script                                                              *)

\* Only whether a count has reached its threshold matters.
Count(ok) ==
  /\ up' = IF ok THEN (IF up < RecoverThreshold THEN up + 1 ELSE up) ELSE 0
  /\ down' = IF ok THEN 0 ELSE IF down < FailThreshold THEN down + 1 ELSE down

\* Variant: rules are not put back while the state is up.
DecideOnce ==
  at' = IF up' >= RecoverThreshold /\ state # "up" THEN "addsup"
        ELSE IF down' >= FailThreshold /\ state # "down" THEN "delsup"
        ELSE "sleep"

\* Switch to the primary, switch to the fallback, re-assert, or wait.
Decide ==
  at' = IF up' >= RecoverThreshold /\ state # "up" THEN "addsup"
        ELSE IF down' >= FailThreshold /\ state # "down" THEN "delsup"
        ELSE IF state = "up" THEN "againsup"
        ELSE "sleep"

\* A probe cycle: any of the targets answers over the primary.
Probe ==
  /\ at = "probe"
  /\ \E ok \in BOOLEAN :
       /\ ok => route /\ path # "dead"
       /\ ~ok => ~route \/ path # "good"
       /\ Count(ok)
  /\ Decide
  /\ UNCHANGED <<uplink, rules, flows, state, faults, lapses>>

Goto(p) == at' = p /\ UNCHANGED <<uplink, flows, up, down, state>>

Fault == faults < MaxFaults /\ faults' = faults + 1

\* A rule is added, if it is not there; the script runs under `bash -e', as all
\* NixOS service scripts do, and ends with an add that fails.
Add(rule, next) ==
  \/ /\ rules' = rules \union {rule} /\ Goto(next)
     /\ UNCHANGED <<faults, lapses>>
  \/ /\ rule \notin rules /\ Fault /\ Goto("stopped")
     /\ UNCHANGED <<rules, lapses>>

\* A rule is removed until that fails, for whatever reason.
Del(rule, next) ==
  /\ Goto(next)
  /\ \/ rules' = rules \ {rule} /\ UNCHANGED <<faults, lapses>>
     \/ /\ rule \in rules /\ Fault /\ lapses' = lapses \union {"delfail"}
        /\ UNCHANGED rules

\* Variant: psel is added first.
AddSupLate == at = "addsup" /\ Add("psel", "addsel")

\* add_rules when the primary has recovered.
AddSup == at = "addsup" /\ Add("psup", "addsel")
AddSel == at = "addsel" /\ Add("psel", "flushup")

\* add_rules again while the state is up.
AgainSup == at = "againsup" /\ Add("psup", "againsel")
AgainSel == at = "againsel" /\ Add("psel", "sleep")

\* Variant: only the rule that selects is removed.
DelSupNot == at = "delsup" /\ Goto("delsel") /\ UNCHANGED <<rules, faults, lapses>>

\* del_rules
DelSup == at = "delsup" /\ Del("psup", "delsel")
DelSel == at = "delsel" /\ Del("psel", "flushdown")

\* Variant: no flush, the flows stay.
NoFlush ==
  /\ at \in {"flushup", "flushdown"}
  /\ state' = IF at = "flushup" THEN "up" ELSE "down"
  /\ at' = "sleep"
  /\ UNCHANGED <<uplink, rules, flows, up, down, faults, lapses>>

\* conntrack -F, after the rules have changed, and the new state, whether the
\* flush has worked or not.  One that has makes up for what went before it.
Flush ==
  /\ at \in {"flushup", "flushdown"}
  /\ \/ flows' = {} /\ lapses' = lapses \ {"flushfail", "withdrawn"} /\ UNCHANGED faults
     \/ /\ flows # {} /\ Fault /\ lapses' = lapses \union {"flushfail"}
        /\ UNCHANGED flows
  /\ state' = IF at = "flushup" THEN "up" ELSE "down"
  /\ at' = "sleep"
  /\ UNCHANGED <<uplink, rules, up, down>>

Wake ==
  /\ at = "sleep" /\ Goto("probe")
  /\ UNCHANGED <<rules, faults, lapses>>

\* Variant: the state survives the script.
RestartRemembers ==
  /\ at = "stopped"
  /\ at' = "probe" /\ up' = 0 /\ down' = 0
  /\ UNCHANGED <<uplink, rules, flows, state, faults, lapses>>

\* Restart=always.  The rules are left as they are.
Restart ==
  /\ at = "stopped"
  /\ at' = "probe" /\ up' = 0 /\ down' = 0 /\ state' = "unknown"
  /\ UNCHANGED <<uplink, rules, flows, faults, lapses>>

----------------------------------------------------------------------------
(* The environment                                                         *)

PathChanges ==
  /\ path' \in {"good", "flaky", "dead"} \ {path}
  /\ UNCHANGED <<route, rules, flows, script, faults, lapses>>

\* networkd withdraws or restores the primary's default route with its link.
RouteChanges ==
  /\ route' = ~route
  /\ lapses' = IF "psel" \in rules THEN lapses \union {"withdrawn"} ELSE lapses
  /\ UNCHANGED <<path, rules, flows, script, faults>>

\* A new internet flow is NATed to the uplink that is selected now.
Flow ==
  /\ flows' = flows \union {Egress}
  /\ UNCHANGED <<uplink, rules, script, faults, lapses>>

\* A deploy, a stop or a crash ends the script between any two commands.
Killed ==
  /\ Fault /\ at # "stopped" /\ at' = "stopped"
  /\ UNCHANGED <<uplink, rules, flows, up, down, state, lapses>>

\* Someone removes foreign rules; networkd is told not to.
Purge ==
  /\ Fault /\ rules # {}
  /\ rules' = {} /\ lapses' = lapses \union {"purge"}
  /\ UNCHANGED <<uplink, flows, script>>

----------------------------------------------------------------------------
Script ==
  \/ Probe \/ AddSup \/ AddSel \/ AgainSup \/ AgainSel \/ DelSup \/ DelSel
  \/ Flush \/ Wake

WanNext ==
  \/ Script \/ Restart
  \/ PathChanges \/ RouteChanges \/ Flow \/ Killed \/ Purge

\* The loop runs and systemd restarts it.
WanSpec == WanInit /\ [][WanNext]_wanVars /\ WF_wanVars(Script) /\ WF_wanVars(Restart)

----------------------------------------------------------------------------
(* Properties                                                              *)

WanTypeOK ==
  /\ path \in {"good", "flaky", "dead"} /\ route \in BOOLEAN
  /\ rules \subseteq Both /\ flows \subseteq {"primary", "fallback"}
  /\ at \in {"stopped", "probe", "sleep", "addsup", "addsel", "againsup", "againsel",
             "delsup", "delsel", "flushup", "flushdown"}
  /\ up \in 0 .. RecoverThreshold /\ down \in 0 .. FailThreshold
  /\ up = 0 \/ down = 0
  /\ state \in {"unknown", "up", "down"}
  /\ faults \in 0 .. MaxFaults
  /\ lapses \subseteq {"purge", "delfail", "flushfail", "withdrawn"}

\* Between two cycles the rules are what the state says, however the script was
\* restarted before, unless a command failed or another program removed rules.
StateIsTruth ==
  at \in {"probe", "sleep"} =>
    /\ state = "up" /\ "purge" \notin lapses => rules = Both
    /\ state = "down" /\ "delfail" \notin lapses => rules = {}

\* Internal traffic loses its routes to the primary's default at most while the
\* watchdog falls back, between its two removals, unless it is stopped there.
ShadowOnlyInFailover ==
  Shadow /\ lapses \subseteq {"withdrawn"} /\ faults = 0 => at = "delsel"

\* No established flow is left on the uplink that is not selected, once a switch
\* is done and its flush has worked, whatever flushes or routes failed before
\* it, as long as neither rules nor route go away behind its back.
NoStaleFlows ==
  at \in {"probe", "sleep"} /\ lapses = {} =>
    /\ state = "up" /\ route => flows \subseteq {"primary"}
    /\ state = "down" => flows \subseteq {"fallback"}

\* A primary that stays healthy carries the internet traffic in the end, with
\* the internal routes intact, whatever was killed, purged or failed before.
Recovers == <>[](path = "good" /\ route) => <>[](rules = Both)

\* A primary that stays dead behind a live link is left in the end, and the main
\* table alone decides, unless removing a rule failed: that is not tried again.
FailsOver == <>[](path = "dead" /\ "delfail" \notin lapses) => <>[](rules = {})
=============================================================================
