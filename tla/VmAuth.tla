------------------------------- MODULE VmAuth -------------------------------
(***************************************************************************)
(* The certificate of a guest: modules/nixos/services/openbao/vm-auth.nix  *)
(* (the guest's unit), login.nix (the hypervisor's own login),             *)
(* modules/nixos/derived/openbao-vm-auth.nix (the hypervisor mints a wrap  *)
(* token whenever the guest starts) and vm-ssh-host.nix (the unit after    *)
(* vm-auth).  One guest, one hypervisor and the OpenBao server, which is   *)
(* the environment like systemd and the clock.                             *)
(*                                                                         *)
(* MaxMishaps bounds restarts, outages, killed runs and lost answers.      *)
(***************************************************************************)
EXTENDS Naturals

CONSTANTS
  Ids, None,    \* key pairs the PKI hands out; None: an empty or missing file
  MaxMishaps

ASSUME VmAuthAssumption == None \notin Ids /\ MaxMishaps \in Nat

VARIABLES
  cert, key,  \* the pair each file in the state directory belongs to
  ca,         \* the CA file holds something
  stage,      \* "fresh", "near" expiry or "expired": the certificate in place
  issued,     \* the pair in the files about to be moved
  unit,       \* openbao-vm-auth: at a step of its script, or "active", "failed"
  ssh,        \* openbao-vm-ssh-host: "waiting", "signed" or "failed"
  wrap,       \* the wrap token file holds a token that still unwraps
  hyper,      \* the hypervisor has a token of its own
  bao,        \* OpenBao can be reached
  mishaps,
  trouble,    \* history: a request of this run went unanswered
  torn,       \* history: a run was cut short between two moves
  clean       \* history: a guest without a certificate that works in time
              \* started with everything in place, and no mishap since

files == <<cert, key, ca, stage>>
server == <<bao, mishaps>>
history == <<trouble, torn, clean>>
vars == <<files, issued, unit, ssh, wrap, hyper, server, history>>

Running == {"check", "renew", "reissue", "unwrap", "issue",
            "cert", "key", "ca", "login"}

\* The service token lives in the unit's runtime directory, which systemd
\* removes when the unit fails.
Token == unit = "active"

\* What cert auth needs of the three files.
CertWorks == cert # None /\ key = cert /\ ca /\ stage # "expired"

Lapsed == cert = None \/ stage = "expired"

Init ==
  /\ cert = None /\ key = None /\ ca = FALSE /\ stage = "fresh"
  /\ issued = None /\ unit = "check" /\ ssh = "waiting"
  /\ bao \in BOOLEAN /\ hyper = bao /\ wrap = bao /\ clean = bao
  /\ mishaps = 0 /\ trouble = FALSE /\ torn = FALSE

\* Something goes wrong that the properties must allow for.
Mishap == mishaps < MaxMishaps /\ mishaps' = mishaps + 1 /\ clean' = FALSE

\* A request to OpenBao; while the server can be reached, an answer is lost
\* only by mishap.
Asks(answered) ==
  /\ answered => bao
  /\ IF bao /\ ~answered THEN Mishap
     ELSE UNCHANGED mishaps /\ clean' = (clean /\ answered)
  /\ trouble' = (trouble \/ ~answered)

----------------------------------------------------------------------------
(* The guest's unit                                                        *)

\* Variant: a certificate near its expiry is bootstrapped as well.
CheckBootstraps ==
  /\ unit = "check"
  /\ unit' = IF Lapsed \/ stage = "near" THEN "unwrap" ELSE "login"
  /\ UNCHANGED <<files, issued, ssh, wrap, hyper, server, history>>

\* Only the certificate is looked at, not whether the key fits it.
Check ==
  /\ unit = "check"
  /\ unit' = IF Lapsed THEN "unwrap"
             ELSE IF stage = "near" THEN "renew" ELSE "login"
  /\ UNCHANGED <<files, issued, ssh, wrap, hyper, server, history>>

\* The login of a renewal; without it the script falls back to bootstrap.
Renew ==
  /\ unit = "renew"
  /\ \E answered \in BOOLEAN :
       /\ Asks(answered)
       /\ unit' = IF answered /\ CertWorks THEN "reissue" ELSE "unwrap"
  /\ UNCHANGED <<files, issued, ssh, wrap, hyper, bao, torn>>

\* renew_cert stands left of ||, where errexit is off: whether or not the
\* request succeeded, mint_cert goes on to move what it got.
Reissue ==
  /\ unit = "reissue" /\ unit' = "cert"
  /\ \E answered \in BOOLEAN :
       /\ Asks(answered)
       /\ IF answered THEN issued' \in Ids \ {cert, key} ELSE issued' = None
  /\ UNCHANGED <<files, ssh, wrap, hyper, bao, torn>>

\* The server spends the token even if its answer is lost.
Unwrap ==
  /\ unit = "unwrap"
  /\ \E answered \in BOOLEAN :
       /\ Asks(answered)
       /\ unit' = IF answered /\ wrap THEN "issue" ELSE "failed"
       /\ IF answered THEN wrap' = FALSE ELSE wrap' \in {wrap, wrap /\ ~bao}
  /\ UNCHANGED <<files, issued, ssh, hyper, bao, torn>>

\* Here errexit is on: without a certificate the run fails.
Issue ==
  /\ unit = "issue"
  /\ \E answered \in BOOLEAN :
       /\ Asks(answered)
       /\ IF answered THEN issued' \in Ids \ {cert, key} /\ unit' = "cert"
                      ELSE unit' = "failed" /\ UNCHANGED issued
  /\ UNCHANGED <<files, ssh, wrap, hyper, bao, torn>>

MoveCert ==
  /\ unit = "cert" /\ unit' = "key"
  /\ cert' = issued /\ stage' = "fresh"
  /\ UNCHANGED <<key, ca, issued, ssh, wrap, hyper, server, history>>

\* Variant: the key is not moved.
MoveKeyNot ==
  /\ unit = "key" /\ unit' = "ca"
  /\ UNCHANGED <<files, issued, ssh, wrap, hyper, server, history>>

MoveKey ==
  /\ unit = "key" /\ unit' = "ca"
  /\ key' = issued
  /\ UNCHANGED <<cert, ca, stage, issued, ssh, wrap, hyper, server, history>>

MoveCa ==
  /\ unit = "ca" /\ unit' = "login"
  /\ ca' = (issued # None) /\ torn' = FALSE
  /\ UNCHANGED <<cert, key, stage, issued, ssh, wrap, hyper, server, trouble, clean>>

Login ==
  /\ unit = "login"
  /\ \E answered \in BOOLEAN :
       /\ Asks(answered)
       /\ unit' = IF answered /\ CertWorks THEN "active" ELSE "failed"
  /\ UNCHANGED <<files, issued, ssh, wrap, hyper, bao, torn>>

\* TimeoutStartSec
TimesOut ==
  /\ unit \in Running /\ unit' = "failed"
  /\ Mishap /\ torn' = (torn \/ unit \in {"key", "ca"})
  /\ UNCHANGED <<files, issued, ssh, wrap, hyper, bao, trouble>>

\* Variant: the timer is taken to start a unit that is active.
HourlyWhenActive ==
  /\ unit = "active" /\ unit' = "check" /\ trouble' = FALSE
  /\ UNCHANGED <<files, issued, ssh, wrap, hyper, server, torn, clean>>

\* The timer starts the unit again, unless it is running or, with
\* RemainAfterExit, has succeeded once.
Hourly ==
  /\ unit = "failed" /\ unit' = "check" /\ trouble' = FALSE
  /\ UNCHANGED <<files, issued, ssh, wrap, hyper, server, torn, clean>>

----------------------------------------------------------------------------
(* The host key, the hypervisor and the environment                        *)

\* After vm-auth's run, however it ended, and once per boot.
SshSign ==
  /\ ssh = "waiting" /\ unit \notin Running
  /\ \E answered \in BOOLEAN :
       /\ answered => bao
       /\ IF bao /\ ~answered THEN Mishap
          ELSE UNCHANGED mishaps /\ clean' = (clean /\ answered)
       /\ ssh' = IF answered /\ Token THEN "signed" ELSE "failed"
  /\ UNCHANGED <<files, issued, unit, wrap, hyper, bao, trouble, torn>>

\* Variant: the minter hangs on microvms.target and so on the host's boot.
MintsAtBoot(boot, loggedin) == boot /\ loggedin /\ bao

\* The minter runs before each start of the guest.  It gives up quietly
\* without a token or an answer and leaves what file there is.
Mints(boot, loggedin) == loggedin /\ bao

\* The guest restarts, or dies and is restarted, alone or with its host,
\* which then logs in before the minter runs.
Restart ==
  /\ mishaps < MaxMishaps /\ mishaps' = mishaps + 1
  /\ \E boot \in BOOLEAN :
       /\ hyper' = IF boot THEN bao ELSE hyper
       /\ wrap' = (wrap \/ Mints(boot, hyper'))
  /\ unit' = "check" /\ ssh' = "waiting" /\ trouble' = FALSE
  /\ torn' = (torn \/ unit \in {"key", "ca"})
  /\ clean' = (hyper' /\ bao /\ Lapsed)
  /\ UNCHANGED <<files, issued, bao>>

\* The hypervisor's hourly login, which does run again after a success.
HostLogin ==
  /\ ~hyper /\ bao /\ hyper' = TRUE
  /\ UNCHANGED <<files, issued, unit, ssh, wrap, server, history>>

\* Time passes.  A run is far shorter than a stage: what it installs does
\* not age in it.
Ages ==
  /\ cert # None /\ unit \notin {"cert", "key", "ca", "login"}
  /\ stage' = CASE stage = "fresh" -> "near" [] OTHER -> "expired"
  /\ stage # "expired"
  /\ UNCHANGED <<cert, key, ca, issued, unit, ssh, wrap, hyper, server, history>>

\* Ten minutes after it was minted.
WrapLapses ==
  /\ wrap /\ wrap' = FALSE /\ clean' = FALSE
  /\ UNCHANGED <<files, issued, unit, ssh, hyper, server, trouble, torn>>

BaoDown ==
  /\ bao /\ bao' = FALSE /\ Mishap
  /\ UNCHANGED <<files, issued, unit, ssh, wrap, hyper, trouble, torn>>

BaoUp ==
  /\ ~bao /\ bao' = TRUE
  /\ UNCHANGED <<files, issued, unit, ssh, wrap, hyper, mishaps, history>>

----------------------------------------------------------------------------
Guest ==
  \/ Check \/ Renew \/ Reissue \/ Unwrap \/ Issue
  \/ MoveCert \/ MoveKey \/ MoveCa \/ Login

Next ==
  \/ Guest \/ TimesOut \/ Hourly \/ SshSign
  \/ Restart \/ HostLogin
  \/ Ages \/ WrapLapses \/ BaoDown \/ BaoUp

\* Scripts make progress, the timer comes round, and an outage ends.
Fairness ==
  WF_vars(Guest) /\ WF_vars(Hourly) /\ WF_vars(SshSign) /\ WF_vars(BaoUp)

Spec == Init /\ [][Next]_vars /\ Fairness

----------------------------------------------------------------------------
(* Properties                                                              *)

TypeOK ==
  /\ cert \in Ids \union {None} /\ key \in Ids \union {None} /\ ca \in BOOLEAN
  /\ stage \in {"fresh", "near", "expired"} /\ issued \in Ids \union {None}
  /\ unit \in Running \union {"active", "failed"}
  /\ ssh \in {"waiting", "signed", "failed"}
  /\ wrap \in BOOLEAN /\ hyper \in BOOLEAN /\ bao \in BOOLEAN
  /\ mishaps \in 0 .. MaxMishaps
  /\ trouble \in BOOLEAN /\ torn \in BOOLEAN /\ clean \in BOOLEAN

\* Certificate, key and CA are one set whenever no move is under way, through
\* failed renewals, lost answers and restarts, unless a run was cut short
\* between two of the moves (mint_cert: "install it atomically").
FilesAgree ==
  ~torn /\ unit \notin {"key", "ca"} => key = cert /\ (ca <=> cert # None)

\* A certificate that works is renewed with itself: the one-time wrap token
\* is spent only if a request of this run found no answer (wrapTokenFile:
\* "Not used on the normal cert-auth renewal path").
WrapIsLastResort == unit = "unwrap" /\ CertWorks => trouble

\* "A reboot/redeploy heals an expired cert without operator intervention":
\* a guest that starts without one in time, while OpenBao answers and the
\* hypervisor is logged in, ends with a token and a signed host key.
RestartHeals == clean ~> (Token /\ ssh = "signed") \/ ~clean

\* "An unreachable OpenBao at boot self-heals later": a failed run with files
\* that work is made good by the timer, unless they stop working meanwhile.
OutageHeals == unit = "failed" /\ CertWorks ~> Token \/ ~CertWorks

\* "Returns nonzero on failure so the caller can fall back to bootstrap": a
\* certificate is only ever replaced by another one.
RenewalKeepsCert == [][cert # None => cert' # None]_vars

\* "Retry hourly ... The renew margin keeps the cert from drifting close to
\* expiry": a certificate near its expiry is renewed.
HourlyRenews == Token /\ stage = "near" ~> stage = "fresh" \/ ~Token
=============================================================================
