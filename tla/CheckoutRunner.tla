---------------------------- MODULE CheckoutRunner ----------------------------
(***************************************************************************)
(* The read-only checkout runner, src/hosted/worker.ts: concurrent calls   *)
(* of runHostedReadOnlyCheckoutScan, each with a temporary checkout of a   *)
(* pull request, what the service publishes of their results, and the      *)
(* gates an operator asks with what the calls showed: the source checkout  *)
(* trial (worker.ts), the hosted beta and the team launch (beta.ts).       *)
(***************************************************************************)
EXTENDS PullScan

CONSTANTS
  ScanCalls,           \* calls of the scan runner
  Requests,        \* the jobs they are called with: a pull request and what is wrong
  Clocks,          \* seconds the clock of the service is ahead of GitHub's
  Lifetimes,       \* ttlSeconds asked for a JWT, or Unset
  Unset,
  FailOnSeverity,  \* failOnSeverity of the service, or "none"
  Shortfalls       \* what an operator who asks a gate may be unable to show

MaxTtl == 600      \* HOSTED_GITHUB_APP_JWT_MAX_TTL_SECONDS
ClockSkew == 60    \* HOSTED_GITHUB_APP_JWT_CLOCK_SKEW_SECONDS

RequestFaults == {"scope", "contents", "altered_plan", "repository_name", "clone_url", "token_request"}
RequestKinds == [pull : [changed : Seq(ChangedFiles), behind : Seq(ChangedFiles),
                         config : Configs, safeBase : BOOLEAN],
                 fault : RequestFaults \cup {"none"}]

ASSUME CheckoutAssumption ==
  /\ Requests \subseteq RequestKinds /\ Requests # {}
  /\ Clocks \subseteq Int /\ Lifetimes \subseteq Int \cup {Unset} /\ Unset \notin Int
  /\ FailOnSeverity \in Severities \cup {"none"}

GitStages == {"git_init", "git_remote_add", "git_fetch_head", "git_fetch_base", "git_checkout"}
Commands == GitStages \cup {"cli_scan"}
Steps == Commands \cup {"token", "mkdtemp", "askpass", "remove_askpass", "cleanup"}
Following == [s \in Steps |->
  CASE s = "token" -> "mkdtemp"           [] s = "mkdtemp" -> "askpass"
    [] s = "askpass" -> "git_init"        [] s = "git_init" -> "git_remote_add"
    [] s = "git_remote_add" -> "git_fetch_head" [] s = "git_fetch_head" -> "git_fetch_base"
    [] s = "git_fetch_base" -> "git_checkout"   [] s = "git_checkout" -> "remove_askpass"
    [] s = "remove_askpass" -> "cli_scan" [] s = "cli_scan" -> "cleanup" [] s = "cleanup" -> "ended"]

VARIABLES
  call,         \* of each call: its request, the await it is at, the steps done, its outcome
  directories,  \* the calls whose checkout is on disk
  askpass,      \* the calls whose askpass script is in it
  published,    \* the conclusion of the Check Run of each call, or "none"
  ready,        \* the gates that said ready, last or at any time before
  invented      \* history: a gate was told of a yes that no gate had said

checkoutCalls == <<call, directories, askpass, published>>
gates == <<ready, invented>>
checkoutVars == <<call, directories, askpass, published, gates>>

NotCalled == [at |-> "idle", done |-> {}, outcome |-> "none"]
CheckoutInit ==
  /\ call = [c \in ScanCalls |-> NotCalled]
  /\ directories = {} /\ askpass = {}
  /\ published = [c \in ScanCalls |-> "none"]
  /\ ready = {} /\ invented = FALSE

-----------------------------------------------------------------------------
(* The call.                                                               *)

At(c, step) == call[c].at = step
Done(c) == call' = [call EXCEPT ![c].at = Following[call[c].at], ![c].done = @ \cup {call[c].at}]
\* The catch block and the finally after it.
Throws(c, reason) == call' = [call EXCEPT ![c].at = "cleanup", ![c].outcome = reason]
Rejects(c, reason) == call' = [call EXCEPT ![c].at = "ended", ![c].outcome = reason]
Only(c) == UNCHANGED <<directories, askpass, published, gates>>

\* planHostedWorkerReadOnlyScan, isTrustedFixedReadOnlyPlan, parseRepositoryFullName,
\* normalizeSafeCloneBaseUrl.
RefusalOf(request) ==
  CASE request.fault \in {"scope", "contents", "altered_plan"} -> "invalid_worker_plan"
    [] request.fault = "repository_name" -> "invalid_repository_full_name"
    [] request.fault = "clone_url" -> "invalid_clone_base_url"
    [] OTHER -> "none"

Begin(c, request) ==
  /\ At(c, "idle")
  /\ LET reason == RefusalOf(request) IN
     call' = [call EXCEPT ![c] =
       [at |-> IF reason = "none" THEN "token" ELSE "ended", done |-> {}, outcome |-> reason,
        request |-> request]]
  /\ Only(c)

\* createHostedGitHubAppJwt, by the clock of the service.
Clamped(value, fallback, maximum) ==
  IF value = Unset THEN fallback ELSE Lesser(maximum, IF value < 1 THEN 1 ELSE value)
JwtSkewedForward(now, ttl) ==  \* mutant: issued in the future
  [iat |-> now + ClockSkew, exp |-> now + Clamped(ttl, MaxTtl, MaxTtl)]
Jwt(now, ttl) ==
  [iat |-> now - Clamped(Unset, ClockSkew, ClockSkew), exp |-> now + Clamped(ttl, MaxTtl, MaxTtl)]
\* GitHub: a JWT issued in the past, that ends within ten minutes.
Accepts(jwt) == jwt.iat <= 0 /\ 0 < jwt.exp /\ jwt.exp <= 600

\* planHostedGitHubInstallationTokenRequest blocks, the JWT is refused, or the provider
\* has no token for another reason.
Authorized(c, ahead, ttl) == call[c].request.fault # "token_request" /\ Accepts(Jwt(ahead, ttl))
TokenArrives(c) ==
  /\ At(c, "token")
  /\ \E ahead \in Clocks, ttl \in Lifetimes : Authorized(c, ahead, ttl)
  /\ Done(c) /\ Only(c)
TokenRefused(c, ahead, ttl) ==
  /\ At(c, "token") /\ ~ Authorized(c, ahead, ttl)
  /\ call' = [call EXCEPT ![c] = [at |-> "ended", done |-> {}, outcome |-> "missing_installation_token",
                                  request |-> @.request, ahead |-> ahead, ttl |-> ttl]]
  /\ Only(c)
TokenMissing(c) == At(c, "token") /\ Rejects(c, "missing_installation_token") /\ Only(c)

\* mkdir and mkdtemp stand before the try: a failure has no reason of the runner's.
MakeDirectory(c) ==
  /\ At(c, "mkdtemp") /\ Done(c)
  /\ directories' = directories \cup {c}
  /\ UNCHANGED <<askpass, published, gates>>
NoDirectory(c) == At(c, "mkdtemp") /\ Rejects(c, "error") /\ Only(c)

WriteAskpass(c) ==
  /\ At(c, "askpass") /\ Done(c)
  /\ askpass' = askpass \cup {c}
  /\ UNCHANGED <<directories, published, gates>>
RemoveAskpass(c) ==
  /\ At(c, "remove_askpass") /\ Done(c)
  /\ askpass' = askpass \ {c}
  /\ UNCHANGED <<directories, published, gates>>
FileFails(c) == call[c].at \in {"askpass", "remove_askpass"} /\ Throws(c, "cli_scan_failed") /\ Only(c)

RunGit(c) == call[c].at \in GitStages /\ Done(c) /\ Only(c)
\* runCommand: an exit code, the timeout and too much output are all one failure.
FailureOf == [s \in Commands |->
  CASE s = "git_init" -> "git_init_failed"             [] s = "git_remote_add" -> "git_remote_add_failed"
    [] s = "git_fetch_head" -> "git_fetch_head_failed" [] s = "git_fetch_base" -> "git_fetch_base_failed"
    [] s = "git_checkout" -> "git_checkout_failed"     [] s = "cli_scan" -> "cli_scan_failed"]
CommandFails(c) == call[c].at \in Commands /\ Throws(c, FailureOf[call[c].at]) /\ Only(c)

\* The CLI in the checkout; the result is compacted before the cleanup.
RunCli(c, git) ==
  /\ At(c, "cli_scan")
  /\ IF CliExitsZero(call[c].request.pull, git)
     THEN call' = [call EXCEPT ![c] =
            [at |-> "cleanup", done |-> @.done \cup {"cli_scan"}, outcome |-> "completed",
             request |-> @.request, git |-> git, findings |-> CliFindings(@.request.pull, git)]]
     ELSE Throws(c, "cli_scan_failed")
  /\ Only(c)
InvalidOutput(c) == At(c, "cli_scan") /\ Throws(c, "invalid_cli_output") /\ Only(c)

CleanupUnlessFailed(c) ==  \* mutant: only after a scan that succeeded
  /\ At(c, "cleanup") /\ Done(c)
  /\ IF call[c].outcome = "completed"
     THEN directories' = directories \ {c} /\ askpass' = askpass \ {c}
     ELSE UNCHANGED <<directories, askpass>>
  /\ UNCHANGED <<published, gates>>
Cleanup(c) ==
  /\ At(c, "cleanup") /\ Done(c)
  /\ directories' = directories \ {c} /\ askpass' = askpass \ {c}
  /\ UNCHANGED <<published, gates>>
CleanupFails(c) == At(c, "cleanup") /\ Rejects(c, "cleanup_failed") /\ Only(c)

\* The process ends; nothing looks for its checkouts later.
Crash ==
  /\ \E c \in ScanCalls : call[c].at \in Steps
  /\ call' = [c \in ScanCalls |-> IF call[c].at \in Steps
                              THEN [call[c] EXCEPT !.at = "ended", !.outcome = "lost"] ELSE call[c]]
  /\ UNCHANGED <<directories, askpass, published, gates>>

\* The service stores the compact report and, authorised still, publishes it.
ReportOf(c) == Report(call[c].findings)
Publish(c) ==
  /\ At(c, "ended") /\ call[c].outcome = "completed" /\ published[c] = "none"
  /\ published' = [published EXCEPT ![c] = Conclusion(ReportOf(c), FailOnSeverity)]
  /\ UNCHANGED <<call, directories, askpass, gates>>

-----------------------------------------------------------------------------
(* The gates; `missing` is what the operator cannot show.                  *)

TrialProofs == {"selected_repository", "permissions", "fixed_command", "no_storage", "budgets",
                "live_smoke", "rollback", "monitoring", "incident_owner"}
BetaProofs == {"install_boundary", "install_docs", "rate_limit", "kill_switch", "telemetry",
               "uninstall_deletion", "rollback", "incident_owner", "support_path", "beta_smoke",
               "claims", "no_storage", "repository_limit", "concurrency_limit"}
TeamProofs == {"org_policy", "status_check_docs", "suppression_audit", "reviewer_checklist",
               "evidence_export", "team_docs", "admin_bypass_docs", "retention_docs", "no_billing"}

\* createHostedSourceCheckoutEvidence, evaluateHostedReadOnlyCheckoutScanGate.
EvidenceOf(c) ==
  (call[c].done \cap (Commands \cup {"token", "remove_askpass"}))
  \cup (IF call[c].outcome = "completed" THEN {"compact_report"} ELSE {})
  \cup (IF published[c] # "none" THEN {"check_run"} ELSE {})
  \cup (IF c \notin directories THEN {"checkout_deleted"} ELSE {})
Evidence == Commands \cup {"token", "remove_askpass", "compact_report", "check_run", "checkout_deleted"}

Says(gate, yes) == ready' = IF yes THEN ready \cup {gate} ELSE ready
\* evaluateHostedSourceCheckoutTrialGate: phase 3.
AskTrialGate(c, missing) ==
  /\ At(c, "ended")
  /\ Says("phase3", Evidence \subseteq EvidenceOf(c) /\ missing \cap TrialProofs = {})
  /\ UNCHANGED <<checkoutCalls, invented>>
\* The two gates after it take the answer before theirs as a boolean from the operator:
\* the last one, an old one, or one that nobody gave.
Told(gate, passed) == invented' = (invented \/ (passed /\ gate \notin ready))
\* evaluateHostedBetaReadinessGate
AskBetaGateFirst(missing, phase3GatePassed) ==  \* mutant: the trial gate is not asked for
  /\ Told("phase3", phase3GatePassed)
  /\ Says("beta", missing \cap BetaProofs = {})
  /\ UNCHANGED checkoutCalls
AskBetaGate(missing, phase3GatePassed) ==
  /\ Told("phase3", phase3GatePassed)
  /\ Says("beta", phase3GatePassed /\ missing \cap BetaProofs = {})
  /\ UNCHANGED checkoutCalls
\* evaluateTeamLaunchGateReadiness
AskTeamGate(missing, hostedBetaGatePassed) ==
  /\ Told("beta", hostedBetaGatePassed)
  /\ Says("team", hostedBetaGatePassed /\ missing \cap TeamProofs = {})
  /\ UNCHANGED checkoutCalls

RunCall(c) ==
  \/ \E request \in Requests : Begin(c, request)
  \/ TokenArrives(c) \/ TokenMissing(c)
  \/ \E ahead \in Clocks, ttl \in Lifetimes : TokenRefused(c, ahead, ttl)
  \/ MakeDirectory(c) \/ NoDirectory(c) \/ WriteAskpass(c) \/ RemoveAskpass(c) \/ FileFails(c)
  \/ RunGit(c) \/ CommandFails(c)
  \/ \E git \in GitOutcomes : RunCli(c, git)
  \/ InvalidOutput(c) \/ Cleanup(c) \/ CleanupFails(c)
  \/ Publish(c)

CheckoutNext ==
  \/ \E c \in ScanCalls : RunCall(c)
  \/ Crash
  \/ \E missing \in Shortfalls :
       \/ \E c \in ScanCalls : AskTrialGate(c, missing)
       \/ \E passed \in BOOLEAN : AskBetaGate(missing, passed) \/ AskTeamGate(missing, passed)

CheckoutSpec == CheckoutInit /\ [][CheckoutNext]_checkoutVars

-----------------------------------------------------------------------------
(* Properties.                                                             *)

\* Credentials end before code of the pull request decides anything, and nothing outlives
\* a call: however it ends, but for a failed removal or a lost process, its checkout is
\* gone, and other calls keep theirs.
NothingOutlivesItsCall ==
  \A c \in ScanCalls :
    /\ At(c, "cli_scan") => c \in directories /\ c \notin askpass
    /\ call[c].at \in GitStages => c \in directories /\ c \in askpass
    /\ At(c, "ended") /\ call[c].outcome \notin {"cleanup_failed", "lost"} =>
         c \notin directories /\ c \notin askpass

\* A Check Run is green only if a diff was read and no file it lists has a category, or
\* the configuration of the pull request itself turned findings off.
GreenMeansTheDiffWasRead ==
  \A c \in ScanCalls :
    published[c] = "success" =>
      LET pull == call[c].request.pull
          reading == Reading(pull, call[c].git) IN
      /\ Verdict(ReportOf(c)) = "clear from current heuristics"
      /\ \/ pull.config.suppressed # {} \/ \E r \in Rules : pull.config.rules[r] = "off"
         \/ /\ call[c].git # "unreadable" /\ reading.diff # <<>>
            /\ \A f \in ParsedFiles(reading.diff) : CategoriesOf(f) = {}

\* No token is missing because of a clock that is at most as far ahead as the JWT's
\* lifetime leaves of GitHub's ten minutes, and as the skew allows.
ClockInBoundsGetsAToken ==
  \A c \in ScanCalls :
    "ahead" \in DOMAIN call[c] /\ call[c].request.fault # "token_request" =>
      LET life == Clamped(call[c].ttl, MaxTtl, MaxTtl) IN
      call[c].ahead > Lesser(ClockSkew, MaxTtl - life) \/ call[c].ahead + life <= 0

\* Team use rests on a run, however old the answers are that the gates are told of: unless
\* one was invented, some call published its result and left no checkout behind.
TeamUseRestsOnARun ==
  ready # {} /\ ~ invented =>
    \E c \in ScanCalls :
      /\ call[c].outcome = "completed" /\ published[c] # "none" /\ c \notin directories
      /\ Commands \cup {"remove_askpass", "cleanup"} \subseteq call[c].done
=============================================================================
