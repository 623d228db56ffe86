----------------------------- MODULE ReleaseGates -----------------------------
(***************************************************************************)
(* The evidence for a hosted release and the gates that read it:           *)
(* evaluateHostedOperationalReleaseGate (src/hosted/contracts.ts), the     *)
(* evidence bundles of the local staging harness (staging-harness.ts) and  *)
(* of a deployed worker (deployed-staging.ts), and the deployment plans    *)
(* composed with the gate (app.ts, staging.ts, github-app.ts).             *)
(*                                                                         *)
(* All of them are pure functions of what an operator hands in.  Here the  *)
(* operator records evidence rows day by day and makes bundles of them     *)
(* with what a rehearsal of staging showed.  The gates are operators, so   *)
(* the properties ask them in every state, for every deployment request.   *)
(***************************************************************************)
EXTENDS Integers, FiniteSets

CONSTANTS
  Requirements,     \* HOSTED_OPERATIONAL_RELEASE_GATE_REQUIREMENTS, or some of them
  RowKinds,         \* the rows an operator records, their dates relative to the day
  Rehearsals,       \* what a rehearsal of staging may show
  RequiredReasons,  \* requiredFailureReasons
  DeploymentInputs, \* sets of what may be wrong in a deployment request
  MaxAge,           \* maxEvidenceAgeDays
  LastGateDay,      \* bound: the clock stops here
  MaxRows,          \* bound: rows recorded
  Undated,          \* a row without collectedAt
  NoRow,            \* no row for a requirement
  NoBundle

Generated == {"webhook_replay", "queue_worker_cleanup", "privacy_retention", "release_cleanup"}
RowStatuses == {"passed", "failed", "missing", "exception"}
\* HostedOperationalReleaseGateEvidence; reference: a URL or a note is given.
Rows == [status : RowStatuses, at : Int \cup {Undated}, reference : BOOLEAN]
\* The processed worker ticks of a rehearsal; clean: sandbox deleted, none active,
\* cleanupVerified.
Ticks == [status : {"completed", "failed"}, clean : BOOLEAN, reason : STRING, published : BOOLEAN]
StagingProofs == {"deployment", "check_run", "rollback"}
\* What the planners find wrong in a request.
Defects == {"public_url", "homepage_url", "digest", "claims", "secret_ref_missing", "secret_ref_form",
            "secret_ref_raw", "adapter_ref", "operations_ref", "raw_key", "raw_material"}

ASSUME GatesAssumption ==
  /\ "release_cleanup" \in Requirements
  /\ RowKinds \subseteq Rows
  /\ \A d \in DeploymentInputs : d \subseteq Defects
  /\ MaxAge \in Nat /\ LastGateDay \in Nat /\ MaxRows \in Nat
  /\ Undated \notin Int /\ NoRow \notin Rows

VARIABLES
  day,
  rows,       \* the last evidence row recorded for each requirement
  recorded,   \* number of rows recorded
  bundle      \* the last evidence bundle, with what it was made from and when

gateVars == <<day, rows, recorded, bundle>>

-----------------------------------------------------------------------------
(* The release gate.                                                       *)

\* isHostedGateEvidenceFresh
FreshOnceOld(row, at) ==  \* mutant: the age is compared the wrong way round
  row.at # Undated /\ at - row.at >= MaxAge
Fresh(row, at) == row.at # Undated /\ at - row.at >= 0 /\ at - row.at <= MaxAge

\* The branches of evaluateHostedOperationalReleaseGate for one requirement, in their order.
Verdict(row, at) ==
  CASE row = NoRow -> "missing"
    [] row # NoRow /\ (row.status = "missing" \/ ~ row.reference) -> "missing"
    [] row # NoRow /\ row.reference /\ row.status \in {"failed", "exception"} -> row.status
    [] OTHER -> IF Fresh(row, at) THEN "passed" ELSE "stale"

\* isHostedContainerImageDigest, findHostedReleaseNoteForbiddenClaims
CandidatePasses(req) == req \cap {"digest", "claims"} = {}
GateOpen(evidence, at, req) ==
  (\A id \in Requirements : Verdict(evidence[id], at) = "passed") /\ CandidatePasses(req)

-----------------------------------------------------------------------------
(* The evidence bundles.                                                   *)

\* hostedStagingScenarioSummary, deployedScenarioSummary
CompletedProbe(r) == \E t \in r.ticks : t.status = "completed" /\ t.clean
PublishedProbe(r) == \E t \in r.ticks : t.status = "completed" /\ t.published
FailureReasons(r) == {t.reason : t \in {u \in r.ticks : u.status = "failed" /\ u.clean}}
FailureProbe(r) ==
  IF RequiredReasons = {}
  THEN \E t \in r.ticks : t.status = "failed" /\ t.clean
  ELSE RequiredReasons \subseteq FailureReasons(r)
AllDeleted(r) == r.ticks # {} /\ \A t \in r.ticks : t.clean
LogsAccepted(r) == r.logs = "clean"

Passed(at) == [status |-> "passed", at |-> at, reference |-> TRUE]
Missing(at) == [status |-> "missing", at |-> at, reference |-> TRUE]
Shown(proved, at) == IF proved THEN Passed(at) ELSE Missing(at)

\* sanitizeEvidence: a note is always written, a missing date is filled in.
SanitizeWithDate(row, at) == [row EXCEPT !.at = at, !.reference = TRUE]  \* mutant: always dated anew
Sanitize(row, at) ==
  [row EXCEPT !.at = IF row.at = Undated THEN at ELSE row.at, !.reference = TRUE]
ExternalOrNone(row, at) ==  \* mutant: a requirement nobody recorded gets no row
  IF row = NoRow THEN NoRow ELSE Sanitize(row, at)
External(row, at) == IF row = NoRow THEN Missing(at) ELSE Sanitize(row, at)

\* createHostedStagingReleaseEvidenceBundle
LocalRow(id, row, r, at) ==
  CASE id = "webhook_replay" -> Shown(r.replay, at)
    [] id = "queue_worker_cleanup" -> Shown(CompletedProbe(r) /\ FailureProbe(r) /\ AllDeleted(r), at)
    [] id = "privacy_retention" -> Shown(LogsAccepted(r) /\ r.privacySafe, at)
    [] id = "release_cleanup" -> Shown(AllDeleted(r), at)
    [] OTHER -> External(row, at)

\* deployedBlockedReasons: none of them.  ingress: the health probe and both URLs.
DeployedProvenWithoutCleanup(r) ==  \* mutant: the failure probe is not asked for
  r.ingress /\ r.replay /\ PublishedProbe(r) /\ AllDeleted(r) /\ LogsAccepted(r)
DeployedProven(r) ==
  r.ingress /\ r.replay /\ PublishedProbe(r) /\ FailureProbe(r) /\ AllDeleted(r) /\ LogsAccepted(r)

\* createHostedDeployedWorkerStagingEvidenceBundle: while anything blocks it generates
\* no row, and those recorded from elsewhere stand in.
DeployedRowWhenever(id, row, r, at) ==  \* mutant: what blocks the bundle does not stop its rows
  IF id \in Generated THEN Shown(id = "queue_worker_cleanup" => AllDeleted(r), at) ELSE External(row, at)
DeployedRow(id, row, r, at) ==
  IF DeployedProven(r) /\ id \in Generated
  THEN Shown(id = "privacy_retention" => r.privacySafe, at)
  ELSE External(row, at)

BundleOf(kind, from, r, at) ==
  [kind |-> kind, at |-> at, from |-> from, rehearsal |-> r,
   evidence |-> [id \in Requirements |-> IF kind = "local" THEN LocalRow(id, from[id], r, at)
                                         ELSE DeployedRow(id, from[id], r, at)]]

ReadyForReleaseGate(b) ==
  /\ b.kind = "deployed" => DeployedProven(b.rehearsal)
  /\ \A id \in Requirements : b.evidence[id].status = "passed"

-----------------------------------------------------------------------------
(* The deployment plans: their blocked reasons.                            *)

\* planHostedNodeContainerDeployment
NodeContainerReasons(req) == req \cap {"public_url", "digest", "secret_ref_missing", "secret_ref_form",
                                       "secret_ref_raw", "adapter_ref", "raw_key", "raw_material"}
\* planHostedProviderBinding
ProviderReasons(req) == req \cap {"adapter_ref", "operations_ref", "raw_key", "raw_material"}
\* planHostedGitHubAppDeployment as staging calls it, with the webhook URL of the container plan.
GitHubAppReasonsWithoutGate(req, open) ==  \* mutant: the gate's decision is not looked at
  req \cap {"public_url", "homepage_url", "digest", "secret_ref_missing", "secret_ref_raw", "raw_key"}
GitHubAppReasons(req, open) ==
  (req \cap {"public_url", "homepage_url", "digest", "secret_ref_missing", "secret_ref_raw", "raw_key"})
  \cup (IF open THEN {} ELSE {"release_gate_blocked"})

\* planHostedStagingDeployment
StagingReady(evidence, at, req) ==
  /\ NodeContainerReasons(req) = {} /\ ProviderReasons(req) = {}
  /\ GateOpen(evidence, at, req)
  /\ GitHubAppReasons(req, GateOpen(evidence, at, req)) = {}

\* planHostedGitHubAppPromotion: without all staging proofs the release cleanup row is
\* withheld; of the production plan only the GitHub App's reasons are looked at.
ProductionEvidence(evidence, proofs) ==
  IF proofs = StagingProofs THEN evidence ELSE [evidence EXCEPT !["release_cleanup"] = NoRow]
PromotionReady(evidence, proofs, at, req) ==
  /\ proofs = StagingProofs
  /\ GitHubAppReasons(req, GateOpen(ProductionEvidence(evidence, proofs), at, req)) = {}

-----------------------------------------------------------------------------
(* The operator.                                                           *)

GatesInit ==
  /\ day = 0
  /\ rows = [id \in Requirements |-> NoRow] /\ recorded = 0
  /\ bundle = NoBundle

\* A row is appended to the evidence; the gate's Map keeps the last of each requirement.
Record(id) ==
  /\ recorded < MaxRows
  /\ \E kind \in RowKinds :
       rows' = [rows EXCEPT ![id] = [kind EXCEPT !.at = IF kind.at = Undated THEN Undated ELSE day + kind.at]]
  /\ recorded' = recorded + 1
  /\ UNCHANGED <<day, bundle>>

Collect(kind) ==
  /\ \E r \in Rehearsals : bundle' = BundleOf(kind, rows, r, day)
  /\ UNCHANGED <<day, rows, recorded>>

NextGateDay ==
  /\ day < LastGateDay
  /\ day' = day + 1
  /\ UNCHANGED <<rows, recorded, bundle>>

GatesNext ==
  \/ \E id \in Requirements : Record(id)
  \/ NextGateDay
  \/ \E kind \in {"local", "deployed"} : Collect(kind)

GatesSpec == GatesInit /\ [][GatesNext]_gateVars

-----------------------------------------------------------------------------
(* Properties.                                                             *)

Evidence == [Requirements -> Rows \cup {NoRow}]

\* The evidence handed to the gates is that of their interfaces.
GatesTypeOK ==
  /\ day \in Nat /\ recorded \in Nat
  /\ rows \in Evidence
  /\ bundle # NoBundle => /\ bundle.kind \in {"local", "deployed"} /\ bundle.at \in 0..day
                          /\ bundle.from \in Evidence /\ bundle.evidence \in [Requirements -> Rows]
                          /\ bundle.rehearsal \in Rehearsals

\* A gate opened through a bundle rests, for each requirement the bundle does not prove
\* itself, on a passed row handed to it, and where that row says when it was collected
\* it is not older than MaxAge on the day of the gate: making a bundle again and again
\* does not keep old evidence fresh.
CollectingDoesNotRefreshEvidence ==
  bundle # NoBundle /\ GateOpen(bundle.evidence, day, {}) =>
    /\ day - bundle.at <= MaxAge \/ \A id \in Requirements \ Generated : bundle.from[id].at # Undated
    /\ \A id \in Requirements \ Generated :
         /\ bundle.from[id] # NoRow /\ bundle.from[id].status = "passed"
         /\ bundle.from[id].at # Undated => day - bundle.from[id].at <= MaxAge

\* A deployed bundle that is not ready opens the gate only when passed rows for every
\* requirement the rehearsal should have proved were handed in from elsewhere.
UnreadyBundleNeedsForeignProof ==
  bundle # NoBundle /\ GateOpen(bundle.evidence, day, {}) /\ ~ ReadyForReleaseGate(bundle) =>
    /\ bundle.kind = "deployed"
    /\ \A id \in Generated \cap Requirements :
         bundle.from[id] # NoRow /\ bundle.from[id].status = "passed"

\* A bundle that is ready, of either kind, stands on a rehearsal in which a worker
\* completed, the required failures were seen, and every tick left nothing behind.
ReadyBundleWasRehearsed ==
  bundle # NoBundle /\ ReadyForReleaseGate(bundle) /\ "queue_worker_cleanup" \in Requirements =>
    LET ticks == bundle.rehearsal.ticks IN
    /\ \A t \in ticks : t.clean
    /\ \E t \in ticks : t.status = "completed"
    /\ \E t \in ticks : t.status = "failed"
    /\ \A reason \in RequiredReasons : \E t \in ticks : t.status = "failed" /\ t.reason = reason

\* Time alone never opens a gate, unless a row is dated after the day it is read.
TimeOnlyCloses ==
  [][day' # day =>
       /\ GateOpen(rows, day', {}) => GateOpen(rows, day, {})
            \/ \E id \in Requirements : rows[id] # NoRow /\ rows[id].at # Undated /\ rows[id].at > day
       /\ bundle # NoBundle /\ GateOpen(bundle.evidence, day', {}) =>
            GateOpen(bundle.evidence, day, {})
            \/ \E id \in Requirements : bundle.evidence[id].at > day]_gateVars

\* The production GitHub App is promoted only while each requirement has a passed, dated
\* row of the last MaxAge days, and after all three staging proofs: an old row or a proof
\* taken on trust is not enough.  A request fit for staging is then fit for production.
PromotionIsEarned ==
  \A proofs \in SUBSET StagingProofs, req \in DeploymentInputs :
    /\ PromotionReady(rows, proofs, day, req) =>
         /\ proofs = StagingProofs /\ "claims" \notin req
         /\ \A id \in Requirements : /\ rows[id] # NoRow /\ rows[id].status = "passed"
                                     /\ rows[id].at # Undated /\ rows[id].at \in (day - MaxAge)..day
    /\ StagingReady(rows, day, req) => PromotionReady(rows, StagingProofs, day, req)

\* README.md:399 says that production promotion stays blocked until the queue, store,
\* sandbox, publisher, logs, metrics, rollback and incident-response references are there.
PromotionHasProviders ==
  \A req \in DeploymentInputs :
    PromotionReady(rows, StagingProofs, day, req) => ProviderReasons(req) = {}
=============================================================================
