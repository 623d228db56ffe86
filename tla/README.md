# A specification of ai-saas-guard's hosted system

ai-saas-guard is a command-line scanner for AI-built SaaS repositories and, around it, a
hosted system: a Cloudflare Worker that takes GitHub webhooks and publishes check runs, a
Node service with a queue and scan workers, and the planners, gates, staging harnesses and
checkout runner that surround them. The scanner itself is a sequential program over text.
What is hard to test is the hosted part: requests that interleave at every `await` over a
store without transactions, webhooks that GitHub repeats, cleanups that delete what scans
are writing, workers that share mutable queue records, checkouts and sandboxes that must be
gone whatever failed, and gates that rest on evidence which was collected earlier. The modules
here are about that.

## Files

| File | What it is |
| --- | --- |
| `HostedIngress.tla` | the Cloudflare Worker, `hosted/cloudflare-worker/src/index.js` |
| `MCHostedIngress.tla`, `Ingress*.cfg` | small deployments of it for TLC |
| `HostedIngress_proofs.tla` | theorems about it |
| `HostedService.tla` | the Node service runtime, `src/hosted/service.ts`, with the queue planner of `src/hosted/contracts.ts` |
| `HostedJobBoard.tla` | what the service promises about a job: its abstract specification |
| `MCHostedService.tla`, `Service*.cfg` | small services for TLC |
| `HostedService_proofs.tla` | theorems about it, and that it implements the job board |
| `RateLimit.tla` | the repository rate limit of the Cloudflare Worker |
| `RetentionPlans.tla` | retention and deletion plans of `src/hosted/contracts.ts`, carried out by a host |
| `ReleaseGates.tla` | release evidence, its bundles, the gate and the deployment plans (`contracts.ts`, `staging-harness.ts`, `deployed-staging.ts`, `staging.ts`, `app.ts`, `github-app.ts`) |
| `MCHostedPolicies.tla`, `Policies.cfg`, `PromotionWithoutProviders.cfg` | small instances of these three |
| `HostedStaging.tla` | the staging harness, `src/hosted/staging-harness.ts`, around `HostedService` |
| `PullScan.tla` | operators: the risk scan of a pull request (`src/scanners/gitDiff.ts`, `config.ts`, `cli.ts`) and the check run made of it |
| `CheckoutRunner.tla` | the checkout runner `src/hosted/worker.ts`, its token (`production-adapters.ts`) and the gates asked afterwards (`worker.ts`, `beta.ts`) |
| `SourceTrial.tla` | the scripts `hosted-pr-smoke.mjs` and `hosted-source-checkout-staging.mjs` with the staging scan worker |
| `MCHostedWorkers.tla`, `Workers.cfg` | small instances of the harness, the runner and the scripts |
| `RateLimit_proofs.tla`, `HostedPlans_proofs.tla` | theorems about the rate limit; about plans, bundles and gates |
| `HostedStaging_proofs.tla`, `CheckoutRunner_proofs.tla` | theorems about the harness; about the runner |
| `PullScan_proofs.tla`, `SourceTrial_proofs.tla` | theorems about the risk scan and its report; about the scripts |
| `PROJECT.json` | components, runs, mutants, map from definitions to source lines, findings, hazards, theorems |

`tlc -config IngressPull.cfg MCHostedIngress.tla` runs a configuration, and
`tlapm HostedIngress_proofs.tla` checks a module of proofs.

## Inventory

**Webhook ingress, pull requests** (`hosted/cloudflare-worker/src/index.js`, `fetch` and
`runHostedPrRiskCheck`). State: one key-value namespace with a receipt `delivery:<id>` per
webhook and a record `scan:<installation>:<repository>:<pr>:<head>:<version>` per head, a
rate counter and a pause flag. Operations: verify and parse, look the receipt up, note an
ignored event, pass the pause flag and the rate limit, store receipt and scan record, answer,
then (in `waitUntil`) store `running`, fetch files, create the check run, store `completed`
or `failed`. Hard: everything is read-then-write over several awaits; a request may die at
any of them; GitHub repeats deliveries; the check run may exist although its reply is lost.
Correct when: a stored status is true of GitHub and of the requests at work, a repeated
delivery is not handled again, a record in progress settles.

**Webhook ingress, cleanup** (`handleInstallationCleanupEvent` and below it). State: the same
namespace, audit records, idempotency records. Operations: resolve what the event takes away,
answer from an idempotency record, list scan keys by prefix and delete them, list receipts and
delete those in scope, audit, remember. Hard: paged lists over a namespace that changes; a
failure or loss at each step; pull requests in flight. Correct when: nothing owed stays,
nothing else goes, and an answer "repeated" is backed by a completed cleanup.

**Webhook ingress, rate limit** (`checkRepositoryRateLimit`). State: one counter record per
repository with an expiry. Hard: read-modify-write over two awaits, window boundary, corrupt
record. Correct when: requests one after another stay within the limit, and whatever overlaps,
nobody is refused without enough counted events behind the refusal.

**Node service** (`src/hosted/service.ts`, with `planHostedScanQueueUpsert`,
`parseHostedPullRequestEvent`, `authorizeInstallationTokenScope`, `planHostedWorkerReadOnlyScan`
and `planHostedCheckRunPublication` of `src/hosted/contracts.ts`). State: remembered delivery
ids, one queue record per scan key in insertion order. Operations: handle a webhook (no await);
take the next queued record and run it through scan runner, report store and publisher. Hard:
the record is shared and mutated in place, and never read again before its last status is
stored; manual reruns and other workers change it meanwhile; each adapter may fail after it
took effect. Correct when: attempts are taken up once, claims and ends are exclusive, a
completed record is published, duplicates cause no work.

**Retention and deletion plans** (`contracts.ts`). State: none of their own; a host keeps reports,
jobs and checkouts and carries out what is planned. Operations: plan a cleanup for a removed
repository, a deleted installation, a repeated cleanup or expired retention. Hard: dates that
are missing or unreadable, team days against the hosted default, scopes that overlap, jobs that
move on between two requests. Correct when: a removal is complete, nobody else's work stops,
and no report goes early or stays past retention.

**Release gate, evidence bundles, deployment plans** (`contracts.ts`, `staging-harness.ts`,
`deployed-staging.ts`, `staging.ts`, `app.ts`, `github-app.ts`). State: the operator's evidence
rows. Operations: record a row, rehearse and bundle, ask the gate, plan a deployment, promote.
Hard: rows grow old, bundles date rows, a blocked bundle still holds rows from elsewhere, plans
are composed and read in part. Correct when: an open gate rests on fresh proof of each
requirement, however often a bundle was made.

**Checkout runner** (`src/hosted/worker.ts`, with `production-adapters.ts`). State: a temporary
directory per call and the askpass script in it. Operations: verify the plan, request a token,
fetch and check out, remove the script, run the CLI, compact its result, clean up. Hard: each
stage may fail or time out, the process may end, the cleanup may fail after a complete result,
the clock decides whether a token arrives, and the configuration of the pull request decides the
exit code. Correct when: nothing outlives its call, the scanner never sees a credential, and a
green check run means a diff was read.

**Staging harness** (`staging-harness.ts`). State: the service's queue, sandbox directories, the
set of paths it noted, `jobs.json`. Operations: replay a webhook, run a worker tick. Hard: ticks
that overlap remove each other's sandboxes and write the snapshot late; a failed removal ends its
tick while the others go on. Correct when: ticks that
all report a verified cleanup left nothing, and `jobs.json` shows nothing that is not on disk.

**Beta and team gates** (`beta.ts`), **source checkout gates** (`worker.ts`): each takes the answer
of the one before from the operator's hand. **Trial and smoke scripts** (`scripts/`): open a pull request, wait for the
check run, clean up branch, pull request and KV records, write evidence. Hard: the ingress still
writes while they clean up. **Scan worker** (`scan-worker/`): a stateless scan request.
**Pull request risk scan** (`gitDiff.ts`): a function of a diff. **HTTP app** (`app.ts`): routing
over the runtime. **CLI, configuration, file collection**, **other scanners and rules**,
**reports**: sequential and mostly text. PROJECT.json lists each with its status and reason.

Interaction: GitHub sends webhooks to the ingress or to the HTTP app; the ingress works alone
over its namespace; the app passes webhooks to the service, whose workers call the checkout
runner as scan runner, which starts the CLI; the staging harness wraps the service. The
ingress and the service share no state: they are two deployments of the same contracts. The
scripts share GitHub and the key-value namespace with the ingress.

## HostedIngress

A request is a process `a = <<delivery, copy>>` whose program counter `pc[a]` names the await
it is at; one action runs the code from that await to the next. Other requests, the operator's
pause switch and losses come in between.

- `receipts`, `scan`, `remembered`, `audit`, `paused` are the namespace; `checkRuns` is GitHub.
  A receipt is its presence and a scan record its status, since the rest is a function of the
  key. Keys are numbers in the order in which the namespace lists them.
- `Send` .. `Enqueue` are `fetch` up to its answer; `StartScan` .. `FailScan` are
  `runHostedPrRiskCheck`; `NoteCleanup` .. `CleanupDone` are `handleInstallationCleanupEvent`.
  `todo`, `ahead` and `page` are the locals of the two listing loops: prefixes not yet listed,
  keys past the cursor, and listed keys not yet visited.
- `Lose` ends a request at any await: eviction, the end of the `waitUntil` budget, or a
  key-value call outside a `try` that throws.
- `VisitKey` merges the `get` and the `delete` of one listed key. The decision depends on the
  key alone (a receipt never changes, a scan record goes unconditionally) and deleting an absent
  key does nothing, so no interleaving is lost. A key-value call that throws is taken not to
  have been applied.
- Scan prefixes are visited in any order, which covers the order of the event's list.
- History variables: `admitted` and `erased` for replays; `leftover[a]` is what cleanup `a`
  owed when it started and nobody has written or deleted since.
- The answer is sent before the scan stages, as with `ctx.waitUntil`; the branch without a
  context awaits the same steps.

Bounds. `Copies` bounds redelivery, `MaxLost` the losses, `PageSize = 1` makes every key a page
of its own, which gives the most interleavings and exercises the cursor. Two copies, two
requests per key, three keys in three repositories of two installations and one loss are
enough for each race the hazards name: all of them need two requests, or two and a cleanup.
The lost request is in `ingress_pull`.
`SerialRedelivery` says that GitHub repeats a delivery only once the last copy was answered;
`IngressDuplicateCheckRun` drops it. Expiry of records (their lifetimes are days) is not modelled,
nor an ingress without check-run configuration: the proofs cover that constant, no run does.

Runs:

- `ingress_pull`: `CompletedScanWasPublished` and `InProgressScanHasARunner`, with two requests
  of one head that overwrite each other's record.
- `ingress_uninstall`: `RepeatedAnswersAreBacked`, `CleanupLeavesNothingBehind`,
  `CleanupStaysInScope`. It has no losses, to stay small; the theorems about the three hold for
  any number of them.
- `ingress_settles`: `ReplayOnlyAfterErasure`, with a pull request delivered three times beside
  the removal that may erase its receipt, and liveness, `ScanSettles` and `CleanupEnds`, under
  weak fairness of each request's next step and without losses. The event loop resumes a request whose await settled,
  and every external call settles (`fetch` and the namespace answer or throw), so no request
  stays behind for ever; a lost request does, which is why losses are excluded.
- Three refutations. `ingress_duplicate_check_run`: two copies in flight at once both pass the
  receipt lookup and publish (docs/hosted-deployment-model.md:78 says a duplicate creates no
  check run). `ingress_publishes_after_cleanup`: a scan in flight publishes for a repository
  whose removal was completed (docs/hosted-uninstall-data-deletion.md:99 says workers check
  scope before that). `ingress_overlapping_removal`: removing `a`, then `a` and `b`, leaves the
  records of `b`, because one remembered repository answers for the event
  (hosted/cloudflare-worker/README.md:95).

Behaviours end when every request has, so deadlock is not checked in any configuration.

## HostedService and HostedJobBoard

`HandleWebhook` is one step: the code has no await in it. `run[w]` is the call of
`runNextQueuedScan` that worker `w` is in, with the await it is at, its key, the repository lists
it read and the report id it built; `status`, `attempt`, `deliveryIds`, `reportId` are the fields
of the shared record, `queue` the insertion order of the map. `Claim` is everything up to the
first await, a refused worker plan included. Each adapter returns or throws, and when it throws it
may have taken effect; an effect is placed at the adapter's return. `SaveReturns` plans the
publication against the lists read by `Claim` or, if the host edits those arrays in place, the
present ones. Several workers may be at work: docs/hosted-deployment-model.md:47 allows "bounded
concurrency", and nothing in the runtime forbids it.

`RerunsWhileRunning` says whether a manual rerun may arrive while its job runs. With it, the
service keeps only what `service_concurrent` checks: attempts are claimed once, a running record
has a worker, a completed record was published under the report it names, and check runs are
asked for. Without it, `service_board` shows that the service implements `HostedJobBoard`, whose
`Claim`, `Refuse` and `Finish` are exclusive and fair, and that report ids are unique.
`service_lost_rerun` shows why the restriction is needed: a rerun accepted during a scan is
overwritten by the end of that scan, although the planner answered `shouldEnqueueWorker`
(tests/hosted-contracts.test.mjs:574-578).

Bounds: two workers, two jobs of one repository, every kind of delivery once, two manual reruns.
Two workers on one job need a rerun, and a third attempt shows a late end over two newer ones.
Fairness (`service_board` only): the host keeps calling `runNextQueuedScan`
(docs/hosted-service-runtime.md:29) and its adapters settle, which the checkout runner's
timeouts and the HTTP clients guarantee. Worker symmetry is used where no liveness is checked.

## HostedStaging

A harness call is a process that goes from await to await: `replay[d]` for `runWebhookReplay`,
`tick[w]` for `runWorkerTick`, around the call `run[w]` of the service. `registered` is the set
`workerSandboxPaths`, `sandboxes` the directories that exist. `TickClaims` notes the path before
the directory is made, as the harness's scan runner does; `RemoveSandbox` and `ForgetSandboxes`
are `removeWorkerSandboxes`: the paths known at its start one by one, then `clear()`, which also
forgets paths noted meanwhile. `CountSandboxes` is what the tick reports. The service's actions
are taken over unchanged (`EXTENDS HostedService`), so the harness is the composition of both.

A removal may fail (`RemovalFails`): `Promise.all` (staging-harness.ts:671) rejects with the first
failure and the tick throws, but the other removals go on. `stray` counts them per sandbox, and
`StrayEnds` lets each land, or fail too, at any later moment, in a later tick's scan included.
`late` is history: the sandboxes such a removal took since they were last made.

One tick at a time, a scan keeps its sandbox unless a stray removal of that very sandbox lands in
it, and no sandbox on disk is forgotten (`SerialScanKeepsItsSandbox`). Nothing stronger is true of
this code: a removal fails, another goes on, the job is rerun, the next tick makes the same
directory again, and the old removal takes it. With overlap scans lose their sandboxes in other
ways too, and the harness promises no more than its evidence: ticks that all report a verified
cleanup left nothing (`VerifiedCleanupLeavesNothing`), and a snapshot never shows a completion
that is not on disk (`SnapshotIsBacked`). Directory creation may fail (`TickRuns`, first await); a
write of `jobs.json` that fails leaves the older snapshot, which the late writes already give.

Bounds: two jobs, two workers, three ticks, three events (one of them a rerun of a job that ended,
which a stray removal needs to meet the same path, one a rerun that meets no record); at most two
harness calls at once, and two events once calls overlapped.

## PullScan and CheckoutRunner

`PullScan` has no state. A changed file is the set of traits its path and text have for the
predicates of `gitDiff.ts`: the regular expressions themselves are abstracted, the categories,
weights, score, thresholds, ties, the ten listed and five reviewed files, the specification rule,
diagnostics, `rules`, `suppressions` and `failOn` of the configuration, exit code, counts, and
the conclusion are as in the code. A header that git quotes is a file the parser does not see,
whose lines go to the one before it (`Section`); a base that went on without a merge base shows
in the diff (`Reading`).

`CheckoutRunner` is the stages of `runHostedReadOnlyCheckoutScan`: `call[c].at` is the await of
call `c`, `done` the steps behind it. Any command fails by exit code, timeout or too much output
alike, and `finally` runs the cleanup, whose failure replaces the outcome; `mkdtemp` and the token
stand before the `try`. `Crash` ends every call at once, since they share a process. A completed
result is published by the service (`Publish`); the authorisation in between is `HostedService`'s.
The token depends on the clock: `Jwt` is `createHostedGitHubAppJwt`, `Accepts` is GitHub's rule
(issued in the past, ending within ten minutes). `AskTrialGate`, `AskBetaGate`, `AskTeamGate` are
the three gates in any order, with `missing` naming what the operator cannot show. `ready` holds the
gates that ever said yes. The beta and the team gate are told of the gate before theirs by a boolean
(beta.ts:181, 207) that is any value: the last answer, an old one, or one that nobody gave, which
`invented` remembers. `TeamUseRestsOnARun` excuses only the last kind.

A lost process leaves its checkout behind, and nothing in the repository sweeps the checkout root.
docs/hosted-operational-release-gate.md:176 asks the operator for evidence that failure cleanup
covers process interruption; that needs a deployment that removes the directory with the process,
which is not part of this code. `NothingOutlivesItsCall` therefore excludes lost calls.

Bounds: two calls of fourteen kinds of job (a diff with more files than the findings name, a base
that went on, a quoted name, no diff, configurations that turn off, suppress, fail or do not
parse, and each refused plan), four clocks and three lifetimes around GitHub's limits; three
listed and two reviewed files instead of ten and five, so that four files overflow both. An
invented answer is handed in before any call and no call follows it (`InventedEarly`): the property
has nothing to say from there on.

`GreenMeansTheDiffWasRead` names the exception the code makes: the configuration of the scanned
pull request. `ClockInBoundsGetsAToken` says what the skew allowance is worth: with the default
lifetime no margin is left for a clock that is ahead, with a shorter one up to a minute.

## SourceTrial

Both scripts from `verify` to the evidence file, as processes beside the ingress, which writes the
receipt, the scan record, the check run and the completed record of the script's pull request in
its own time, and a receipt when it is closed. Calls of `gh`, `git` and `wrangler` fail at any
point; `failed` means the script's work threw, so the cleanup runs but no evidence is written. The
smoke script reads each record before it deletes it, the trial goes by the fourth part of the key
and sees one page of keys only: `cfKvListKeys` has no cursor, and keys come in order, receipts
before scan records (`IsFirstPage`; `PageOfKeys = 5` is less than the namespace may hold).
`unsettled` notes whether the ingress was still writing, or a read failed, when the keys were
listed: only then may evidence that nothing remains be wrong (`CleanSmokeEvidenceIsTrue`).
`ForeignRecordsAreKept` says whose records the scripts delete; the trial also deletes the scan
record of another repository's pull request with the same number, although the comment at
scripts/hosted-source-checkout-staging.mjs:445-447 speaks of this trial's records, and for the
same reason never a receipt. The scan worker keeps no state: `Scan` and `RefuseScan` are one
request to it, with scanners that throw and are noted.

The harness, the runner and the scripts share no state, and `MCHostedWorkers` explores each while
the others stay at their start, so one run (`workers`) checks them with the states of each alone;
the two scripts touch disjoint records and are taken one at a time for the same reason.

## RateLimit

One repository's counter. `Read` and `Put` are the two awaits of `checkRepositoryRateLimit`,
`Start` takes the time, which the code does before the first. The stored record disappears at its
`expirationTtl`, counted from the put; a damaged record is replaced by a full counter; each call
may fail. `SerialLimitHolds` is about requests that do not overlap: in any stretch of a window
less than twice the limit, which is the best a fixed window gives, and at most twice the limit
when a call lasts so long that the record expires between the time it took and its read. That one
request more needs a call that lasts longer than the instants of the run; the proof covers it, and
is what showed that the bound without it is false. Overlapping requests lose counts, as docs and
code accept; `RefusalIsEarned` says that even then nobody is refused for what is a window old.
Bounds: four requests, a limit of two in two ticks, four instants, one damage: two full windows,
and a record that expires in between.

## RetentionPlans

The planner is a pure function of a request and of what the host stores; the module lets a host
store reports, jobs and checkouts, lets days pass, and carries out the plan of one request after
another. `DeleteReports`, `CancelQueued`, `RequestCancellation`, `DeleteCheckouts` are the plan's
lists. Reports have a creation date, days a team asks (none, below one, more than the default)
and an expiry of their own, each possibly missing or unreadable. `removed`, `sweptOn` and `last`
are history. A host that carries out a plan in parts, or late, is not modelled: the plan is all
the code gives. Bounds: two installations, two repositories, a report and a job of one
repository and a checkout of another, three days, retention of two.

## ReleaseGates

`rows` is what the operator recorded, the last row of each requirement counting, as in the gate's
`Map`. `Collect` bundles it with what a rehearsal showed, locally or deployed. The gate, the
bundles and the deployment plans are operators, and the properties ask them in every state, for
every deployment request: `Verdict` has the branches of the gate in their order, `LocalRow` and
`DeployedRow` what each bundle generates, takes over (`Sanitize`) or marks missing. Deployment
requests are sets of what is wrong with them, and each plan reads the part it validates.

`CollectingDoesNotRefreshEvidence`, `UnreadyBundleNeedsForeignProof` and
`ReadyBundleWasRehearsed` say what an open gate still proves; `TimeOnlyCloses` that waiting never
opens one; `PromotionIsEarned` what stands behind the production GitHub App.
`promotion_without_providers` is the refutation: README.md:399 says promotion stays blocked until
provider references are there, and `planHostedGitHubAppPromotion` (staging.ts:340-366) does not
look at them. Bounds: a requirement that bundles prove, one only the local bundle proves, one
from CI; four kinds of rows and of rehearsals; three rows over three days, evidence valid for one.

`RateLimit`, `RetentionPlans` and `ReleaseGates` share no state either and are explored one at a
time by `MCHostedPolicies` (`policies`). Neither run checks liveness: a rate limit, a plan, a gate
and a harness call end when their awaits do, and nothing waits for another. Deadlock is not
checked, since every bounded behaviour ends.

## Proofs

The assumptions are the named ASSUMEs of the specifications: the shape of the constants, and
for the service that deliveries and workers are finite. TLC evaluates them in every run.

*HostedIngress_proofs.* `TypeCorrect` is inductive by itself. `CompletedPublished` is
strengthened by what a request past `CreateCheckRun` knows: at `complete`, its own check run
exists. `NoStrandedRecord` needs that a request is at the scan stages only after it put the
record, so every put of `queued` or `running` leaves its author at work. `CleanupIsComplete`
rests on the sweep invariant: whatever is in `leftover[a]` is still in a prefix to list, ahead
of the cursor, or on the page; a page of an ordered list leaves nothing behind its cursor. The
same invariant without `leftover` bounds what a sweep may visit, which gives `CleanupInScope`,
an action property. All five hold for every number of deliveries, copies, repositories and keys,
every page size, and with or without serial redelivery.

Three more assume `SerialRedelivery`. `ReplayNeedsErasure` carries that two
copies are never before their answer together, and that an admitted, answered delivery has its
receipt unless erased. `RepeatedIsBacked` carries that a request at `remember` has audited its
delivery as completed and that no copy overwrites that audit. `SecondCheckRunNeedsErasure` is
the positive side of `ingress_duplicate_check_run`: scans run for admitted requests only, so without
overlapping copies a second check run of a delivery needs an erased receipt.

*HostedService_proofs.* `ClaimedOnce` is strengthened to: every claimed attempt is at most the
present one, and below it while the record is queued. `RunningHasAWorker` needs no more than
types and the fact that only `Claim` writes `running`; `CompletedIsPublished` needs that a call
at `publish` has saved its report. `ChecksWereAskedFor` keeps an account per job: the check runs,
the scans at work that still may create one, and a queued record together are at most the
attempt, and the attempt at most one and the manual reruns remembered. A scan that is lost or fails
leaves the account with something to spare, so the bound holds whatever is rerun while running.

The last two assume no reruns of running jobs. The refinement rests on
`CallsAreExclusive`: two calls are never at the same key and the record of a call is `running`.
From it `ImplementsTheBoard` maps each step to a step of the board or a stutter, and
`ReportIdsUnique` follows because a saved id is the present attempt and no later one is smaller.

*RateLimit_proofs.* `RefusalsAreEarned` needs to know what a count stands for while requests
overwrite each other's. A count `n` with a reset `R` is *earned* when `n` requests were counted
since `R - Window`, or a damaged record was replaced since. The stored count is earned, one less
than the count a call is about to store is earned (the call counts itself), and a call that was
refused found `MaxEvents` earned in its window. Requests that were counted stay counted, so no
overlap takes an earned count away; it only loses counts. `SerialRequestsAreLimited` relates the
counter to the admitted requests: with a count `n` that expires at `E`, fewer than `n` were admitted
after the first put of its window, and at most `MaxEvents + n - 1` in the window before its last
put; what a call is about to store continues that count, or starts a window after the last one's
end. A request then adds itself to every stretch it lies in, and a stretch that was full before
cannot hold it, since it starts after the window's end or the record's expiry.

*HostedPlans_proofs.* Of the plans: what a planner's `Matches` selects is `Within(RemovedBy)`, so
the record of removals covers exactly what was cancelled or deleted, and the day of a sweep is
never in the future. Of the gates: the inductive invariant says that a bundle was made, on its
day, from recorded rows and a rehearsal; the theorems then unfold `Verdict`, whose `open` implies
a passed and fresh row for each requirement.

*HostedStaging_proofs.* `HarnessRunsTheService` maps each harness step to a step of the service
or to a stutter, so the theorems about `HostedService` hold under the harness. `SnapshotBacked`
uses one of them (a completed record is published) for the value each call is about to write:
reports and check runs are never taken back, so a late write is old but not wrong.
`HarnessKeepsTheBoard` is the same for the refinement: without reruns of running jobs the harness
implements the job board's safety. A stray removal changes no variable of the service and only takes
sandboxes away, so three of the theorems are untouched by it. `VerifiedCleanup` carries that with every tick at rest `lastClean` and a sandbox exclude each
other; `SerialScanHasItsSandbox` that, without overlap, at most one tick is at work, every
sandbox is registered, and each is on the list of the tick that removes them; a stray removal that
takes the sandbox of the scan at work leaves it in `late`.

*CheckoutRunner_proofs.* One invariant per call: the await it is at says whether its directory and
its askpass script are on the disk, a completed one has been through the cleanup, and one that
ended with its clock noted was refused for a clock out of bounds. `TeamRestsOnARun` carries that
a gate that ever said yes has a published, cleaned call as its witness, unless an answer was
invented; an ended call never changes again, so an old answer is as good as a new one.
`GreenWasRead` carries what a published conclusion stands for: a call under way keeps the request
it began with, a complete one the findings of what git gave, and only a complete, ended one is
published, with the conclusion of those findings. That no finding means a diff that was read is
the work of *PullScan_proofs*.

*PullScan_proofs.* Scores and counts are folds over finite sets, and a fold is a recursive
function behind a `CHOOSE`. That the function exists, and that its values never leave a set its
steps do not leave, is proved from the least counterexample (`WFMin` of the library, which takes no
operator), by the size of the subset. From it: scores are numbers, so files are totally ordered,
so a list of the first `n` keeps at most `n` files and at least one of some (`FirstIsShort`,
`FirstKeepsOne`); without findings there was no file with a category, however many files
the lists cut (`NoRiskIsEarned`). `ReportsAreShort` bounds a report by two findings for each reviewed
file, whatever the diff; `GreenIsClear` says that the conclusion of the check run and the verdict in
its text, which the code computes from different numbers, agree on what is green. Both hold for
every length of the two lists but zero (`ListsAssumption`; the code has ten and five).

*SourceTrial_proofs.* `ForeignKept` needs only what each script looks for: the smoke its own
records, the trial scan records that carry its number. `CleanSmokeEvidence` follows the smoke
through its cleanup: without a pull request there is nothing to clear; once the keys are listed with
the ingress done and every record read, what is left is on the list; after the deletion nothing is,
and no step of the trial or of the closed pull request's ingress adds any.

*Only model-checked.* Every invariant and action property of the runs is a theorem. What stays
with TLC is liveness: `ScanSettles`, `CleanupEnds` and the fairness part of `KeepsTheBoard` (its
safety part is `ImplementsTheBoard`); the provers do not handle fairness and `ENABLED`. The
refutations are behaviours TLC finds. Nor is there a proof of what a fold computes exactly, such as
that the counts of a report add up to its findings: only the bounds above are needed.

## Not modelled

Signature arithmetic, JSON parsing, Markdown and HTML rendering and metadata classification
(functions of one request); an ingress without a configured rate limit; Workers KV's eventual
consistency, which the code does not handle and the documents mention only for the rate limit;
lifetimes of the ingress records other than the counter. Of `contracts.ts`, the webhook intake
plan, the deletion plan and the trial gate, which nothing in `src/` calls and which combine what
is modelled elsewhere. Of `production-adapters.ts`, the adapter contracts and their readiness
table. Scanners and rules other than the pull request scan (regular expressions over source
text), report formats, the commands of the CLI other than the one the hosted runner starts, and
the metrics scripts. A call to GitHub or to the namespace that fails is taken not to have been
applied, except where a module says otherwise (check-run creation, `SaveThrows`, `PublishThrows`).
