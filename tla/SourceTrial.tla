----------------------------- MODULE SourceTrial -----------------------------
(***************************************************************************)
(* The two operator scripts that try the hosted service on a temporary     *)
(* pull request of its own repository and clean up behind it:              *)
(* scripts/hosted-pr-smoke.mjs and scripts/hosted-source-checkout-         *)
(* staging.mjs (the trial, which also posts the source to the staging scan *)
(* worker, src/hosted/scan-worker/).  Meanwhile the Cloudflare ingress     *)
(* writes records of the pull request to the KV namespace both clear.      *)
(***************************************************************************)
EXTENDS PullScan

CONSTANTS
  TrialDiff,   \* the diff of the trial's fixture
  ScannerRuns, \* what the scanners of the scan suite may do: findings, or an error
  PageOfKeys   \* KV keys the Cloudflare API lists at once

ASSUME TrialAssumption ==
  /\ TrialDiff \in Seq(ChangedFiles)
  /\ \A run \in ScannerRuns : run.throws \in BOOLEAN
  /\ PageOfKeys \in Nat \ {0}

Scripts == {"smoke", "trial"}
\* KV keys of a pull request: receipts of its deliveries, its scan record.  Another
\* repository has a pull request with the same number.
Owners == {"own", "other"}
RecordKinds == {"opened", "closed", "scan"}
Records == [pull : Scripts, owner : Owners, kind : RecordKinds]
Record(s, owner, kind) == [pull |-> s, owner |-> owner, kind |-> kind]
RecordsOf(s) == {r \in Records : r.pull = s /\ r.owner = "own"}
Foreign(s) == {Record(s, "other", k) : k \in {"opened", "scan"}}
Receipts == {r \in Records : r.kind # "scan"}

VARIABLES
  at,        \* of each script: what it does next
  pull,      \* its pull request: none, open or closed
  branch,    \* whether its branch is on GitHub
  ingress,   \* what the ingress still has to do for the pull request
  checkRun,  \* the ingress completed a Check Run
  kv,        \* the records in the KV namespace
  found,     \* the keys the script is to delete
  failed,    \* the script's work threw: no result to write
  scan,      \* the trial's result from the scan worker
  evidence,  \* the evidence file of the script, or None
  unsettled  \* history: the ingress or a failed read may have left records behind

trialVars == <<at, pull, branch, ingress, checkRun, kv, found, failed, scan, evidence, unsettled>>
None == [remaining |-> 0, deleted |-> 0, written |-> FALSE]

TrialInit ==
  /\ at = [s \in Scripts |-> "verify"]
  /\ pull = [s \in Scripts |-> "none"] /\ branch = [s \in Scripts |-> FALSE]
  /\ ingress = [s \in Scripts |-> "idle"] /\ checkRun = [s \in Scripts |-> FALSE]
  /\ kv = Foreign("smoke") \cup Foreign("trial")
  /\ found = [s \in Scripts |-> {}] /\ failed = [s \in Scripts |-> FALSE]
  /\ scan = "none"
  /\ evidence = [s \in Scripts |-> None] /\ unsettled = [s \in Scripts |-> FALSE]

Goes(s, step) == at' = [at EXCEPT ![s] = step]
Service == <<ingress, checkRun>>
Result == <<failed, scan, evidence, unsettled>>

-----------------------------------------------------------------------------
(* The ingress, src/hosted/cloudflare-worker (HostedIngress): the receipt,  *)
(* the scan record, the Check Run, the completed record.                   *)

Ingress(s) ==
  /\ \/ /\ ingress[s] = "received"
        /\ kv' = kv \cup {Record(s, "own", "opened")}
        /\ ingress' = [ingress EXCEPT ![s] = "receipt"] /\ UNCHANGED checkRun
     \/ /\ ingress[s] = "receipt"
        /\ kv' = kv \cup {Record(s, "own", "scan")}
        /\ ingress' = [ingress EXCEPT ![s] = "running"] /\ UNCHANGED checkRun
     \/ /\ ingress[s] = "running"
        /\ checkRun' = [checkRun EXCEPT ![s] = TRUE]
        /\ ingress' = [ingress EXCEPT ![s] = "published"] /\ UNCHANGED kv
     \/ /\ ingress[s] = "published"
        /\ kv' = kv \cup {Record(s, "own", "scan")}
        /\ ingress' = [ingress EXCEPT ![s] = "idle"] /\ UNCHANGED checkRun
  /\ UNCHANGED <<at, pull, branch, found, Result>>

\* A closed pull request is an event it takes a receipt of and no more.
ReceiveClose(s) ==
  /\ pull[s] = "closed" /\ Record(s, "own", "closed") \notin kv
  /\ kv' = kv \cup {Record(s, "own", "closed")}
  /\ unsettled' = [unsettled EXCEPT ![s] = @ \/ at[s] \in {"delete", "list", "finish", "ended"}]
  /\ UNCHANGED <<at, pull, branch, Service, found, failed, scan, evidence>>

-----------------------------------------------------------------------------
(* The scripts.                                                            *)

Abandon(s) ==
  /\ Goes(s, "close")
  /\ failed' = [failed EXCEPT ![s] = TRUE]
  /\ UNCHANGED <<pull, branch, Service, kv, found, scan, evidence, unsettled>>
\* The service is not healthy, the working tree is dirty, the source cannot be fetched,
\* another call fails, or the wait is over.
GivesUp(s) == at[s] \in {"verify", "branch", "open", "scan", "wait"} /\ Abandon(s)

Verify(s) ==
  /\ at[s] = "verify" /\ Goes(s, "branch")
  /\ UNCHANGED <<pull, branch, Service, kv, found, Result>>
CreateBranch(s) ==
  /\ at[s] = "branch" /\ Goes(s, "open")
  /\ branch' = [branch EXCEPT ![s] = TRUE]
  /\ UNCHANGED <<pull, Service, kv, found, Result>>
OpenPull(s) ==
  /\ at[s] = "open" /\ Goes(s, IF s = "trial" THEN "scan" ELSE "wait")
  /\ pull' = [pull EXCEPT ![s] = "open"]
  /\ ingress' = [ingress EXCEPT ![s] = "received"]
  /\ UNCHANGED <<branch, checkRun, kv, found, Result>>

\* runSourceScan: a scanner that throws is noted, and the scan is completed.
Collected(runs) == PrRisk([diff |-> TrialDiff, diagnostics |-> {}])
                   \cup UNION {run.findings : run \in {x \in runs : ~ x.throws}}
TrialConclusion(report) ==
  IF report.counts["critical"] + report.counts["high"] > 0 THEN "action_required" ELSE "success"
Scan ==
  /\ at["trial"] = "scan" /\ Goes("trial", "publish")
  /\ \E runs \in SUBSET ScannerRuns : scan' = TrialConclusion(Report(Collected(runs)))
  /\ UNCHANGED <<pull, branch, Service, kv, found, failed, evidence, unsettled>>
\* handleScan: no secret, another secret, a job validateScanJobRequest refuses, an error.
RefuseScan == at["trial"] = "scan" /\ Abandon("trial")
\* publishStagingCheckRun: best effort, its failure is noted.
PublishTrial ==
  /\ at["trial"] = "publish" /\ Goes("trial", "wait")
  /\ UNCHANGED <<pull, branch, Service, kv, found, Result>>

\* waitForCheckRun: the smoke throws at the deadline, the trial goes on.
Wait(s) ==
  /\ at[s] = "wait" /\ (checkRun[s] \/ s = "trial") /\ Goes(s, "close")
  /\ UNCHANGED <<pull, branch, Service, kv, found, Result>>

\* The cleanup: close, delete the branch, each ignoring a failure.
ClosePull(s) ==
  /\ at[s] = "close" /\ Goes(s, "unbranch")
  /\ IF pull[s] = "open"
     THEN \E closed \in BOOLEAN :
            /\ pull' = [pull EXCEPT ![s] = IF closed THEN "closed" ELSE "open"]
            \* gh pr close --delete-branch
            /\ branch' = [branch EXCEPT ![s] = @ /\ ~ (closed /\ s = "smoke")]
     ELSE UNCHANGED <<pull, branch>>
  /\ UNCHANGED <<Service, kv, found, Result>>
DeleteBranch(s) ==
  /\ at[s] = "unbranch"
  /\ \E gone \in BOOLEAN :  \* GitHub closes a pull request that lost its branch
       /\ branch' = [branch EXCEPT ![s] = @ /\ ~ gone]
       /\ pull' = [pull EXCEPT ![s] = IF gone /\ @ = "open" THEN "closed" ELSE @]
  /\ Goes(s, IF pull[s] = "none" THEN "finish" ELSE "find")  \* no number: nothing is cleared
  /\ UNCHANGED <<Service, kv, found, Result>>

ScanKeysOnly(s, present) == (present \cap RecordsOf(s)) \ Receipts  \* mutant: no receipts
ByNumber(s, present) == {r \in present : r.pull = s /\ r.kind = "scan"}  \* mutant: any repository's
\* The smoke reads each record for its repository and number; a receipt also counts by
\* the scan it names.
SmokeKeys(s, present) == present \cap RecordsOf(s)
\* The trial looks at the fourth part of the key, which a receipt does not have.
TrialKeys(s, present) == {r \in present : r.pull = s /\ r.kind = "scan"}
KeysFor(s, present) == IF s = "smoke" THEN SmokeKeys(s, present) ELSE TrialKeys(s, present)

\* What a script gets to see: wrangler lists every key, but the smoke may fail to read
\* records; cfKvListKeys has no cursor, and keys come in order, receipts before scans.
IsFirstPage(page) ==
  /\ Cardinality(page) = Lesser(PageOfKeys, Cardinality(kv))
  /\ page \subseteq Receipts \/ kv \cap Receipts \subseteq page
Sees(s, listed) == IF s = "smoke" THEN kv \ listed \subseteq RecordsOf(s) ELSE IsFirstPage(listed)

FindKeys(s) ==
  /\ at[s] = "find"
  /\ \E listed \in SUBSET kv :
       /\ Sees(s, listed)
       /\ found' = [found EXCEPT ![s] = KeysFor(s, listed)]
       /\ unsettled' = [unsettled EXCEPT ![s] = listed # kv \/ ingress[s] # "idle"
                                                \/ (pull[s] = "closed" /\ Record(s, "own", "closed") \notin kv)]
  /\ IF found'[s] = {} /\ s = "smoke" THEN Goes(s, "finish") ELSE Goes(s, "delete")
  /\ UNCHANGED <<pull, branch, Service, kv, failed, scan, evidence>>
\* A list the trial cannot get is an empty one; the smoke throws.
ListFails(s) ==
  /\ at[s] \in {"find", "list"}
  /\ Goes(s, CASE s = "smoke" -> "ended" [] s = "trial" /\ at[s] = "find" -> "list" [] OTHER -> "finish")
  /\ unsettled' = [unsettled EXCEPT ![s] = TRUE]
  /\ UNCHANGED <<pull, branch, Service, kv, found, failed, scan, evidence>>
DeleteKeys(s) ==
  /\ at[s] = "delete" /\ Goes(s, "list")
  /\ kv' = kv \ found[s]
  /\ UNCHANGED <<pull, branch, Service, found, Result>>
\* The smoke's wrangler throws; the trial goes on.
DeleteFails(s) ==
  /\ at[s] = "delete" /\ Goes(s, IF s = "trial" THEN "list" ELSE "ended")
  /\ UNCHANGED <<pull, branch, Service, kv, found, Result>>

Cleared(s, left) == [remaining |-> left, deleted |-> Cardinality(found[s]), written |-> TRUE]
CountRemaining(s) ==
  /\ at[s] = "list" /\ Goes(s, "ended")
  /\ \E listed \in SUBSET kv :
       /\ Sees(s, listed)
       /\ evidence' = [evidence EXCEPT ![s] =
            IF failed[s] THEN None ELSE Cleared(s, Cardinality(KeysFor(s, listed)))]
       /\ unsettled' = [unsettled EXCEPT ![s] = @ \/ listed # kv]
  /\ UNCHANGED <<pull, branch, Service, kv, found, failed, scan>>
\* Nothing to clear: nothing remains.
Finish(s) ==
  /\ at[s] = "finish" /\ Goes(s, "ended")
  /\ evidence' = [evidence EXCEPT ![s] = IF failed[s] THEN None ELSE Cleared(s, 0)]
  /\ UNCHANGED <<pull, branch, Service, kv, found, failed, scan, unsettled>>

ScriptStep(s) ==
  \/ Ingress(s) \/ ReceiveClose(s)
  \/ GivesUp(s) \/ Verify(s) \/ CreateBranch(s) \/ OpenPull(s) \/ Wait(s)
  \/ s = "trial" /\ (Scan \/ RefuseScan \/ PublishTrial)
  \/ ClosePull(s) \/ DeleteBranch(s) \/ FindKeys(s) \/ ListFails(s)
  \/ DeleteKeys(s) \/ DeleteFails(s) \/ CountRemaining(s) \/ Finish(s)

TrialNext == \E s \in Scripts : ScriptStep(s)

TrialSpec == TrialInit /\ [][TrialNext]_trialVars

-----------------------------------------------------------------------------
(* Properties.                                                             *)

\* The smoke deletes records of its own pull request only, and the trial no receipt: of
\* another repository's records at most the scan with the trial's number is lost.
ForeignRecordsAreKept == Foreign("smoke") \cup {Record("trial", "other", "opened")} \subseteq kv

\* Evidence of a smoke that says nothing remains is true once the ingress was done when
\* the keys were listed and every record could be read.
CleanSmokeEvidenceIsTrue ==
  evidence["smoke"].written /\ evidence["smoke"].remaining = 0 /\ ~ unsettled["smoke"] =>
    kv \cap RecordsOf("smoke") = {}
=============================================================================
