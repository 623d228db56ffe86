--------------------------- MODULE MCHostedWorkers ---------------------------
(***************************************************************************)
(* The staging harness, the checkout runner and the operator scripts for   *)
(* TLC.  They share no state: each is explored while the others stay at    *)
(* their start, so the reachable states are those of each alone.  The two  *)
(* scripts have records of their own in the namespace they share, and are  *)
(* taken one at a time for the same reason.                                *)
(***************************************************************************)
EXTENDS HostedStaging, CheckoutRunner, SourceTrial, TLC

CONSTANTS w1, w2, s1, s2

TheWorkers == {w1, w2}
TheScanCalls == {s1, s2}
WorkersSymmetry == Permutations(TheWorkers) \cup Permutations(TheScanCalls)

TheKeys == {"k1", "k2"}
TheRepos == {"r1"}
TheKeyRepo == [k \in TheKeys |-> "r1"]
\* A pull request, and a manual rerun of one that was never queued.
Staged(key, manualRerun) == [kind |-> "pull_request", key |-> key, manualRerun |-> manualRerun]
StagedEvent == <<Staged("k1", FALSE), Staged("k2", TRUE), Staged("k1", TRUE)>>

File(name, path, text, lines) ==
  [name |-> name, path |-> path, text |-> text, lines |-> lines, plain |-> TRUE]
Route == File("route", {"app", "api", "apiRoute"}, {"auth", "fakeSuccess", "api"}, 41)
Migration == File("migration", {"database", "rls"}, {"rls"}, 20)
CutTest == File("test", {"test"}, {"removed", "testCall"}, 8)
Workflow == File("workflow", {"automation"}, {"permissions"}, 3)
Readme == File("readme", {}, {}, 12)
Spec_ == File("spec", {"spec"}, {}, 30)
Session == [File("session", {"auth"}, {"auth"}, 500) EXCEPT !.plain = FALSE]

Job(changed, behind, config) ==
  [pull |-> [changed |-> changed, behind |-> behind, config |-> config, safeBase |-> TRUE], fault |-> "none"]
Faulty(fault) == [Job(<<Readme>>, <<>>, NoConfig) EXCEPT !.fault = fault]
AllOff == [NoConfig EXCEPT !.rules = [r \in Rules |-> "off"]]
TheRequests ==
  {Job(<<CutTest, Migration, Route, Workflow>>, <<>>, NoConfig),  \* more than the findings name
   Job(<<Readme>>, <<Route, Spec_>>, NoConfig),                    \* the base went on
   Job(<<Readme, Session>>, <<>>, NoConfig),                      \* a quoted name
   Job(<<>>, <<>>, NoConfig),
   Job(<<Route>>, <<>>, AllOff),
   Job(<<Route>>, <<>>, [NoConfig EXCEPT !.suppressed = {<<"sensitive-surface", "route">>}]),
   Job(<<Route>>, <<>>, [NoConfig EXCEPT !.failOn = "medium"]),
   Job(<<Readme>>, <<>>, [NoConfig EXCEPT !.valid = FALSE])}
  \cup {Faulty(fault) : fault \in RequestFaults}
TheClocks == {-700, 0, 30, 90}
TheLifetimes == {Unset, 540, 0}
TheShortfalls == {{}, {"rollback", "retention_docs"}}

FixtureDiff == <<Route>>
TheScannerRuns == {[findings |-> {Finding("silent-success", "medium", "route")}, throws |-> FALSE],
                   [findings |-> {Finding("secret", "critical", "route")}, throws |-> TRUE]}

\* Bounds: at most two calls of the harness at once, and two events when calls overlap.
Bounded ==
  /\ Cardinality({d \in Deliveries : replay'[d].at # "idle"})
     + Cardinality({w \in Workers : tick'[w].at # "idle"}) <= 2
  /\ overlapped' => Cardinality(seen') <= 2

\* Bound: an invented answer is handed in before any call, and none is made then.
InventedEarly == invented' => UNCHANGED checkoutCalls /\ \A c \in ScanCalls : At(c, "idle")

WorkersInit == StagingInit /\ CheckoutInit /\ TrialInit
WorkersNext ==
  \/ CheckoutInit /\ TrialInit /\ StagingNext /\ Bounded /\ UNCHANGED <<checkoutVars, trialVars>>
  \/ StagingInit /\ TrialInit /\ CheckoutNext /\ InventedEarly /\ UNCHANGED <<stagingVars, trialVars>>
  \/ StagingInit /\ CheckoutInit /\ UNCHANGED <<stagingVars, checkoutVars>>
     /\ \E s \in Scripts : (\A t \in Scripts \ {s} : at[t] = "verify") /\ ScriptStep(s)
WorkersSpec == WorkersInit /\ [][WorkersNext]_<<stagingVars, checkoutVars, trialVars>>
=============================================================================
