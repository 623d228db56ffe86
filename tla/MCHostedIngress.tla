--------------------------- MODULE MCHostedIngress ---------------------------
(* Small deployments of the hosted ingress for TLC: who sends what.        *)
EXTENDS HostedIngress

\* Two installations; "a" and "b" belong to the first, "x" to the second.
TheRepos == {"a", "b", "x"}
TheInstallations == {"one", "two"}
TheRepoInstallation == [r \in TheRepos |-> IF r = "x" THEN "two" ELSE "one"]

\* Scan keys are numbered in list order, above every delivery id.
TheKeys == {11, 12, 13}
TheKeyRepo == [k \in TheKeys |-> CASE k = 11 -> "a" [] k = 12 -> "b" [] k = 13 -> "x"]

Says(kind, key, repos) ==
  [kind |-> kind, key |-> key, repos |-> repos,
   installation |-> IF kind \in PullKinds THEN TheRepoInstallation[TheKeyRepo[key]] ELSE "one"]

\* A pull request delivered twice, a second event for the same head, and events
\* that are not scanned.
PullEvent ==
  <<Says("pull_request", 11, {}), Says("pull_request", 11, {}),
    Says("inactive_pull_request", 11, {}), Says("invalid", 11, {}),
    Says("installation_noop", 11, {})>>
PullCopies == <<2, 1, 1, 1, 1>>

\* An uninstall of the first installation beside a pull request of the second, and
\* a removal of one repository.
UninstallEvent ==
  <<Says("pull_request", 11, {}), Says("pull_request", 13, {}),
    Says("repos_removed", 11, {"a"}), Says("uninstall", 11, {})>>
OneCopyOfFour == <<1, 1, 1, 1>>

\* One pull request head, two events, and the removal of its repository, whose
\* receipt is the first of the three.
SettleEvent ==
  <<Says("repos_removed", 11, {"a"}), Says("pull_request", 11, {}), Says("pull_request", 11, {})>>
OneCopyOfThree == <<1, 1, 1>>

\* The removal of a repository and another, and a pull request delivered three times.
RemovalEvent == <<Says("repos_removed", 11, {"a", "b"}), Says("pull_request", 11, {})>>
RemovalCopies == <<1, 3>>

\* One pull request, sent twice.
TwiceEvent == <<Says("pull_request", 11, {})>>
TwoCopies == <<2>>

\* "a" is removed, then "a" and "b" together, while "b" holds a record.
OverlapEvent ==
  <<Says("pull_request", 12, {}), Says("repos_removed", 11, {"a"}),
    Says("repos_removed", 11, {"a", "b"})>>
=============================================================================
