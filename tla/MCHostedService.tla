--------------------------- MODULE MCHostedService ---------------------------
(* Small hosted services for TLC: who posts what.                          *)
EXTENDS HostedService, TLC

CONSTANTS w1, w2

TheWorkers == {w1, w2}
WorkerSymmetry == Permutations(TheWorkers)

TheKeys == {"k1", "k2"}
TheRepos == {"r1"}
TheKeyRepo == [k \in TheKeys |-> "r1"]

Says(kind, key, manualRerun) == [kind |-> kind, key |-> key, manualRerun |-> manualRerun]

\* A pull request, the same again, two manual reruns of it, another pull request,
\* and requests that are rejected.
BusyEvent ==
  <<Says("pull_request", "k1", FALSE), Says("pull_request", "k1", FALSE),
    Says("pull_request", "k1", TRUE), Says("pull_request", "k1", TRUE),
    Says("pull_request", "k2", FALSE), Says("unusable", "k1", FALSE),
    Says("unsigned", "k1", TRUE)>>

\* Two pull requests, a duplicate and a rerun of the first, a rerun of the second.
BoardEvent ==
  <<Says("pull_request", "k1", FALSE), Says("pull_request", "k1", FALSE),
    Says("pull_request", "k1", TRUE), Says("pull_request", "k2", FALSE),
    Says("pull_request", "k2", TRUE)>>

\* One pull request and a manual rerun of it.
RerunEvent == <<Says("pull_request", "k1", FALSE), Says("pull_request", "k1", TRUE)>>
=============================================================================
