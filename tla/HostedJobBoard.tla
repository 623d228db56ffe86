--------------------------- MODULE HostedJobBoard ---------------------------
(***************************************************************************)
(* What the hosted service promises about a scan job, whatever its webhook *)
(* handlers and workers do in between: a job is posted once, every request *)
(* for another scan of it raises its attempt, and each attempt that leaves *)
(* the queue is handed to one worker, which alone ends it.                 *)
(***************************************************************************)
EXTENDS Naturals

CONSTANT Keys

VARIABLES
  status,   \* of each job
  attempt   \* of each job, 0 before it is posted

vars == <<status, attempt>>

Init ==
  /\ status = [k \in Keys |-> "absent"]
  /\ attempt = [k \in Keys |-> 0]

Becomes(k, s) == status' = [status EXCEPT ![k] = s]

Post(k) ==
  /\ status[k] = "absent"
  /\ Becomes(k, "queued")
  /\ attempt' = [attempt EXCEPT ![k] = 1]

Rerun(k) ==
  /\ status[k] \in {"queued", "completed", "failed"}
  /\ Becomes(k, "queued")
  /\ attempt' = [attempt EXCEPT ![k] = @ + 1]

Claim(k) ==
  /\ status[k] = "queued"
  /\ Becomes(k, "running")
  /\ UNCHANGED attempt

\* The repository left the installation while the job was queued.
Refuse(k) ==
  /\ status[k] = "queued"
  /\ Becomes(k, "failed")
  /\ UNCHANGED attempt

Finish(k) ==
  /\ status[k] = "running"
  /\ \E s \in {"completed", "failed"} : Becomes(k, s)
  /\ UNCHANGED attempt

Next == \E k \in Keys : Post(k) \/ Rerun(k) \/ Claim(k) \/ Refuse(k) \/ Finish(k)

Safety == Init /\ [][Next]_vars

\* A queued job is taken up and a running job ends.
Spec == Safety /\ \A k \in Keys : /\ WF_vars(Claim(k) \/ Refuse(k))
                                  /\ WF_vars(Finish(k))
=============================================================================
