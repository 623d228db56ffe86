------------------------ MODULE CheckoutRunner_proofs ------------------------
(***************************************************************************)
(* What holds of the checkout runner and its gates for every number of     *)
(* calls, and every set of requests, clocks and lifetimes.                 *)
(***************************************************************************)
EXTENDS CheckoutRunner, PullScan_proofs, TLAPS

Stops == {"idle", "ended"}

\* What all records of a call have.
Shaped(r) ==
  /\ r = [f \in DOMAIN r |-> r[f]]
  /\ {"at", "done", "outcome"} \subseteq DOMAIN r
  /\ r.at \in Steps \cup Stops
CallsAreShaped ==
  /\ DOMAIN call = ScanCalls
  /\ call = [c \in ScanCalls |-> call[c]]
  /\ \A c \in ScanCalls : Shaped(call[c])

\* The stages in their order.
LEMMA FollowingIs ==
  /\ Following["token"] = "mkdtemp" /\ Following["mkdtemp"] = "askpass"
  /\ Following["askpass"] = "git_init" /\ Following["git_init"] = "git_remote_add"
  /\ Following["git_remote_add"] = "git_fetch_head"
  /\ Following["git_fetch_head"] = "git_fetch_base"
  /\ Following["git_fetch_base"] = "git_checkout"
  /\ Following["git_checkout"] = "remove_askpass"
  /\ Following["remove_askpass"] = "cli_scan" /\ Following["cli_scan"] = "cleanup"
  /\ Following["cleanup"] = "ended"
BY DEF Following, Steps, Commands, GitStages

LEMMA FollowingType == \A s \in Steps : Following[s] \in Steps \cup Stops
BY FollowingIs DEF Steps, Commands, GitStages, Stops

\* A stage that succeeds.
LEMMA DoneEffect ==
  ASSUME CallsAreShaped, NEW c \in ScanCalls, call[c].at \in Steps, Done(c)
  PROVE  /\ CallsAreShaped'
         /\ \A d \in ScanCalls : d # c => call'[d] = call[d]
         /\ call'[c].at = Following[call[c].at]
         /\ call'[c].done = call[c].done \cup {call[c].at}
         /\ call'[c].outcome = call[c].outcome
         /\ DOMAIN call'[c] = DOMAIN call[c]
<1>1. call'[c] = [[call[c] EXCEPT !.at = Following[call[c].at]]
                      EXCEPT !.done = call[c].done \cup {call[c].at}]
  BY DEF Done, CallsAreShaped
<1>2. Shaped(call[c])
  BY DEF CallsAreShaped
<1>3. \A d \in ScanCalls : d # c => call'[d] = call[d]
  BY DEF Done, CallsAreShaped
<1>4. /\ DOMAIN call'[c] = DOMAIN call[c]
      /\ call'[c].at = Following[call[c].at]
      /\ call'[c].done = call[c].done \cup {call[c].at}
      /\ call'[c].outcome = call[c].outcome
  BY <1>1, <1>2 DEF Shaped
<1>5. Shaped(call'[c])
  <2>1. call'[c] = [f \in DOMAIN call'[c] |-> call'[c][f]]
    BY <1>1, <1>2 DEF Shaped
  <2> QED BY <2>1, <1>2, <1>4, FollowingType DEF Shaped
<1>6. DOMAIN call' = ScanCalls /\ call' = [d \in ScanCalls |-> call'[d]]
  BY DEF Done, CallsAreShaped
<1>7. CallsAreShaped'
  BY <1>2, <1>3, <1>5, <1>6 DEF CallsAreShaped, Shaped
<1> QED BY <1>3, <1>4, <1>7

\* A stage that fails, or that ends the call: the stop and the outcome change.
LEMMA StopEffect ==
  ASSUME CallsAreShaped, NEW c \in ScanCalls, NEW stop \in {"cleanup", "ended"}, NEW reason,
         call' = [call EXCEPT ![c].at = stop, ![c].outcome = reason]
  PROVE  /\ CallsAreShaped'
         /\ \A d \in ScanCalls : d # c => call'[d] = call[d]
         /\ call'[c].at = stop /\ call'[c].outcome = reason
         /\ DOMAIN call'[c] = DOMAIN call[c]
<1>1. call'[c] = [[call[c] EXCEPT !.at = stop] EXCEPT !.outcome = reason]
  BY DEF CallsAreShaped
<1>2. Shaped(call[c])
  BY DEF CallsAreShaped
<1>3. \A d \in ScanCalls : d # c => call'[d] = call[d]
  BY DEF CallsAreShaped
<1>4. DOMAIN call'[c] = DOMAIN call[c] /\ call'[c].at = stop /\ call'[c].outcome = reason
  BY <1>1, <1>2 DEF Shaped
<1>5. Shaped(call'[c])
  <2>1. call'[c] = [f \in DOMAIN call'[c] |-> call'[c][f]]
    BY <1>1, <1>2 DEF Shaped
  <2>2. stop \in Steps \cup Stops
    BY DEF Steps, Stops
  <2> QED BY <2>1, <2>2, <1>2, <1>4 DEF Shaped
<1>6. DOMAIN call' = ScanCalls /\ call' = [d \in ScanCalls |-> call'[d]]
  BY DEF CallsAreShaped
<1>7. CallsAreShaped'
  BY <1>2, <1>3, <1>5, <1>6 DEF CallsAreShaped, Shaped
<1> QED BY <1>3, <1>4, <1>7

\* A call that gets a record of its own making.
LEMMA RecordEffect ==
  ASSUME CallsAreShaped, NEW c \in ScanCalls, NEW r, Shaped(r), call' = [call EXCEPT ![c] = r]
  PROVE  /\ CallsAreShaped'
         /\ \A d \in ScanCalls : d # c => call'[d] = call[d]
         /\ call'[c] = r
<1>1. call'[c] = r /\ \A d \in ScanCalls : d # c => call'[d] = call[d]
  BY DEF CallsAreShaped
<1>2. DOMAIN call' = ScanCalls /\ call' = [d \in ScanCalls |-> call'[d]]
  BY DEF CallsAreShaped
<1>3. \A d \in ScanCalls : Shaped(call'[d])
  BY <1>1 DEF CallsAreShaped
<1>4. CallsAreShaped'
  BY <1>2, <1>3 DEF CallsAreShaped, Shaped
<1> QED BY <1>1, <1>4

-----------------------------------------------------------------------------
(* The checkout, the askpass script and the clock of each call.            *)

Kept(c) ==
  /\ call[c].at \in {"idle", "token", "mkdtemp"} => c \notin directories /\ c \notin askpass
  /\ call[c].at = "askpass" => c \in directories /\ c \notin askpass
  /\ call[c].at \in GitStages \cup {"remove_askpass"} => c \in directories /\ c \in askpass
  /\ call[c].at = "cli_scan" => c \in directories /\ c \notin askpass
  /\ call[c].at = "ended" /\ call[c].outcome \notin {"cleanup_failed", "lost"} =>
       c \notin directories /\ c \notin askpass

\* A complete result that ends its call went through the cleanup.
CleanedUp(c) ==
  call[c].at = "ended" /\ call[c].outcome = "completed" => "cleanup" \in call[c].done

\* A refused token, by the clock of the service and the lifetime asked for.
Late(r) ==
  r.ahead > Lesser(ClockSkew, MaxTtl - Clamped(r.ttl, MaxTtl, MaxTtl))
  \/ r.ahead + Clamped(r.ttl, MaxTtl, MaxTtl) <= 0
ClockNoted(c) ==
  "ahead" \in DOMAIN call[c] =>
    call[c].at = "ended" /\ (call[c].request.fault # "token_request" => Late(call[c]))

RunOk(c) == Kept(c) /\ CleanedUp(c) /\ ClockNoted(c)
RunInv == CallsAreShaped /\ \A c \in ScanCalls : RunOk(c)

LEMMA RunInit == CheckoutInit => RunInv
<1> SUFFICES ASSUME CheckoutInit PROVE RunInv
  OBVIOUS
<1>1. \A c \in ScanCalls : call[c] = NotCalled
  BY DEF CheckoutInit
<1>2. CallsAreShaped
  BY <1>1 DEF CheckoutInit, CallsAreShaped, Shaped, NotCalled, Stops
<1>3. \A c \in ScanCalls : RunOk(c)
  BY <1>1 DEF CheckoutInit, NotCalled, RunOk, Kept, CleanedUp, ClockNoted, GitStages
<1> QED BY <1>2, <1>3 DEF RunInv

\* A step of one call disturbs no other.
LEMMA OthersKeep ==
  ASSUME RunInv, NEW c \in ScanCalls, CallsAreShaped',
         \A d \in ScanCalls : d # c => call'[d] = call[d],
         directories' \in {directories, directories \cup {c}, directories \ {c}},
         askpass' \in {askpass, askpass \cup {c}, askpass \ {c}},
         RunOk(c)'
  PROVE  RunInv'
<1>1. ASSUME NEW d \in ScanCalls, d # c
      PROVE  RunOk(d)'
  <2>1. /\ RunOk(d) /\ call'[d] = call[d]
        /\ d \in directories' <=> d \in directories
        /\ d \in askpass' <=> d \in askpass
    BY <1>1 DEF RunInv
  <2> QED BY <2>1 DEF RunOk, Kept, CleanedUp, ClockNoted, Late
<1> QED BY <1>1 DEF RunInv

\* A stage that succeeds.
LEMMA DoneStep ==
  ASSUME RunInv, NEW c \in ScanCalls, Done(c),
         \/ TokenArrives(c) \/ MakeDirectory(c) \/ WriteAskpass(c) \/ RemoveAskpass(c)
         \/ RunGit(c) \/ Cleanup(c)
  PROVE  RunInv'
<1>1. call[c].at \in Steps \ {"cli_scan"} /\ RunOk(c) /\ CallsAreShaped
  BY DEF RunInv, TokenArrives, MakeDirectory, WriteAskpass, RemoveAskpass, RunGit, Cleanup, At,
         Steps, Commands, GitStages
<1>2. /\ CallsAreShaped'
      /\ \A d \in ScanCalls : d # c => call'[d] = call[d]
      /\ call'[c].at = Following[call[c].at]
      /\ call'[c].done = call[c].done \cup {call[c].at}
      /\ call'[c].outcome = call[c].outcome
      /\ DOMAIN call'[c] = DOMAIN call[c]
  BY <1>1, DoneEffect
<1>3. /\ directories' \in {directories, directories \cup {c}, directories \ {c}}
      /\ askpass' \in {askpass, askpass \cup {c}, askpass \ {c}}
  BY DEF TokenArrives, MakeDirectory, WriteAskpass, RemoveAskpass, RunGit, Cleanup, Only
<1>4. Kept(c)'
  <2> USE DEF Kept, At, Only
  <2>1. CASE TokenArrives(c)
    BY <2>1, <1>1, <1>2, FollowingIs DEF TokenArrives, RunOk, GitStages
  <2>2. CASE MakeDirectory(c)
    BY <2>2, <1>1, <1>2, FollowingIs DEF MakeDirectory, RunOk, GitStages
  <2>3. CASE WriteAskpass(c)
    BY <2>3, <1>1, <1>2, FollowingIs DEF WriteAskpass, RunOk, GitStages
  <2>4. CASE RemoveAskpass(c)
    BY <2>4, <1>1, <1>2, FollowingIs DEF RemoveAskpass, RunOk, GitStages
  <2>5. CASE RunGit(c)
    BY <2>5, <1>1, <1>2, FollowingIs DEF RunGit, RunOk, GitStages
  <2>6. CASE Cleanup(c)
    BY <2>6, <1>1, <1>2, FollowingIs DEF Cleanup, RunOk, GitStages
  <2> QED BY <2>1, <2>2, <2>3, <2>4, <2>5, <2>6
<1>5. CleanedUp(c)'
  BY <1>1, <1>2, FollowingIs DEF CleanedUp, Steps, Commands, GitStages
<1>6. ClockNoted(c)'
  BY <1>1, <1>2 DEF RunOk, ClockNoted, Steps, Commands, GitStages
<1> QED BY <1>2, <1>3, <1>4, <1>5, <1>6, OthersKeep DEF RunOk

\* A failure inside the try goes to the cleanup, one outside ends the call.
LEMMA FailureStep ==
  ASSUME RunInv, NEW c \in ScanCalls, NEW reason, Only(c),
         \/ call[c].at \in Steps /\ Throws(c, reason)
         \/ call[c].at \in {"token", "mkdtemp"} /\ reason # "completed" /\ Rejects(c, reason)
         \/ call[c].at = "cleanup" /\ reason = "cleanup_failed" /\ Rejects(c, reason)
  PROVE  RunInv'
<1>1. call[c].at \in Steps /\ RunOk(c) /\ CallsAreShaped
  BY DEF RunInv, Steps
<1>2. PICK stop \in {"cleanup", "ended"} :
        /\ call' = [call EXCEPT ![c].at = stop, ![c].outcome = reason]
        /\ stop = "ended" => reason # "completed"
        /\ stop = "ended" => call[c].at \in {"token", "mkdtemp"} \/ reason = "cleanup_failed"
  BY DEF Throws, Rejects
<1>3. /\ CallsAreShaped'
      /\ \A d \in ScanCalls : d # c => call'[d] = call[d]
      /\ call'[c].at = stop /\ call'[c].outcome = reason
      /\ DOMAIN call'[c] = DOMAIN call[c]
  BY <1>1, <1>2, StopEffect
<1>4. directories' = directories /\ askpass' = askpass
  BY DEF Only
<1>5. Kept(c)'
  BY <1>1, <1>2, <1>3, <1>4 DEF RunOk, Kept, GitStages
<1>6. CleanedUp(c)' /\ ClockNoted(c)'
  BY <1>1, <1>2, <1>3 DEF RunOk, CleanedUp, ClockNoted, Steps, Commands, GitStages
<1> QED BY <1>3, <1>4, <1>5, <1>6, OthersKeep DEF RunOk

LEMMA BeginStep ==
  ASSUME RunInv, NEW c \in ScanCalls, NEW request, Begin(c, request)
  PROVE  RunInv'
<1> DEFINE r == [at |-> IF RefusalOf(request) = "none" THEN "token" ELSE "ended", done |-> {},
                 outcome |-> RefusalOf(request), request |-> request]
<1>1. RunOk(c) /\ CallsAreShaped /\ call[c].at = "idle" /\ call' = [call EXCEPT ![c] = r]
  BY DEF RunInv, Begin, At
<1>2. Shaped(r)
  BY DEF Shaped, Steps, Stops
<1>3. /\ CallsAreShaped'
      /\ \A d \in ScanCalls : d # c => call'[d] = call[d]
      /\ call'[c] = r
  BY <1>1, <1>2, RecordEffect
<1>4. directories' = directories /\ askpass' = askpass
  BY DEF Begin, Only
<1>5. r.outcome # "completed" /\ r.at \in {"token", "ended"} /\ "ahead" \notin DOMAIN r
  BY DEF RefusalOf
<1>6. RunOk(c)'
  BY <1>1, <1>3, <1>4, <1>5 DEF RunOk, Kept, CleanedUp, ClockNoted, GitStages
<1> QED BY <1>3, <1>4, <1>6, OthersKeep

\* GitHub refuses a JWT only of a clock that is ahead by more than the skew, or by more
\* than the lifetime leaves of ten minutes, or so far behind that the JWT has ended.
LEMMA RefusedJwtIsLate ==
  ASSUME NEW ahead \in Int, NEW ttl \in Int \cup {Unset}, ~ Accepts(Jwt(ahead, ttl))
  PROVE  Late([ahead |-> ahead, ttl |-> ttl])
<1> DEFINE life == Clamped(ttl, MaxTtl, MaxTtl)
<1>1. life \in 1..600
  BY CheckoutAssumption DEF Clamped, Lesser, MaxTtl
<1>2. Jwt(ahead, ttl).iat = ahead - 60 /\ Jwt(ahead, ttl).exp = ahead + life
  BY DEF Jwt, Clamped, Lesser, ClockSkew
<1>3. ahead - 60 > 0 \/ ahead + life <= 0 \/ ahead + life > 600
  BY <1>1, <1>2 DEF Accepts
<1>4. ahead > Lesser(60, 600 - life) \/ ahead + life <= 0
  <2> HIDE DEF life
  <2> QED BY <1>1, <1>3 DEF Lesser
<1> QED BY <1>4 DEF Late, MaxTtl, ClockSkew

LEMMA TokenRefusedStep ==
  ASSUME RunInv, NEW c \in ScanCalls, NEW ahead \in Clocks, NEW ttl \in Lifetimes,
         TokenRefused(c, ahead, ttl)
  PROVE  RunInv'
<1> DEFINE r == [at |-> "ended", done |-> {}, outcome |-> "missing_installation_token",
                 request |-> call[c].request, ahead |-> ahead, ttl |-> ttl]
<1>1. RunOk(c) /\ CallsAreShaped /\ call[c].at = "token" /\ call' = [call EXCEPT ![c] = r]
  BY DEF RunInv, TokenRefused, At, CallsAreShaped
<1>2. Shaped(r)
  BY DEF Shaped, Steps, Stops
<1>3. /\ CallsAreShaped'
      /\ \A d \in ScanCalls : d # c => call'[d] = call[d]
      /\ call'[c] = r
  BY <1>1, <1>2, RecordEffect
<1>4. directories' = directories /\ askpass' = askpass
  BY DEF TokenRefused, Only
<1>5. r.request.fault # "token_request" => Late(r)
  <2>1. r.request.fault # "token_request" => ~ Accepts(Jwt(ahead, ttl))
    BY DEF TokenRefused, Authorized
  <2>2. ahead \in Int /\ ttl \in Int \cup {Unset}
    BY CheckoutAssumption
  <2> QED BY <2>1, <2>2, RefusedJwtIsLate DEF Late
<1>6. RunOk(c)'
  BY <1>1, <1>3, <1>4, <1>5 DEF RunOk, Kept, CleanedUp, ClockNoted, GitStages
<1> QED BY <1>3, <1>4, <1>6, OthersKeep

LEMMA RunCliStep ==
  ASSUME RunInv, NEW c \in ScanCalls, NEW git, RunCli(c, git)
  PROVE  RunInv'
<1>1. RunOk(c) /\ CallsAreShaped /\ call[c].at = "cli_scan" /\ Only(c)
  BY DEF RunInv, RunCli, At
<1>2. CASE ~ CliExitsZero(call[c].request.pull, git)
  BY <1>1, <1>2, FailureStep DEF RunCli, Steps, Commands
<1>3. CASE CliExitsZero(call[c].request.pull, git)
  <2> DEFINE r == [at |-> "cleanup", done |-> call[c].done \cup {"cli_scan"}, outcome |-> "completed",
                   request |-> call[c].request, git |-> git,
                   findings |-> CliFindings(call[c].request.pull, git)]
  <2>1. call' = [call EXCEPT ![c] = r]
    BY <1>1, <1>3 DEF RunCli, CallsAreShaped
  <2>2. Shaped(r)
    BY DEF Shaped, Steps
  <2>3. /\ CallsAreShaped'
        /\ \A d \in ScanCalls : d # c => call'[d] = call[d]
        /\ call'[c] = r
    BY <1>1, <2>1, <2>2, RecordEffect
  <2>4. directories' = directories /\ askpass' = askpass
    BY <1>1 DEF Only
  <2>5. RunOk(c)'
    BY <2>3 DEF RunOk, Kept, CleanedUp, ClockNoted, GitStages
  <2> QED BY <2>3, <2>4, <2>5, OthersKeep
<1> QED BY <1>2, <1>3

\* A step of one call.
LEMMA CallStep ==
  ASSUME RunInv, NEW c \in ScanCalls, RunCall(c)
  PROVE  RunInv'
<1>1. CASE \E request \in Requests : Begin(c, request)
  BY <1>1, BeginStep
<1>2. CASE TokenArrives(c) \/ MakeDirectory(c) \/ WriteAskpass(c) \/ RemoveAskpass(c)
           \/ RunGit(c) \/ Cleanup(c)
  BY <1>2, DoneStep DEF TokenArrives, MakeDirectory, WriteAskpass, RemoveAskpass, RunGit, Cleanup
<1>3. CASE TokenMissing(c) \/ NoDirectory(c)
  BY <1>3, FailureStep DEF TokenMissing, NoDirectory, At
<1>4. CASE FileFails(c) \/ CommandFails(c) \/ InvalidOutput(c)
  BY <1>4, FailureStep DEF FileFails, CommandFails, InvalidOutput, At, Steps, Commands, GitStages
<1>5. CASE CleanupFails(c)
  BY <1>5, FailureStep DEF CleanupFails, At
<1>6. CASE \E ahead \in Clocks, ttl \in Lifetimes : TokenRefused(c, ahead, ttl)
  BY <1>6, TokenRefusedStep
<1>7. CASE \E git \in GitOutcomes : RunCli(c, git)
  BY <1>7, RunCliStep
<1>8. CASE Publish(c)
  BY <1>8 DEF Publish, RunInv, CallsAreShaped, Shaped, RunOk, Kept, CleanedUp, ClockNoted, Late
<1> QED BY <1>1, <1>2, <1>3, <1>4, <1>5, <1>6, <1>7, <1>8 DEF RunCall

LEMMA CrashStep == RunInv /\ Crash => RunInv'
<1> SUFFICES ASSUME RunInv, Crash PROVE RunInv'
  OBVIOUS
<1>1. ASSUME NEW c \in ScanCalls
      PROVE  Shaped(call'[c]) /\ RunOk(c)'
  <2>1. Shaped(call[c]) /\ RunOk(c)
    BY DEF RunInv, CallsAreShaped
  <2>2. directories' = directories /\ askpass' = askpass
    BY DEF Crash
  <2>3. CASE call[c].at \notin Steps
    <3>1. call'[c] = call[c]
      BY <2>3 DEF Crash
    <3> QED BY <2>1, <2>2, <3>1 DEF RunOk, Kept, CleanedUp, ClockNoted, Late
  <2>4. CASE call[c].at \in Steps
    <3>1. call'[c] = [[call[c] EXCEPT !.at = "ended"] EXCEPT !.outcome = "lost"]
      BY <2>4 DEF Crash
    <3>2. /\ call'[c].at = "ended" /\ call'[c].outcome = "lost"
          /\ DOMAIN call'[c] = DOMAIN call[c]
          /\ call'[c] = [f \in DOMAIN call'[c] |-> call'[c][f]]
      BY <2>1, <3>1 DEF Shaped
    <3>3. "ahead" \notin DOMAIN call'[c]
      BY <2>1, <2>4, <3>2 DEF RunOk, ClockNoted, Steps, Commands, GitStages
    <3> QED BY <2>1, <2>2, <3>2, <3>3 DEF Shaped, Stops, RunOk, Kept, CleanedUp, ClockNoted, GitStages
  <2> QED BY <2>3, <2>4
<1>2. DOMAIN call' = ScanCalls /\ call' = [c \in ScanCalls |-> call'[c]]
  BY DEF Crash
<1> QED BY <1>1, <1>2 DEF RunInv, CallsAreShaped, Shaped

LEMMA RunStep == RunInv /\ [CheckoutNext]_checkoutVars => RunInv'
<1> SUFFICES ASSUME RunInv, [CheckoutNext]_checkoutVars PROVE RunInv'
  OBVIOUS
<1>1. CASE \E c \in ScanCalls : RunCall(c)
  BY <1>1, CallStep
<1>2. CASE Crash
  BY <1>2, CrashStep
<1>3. ASSUME UNCHANGED checkoutCalls PROVE RunInv'
  BY <1>3 DEF checkoutCalls, RunInv, CallsAreShaped, Shaped, RunOk, Kept, CleanedUp, ClockNoted, Late
<1>4. CASE \E missing \in Shortfalls :
             \/ \E c \in ScanCalls : AskTrialGate(c, missing)
             \/ \E passed \in BOOLEAN : AskBetaGate(missing, passed) \/ AskTeamGate(missing, passed)
  BY <1>3, <1>4 DEF AskTrialGate, AskBetaGate, AskTeamGate
<1>5. CASE UNCHANGED checkoutVars
  BY <1>3, <1>5 DEF checkoutVars, checkoutCalls
<1> QED BY <1>1, <1>2, <1>4, <1>5 DEF CheckoutNext

LEMMA RunAlways == CheckoutSpec => []RunInv
BY RunInit, RunStep, PTL DEF CheckoutSpec

\* The checkout and the askpass script are there while git needs them, the script is gone
\* before the scanner starts, and nothing is left behind a call, whichever await failed,
\* unless the removal failed or the process was lost (runHostedReadOnlyCheckoutScan).
THEOREM NothingIsLeft == CheckoutSpec => []NothingOutlivesItsCall
<1>1. RunInv => NothingOutlivesItsCall
  BY DEF RunInv, RunOk, Kept, NothingOutlivesItsCall, At
<1> QED BY <1>1, RunAlways, PTL

\* GitHub's token is refused for the clock only beyond the bound that the lifetime and the
\* skew leave, for every clock and every lifetime asked for (createHostedGitHubAppJwt).
THEOREM ClockInBounds == CheckoutSpec => []ClockInBoundsGetsAToken
<1>1. RunInv => ClockInBoundsGetsAToken
  BY DEF RunInv, RunOk, ClockNoted, Late, ClockInBoundsGetsAToken
<1> QED BY <1>1, RunAlways, PTL

-----------------------------------------------------------------------------
(* The gates.                                                              *)

\* Call c is over, published its result and left no checkout.
Witness(c) ==
  /\ call[c].at = "ended" /\ call[c].outcome = "completed"
  /\ published[c] # "none" /\ c \notin directories
  /\ Commands \cup {"remove_askpass", "cleanup"} \subseteq call[c].done
GatesRestOnARun ==
  /\ DOMAIN published = ScanCalls
  /\ ready # {} /\ ~ invented => \E c \in ScanCalls : Witness(c)

\* A call that is over stays as it is, and so does what it published.
LEMMA EndedIsFinal ==
  ASSUME RunInv, NEW d \in ScanCalls, call[d].at = "ended", published[d] # "none",
         d \notin directories, DOMAIN published = ScanCalls,
         (\E c \in ScanCalls : RunCall(c)) \/ Crash
  PROVE  /\ call'[d] = call[d] /\ published'[d] = published[d] /\ d \notin directories'
         /\ UNCHANGED gates
<1>1. CASE Crash
  BY <1>1 DEF Crash, Steps, Commands, GitStages
<1>2. ASSUME NEW c \in ScanCalls, RunCall(c), ~ Publish(c)
      PROVE  /\ call'[d] = call[d] /\ published'[d] = published[d] /\ d \notin directories'
             /\ UNCHANGED gates
  <2>1. call[c].at # "ended"
    BY <1>2 DEF RunCall, At, Begin, TokenArrives, TokenMissing, TokenRefused, MakeDirectory, NoDirectory,
           WriteAskpass, RemoveAskpass, FileFails, RunGit, CommandFails, RunCli, InvalidOutput, Cleanup,
           CleanupFails, Commands, GitStages
  <2>2. \E r : call' = [call EXCEPT ![c] = r]
    <3>1. ASSUME Done(c) PROVE \E r : call' = [call EXCEPT ![c] = r]
      BY <3>1 DEF Done
    <3>2. ASSUME NEW reason, Throws(c, reason) \/ Rejects(c, reason)
          PROVE  \E r : call' = [call EXCEPT ![c] = r]
      BY <3>2 DEF Throws, Rejects
    <3> QED BY <1>2, <3>1, <3>2 DEF RunCall, Begin, TokenArrives, TokenMissing, TokenRefused, MakeDirectory,
               NoDirectory, WriteAskpass, RemoveAskpass, FileFails, RunGit, CommandFails, RunCli,
               InvalidOutput, Cleanup, CleanupFails
  <2>3. call'[d] = call[d]
    BY <2>1, <2>2 DEF RunInv, CallsAreShaped
  <2>4. directories' \in {directories, directories \cup {c}, directories \ {c}} /\ UNCHANGED <<published, gates>>
    BY <1>2 DEF RunCall, Only, Begin, TokenArrives, TokenMissing, TokenRefused, MakeDirectory, NoDirectory,
           WriteAskpass, RemoveAskpass, FileFails, RunGit, CommandFails, RunCli, InvalidOutput, Cleanup,
           CleanupFails
  <2> QED BY <2>1, <2>3, <2>4
<1>3. ASSUME NEW c \in ScanCalls, Publish(c)
      PROVE  /\ call'[d] = call[d] /\ published'[d] = published[d] /\ d \notin directories'
             /\ UNCHANGED gates
  BY <1>3 DEF Publish
<1> QED BY <1>1, <1>2, <1>3

\* What the trial gate reads as a whole is a complete run.
LEMMA EvidenceIsARun ==
  ASSUME RunInv, NEW c \in ScanCalls, call[c].at = "ended", Evidence \subseteq EvidenceOf(c)
  PROVE  Witness(c)
<1>1. "compact_report" \in EvidenceOf(c) /\ "check_run" \in EvidenceOf(c) /\ "checkout_deleted" \in EvidenceOf(c)
  BY DEF Evidence
<1>2. call[c].outcome = "completed" /\ published[c] # "none" /\ c \notin directories
  BY <1>1 DEF EvidenceOf, Commands, GitStages
<1>3. Commands \cup {"remove_askpass"} \subseteq call[c].done
  BY DEF Evidence, EvidenceOf, Commands, GitStages
<1>4. "cleanup" \in call[c].done
  BY <1>2 DEF RunInv, RunOk, CleanedUp
<1> QED BY <1>2, <1>3, <1>4 DEF Witness

LEMMA GatesStep == RunInv /\ GatesRestOnARun /\ [CheckoutNext]_checkoutVars => GatesRestOnARun'
<1> SUFFICES ASSUME RunInv, GatesRestOnARun, [CheckoutNext]_checkoutVars PROVE GatesRestOnARun'
  OBVIOUS
<1>1. CASE (\E c \in ScanCalls : RunCall(c)) \/ Crash
  <2>1. DOMAIN published' = ScanCalls
    BY <1>1 DEF GatesRestOnARun, RunCall, Only, Begin, TokenArrives, TokenMissing, TokenRefused,
           MakeDirectory, NoDirectory, WriteAskpass, RemoveAskpass, FileFails, RunGit, CommandFails, RunCli,
           InvalidOutput, Cleanup, CleanupFails, Publish, Crash
  <2>2. UNCHANGED gates
    BY <1>1 DEF RunCall, Only, Begin, TokenArrives, TokenMissing, TokenRefused,
           MakeDirectory, NoDirectory, WriteAskpass, RemoveAskpass, FileFails, RunGit, CommandFails, RunCli,
           InvalidOutput, Cleanup, CleanupFails, Publish, Crash
  <2>3. ASSUME ready # {}, ~ invented PROVE \E c \in ScanCalls : Witness(c)'
    <3>1. PICK d \in ScanCalls : Witness(d)
      BY <2>3 DEF GatesRestOnARun
    <3>2. call'[d] = call[d] /\ published'[d] = published[d] /\ d \notin directories'
      BY <1>1, <3>1, EndedIsFinal DEF Witness, GatesRestOnARun
    <3> QED BY <3>1, <3>2 DEF Witness
  <2> QED BY <2>1, <2>2, <2>3 DEF GatesRestOnARun, gates
<1>2. ASSUME UNCHANGED checkoutCalls PROVE \A c \in ScanCalls : Witness(c) => Witness(c)'
  BY <1>2 DEF checkoutCalls, Witness
<1>3. ASSUME NEW missing \in Shortfalls, NEW c \in ScanCalls, AskTrialGate(c, missing)
      PROVE  GatesRestOnARun'
  BY <1>2, <1>3, EvidenceIsARun DEF AskTrialGate, Says, GatesRestOnARun, checkoutCalls, At
\* A gate that says yes was told of a yes; one not invented is an answer some gate gave.
<1>4. ASSUME NEW missing \in Shortfalls, NEW passed \in BOOLEAN,
             AskBetaGate(missing, passed) \/ AskTeamGate(missing, passed)
      PROVE  GatesRestOnARun'
  <2>1. UNCHANGED checkoutCalls
    BY <1>4 DEF AskBetaGate, AskTeamGate
  <2>2. ASSUME NEW before, NEW gate, NEW yes, Told(before, passed), Says(gate, passed /\ yes),
               ready' # {}, ~ invented'
        PROVE  ready # {} /\ ~ invented
    <3>1. ~ invented /\ (passed => before \in ready)
      BY <2>2, Zenon DEF Told
    <3>2. (ready' = ready) \/ passed
      BY <2>2, Zenon DEF Says
    <3> QED BY <2>2, <3>1, <3>2
  <2>3. ready' # {} /\ ~ invented' => ready # {} /\ ~ invented
    <3>1. CASE AskBetaGate(missing, passed)
      BY <2>2, <3>1 DEF AskBetaGate
    <3>2. CASE AskTeamGate(missing, passed)
      BY <2>2, <3>2 DEF AskTeamGate
    <3> QED BY <1>4, <3>1, <3>2
  <2> QED BY <1>2, <2>1, <2>3 DEF GatesRestOnARun, checkoutCalls
<1>5. CASE UNCHANGED checkoutVars
  BY <1>2, <1>5 DEF checkoutVars, checkoutCalls, gates, GatesRestOnARun
<1> QED BY <1>1, <1>3, <1>4, <1>5 DEF CheckoutNext

\* However the three gates are asked, and however old the answers handed from one to the
\* next, none says ready, unless an answer was invented, before a call that ran to its end,
\* was published and left no checkout.
THEOREM TeamRestsOnARun == CheckoutSpec => []TeamUseRestsOnARun
<1>1. CheckoutInit => GatesRestOnARun
  BY DEF CheckoutInit, GatesRestOnARun
<1>2. GatesRestOnARun => TeamUseRestsOnARun
  BY DEF GatesRestOnARun, Witness, TeamUseRestsOnARun
<1> QED BY <1>1, <1>2, RunAlways, GatesStep, PTL DEF CheckoutSpec

-----------------------------------------------------------------------------
(* What a published conclusion rests on.                                   *)

\* A call that is under way has the request it was called with; a complete one also has
\* what git gave and what the CLI found in it; what is published is the conclusion of that.
Concluded(c) ==
  /\ call[c].at \in Steps => "request" \in DOMAIN call[c] /\ call[c].request \in Requests
  /\ call[c].outcome = "completed" =>
       /\ call[c].at \in {"cleanup", "ended"}
       /\ {"request", "git", "findings"} \subseteq DOMAIN call[c]
       /\ call[c].request \in Requests /\ call[c].git \in GitOutcomes
       /\ call[c].findings = CliFindings(call[c].request.pull, call[c].git)
  /\ published[c] # "none" =>
       /\ call[c].at = "ended" /\ call[c].outcome = "completed"
       /\ published[c] = Conclusion(Report(call[c].findings), FailOnSeverity)
ConclusionInv == DOMAIN published = ScanCalls /\ \A c \in ScanCalls : Concluded(c)

\* What a call noted stays in its record while it goes on.
LEMMA NotesAreKept ==
  ASSUME CallsAreShaped, NEW c \in ScanCalls,
         \/ Done(c)
         \/ \E reason : Throws(c, reason) \/ Rejects(c, reason)
  PROVE  \A f \in DOMAIN call[c] \ {"at", "done", "outcome"} : call'[c][f] = call[c][f]
<1>1. Shaped(call[c])
  BY DEF CallsAreShaped
<1>2. CASE Done(c)
  <2>1. call'[c] = [[call[c] EXCEPT !.at = Following[call[c].at]]
                        EXCEPT !.done = call[c].done \cup {call[c].at}]
    BY <1>2 DEF Done, CallsAreShaped
  <2> QED BY <1>1, <2>1 DEF Shaped
<1>3. ASSUME NEW reason, Throws(c, reason) \/ Rejects(c, reason)
      PROVE  \A f \in DOMAIN call[c] \ {"at", "done", "outcome"} : call'[c][f] = call[c][f]
  <2>1. PICK stop : call'[c] = [[call[c] EXCEPT !.at = stop] EXCEPT !.outcome = reason]
    BY <1>3 DEF Throws, Rejects, CallsAreShaped
  <2> QED BY <1>1, <2>1 DEF Shaped
<1> QED BY <1>2, <1>3

\* A step of one call disturbs no other.
LEMMA OthersConclude ==
  ASSUME ConclusionInv, NEW c \in ScanCalls,
         \A d \in ScanCalls : d # c => call'[d] = call[d],
         published' = published \/ \E x : published' = [published EXCEPT ![c] = x],
         Concluded(c)'
  PROVE  ConclusionInv'
<1>1. DOMAIN published' = ScanCalls /\ \A d \in ScanCalls : d # c => published'[d] = published[d]
  BY DEF ConclusionInv
<1>2. ASSUME NEW d \in ScanCalls, d # c
      PROVE  Concluded(d)'
  BY <1>1, <1>2 DEF ConclusionInv, Concluded
<1> QED BY <1>1, <1>2 DEF ConclusionInv

\* A stage that succeeds.
LEMMA DoneConcludes ==
  ASSUME RunInv, ConclusionInv, NEW c \in ScanCalls, Done(c), published' = published,
         call[c].at \in Steps \ {"cli_scan"}
  PROVE  ConclusionInv'
<1>1. CallsAreShaped /\ Concluded(c)
  BY DEF RunInv, ConclusionInv
<1>2. /\ \A d \in ScanCalls : d # c => call'[d] = call[d]
      /\ call'[c].at = Following[call[c].at]
      /\ call'[c].outcome = call[c].outcome
      /\ DOMAIN call'[c] = DOMAIN call[c]
  BY <1>1, DoneEffect
<1>3. \A f \in DOMAIN call[c] \ {"at", "done", "outcome"} : call'[c][f] = call[c][f]
  BY <1>1, NotesAreKept
<1>4. "request" \in DOMAIN call'[c] /\ call'[c].request = call[c].request /\ call[c].request \in Requests
  BY <1>1, <1>2, <1>3 DEF Concluded
<1>5. call'[c].outcome = "completed" =>
        /\ call'[c].at = "ended"
        /\ {"git", "findings"} \subseteq DOMAIN call'[c]
        /\ call'[c].git = call[c].git /\ call'[c].findings = call[c].findings
  BY <1>1, <1>2, <1>3, FollowingIs DEF Concluded, Steps, Commands, GitStages
<1>6. published'[c] = "none"
  BY <1>1 DEF Concluded, Steps, Commands, GitStages
<1>7. Concluded(c)'
  BY <1>1, <1>2, <1>4, <1>5, <1>6 DEF Concluded
<1> QED BY <1>2, <1>7, OthersConclude

\* A stage that fails, or that ends the call.
LEMMA StopConcludes ==
  ASSUME RunInv, ConclusionInv, NEW c \in ScanCalls, call[c].at \in Steps, published' = published,
         NEW reason, reason # "completed", Throws(c, reason) \/ Rejects(c, reason)
  PROVE  ConclusionInv'
<1>1. CallsAreShaped /\ Concluded(c)
  BY DEF RunInv, ConclusionInv
<1>2. /\ \A d \in ScanCalls : d # c => call'[d] = call[d]
      /\ call'[c].outcome = reason
      /\ DOMAIN call'[c] = DOMAIN call[c]
  BY <1>1, StopEffect DEF Throws, Rejects
<1>3. \A f \in DOMAIN call[c] \ {"at", "done", "outcome"} : call'[c][f] = call[c][f]
  BY <1>1, NotesAreKept
<1>4. "request" \in DOMAIN call'[c] /\ call'[c].request = call[c].request /\ call[c].request \in Requests
  BY <1>1, <1>2, <1>3 DEF Concluded
<1>5. published'[c] = "none"
  BY <1>1 DEF Concluded, Steps, Commands, GitStages
<1>6. Concluded(c)'
  BY <1>2, <1>4, <1>5 DEF Concluded
<1> QED BY <1>2, <1>6, OthersConclude

\* A call that gets a record of its own making.
LEMMA RecordConcludes ==
  ASSUME RunInv, ConclusionInv, NEW c \in ScanCalls, published' = published,
         call[c].at # "ended", NEW r, call' = [call EXCEPT ![c] = r],
         r.at \in Steps => "request" \in DOMAIN r /\ r.request \in Requests,
         r.outcome = "completed" =>
           /\ r.at = "cleanup" /\ {"request", "git", "findings"} \subseteq DOMAIN r
           /\ r.request \in Requests /\ r.git \in GitOutcomes
           /\ r.findings = CliFindings(r.request.pull, r.git)
  PROVE  ConclusionInv'
<1>1. call'[c] = r /\ \A d \in ScanCalls : d # c => call'[d] = call[d]
  BY DEF RunInv, CallsAreShaped
<1>2. published'[c] = "none"
  BY DEF ConclusionInv, Concluded
<1>3. Concluded(c)'
  BY <1>1, <1>2 DEF Concluded
<1> QED BY <1>1, <1>3, OthersConclude

LEMMA BeginConcludes ==
  ASSUME RunInv, ConclusionInv, NEW c \in ScanCalls, NEW request \in Requests, Begin(c, request)
  PROVE  ConclusionInv'
<1>1. PICK r : r = [at |-> IF RefusalOf(request) = "none" THEN "token" ELSE "ended", done |-> {},
                    outcome |-> RefusalOf(request), request |-> request]
  OBVIOUS
<1>2. call' = [call EXCEPT ![c] = r] /\ call[c].at # "ended" /\ published' = published
  BY <1>1 DEF Begin, At, Only
<1>3. r.outcome # "completed" /\ "request" \in DOMAIN r /\ r.request \in Requests
  BY <1>1 DEF RefusalOf
<1> QED BY <1>2, <1>3, RecordConcludes

LEMMA RefusedConcludes ==
  ASSUME RunInv, ConclusionInv, NEW c \in ScanCalls, NEW ahead, NEW ttl, TokenRefused(c, ahead, ttl)
  PROVE  ConclusionInv'
<1>1. PICK r : r = [at |-> "ended", done |-> {}, outcome |-> "missing_installation_token",
                    request |-> call[c].request, ahead |-> ahead, ttl |-> ttl]
  OBVIOUS
<1>2. call' = [call EXCEPT ![c] = r] /\ call[c].at # "ended" /\ published' = published
  BY <1>1 DEF TokenRefused, At, Only, RunInv, CallsAreShaped
<1>3. r.outcome # "completed" /\ r.at \notin Steps
  BY <1>1 DEF Steps, Commands, GitStages
<1> QED BY <1>2, <1>3, RecordConcludes

\* The CLI's exit code 0 completes the call with the findings of the reading that git gave.
LEMMA CliConcludes ==
  ASSUME RunInv, ConclusionInv, NEW c \in ScanCalls, NEW git \in GitOutcomes, RunCli(c, git)
  PROVE  ConclusionInv'
<1>1. /\ call[c].at = "cli_scan" /\ call[c].at \in Steps /\ published' = published
      /\ call[c].request \in Requests
  BY DEF RunCli, At, Only, Steps, Commands, ConclusionInv, Concluded
<1>2. CASE ~ CliExitsZero(call[c].request.pull, git)
  BY <1>1, <1>2, StopConcludes DEF RunCli
<1>3. CASE CliExitsZero(call[c].request.pull, git)
  <2>1. PICK r : r = [at |-> "cleanup", done |-> call[c].done \cup {"cli_scan"}, outcome |-> "completed",
                      request |-> call[c].request, git |-> git,
                      findings |-> CliFindings(call[c].request.pull, git)]
    OBVIOUS
  <2>2. call' = [call EXCEPT ![c] = r]
    BY <1>3, <2>1 DEF RunCli, RunInv, CallsAreShaped
  <2>3. /\ {"request", "git", "findings"} \subseteq DOMAIN r /\ r.at = "cleanup"
        /\ r.request \in Requests /\ r.git \in GitOutcomes
        /\ r.findings = CliFindings(r.request.pull, r.git)
    BY <1>1, <2>1
  <2> QED BY <1>1, <2>2, <2>3, RecordConcludes
<1> QED BY <1>2, <1>3

\* A result is published once, and only of a call that is over and complete.
LEMMA PublishConcludes ==
  ASSUME ConclusionInv, NEW c \in ScanCalls, Publish(c)
  PROVE  ConclusionInv'
<1>1. /\ call' = call /\ call[c].at = "ended" /\ call[c].outcome = "completed"
      /\ published' = [published EXCEPT ![c] = Conclusion(Report(call[c].findings), FailOnSeverity)]
  BY DEF Publish, At, ReportOf
<1>2. Concluded(c) /\ published'[c] = Conclusion(Report(call[c].findings), FailOnSeverity)
  BY <1>1 DEF ConclusionInv
<1>3. Concluded(c)'
  BY <1>1, <1>2 DEF Concluded
<1> QED BY <1>1, <1>3, OthersConclude

LEMMA CallConcludes ==
  ASSUME RunInv, ConclusionInv, NEW c \in ScanCalls, RunCall(c)
  PROVE  ConclusionInv'
<1> USE DEF At, Only
<1>1. CASE \E request \in Requests : Begin(c, request)
  BY <1>1, BeginConcludes
<1>2. CASE TokenArrives(c) \/ MakeDirectory(c) \/ WriteAskpass(c) \/ RemoveAskpass(c)
           \/ RunGit(c) \/ Cleanup(c)
  <2>1. Done(c) /\ published' = published /\ call[c].at \in Steps \ {"cli_scan"}
    BY <1>2 DEF TokenArrives, MakeDirectory, WriteAskpass, RemoveAskpass, RunGit, Cleanup,
           Steps, Commands, GitStages
  <2> QED BY <2>1, DoneConcludes
<1>3. CASE TokenMissing(c) \/ NoDirectory(c) \/ CleanupFails(c)
  BY <1>3, StopConcludes DEF TokenMissing, NoDirectory, CleanupFails, Steps
<1>4. CASE FileFails(c) \/ InvalidOutput(c)
  BY <1>4, StopConcludes DEF FileFails, InvalidOutput, Steps, Commands
<1>5. CASE CommandFails(c)
  <2>1. FailureOf[call[c].at] # "completed" /\ call[c].at \in Steps
    BY <1>5 DEF CommandFails, FailureOf, Steps, Commands, GitStages
  <2> QED BY <1>5, <2>1, StopConcludes DEF CommandFails
<1>6. CASE \E ahead \in Clocks, ttl \in Lifetimes : TokenRefused(c, ahead, ttl)
  BY <1>6, RefusedConcludes
<1>7. CASE \E git \in GitOutcomes : RunCli(c, git)
  BY <1>7, CliConcludes
<1>8. CASE Publish(c)
  BY <1>8, PublishConcludes
<1> QED BY <1>1, <1>2, <1>3, <1>4, <1>5, <1>6, <1>7, <1>8 DEF RunCall

LEMMA ConclusionStep == RunInv /\ ConclusionInv /\ [CheckoutNext]_checkoutVars => ConclusionInv'
<1> SUFFICES ASSUME RunInv, ConclusionInv, [CheckoutNext]_checkoutVars PROVE ConclusionInv'
  OBVIOUS
<1>1. CASE \E c \in ScanCalls : RunCall(c)
  BY <1>1, CallConcludes
<1>2. CASE Crash
  <2>1. ASSUME NEW c \in ScanCalls PROVE Concluded(c)'
    <3>1. Concluded(c) /\ Shaped(call[c]) /\ published' = published
      BY <1>2 DEF ConclusionInv, RunInv, CallsAreShaped, Crash
    <3>2. CASE call[c].at \notin Steps
      <4>1. call'[c] = call[c]
        BY <1>2, <3>2 DEF Crash
      <4> QED BY <3>1, <4>1 DEF Concluded
    <3>3. CASE call[c].at \in Steps
      <4>1. call'[c] = [[call[c] EXCEPT !.at = "ended"] EXCEPT !.outcome = "lost"]
        BY <1>2, <3>3 DEF Crash
      <4>2. call'[c].at = "ended" /\ call'[c].outcome = "lost"
        BY <3>1, <4>1 DEF Shaped
      <4>3. published'[c] = "none"
        BY <3>1, <3>3 DEF Concluded, Steps, Commands, GitStages
      <4> QED BY <4>2, <4>3 DEF Concluded, Steps, Commands, GitStages
    <3> QED BY <3>2, <3>3
  <2> QED BY <1>2, <2>1 DEF ConclusionInv, Crash
<1>3. ASSUME UNCHANGED checkoutCalls PROVE ConclusionInv'
  BY <1>3 DEF checkoutCalls, ConclusionInv, Concluded
<1>4. CASE \E missing \in Shortfalls :
             \/ \E c \in ScanCalls : AskTrialGate(c, missing)
             \/ \E passed \in BOOLEAN : AskBetaGate(missing, passed) \/ AskTeamGate(missing, passed)
  BY <1>3, <1>4 DEF AskTrialGate, AskBetaGate, AskTeamGate
<1>5. CASE UNCHANGED checkoutVars
  BY <1>3, <1>5 DEF checkoutVars, checkoutCalls
<1> QED BY <1>1, <1>2, <1>4, <1>5 DEF CheckoutNext

\* Whatever the order of the calls, their failures and the diffs, a green Check Run says that
\* a diff was read and no file it lists is risky, unless the pull request's own configuration
\* silenced findings (runHostedReadOnlyCheckoutScan, readGitDiff, resolveCheckRunConclusion).
THEOREM GreenWasRead == CheckoutSpec => []GreenMeansTheDiffWasRead
<1>1. CheckoutInit => ConclusionInv
  <2> SUFFICES ASSUME CheckoutInit PROVE ConclusionInv
    OBVIOUS
  <2>1. DOMAIN published = ScanCalls
    BY DEF CheckoutInit
  <2>2. ASSUME NEW c \in ScanCalls PROVE Concluded(c)
    <3>1. call[c].at = "idle" /\ call[c].outcome = "none" /\ published[c] = "none"
      BY DEF CheckoutInit, NotCalled
    <3> QED BY <3>1 DEF Concluded, Steps, Commands, GitStages
  <2> QED BY <2>1, <2>2 DEF ConclusionInv
<1>2. ConclusionInv => GreenMeansTheDiffWasRead
  <2> SUFFICES ASSUME ConclusionInv, NEW c \in ScanCalls, published[c] = "success"
               PROVE  LET pull == call[c].request.pull
                          reading == Reading(pull, call[c].git) IN
                      /\ Verdict(ReportOf(c)) = "clear from current heuristics"
                      /\ \/ pull.config.suppressed # {} \/ \E r \in Rules : pull.config.rules[r] = "off"
                         \/ /\ call[c].git # "unreadable" /\ reading.diff # <<>>
                            /\ \A f \in ParsedFiles(reading.diff) : CategoriesOf(f) = {}
    BY DEF GreenMeansTheDiffWasRead
  <2>1. PICK pull, git, findings : /\ pull = call[c].request.pull /\ git = call[c].git
                                   /\ findings = call[c].findings
    OBVIOUS
  <2>2. /\ call[c].request \in Requests /\ git \in GitOutcomes
        /\ findings = CliFindings(pull, git)
        /\ Conclusion(Report(findings), FailOnSeverity) = "success"
    BY <2>1 DEF ConclusionInv, Concluded
  <2>3. pull.changed \in Seq(ChangedFiles) /\ pull.behind \in Seq(ChangedFiles)
    BY <2>1, <2>2, CheckoutAssumption DEF RequestKinds
  <2>4. IsFiniteSet(findings)
    BY <2>2, <2>3, CliFindingsAre
  <2>5. findings = {} /\ Verdict(Report(findings)) = "clear from current heuristics"
    BY <2>2, <2>4, GreenIsEmpty
  <2>6. \/ pull.config.suppressed # {} \/ \E r \in Rules : pull.config.rules[r] = "off"
        \/ /\ git # "unreadable" /\ Reading(pull, git).diff # <<>>
           /\ \A f \in ParsedFiles(Reading(pull, git).diff) : CategoriesOf(f) = {}
    BY <2>2, <2>3, <2>5, CliFindingsAre
  <2> QED BY <2>1, <2>5, <2>6 DEF ReportOf
<1> QED BY <1>1, <1>2, RunAlways, ConclusionStep, PTL DEF CheckoutSpec
=============================================================================
