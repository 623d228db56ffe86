-------------------------- MODULE SourceTrial_proofs --------------------------
(***************************************************************************)
(* What holds of the two operator scripts in every interleaving with the   *)
(* ingress and with each other, for every diff and whatever scanners do.   *)
(***************************************************************************)
EXTENDS SourceTrial, TLAPS

Ats == {"verify", "branch", "open", "scan", "publish", "wait", "close", "unbranch", "find",
        "delete", "list", "finish", "ended"}
Clearing == {"delete", "list", "finish", "ended"}

\* The variables a step may only change at the script that takes it.
TrialType ==
  /\ at \in [Scripts -> Ats]
  /\ pull \in [Scripts -> {"none", "open", "closed"}]
  /\ branch \in [Scripts -> BOOLEAN]
  /\ ingress \in [Scripts -> {"idle", "received", "receipt", "running", "published"}]
  /\ checkRun \in [Scripts -> BOOLEAN]
  /\ kv \subseteq Records
  /\ found \in [Scripts -> SUBSET Records]
  /\ failed \in [Scripts -> BOOLEAN]
  /\ unsettled \in [Scripts -> BOOLEAN]
  /\ DOMAIN evidence = Scripts

LEMMA RecordsAre ==
  ASSUME NEW s \in Scripts, NEW o \in Owners, NEW k \in RecordKinds
  PROVE  /\ Record(s, o, k) \in Records
         /\ Record(s, o, k).pull = s /\ Record(s, o, k).owner = o /\ Record(s, o, k).kind = k
BY DEF Record, Records

LEMMA TrialTypeInit == TrialInit => TrialType
<1> SUFFICES ASSUME TrialInit PROVE TrialType
  OBVIOUS
<1>1. kv \subseteq Records
  <2>1. Foreign("smoke") \subseteq Records /\ Foreign("trial") \subseteq Records
    BY RecordsAre DEF Foreign, Scripts, Owners, RecordKinds
  <2> QED BY <2>1 DEF TrialInit
<1> QED BY <1>1 DEF TrialInit, TrialType, Ats

\* One step per action of a script.
LEMMA TrialTypeStep == TrialType /\ [TrialNext]_trialVars => TrialType'
<1> SUFFICES ASSUME TrialType, [TrialNext]_trialVars PROVE TrialType'
  OBVIOUS
<1> USE DEF TrialType, Goes, Service, Result
<1>1. CASE UNCHANGED trialVars
  BY <1>1 DEF trialVars
<1>2. ASSUME NEW s \in Scripts, Ingress(s) PROVE TrialType'
  <2>1. Record(s, "own", "opened") \in Records /\ Record(s, "own", "scan") \in Records
    BY RecordsAre DEF Owners, RecordKinds
  <2>2. kv' \subseteq Records
    BY <1>2, <2>1 DEF Ingress
  <2> QED BY <1>2, <2>2 DEF Ingress
<1>3. ASSUME NEW s \in Scripts, ReceiveClose(s) PROVE TrialType'
  <2>1. Record(s, "own", "closed") \in Records
    BY RecordsAre DEF Owners, RecordKinds
  <2> QED BY <1>3, <2>1 DEF ReceiveClose
<1>4. ASSUME NEW s \in Scripts, Abandon(s) PROVE TrialType'
  BY <1>4 DEF Abandon, Ats
<1>5. ASSUME NEW s \in Scripts, GivesUp(s) \/ Verify(s) \/ CreateBranch(s) \/ OpenPull(s) \/ Wait(s)
      PROVE  TrialType'
  <2>1. CASE GivesUp(s)
    BY <1>4, <2>1 DEF GivesUp
  <2>2. CASE Verify(s) \/ Wait(s)
    BY <2>2 DEF Verify, Wait, Ats
  <2>3. CASE CreateBranch(s)
    BY <2>3 DEF CreateBranch, Ats
  <2>4. CASE OpenPull(s)
    BY <2>4 DEF OpenPull, Ats
  <2> QED BY <1>5, <2>1, <2>2, <2>3, <2>4
<1>s. ASSUME Scan \/ RefuseScan \/ PublishTrial PROVE TrialType'
  <2>1. CASE Scan
    BY <2>1 DEF Scan, Ats
  <2>2. CASE RefuseScan
    BY <1>4, <2>2 DEF RefuseScan, Scripts
  <2>3. CASE PublishTrial
    BY <2>3 DEF PublishTrial, Ats
  <2> QED BY <1>s, <2>1, <2>2, <2>3
<1>6. ASSUME NEW s \in Scripts, ClosePull(s) PROVE TrialType'
  BY <1>6 DEF ClosePull, Ats
<1>7. ASSUME NEW s \in Scripts, DeleteBranch(s) PROVE TrialType'
  BY <1>7 DEF DeleteBranch, Ats
<1>8. ASSUME NEW s \in Scripts, FindKeys(s) PROVE TrialType'
  <2>1. PICK listed \in SUBSET kv :
          /\ found' = [found EXCEPT ![s] = KeysFor(s, listed)]
          /\ unsettled' = [unsettled EXCEPT ![s] = listed # kv \/ ingress[s] # "idle"
                            \/ (pull[s] = "closed" /\ Record(s, "own", "closed") \notin kv)]
    BY <1>8 DEF FindKeys
  <2>2. KeysFor(s, listed) \subseteq Records
    BY DEF KeysFor, SmokeKeys, TrialKeys
  <2>3. found' \in [Scripts -> SUBSET Records]
    BY <2>1, <2>2
  <2>4. unsettled' \in [Scripts -> BOOLEAN]
    <3>1. PICK u \in BOOLEAN : unsettled' = [unsettled EXCEPT ![s] = u]
      BY <2>1
    <3> QED BY <3>1
  <2>5. at' \in [Scripts -> Ats]
    BY <1>8 DEF FindKeys, Ats
  <2> QED BY <1>8, <2>3, <2>4, <2>5 DEF FindKeys
<1>9. ASSUME NEW s \in Scripts, ListFails(s) PROVE TrialType'
  <2>1. CASE /\ Goes(s, CASE s = "smoke" -> "ended" [] s = "trial" /\ at[s] = "find" -> "list" [] OTHER -> "finish")
    <3>1. at' \in [Scripts -> Ats]
      BY <2>1 DEF Ats
    <3> QED BY <1>9, <3>1 DEF ListFails
  <2> QED BY <1>9, <2>1 DEF ListFails
<1>10. ASSUME NEW s \in Scripts, DeleteKeys(s) \/ DeleteFails(s) PROVE TrialType'
  BY <1>10 DEF DeleteKeys, DeleteFails, Ats
<1>11. ASSUME NEW s \in Scripts, CountRemaining(s) PROVE TrialType'
  BY <1>11 DEF CountRemaining, Ats
<1>12. ASSUME NEW s \in Scripts, Finish(s) PROVE TrialType'
  BY <1>12 DEF Finish, Ats
<1> QED BY <1>1, <1>2, <1>3, <1>5, <1>s, <1>6, <1>7, <1>8, <1>9, <1>10, <1>11, <1>12
        DEF TrialNext, ScriptStep

LEMMA TrialTypeAlways == TrialSpec => []TrialType
<1> QED BY TrialTypeInit, TrialTypeStep, PTL DEF TrialSpec

-----------------------------------------------------------------------------
(* Records of other pull requests.                                         *)

\* What a script found to delete: the smoke its own records, the trial scan records
\* with its number.
FoundInv ==
  /\ found["smoke"] \subseteq RecordsOf("smoke")
  /\ \A r \in found["trial"] : r.pull = "trial" /\ r.kind = "scan"

\* Only DeleteKeys removes records, and only FindKeys chooses them.
LEMMA ScriptFrame ==
  ASSUME NEW s \in Scripts, ScriptStep(s)
  PROVE  /\ kv \subseteq kv' \/ DeleteKeys(s)
         /\ found' = found \/ FindKeys(s)
<1> USE DEF Goes, Service, Result
<1>1. CASE Ingress(s) \/ ReceiveClose(s)
  BY <1>1 DEF Ingress, ReceiveClose
<1>2. CASE GivesUp(s) \/ Verify(s) \/ CreateBranch(s) \/ OpenPull(s) \/ Wait(s)
  BY <1>2 DEF GivesUp, Abandon, Verify, CreateBranch, OpenPull, Wait
<1>3. CASE Scan \/ RefuseScan \/ PublishTrial
  BY <1>3 DEF Scan, RefuseScan, Abandon, PublishTrial
<1>4. CASE ClosePull(s) \/ DeleteBranch(s) \/ ListFails(s) \/ DeleteFails(s)
  BY <1>4 DEF ClosePull, DeleteBranch, ListFails, DeleteFails
<1>5. CASE CountRemaining(s) \/ Finish(s)
  BY <1>5 DEF CountRemaining, Finish
<1>6. CASE FindKeys(s)
  BY <1>6 DEF FindKeys
<1>7. CASE DeleteKeys(s)
  BY <1>7 DEF DeleteKeys
<1> QED BY <1>1, <1>2, <1>3, <1>4, <1>5, <1>6, <1>7 DEF ScriptStep

LEMMA FoundStep == TrialType /\ FoundInv /\ [TrialNext]_trialVars => FoundInv'
<1> SUFFICES ASSUME TrialType, FoundInv, [TrialNext]_trialVars PROVE FoundInv'
  OBVIOUS
<1>1. CASE found' = found
  BY <1>1 DEF FoundInv
<1>2. ASSUME NEW s \in Scripts, FindKeys(s) PROVE FoundInv'
  <2>1. PICK present : present \subseteq kv /\ found' = [found EXCEPT ![s] = KeysFor(s, present)]
    BY <1>2 DEF FindKeys
  <2>2. found \in [Scripts -> SUBSET Records]
    BY DEF TrialType
  <2>3. CASE s = "smoke"
    <3>1. found'["smoke"] = SmokeKeys("smoke", present) /\ found'["trial"] = found["trial"]
      BY <2>1, <2>2, <2>3 DEF KeysFor, Scripts
    <3> QED BY <3>1 DEF FoundInv, SmokeKeys
  <2>4. CASE s = "trial"
    <3>1. found'["trial"] = TrialKeys("trial", present) /\ found'["smoke"] = found["smoke"]
      BY <2>1, <2>2, <2>4 DEF KeysFor, Scripts
    <3> QED BY <3>1 DEF FoundInv, TrialKeys
  <2> QED BY <2>3, <2>4 DEF Scripts
<1>3. CASE UNCHANGED trialVars
  BY <1>1, <1>3 DEF trialVars
<1> QED BY <1>1, <1>2, <1>3, ScriptFrame DEF TrialNext

LEMMA ForeignStep == FoundInv /\ ForeignRecordsAreKept /\ [TrialNext]_trialVars => ForeignRecordsAreKept'
<1> SUFFICES ASSUME FoundInv, ForeignRecordsAreKept, [TrialNext]_trialVars PROVE ForeignRecordsAreKept'
  OBVIOUS
<1>1. CASE kv \subseteq kv'
  BY <1>1 DEF ForeignRecordsAreKept, Foreign
<1>2. ASSUME NEW s \in Scripts, DeleteKeys(s) PROVE ForeignRecordsAreKept'
  <2> DEFINE kept == Foreign("smoke") \cup {Record("trial", "other", "opened")}
  <2>1. kv' = kv \ found[s]
    BY <1>2 DEF DeleteKeys
  <2>2. \A r \in kept : r.owner = "other" /\ (r.pull = "trial" => r.kind = "opened")
    BY RecordsAre DEF Foreign, Scripts, Owners, RecordKinds
  <2>3. \A r \in found["smoke"] : r.owner = "own"
    BY DEF FoundInv, RecordsOf
  <2>4. \A r \in found["trial"] : r.pull = "trial" /\ r.kind = "scan"
    BY DEF FoundInv
  <2>5. kept \cap found[s] = {}
    BY <2>2, <2>3, <2>4 DEF Scripts
  <2>6. kept \subseteq kv'
    BY <2>1, <2>5 DEF ForeignRecordsAreKept
  <2> QED BY <2>6 DEF ForeignRecordsAreKept, Foreign
<1>3. CASE UNCHANGED trialVars
  BY <1>1, <1>3 DEF trialVars
<1> QED BY <1>1, <1>2, <1>3, ScriptFrame DEF TrialNext

\* Neither script deletes a record of another repository's pull request, but for the
\* scan with the trial's number.
THEOREM ForeignKept == TrialSpec => []ForeignRecordsAreKept
<1>1. TrialInit => FoundInv /\ ForeignRecordsAreKept
  BY DEF TrialInit, FoundInv, ForeignRecordsAreKept, Foreign, Scripts
<1> QED BY <1>1, FoundStep, ForeignStep, TrialTypeAlways, PTL DEF TrialSpec

-----------------------------------------------------------------------------
(* The evidence of a smoke.                                                *)

SmokeRecords == kv \cap RecordsOf("smoke")
\* Nothing of the smoke is left and the ingress has nothing to add.
SmokeCleared == ingress["smoke"] = "idle" /\ SmokeRecords = {}

\* Without a pull request there is nothing to clear; after a listing with the ingress
\* done and all read, what is left of the smoke was found, and after the deletion
\* nothing is.
SmokeInv ==
  /\ pull["smoke"] = "none" => SmokeCleared
  /\ evidence["smoke"].written => at["smoke"] = "ended"
  /\ ~ unsettled["smoke"] =>
       /\ at["smoke"] = "delete" => ingress["smoke"] = "idle" /\ SmokeRecords \subseteq found["smoke"]
       /\ at["smoke"] \in {"list", "finish"} => SmokeCleared
       /\ at["smoke"] = "ended" /\ evidence["smoke"].written => SmokeCleared

\* A step of the trial leaves the smoke alone.
LEMMA TrialLeavesTheSmoke ==
  ASSUME TrialType, ScriptStep("trial")
  PROVE  /\ at'["smoke"] = at["smoke"] /\ pull'["smoke"] = pull["smoke"]
         /\ ingress'["smoke"] = ingress["smoke"] /\ found'["smoke"] = found["smoke"]
         /\ evidence'["smoke"] = evidence["smoke"] /\ unsettled'["smoke"] = unsettled["smoke"]
         /\ SmokeRecords' \subseteq SmokeRecords
<1> DEFINE s == "trial"
<1> USE DEF TrialType, Goes, Service, Result, Scripts
<1>0. \A k \in RecordKinds : Record("trial", "own", k) \notin RecordsOf("smoke")
  BY RecordsAre DEF RecordsOf, Owners, RecordKinds
<1>1. CASE Ingress(s)
  BY <1>0, <1>1 DEF Ingress, SmokeRecords, RecordKinds
<1>2. CASE ReceiveClose(s)
  BY <1>0, <1>2 DEF ReceiveClose, SmokeRecords, RecordKinds
<1>3. CASE GivesUp(s) \/ Verify(s) \/ Wait(s)
  BY <1>3 DEF GivesUp, Abandon, Verify, Wait, SmokeRecords
<1>4. CASE CreateBranch(s) \/ OpenPull(s)
  BY <1>4 DEF CreateBranch, OpenPull, SmokeRecords
<1>5. CASE Scan \/ RefuseScan \/ PublishTrial
  BY <1>5 DEF Scan, RefuseScan, Abandon, PublishTrial, SmokeRecords
<1>6. CASE ClosePull(s)
  BY <1>6 DEF ClosePull, SmokeRecords
<1>7. CASE DeleteBranch(s)
  BY <1>7 DEF DeleteBranch, SmokeRecords
<1>8. CASE FindKeys(s)
  BY <1>8 DEF FindKeys, SmokeRecords
<1>9. CASE ListFails(s)
  BY <1>9 DEF ListFails, SmokeRecords
<1>10. CASE DeleteKeys(s) \/ DeleteFails(s)
  BY <1>10 DEF DeleteKeys, DeleteFails, SmokeRecords
<1>11. CASE CountRemaining(s)
  BY <1>11 DEF CountRemaining, SmokeRecords
<1>12. CASE Finish(s)
  BY <1>12 DEF Finish, SmokeRecords
<1> QED BY <1>1, <1>2, <1>3, <1>4, <1>5, <1>6, <1>7, <1>8, <1>9, <1>10, <1>11, <1>12 DEF ScriptStep

LEMMA SmokeStep ==
  ASSUME TrialType, SmokeInv, ScriptStep("smoke")
  PROVE  SmokeInv'
<1> DEFINE s == "smoke"
<1> USE DEF TrialType, Goes, Service, Result, Scripts
<1>1. CASE Ingress(s)
  <2>1. ingress["smoke"] # "idle"
    BY <1>1 DEF Ingress
  <2>2. /\ pull["smoke"] # "none"
        /\ at["smoke"] \in Clearing /\ ~ unsettled["smoke"] => at["smoke"] = "ended" /\ ~ evidence["smoke"].written
    BY <2>1 DEF SmokeInv, SmokeCleared, Clearing
  <2>3. UNCHANGED <<at, pull, evidence, unsettled>>
    BY <1>1 DEF Ingress
  <2> QED BY <2>2, <2>3 DEF SmokeInv, Clearing
<1>2. CASE ReceiveClose(s)
  <2>1. /\ pull["smoke"] = "closed" /\ UNCHANGED <<at, pull, evidence>>
        /\ at["smoke"] \in Clearing => unsettled'["smoke"]
    BY <1>2 DEF ReceiveClose, Clearing
  <2> QED BY <2>1 DEF SmokeInv, Clearing
<1>3. CASE GivesUp(s) \/ Verify(s) \/ CreateBranch(s) \/ OpenPull(s) \/ Wait(s)
  <2>1. /\ at["smoke"] \notin Clearing /\ at'["smoke"] \notin Clearing
        /\ UNCHANGED <<kv, evidence, found>>
    BY <1>3 DEF GivesUp, Abandon, Verify, CreateBranch, OpenPull, Wait, Clearing
  <2>2. pull'["smoke"] = "none" => pull["smoke"] = "none" /\ ingress'["smoke"] = ingress["smoke"]
    BY <1>3 DEF GivesUp, Abandon, Verify, CreateBranch, OpenPull, Wait
  <2> QED BY <2>1, <2>2 DEF SmokeInv, SmokeCleared, SmokeRecords, Clearing
<1>4. CASE ClosePull(s)
  <2>1. /\ at["smoke"] \notin Clearing /\ at'["smoke"] \notin Clearing
        /\ UNCHANGED <<kv, evidence, found, ingress>>
    BY <1>4 DEF ClosePull, Clearing
  <2>2. pull'["smoke"] = "none" => pull["smoke"] = "none"
    BY <1>4 DEF ClosePull
  <2> QED BY <2>1, <2>2 DEF SmokeInv, SmokeCleared, SmokeRecords, Clearing
<1>5. CASE DeleteBranch(s)
  <2>1. /\ at["smoke"] = "unbranch" /\ UNCHANGED <<kv, evidence, found, ingress, unsettled>>
        /\ at'["smoke"] = IF pull["smoke"] = "none" THEN "finish" ELSE "find"
    BY <1>5 DEF DeleteBranch
  <2>2. pull'["smoke"] = "none" => pull["smoke"] = "none"
    BY <1>5 DEF DeleteBranch
  <2> QED BY <2>1, <2>2 DEF SmokeInv, SmokeCleared, SmokeRecords
<1>6. CASE FindKeys(s)
  <2>1. PICK listed :
          /\ found'["smoke"] = SmokeKeys(s, listed)
          /\ ~ unsettled'["smoke"] => listed = kv /\ ingress["smoke"] = "idle"
    <3>1. PICK listed :
            /\ found' = [found EXCEPT !["smoke"] = KeysFor("smoke", listed)]
            /\ unsettled' = [unsettled EXCEPT !["smoke"] = listed # kv \/ ingress["smoke"] # "idle"
                 \/ (pull["smoke"] = "closed" /\ Record("smoke", "own", "closed") \notin kv)]
      BY <1>6 DEF FindKeys
    <3>2. found'["smoke"] = SmokeKeys(s, listed)
      BY <3>1 DEF KeysFor
    <3>3. listed # kv \/ ingress["smoke"] # "idle" => unsettled'["smoke"]
      BY <3>1, Zenon
    <3> QED BY <3>2, <3>3
  <2>2. /\ at["smoke"] = "find" /\ UNCHANGED <<pull, ingress, kv, evidence>>
        /\ at'["smoke"] = IF found'["smoke"] = {} THEN "finish" ELSE "delete"
    BY <1>6 DEF FindKeys
  <2> QED BY <2>1, <2>2 DEF SmokeInv, SmokeCleared, SmokeRecords, SmokeKeys
<1>7. CASE ListFails(s)
  <2>1. /\ at["smoke"] \in {"find", "list"} /\ UNCHANGED <<pull, ingress, kv, evidence>>
        /\ unsettled'["smoke"]
    BY <1>7 DEF ListFails
  <2> QED BY <2>1 DEF SmokeInv, SmokeCleared, SmokeRecords
<1>8. CASE DeleteKeys(s)
  <2>1. /\ at["smoke"] = "delete" /\ at'["smoke"] = "list" /\ kv' = kv \ found["smoke"]
        /\ UNCHANGED <<pull, ingress, evidence, unsettled>>
    BY <1>8 DEF DeleteKeys
  <2> QED BY <2>1 DEF SmokeInv, SmokeCleared, SmokeRecords
<1>9. CASE DeleteFails(s)
  <2>1. /\ at["smoke"] = "delete" /\ at'["smoke"] = "ended"
        /\ UNCHANGED <<pull, ingress, kv, evidence, unsettled>>
    BY <1>9 DEF DeleteFails
  <2> QED BY <2>1 DEF SmokeInv, SmokeCleared, SmokeRecords
<1>10. CASE CountRemaining(s)
  <2>1. /\ at["smoke"] = "list" /\ at'["smoke"] = "ended"
        /\ UNCHANGED <<pull, ingress, kv>>
        /\ unsettled["smoke"] => unsettled'["smoke"]
    BY <1>10 DEF CountRemaining
  <2> QED BY <2>1 DEF SmokeInv, SmokeCleared, SmokeRecords
<1>11. CASE Finish(s)
  <2>1. /\ at["smoke"] = "finish" /\ at'["smoke"] = "ended"
        /\ UNCHANGED <<pull, ingress, kv, unsettled>>
    BY <1>11 DEF Finish
  <2> QED BY <2>1 DEF SmokeInv, SmokeCleared, SmokeRecords
<1> QED BY <1>1, <1>2, <1>3, <1>4, <1>5, <1>6, <1>7, <1>8, <1>9, <1>10, <1>11 DEF ScriptStep

LEMMA SmokeNext == TrialType /\ SmokeInv /\ [TrialNext]_trialVars => SmokeInv'
<1> SUFFICES ASSUME TrialType, SmokeInv, [TrialNext]_trialVars PROVE SmokeInv'
  OBVIOUS
<1>1. CASE ScriptStep("trial")
  <2>1. /\ at'["smoke"] = at["smoke"] /\ pull'["smoke"] = pull["smoke"]
        /\ ingress'["smoke"] = ingress["smoke"] /\ found'["smoke"] = found["smoke"]
        /\ evidence'["smoke"] = evidence["smoke"] /\ unsettled'["smoke"] = unsettled["smoke"]
        /\ SmokeRecords' \subseteq SmokeRecords
    BY <1>1, TrialLeavesTheSmoke
  <2>2. SmokeCleared => SmokeCleared'
    BY <2>1 DEF SmokeCleared
  <2> QED BY <2>1, <2>2 DEF SmokeInv
<1>2. CASE UNCHANGED trialVars
  BY <1>2 DEF trialVars, SmokeInv, SmokeCleared, SmokeRecords
<1> QED BY <1>1, <1>2, SmokeStep DEF TrialNext, Scripts

\* A smoke that says nothing remains is right when the ingress was done at the listing
\* and every record could be read, whatever the trial and the ingress do meanwhile.
THEOREM CleanSmokeEvidence == TrialSpec => []CleanSmokeEvidenceIsTrue
<1>1. TrialInit => SmokeInv
  <2> SUFFICES ASSUME TrialInit PROVE SmokeInv
    OBVIOUS
  <2>1. ingress["smoke"] = "idle" /\ at["smoke"] = "verify" /\ evidence["smoke"].written = FALSE
    BY DEF TrialInit, Scripts, None
  <2>2. SmokeRecords = {}
    <3>1. \A r \in kv : r.owner = "other"
      BY RecordsAre DEF TrialInit, Foreign, Scripts, Owners, RecordKinds
    <3> QED BY <3>1 DEF SmokeRecords, RecordsOf
  <2> QED BY <2>1, <2>2 DEF SmokeInv, SmokeCleared
<1>2. SmokeInv => CleanSmokeEvidenceIsTrue
  BY DEF SmokeInv, SmokeCleared, SmokeRecords, CleanSmokeEvidenceIsTrue
<1> QED BY <1>1, <1>2, SmokeNext, TrialTypeAlways, PTL DEF TrialSpec
=============================================================================
