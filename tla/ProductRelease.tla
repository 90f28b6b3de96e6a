--------------------------- MODULE ProductRelease ---------------------------
(***************************************************************************)
(* The product release gate takes one event from the approval of its roles  *)
(* through three stages of deployment, the readback of production and the   *)
(* delivery of the report.                                                  *)
(*                                                                         *)
(* A run loads the event file, works on its copy, and saves the copy at the *)
(* end of an operation: what happened in between survives a death of the    *)
(* run only in the signed receipts beside it.  It deploys through the       *)
(* adapter of FilesystemRelease, one process per operation, which it kills  *)
(* when it takes too long and which goes on alone when the run dies.  Each  *)
(* stage has a target of its own.                                           *)
(***************************************************************************)
EXTENDS FilesystemRelease, Sequences

CONSTANTS
    MaxDeaths,    \* bound on the runs that die
    MaxChanges    \* bound on the changes of the approval and the losses of an adapter

\* REQUIRED_DEPLOYMENT_STAGES, and the status before each stage and after the last.
Stages == <<"preproduction", "production_canary", "production_full">>
Checkpoints == <<"RELEASE_AUTHORIZED", "PREPRODUCTION_VERIFIED", "CANARY_VERIFIED",
                 "PRODUCTION_DEPLOYED">>
Full == Stages[3]

ASSUME GateAssumption ==
    /\ Deployments = {Stages[i] : i \in 1..3}
    /\ Targets = Deployments
    /\ \A d \in Deployments : TargetOf[d] = d
    /\ {MaxDeaths, MaxChanges} \subseteq Nat

VARIABLES
    approval,    \* aggregate_status of the approvals, as the verifier gives it
    credential,  \* the authorization credential: none, valid or expired
    event,       \* the event file
    receipts,    \* the stages with a signed receipt
    readback,    \* the receipt of the production readback: none, PASS or BLOCKED
    report,      \* the production report: none, its text only, or sealed
    delivery,    \* what is on disk of its delivery: the attempt, the SMTP and the IMAP receipt
    mails,       \* how often the report was mailed
    gate,        \* the run that holds the lock
    deaths,
    changes

evidence == <<receipts, readback, report, delivery, mails>>
world == <<approval, credential, changes>>
gateVars == <<world, event, evidence, gate, deaths>>
vars == <<gateVars, adapterVars>>

\* copy: the event as the run has it.  op: the operation of the adapter it waits for.
Idle == [at |-> "idle", stage |-> 0, copy |-> event, op |-> "none"]
Done == gate' = [Idle EXCEPT !.copy = event']
Proceed(place) == gate' = [gate EXCEPT !.at = place]

Stage == Stages[gate.stage]
Save(status) == event' = [gate.copy EXCEPT !.status = status]

Approved == approval = "APPROVAL_VERIFIED"
Active(e) == e.auth = "APPROVED" /\ credential = "valid"

(***************************************************************************)
(* The world: the roles change their minds, the credential runs out.        *)
(***************************************************************************)
ApprovalChanges ==
    /\ changes < MaxChanges
    /\ changes' = changes + 1
    /\ approval' \in {"APPROVAL_VERIFIED", "APPROVAL_PAUSED", "APPROVAL_EXPIRED"} \ {approval}
    /\ approval # "APPROVAL_EXPIRED"
    /\ UNCHANGED <<credential, event, evidence, gate, deaths, adapterVars>>

CredentialExpires ==
    /\ credential = "valid"
    /\ credential' = "expired"
    /\ UNCHANGED <<approval, changes, event, evidence, gate, deaths, adapterVars>>

(***************************************************************************)
(* From the approval to the authorization                                   *)
(***************************************************************************)
\* record_unified_release_approval(), for a handoff in the inbox.
RecordApproval ==
    /\ gate.at = "idle"
    /\ event.status \in {"APPROVAL_COLLECTING", "APPROVAL_PAUSED"}
    /\ event' = [event EXCEPT !.status = IF Approved THEN "PRE_RELEASE_REQUESTED" ELSE approval]
    /\ Done
    /\ UNCHANGED <<world, evidence, deaths, adapterVars>>

\* request_release_authorization()
RequestAuthorization ==
    /\ gate.at = "idle"
    /\ event.status = "PRE_RELEASE_REQUESTED"
    /\ Approved
    /\ event' = [event EXCEPT !.status = "RELEASE_AUTHORIZATION_REQUIRED", !.auth = "PENDING"]
    /\ Done
    /\ UNCHANGED <<world, evidence, deaths, adapterVars>>

\* _issue_release_authorization(): the credential is written before the event.
IssueAuthorization ==
    /\ gate.at = "idle"
    /\ event.status = "RELEASE_AUTHORIZATION_REQUIRED"
    /\ Approved
    /\ credential' = "valid"
    /\ event' \in {event, [event EXCEPT !.status = "RELEASE_AUTHORIZED", !.auth = "APPROVED"]}
    /\ deaths' = IF event' = event THEN deaths + 1 ELSE deaths
    /\ deaths' <= MaxDeaths
    /\ Done
    /\ UNCHANGED <<approval, changes, evidence, adapterVars>>

\* finalize_verified_release_authorization() after the roles changed their minds; a
\* request that has expired is an error that changes nothing.
BlockAuthorization ==
    /\ gate.at = "idle"
    /\ event.status = "RELEASE_AUTHORIZATION_REQUIRED"
    /\ approval = "APPROVAL_PAUSED"
    /\ event' = [event EXCEPT !.status = "RELEASE_BLOCKED", !.auth = "BLOCKED"]
    /\ Done
    /\ UNCHANGED <<world, evidence, deaths, adapterVars>>

(***************************************************************************)
(* run_deployment_stage()                                                   *)
(***************************************************************************)
\* Bug: a stage that has its receipt is taken for one that is done.
LoadUncompleted ==
    /\ gate.at = "idle"
    /\ \E i \in 1..3 :
          /\ event.status = Checkpoints[i]
          /\ Stages[i] \notin receipts
          /\ gate' = [at |-> "check", stage |-> i, copy |-> event, op |-> "none"]
    /\ UNCHANGED <<world, event, evidence, deaths, adapterVars>>

LoadStage ==
    /\ gate.at = "idle"
    /\ \E i \in 1..3 :
          /\ event.status = Checkpoints[i]
          /\ gate' = [at |-> "check", stage |-> i, copy |-> event, op |-> "none"]
    /\ UNCHANGED <<world, event, evidence, deaths, adapterVars>>

\* _verify_authorization_credential(): an error that changes nothing.
CredentialRefused ==
    /\ gate.at \in {"check", "recheck"}
    /\ ~ Active(gate.copy)
    /\ UNCHANGED event
    /\ Done
    /\ UNCHANGED <<world, evidence, deaths, adapterVars>>

\* _revoke_authorization_after_approval_change() saves the event at once.
Revoke ==
    /\ Active(gate.copy)
    /\ ~ Approved
    /\ event' = [gate.copy EXCEPT !.status = "RELEASE_BLOCKED", !.auth = "BLOCKED"]

StageRevoked ==
    /\ gate.at \in {"check", "recheck"}
    /\ Revoke
    /\ Done
    /\ UNCHANGED <<world, evidence, deaths, adapterVars>>

\* The stage was completed before, by a run that died before it saved the event.
RecoverStage ==
    /\ gate.at = "check"
    /\ Active(gate.copy) /\ Approved
    /\ Stage \in receipts
    /\ Save(Checkpoints[gate.stage + 1])
    /\ Done
    /\ UNCHANGED <<world, evidence, deaths, adapterVars>>

CheckStage ==
    /\ gate.at = "check"
    /\ Active(gate.copy) /\ Approved
    /\ Stage \notin receipts
    /\ Proceed("capability")
    /\ UNCHANGED <<world, event, evidence, deaths, adapterVars>>

\* ensure_deployment_capabilities(): the adapters are in place.
CapabilityReady ==
    /\ gate.at = "capability"
    /\ gate' = [gate EXCEPT !.at = "recheck", !.copy = event]
    /\ UNCHANGED <<world, event, evidence, deaths, adapterVars>>

\* The checkpoint the event came from; that of an earlier block is used again.
OriginOf(e) == IF e.origin # "none" THEN e.origin ELSE e.status

CapabilityMissing ==
    /\ gate.at = "capability"
    /\ changes < MaxChanges
    /\ changes' = changes + 1
    /\ event' = [event EXCEPT !.status = "CAPABILITY_BLOCKED", !.origin = OriginOf(event)]
    /\ Done
    /\ UNCHANGED <<approval, credential, evidence, deaths, adapterVars>>

CapabilityRestored ==
    /\ gate.at = "idle"
    /\ event.status = "CAPABILITY_BLOCKED"
    /\ event' = [event EXCEPT !.status = event.origin]
    /\ Done
    /\ UNCHANGED <<world, evidence, deaths, adapterVars>>

Recheck ==
    /\ gate.at = "recheck"
    /\ Active(gate.copy) /\ Approved
    /\ Proceed("deploy")
    /\ UNCHANGED <<world, event, evidence, deaths, adapterVars>>

(***************************************************************************)
(* _run_json_adapter(): the adapter is started, and answers or not.         *)
(***************************************************************************)
\* A place from which the gate calls the adapter, the operation, and its target.
Called == [deploy |-> "deploy", verify |-> "verify", rollback |-> "rollback",
           rollback_verify |-> "verify_rollback", readback |-> "readback"]

Call ==
    /\ gate.at \in DOMAIN Called
    /\ Begin(Called[gate.at], Stage)
    /\ gate' = [gate EXCEPT !.at = "await", !.op = gate.at]
    /\ UNCHANGED <<world, event, evidence, deaths>>

Awaits(t) == gate.at = "await" /\ Stage = t

\* The adapter said PASS, and the answer is about this release.
AnsweredPass(op) ==
    /\ gate.at = "await" /\ gate.op = op
    /\ call[Stage].at = "PASS"
    /\ Return(Stage)

\* The adapter failed, was killed by the timeout, or did not get the lock in time.
AnsweredFail(op) ==
    \/ /\ gate.at = "await" /\ gate.op = op
       /\ \/ call[Stage].at = "FAIL" /\ Return(Stage)
          \/ call[Stage] = NoCall /\ UNCHANGED adapterVars
    \/ /\ gate.at = op
       /\ call[Stage] # NoCall
       /\ UNCHANGED adapterVars

Deployed ==
    /\ AnsweredPass("deploy")
    /\ Proceed("verify")
    /\ UNCHANGED <<world, event, evidence, deaths>>

\* Without the references that a deployment returns there is nothing to roll back with.
DeployFailed ==
    /\ AnsweredFail("deploy")
    /\ Proceed("rollback_failed")
    /\ UNCHANGED <<world, event, evidence, deaths>>

Verified ==
    /\ AnsweredPass("verify")
    /\ receipts' = receipts \cup {Stage}
    /\ Proceed("commit")
    /\ UNCHANGED <<world, event, readback, report, delivery, mails, deaths>>

VerifyFailed ==
    /\ AnsweredFail("verify")
    /\ Proceed("rollback")
    /\ UNCHANGED <<world, event, evidence, deaths>>

CommitStage ==
    /\ gate.at = "commit"
    /\ Save(Checkpoints[gate.stage + 1])
    /\ Done
    /\ UNCHANGED <<world, evidence, deaths, adapterVars>>

(***************************************************************************)
(* _rollback_stage()                                                        *)
(***************************************************************************)
\* Bug: what the rollback says is not verified.
RolledBackUnverified ==
    /\ AnsweredPass("rollback") \/ AnsweredFail("rollback")
    /\ Proceed("rolled_back")
    /\ UNCHANGED <<world, event, evidence, deaths>>

RolledBack ==
    /\ AnsweredPass("rollback")
    /\ Proceed("rollback_verify")
    /\ UNCHANGED <<world, event, evidence, deaths>>

RollbackVerified ==
    /\ AnsweredPass("rollback_verify")
    /\ Proceed("rolled_back")
    /\ UNCHANGED <<world, event, evidence, deaths>>

RollbackFailed ==
    /\ AnsweredFail("rollback") \/ AnsweredFail("rollback_verify")
    /\ Proceed("rollback_failed")
    /\ UNCHANGED <<world, event, evidence, deaths>>

CommitRollback ==
    /\ gate.at \in {"rolled_back", "rollback_failed"}
    /\ Save(IF gate.at = "rolled_back" THEN "ROLLED_BACK" ELSE "ROLLBACK_FAILED")
    /\ Done
    /\ UNCHANGED <<world, evidence, deaths, adapterVars>>

(***************************************************************************)
(* run_production_readback()                                                *)
(***************************************************************************)
LoadReadback ==
    /\ gate.at = "idle"
    /\ event.status = "PRODUCTION_DEPLOYED"
    /\ gate' = [at |-> "precheck", stage |-> 3, copy |-> event, op |-> "none"]
    /\ UNCHANGED <<world, event, evidence, deaths, adapterVars>>

\* Bug: without a credential the run ends here, as that of a stage does.
PrecheckRefused ==
    /\ gate.at = "precheck"
    /\ ~ Active(gate.copy)
    /\ UNCHANGED event
    /\ Done
    /\ UNCHANGED <<world, evidence, deaths, adapterVars>>

\* The credential has expired: the copy is blocked, and saved with the rollback.
PrecheckFailed ==
    /\ gate.at = "precheck"
    /\ ~ Active(gate.copy)
    /\ gate' = [gate EXCEPT !.at = "rollback", !.copy.auth = "BLOCKED"]
    /\ UNCHANGED <<world, event, evidence, deaths, adapterVars>>

\* The approval was withdrawn: the event is saved, and saved again with the rollback.
PrecheckRevoked ==
    /\ gate.at = "precheck"
    /\ Revoke
    /\ gate' = [gate EXCEPT !.at = "rollback", !.copy = event']
    /\ UNCHANGED <<world, evidence, deaths, adapterVars>>

Prechecked ==
    /\ gate.at = "precheck"
    /\ Active(gate.copy) /\ Approved

\* Bug: a receipt that is there is taken for one that passed.
RecoverAnyReadback ==
    /\ Prechecked
    /\ readback # "none"
    /\ Save("PRODUCTION_VERIFIED")
    /\ Done
    /\ UNCHANGED <<world, evidence, deaths, adapterVars>>

\* A receipt of a run that died: one that passed is the result, a mismatch is an error.
RecoverReadback ==
    /\ Prechecked
    /\ readback # "none"
    /\ IF readback = "PASS" THEN Save("PRODUCTION_VERIFIED") ELSE UNCHANGED event
    /\ Done
    /\ UNCHANGED <<world, evidence, deaths, adapterVars>>

StartReadback ==
    /\ Prechecked
    /\ readback = "none"
    /\ Proceed("readback")
    /\ UNCHANGED <<world, event, evidence, deaths, adapterVars>>

ReadbackMatched ==
    /\ AnsweredPass("readback")
    /\ readback' = "PASS"
    /\ Proceed("commit_readback")
    /\ UNCHANGED <<world, event, receipts, report, delivery, mails, deaths>>

ReadbackMismatched ==
    /\ AnsweredFail("readback")
    /\ readback' = "BLOCKED"
    /\ Proceed("rollback")
    /\ UNCHANGED <<world, event, receipts, report, delivery, mails, deaths>>

CommitReadback ==
    /\ gate.at = "commit_readback"
    /\ Save("PRODUCTION_VERIFIED")
    /\ Done
    /\ UNCHANGED <<world, evidence, deaths, adapterVars>>

(***************************************************************************)
(* generate_production_report() and deliver_production_report()             *)
(***************************************************************************)
Completed == gate.at = "idle" /\ event.status = "PRODUCTION_VERIFIED"

\* The text, its receipt and the event are written one after the other.
WriteReport ==
    /\ Completed
    /\ report = "none"
    /\ report' = "text"
    /\ gate' = [Idle EXCEPT !.at = "report"]
    /\ UNCHANGED <<world, event, receipts, readback, delivery, mails, deaths, adapterVars>>

SealReport ==
    /\ gate.at = "report"
    /\ report' = "sealed"
    /\ Proceed("commit_report")
    /\ UNCHANGED <<world, event, receipts, readback, delivery, mails, deaths, adapterVars>>

\* Also for a receipt that a run left; a text without its receipt is an error.
CommitReport ==
    /\ \/ gate.at = "commit_report"
       \/ Completed /\ report = "sealed" /\ ~ event.reported
    /\ event' = [event EXCEPT !.reported = TRUE]
    /\ Done
    /\ UNCHANGED <<world, evidence, deaths, adapterVars>>

\* Bug: an attempt that was not accepted is made again.
AttemptAgain ==
    /\ Completed
    /\ event.reported
    /\ "smtp" \notin delivery /\ "receipt" \notin delivery
    /\ delivery' = delivery \cup {"attempt"}
    /\ gate' = [Idle EXCEPT !.at = "send"]
    /\ UNCHANGED <<world, event, receipts, readback, report, mails, deaths, adapterVars>>

\* The attempt is on disk before the mail is sent, and there is no second one.
AttemptDelivery ==
    /\ Completed
    /\ event.reported
    /\ delivery = {}
    /\ delivery' = {"attempt"}
    /\ gate' = [Idle EXCEPT !.at = "send"]
    /\ UNCHANGED <<world, event, receipts, readback, report, mails, deaths, adapterVars>>

\* The server takes the mail and says so, or what it did with it stays unknown.
SendReport ==
    /\ gate.at = "send"
    /\ \/ mails' = mails + 1 /\ Proceed("smtp")
       \/ mails' \in {mails, mails + 1} /\ gate' = Idle
    /\ UNCHANGED <<world, event, receipts, readback, report, delivery, deaths, adapterVars>>

RecordAccepted ==
    /\ gate.at = "smtp"
    /\ delivery' = delivery \cup {"smtp"}
    /\ Proceed("find")
    /\ UNCHANGED <<world, event, receipts, readback, report, mails, deaths, adapterVars>>

\* The mail is looked for by its Message-ID, in this run or in a later one; to find two
\* of them is an error.
FindReport ==
    /\ \/ gate.at = "find"
       \/ Completed /\ delivery # {} /\ "receipt" \notin delivery
    /\ mails = 1
    /\ delivery' = delivery \cup {"receipt"}
    /\ gate' = [Idle EXCEPT !.at = "commit_delivery"]
    /\ UNCHANGED <<world, event, receipts, readback, report, mails, deaths, adapterVars>>

\* The mail has not arrived yet.
ReportPending ==
    /\ gate.at = "find"
    /\ gate' = Idle
    /\ UNCHANGED <<world, event, evidence, deaths, adapterVars>>

CommitDelivery ==
    /\ \/ gate.at = "commit_delivery"
       \/ Completed /\ "receipt" \in delivery /\ ~ event.delivered
    /\ event' = [event EXCEPT !.delivered = TRUE]
    /\ Done
    /\ UNCHANGED <<world, evidence, deaths, adapterVars>>

(***************************************************************************)
(* The run dies; the adapter it called goes on without it.                  *)
(***************************************************************************)
GateDies ==
    /\ gate.at # "idle"
    /\ deaths < MaxDeaths
    /\ deaths' = deaths + 1
    /\ gate' = Idle
    /\ UNCHANGED <<world, event, evidence, adapterVars>>

AdapterStep(t) == OperationStep(t) /\ UNCHANGED gateVars

OrphanEnds(t) == ~ Awaits(t) /\ Return(t) /\ UNCHANGED gateVars

AdapterKilled(t) == Kill(t) /\ UNCHANGED gateVars

ReleaseDamaged(d) == Damage(d) /\ UNCHANGED gateVars

Init ==
    /\ AdapterInit
    /\ approval = "APPROVAL_VERIFIED"
    /\ credential = "none"
    /\ event = [status |-> "APPROVAL_COLLECTING", auth |-> "none", origin |-> "none",
                reported |-> FALSE, delivered |-> FALSE]
    /\ receipts = {} /\ readback = "none" /\ report = "none" /\ delivery = {} /\ mails = 0
    /\ gate = Idle
    /\ deaths = 0 /\ changes = 0

AuthorizationStep ==
    RecordApproval \/ RequestAuthorization \/ IssueAuthorization \/ BlockAuthorization

StageStep ==
    \/ LoadStage \/ CredentialRefused \/ StageRevoked \/ RecoverStage \/ CheckStage
    \/ CapabilityReady \/ CapabilityMissing \/ CapabilityRestored \/ Recheck \/ Call
    \/ Deployed \/ DeployFailed \/ Verified \/ VerifyFailed \/ CommitStage
    \/ RolledBack \/ RollbackVerified \/ RollbackFailed \/ CommitRollback

ReadbackStep ==
    \/ LoadReadback \/ PrecheckFailed \/ PrecheckRevoked \/ RecoverReadback \/ StartReadback
    \/ ReadbackMatched \/ ReadbackMismatched \/ CommitReadback

ReportStep ==
    \/ WriteReport \/ SealReport \/ CommitReport \/ AttemptDelivery \/ SendReport
    \/ RecordAccepted \/ FindReport \/ ReportPending \/ CommitDelivery

GateStep == AuthorizationStep \/ StageStep \/ ReadbackStep \/ ReportStep

ReleaseNext ==
    \/ GateStep \/ GateDies \/ ApprovalChanges \/ CredentialExpires
    \/ \E t \in Targets :
          AdapterStep(t) \/ OrphanEnds(t) \/ AdapterKilled(t) \/ ReleaseDamaged(t)

ReleaseSpec == Init /\ [][ReleaseNext]_vars

\* The scheduler starts a run again and again, and an adapter that was started works.
FairSpec ==
    /\ ReleaseSpec
    /\ WF_vars(GateStep)
    /\ \A t \in Targets : WF_vars(AdapterStep(t)) /\ WF_vars(OrphanEnds(t))

(***************************************************************************)
(* Properties                                                               *)
(***************************************************************************)
Statuses == {Checkpoints[i] : i \in 1..4} \cup
    {"APPROVAL_COLLECTING", "APPROVAL_PAUSED", "APPROVAL_EXPIRED", "PRE_RELEASE_REQUESTED",
     "RELEASE_AUTHORIZATION_REQUIRED", "RELEASE_BLOCKED", "CAPABILITY_BLOCKED",
     "PRODUCTION_VERIFIED", "ROLLED_BACK", "ROLLBACK_FAILED"}
Events == [status : Statuses, auth : {"none", "PENDING", "APPROVED", "BLOCKED"},
           origin : {"none"} \cup {Checkpoints[i] : i \in 1..3},
           reported : BOOLEAN, delivered : BOOLEAN]

\* Every variable has its type.
GateTypeOK ==
    /\ AdapterTypeOK
    /\ approval \in {"APPROVAL_VERIFIED", "APPROVAL_PAUSED", "APPROVAL_EXPIRED"}
    /\ credential \in {"none", "valid", "expired"}
    /\ event \in Events
    /\ receipts \subseteq Targets
    /\ readback \in {"none", "PASS", "BLOCKED"}
    /\ report \in {"none", "text", "sealed"}
    /\ delivery \subseteq {"attempt", "smtp", "receipt"}
    /\ mails \in Nat
    /\ gate.stage \in 0..3 /\ gate.copy \in Events
    /\ deaths \in 0..MaxDeaths /\ changes \in 0..MaxChanges

\* An event is verified only while its release is in production, with all its evidence.
VerifiedIsLive ==
    event.status = "PRODUCTION_VERIFIED" =>
        /\ receipts = Targets
        /\ readback = "PASS"
        /\ current[Full].ref = Full

\* An event that is rolled back has left a target as it was, and touched none behind it.
RolledBackIsRestored ==
    event.status = "ROLLED_BACK" =>
        \E i \in 1..3 :
            /\ rollback[Stages[i]].status = "COMPLETE"
            /\ current[Stages[i]] = Restored(Stages[i])
            /\ \A j \in (i + 1)..3 : record[Stages[j]].status = "none"

\* The report is mailed at most once, and delivered only when it was mailed.
ReportMailedOnce == mails <= 1 /\ (event.delivered => mails = 1)

\* A release that is authorized comes to an end while its credential is valid: it is
\* verified, rolled back or blocked, or it waits for an operator.
Settled ==
    \/ event.status \in {"PRODUCTION_VERIFIED", "ROLLED_BACK", "ROLLBACK_FAILED",
                         "RELEASE_BLOCKED"}
    \/ credential = "expired"
    \/ readback = "BLOCKED"
Settles == event.status = "RELEASE_AUTHORIZED" ~> Settled

\* A mismatch that a dead run left behind is not forgotten: once the credential has lapsed,
\* a later run of the readback starts the rollback the dead one did not come to.  Production
\* loses the release, unless the rollback fails or the withdrawn approval has blocked it.
MismatchEnds ==
    readback = "BLOCKED" /\ credential = "expired"
        ~> \/ current[Full].ref # Full
           \/ event.status \in {"ROLLBACK_FAILED", "RELEASE_BLOCKED"}

(***************************************************************************)
(* What the README says of a mismatch, whatever the credential.             *)
(***************************************************************************)
\* A mismatch of the readback brings the release out of production, or the event says
\* that this failed.  It does not hold when the run dies between the receipt and the
\* rollback: while the credential is valid, later runs end at the receipt with an error.
MismatchRollsBack ==
    readback = "BLOCKED" ~> current[Full].ref # Full \/ event.status = "ROLLBACK_FAILED"
=============================================================================
