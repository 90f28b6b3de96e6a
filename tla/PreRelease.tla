------------------------------ MODULE PreRelease ------------------------------
(***************************************************************************)
(* The testers' half of the material workflow.  A run of pre-release turns   *)
(* the mails of the submission gate into tasks and retries the requests that  *)
(* were not sent.  A tester answers a task with create_request(), which takes *)
(* it through the product gate: import, test result, approval, final release, *)
(* and mails the request to the release gate.                                 *)
(*                                                                         *)
(* create_request() takes no lock.  It works on the copy of the task it has   *)
(* loaded and writes the whole copy back, once after each call of the product *)
(* gate, while a run or another tester may do the same.                       *)
(*                                                                         *)
(* A pass need not come from the submission gate: a mail without a signature *)
(* becomes a task as well, which is marked as unverified from there on to     *)
(* the notice of the release gate.                                           *)
(***************************************************************************)
EXTENDS SubmissionGate

CONSTANTS
    Testers,    \* the processes in which create_request() runs
    Inputs,     \* the inputs a tester may give with a PASS: the output directory, the report
    Unsigned,   \* bound: the rounds of which a person mails a pass
    Claimed     \* bound: the manifests such a mail may bring, 0 for none

ASSUME PreAssumption ==
    /\ Inputs \subseteq Nat \ {0}
    /\ Unsigned \subseteq Rounds
    /\ Claimed \subseteq Nat

VARIABLES
    task,       \* task[r]: the task file of round r
    op,         \* op[t]: the create_request() call of tester t
    preRun,     \* the run of pre-release
    product,    \* the event of the product gate, which is imported once for all rounds
    output,     \* output[r]: the output directories of round r that exist
    requests    \* the mails in the mailbox of the release gate

preVars == <<task, op, preRun, product, output, requests>>

\* manifest: 0 without one.  origin: whether the pass was signed by the submission gate.
\* intent: the inputs of the PASS that is frozen, or 0.
NoTask == [status |-> "none", manifest |-> 0, origin |-> FALSE, intent |-> 0]
NoOp == [at |-> "idle", round |-> 0, copy |-> NoTask]
NoPreRun == [at |-> "idle", round |-> 0, copy |-> NoTask]
\* final: the output directory of Manifest-R.
NoProduct == [status |-> "none", round |-> 0, manifest |-> 0, final |-> 0]

\* The signed request of a tester, which says where the task is from, and the mail a
\* person writes instead: it names a round, and no manifest that anybody vouches for.
SignedRequest(r, copy) ==
    [round |-> r, manifest |-> copy.manifest, verified |-> TRUE, origin |-> copy.origin]
PlainRequest(r) == [round |-> r, manifest |-> 0, verified |-> FALSE, origin |-> FALSE]

OpGoto(t, place) == op' = [op EXCEPT ![t].at = place]
OpEnds(t) == op' = [op EXCEPT ![t] = NoOp]

\* _save_task(): the file becomes the copy with the new status, and so does the copy.
Save(t, status, place) ==
    LET copy == [op[t].copy EXCEPT !.status = status]
    IN  /\ task' = [task EXCEPT ![op[t].round] = copy]
        /\ op' = [op EXCEPT ![t] = IF place = "idle" THEN NoOp
                                   ELSE [@ EXCEPT !.at = place, !.copy = copy]]

(***************************************************************************)
(* create_request()                                                         *)
(***************************************************************************)
\* Where a call with a frozen PASS goes on: a request that is ready is only sent.
AfterIntent(copy) == IF copy.status = "PRERELEASE_GATE_RUNNING" THEN "send" ELSE "import"

\* A sent task is only reported.  A PASS needs a manifest and, once a PASS is frozen, the
\* same inputs; a FAIL is refused then.
LoadTask(t) ==
    /\ op[t].at = "idle"
    /\ \E r \in Rounds :
          /\ task[r].status \notin {"none", "PRERELEASE_SENT"}
          /\ \/ /\ task[r].intent = 0
                /\ op' = [op EXCEPT ![t] = [at |-> "fail", round |-> r, copy |-> task[r]]]
             \/ /\ task[r].manifest # 0 /\ task[r].intent # 0
                /\ op' = [op EXCEPT ![t] = [at |-> AfterIntent(task[r]), round |-> r,
                                            copy |-> task[r]]]
             \/ /\ task[r].manifest # 0 /\ task[r].intent = 0
                /\ \E i \in Inputs :
                      op' = [op EXCEPT ![t] = [at |-> "freeze", round |-> r,
                                               copy |-> [task[r] EXCEPT !.intent = i]]]
    /\ UNCHANGED <<task, preRun, product, output, requests>>

RecordFailure(t) ==
    /\ \/ op[t].at = "fail" /\ Save(t, "TESTING", "failed")
       \/ op[t].at = "failed" /\ Save(t, "TEST_FAILED", "idle")
    /\ UNCHANGED <<preRun, product, output, requests>>

FreezeIntent(t) ==
    /\ op[t].at = "freeze"
    /\ task' = [task EXCEPT ![op[t].round] = op[t].copy]
    /\ OpGoto(t, AfterIntent(op[t].copy))
    /\ UNCHANGED <<preRun, product, output, requests>>

\* What create_request() does with the status the product gate answers.
AfterStatus(status) ==
    CASE status = "TESTING" -> "testing"
      [] status = "TEST_APPROVAL_REQUIRED" -> "approval"
      [] status \in {"RELEASE_PREPARING", "RELEASE_GATING"} -> "passed"
      [] OTHER -> "block"

\* import_submission_gate_handoff(): the event is created, or found with the same round
\* and manifest.
Import(t) ==
    LET r == op[t].round
        new == [NoProduct EXCEPT !.status = "TESTING", !.round = r,
                                 !.manifest = op[t].copy.manifest]
        found == [product EXCEPT !.round = r, !.manifest = op[t].copy.manifest]
    IN  /\ op[t].at = "import"
        /\ product.status = "none" \/ product = found
        /\ product' = IF product.status = "none" THEN new ELSE product
        /\ OpGoto(t, AfterStatus(product'.status))
        /\ UNCHANGED <<task, preRun, output, requests>>

\* The event conflicts, the tested material differs or the call fails.
ImportRefused(t) ==
    /\ op[t].at = "import"
    /\ OpGoto(t, "block")
    /\ UNCHANGED <<task, preRun, product, output, requests>>

\* Bug: the request is ready before what it asks for is built.
SaveReadyFirst(t) ==
    /\ \/ op[t].at = "testing" /\ Save(t, "TESTING", "record")
       \/ op[t].at = "approval" /\ Save(t, "TEST_APPROVAL_REQUIRED", "idle")
       \/ op[t].at = "block" /\ Save(t, "PRERELEASE_BLOCKED", "idle")
       \/ op[t].at = "passed" /\ Save(t, "PRERELEASE_GATE_RUNNING", "build")
       \/ op[t].at = "built" /\ OpGoto(t, "send") /\ UNCHANGED task
       \/ op[t].at = "sent" /\ Save(t, "PRERELEASE_SENT", "idle")
    /\ UNCHANGED <<preRun, product, output, requests>>

\* The saves between the calls.
SaveProgress(t) ==
    /\ \/ op[t].at = "testing" /\ Save(t, "TESTING", "record")
       \/ op[t].at = "approval" /\ Save(t, "TEST_APPROVAL_REQUIRED", "idle")
       \/ op[t].at = "block" /\ Save(t, "PRERELEASE_BLOCKED", "idle")
       \/ op[t].at = "passed" /\ Save(t, "TEST_PASSED", "build")
       \/ op[t].at = "built" /\ Save(t, "PRERELEASE_GATE_RUNNING", "send")
       \/ op[t].at = "sent" /\ Save(t, "PRERELEASE_SENT", "idle")
    /\ UNCHANGED <<preRun, product, output, requests>>

\* record_test_result(): the policy approves the risk level, or a person has to.
RecordTestResult(t) ==
    /\ op[t].at = "record"
    /\ product.status = "TESTING"
    /\ \E status \in {"RELEASE_PREPARING", "TEST_APPROVAL_REQUIRED"} :
          /\ product' = [product EXCEPT !.status = status]
          /\ OpGoto(t, AfterStatus(status))
    /\ UNCHANGED <<task, preRun, output, requests>>

\* build_final_release(): the directory is published first, the event saved after it;
\* the release of an event that is saved is only verified again, in its directory.
Directory(t) == op[t].copy.intent
BuildsAnew(t) == product.status = "RELEASE_PREPARING" /\ Directory(t) \notin output[op[t].round]
Replays(t) == /\ product.status = "RELEASE_GATING"
              /\ product.final = Directory(t) /\ Directory(t) \in output[op[t].round]

PublishFinal(t) ==
    /\ op[t].at = "build"
    /\ BuildsAnew(t)
    /\ output' = [output EXCEPT ![op[t].round] = @ \cup {Directory(t)}]
    /\ OpGoto(t, "published")
    /\ UNCHANGED <<task, preRun, product, requests>>

SaveFinal(t) ==
    /\ op[t].at = "published"
    /\ product' = [product EXCEPT !.status = "RELEASE_GATING", !.final = Directory(t)]
    /\ OpGoto(t, "built")
    /\ UNCHANGED <<task, preRun, output, requests>>

ReplayFinal(t) ==
    /\ op[t].at = "build"
    /\ Replays(t)
    /\ OpGoto(t, "built")
    /\ UNCHANGED <<task, preRun, product, output, requests>>

\* The product gate refuses to record or to build in this state of the event, or finds
\* an output directory that another build has left: the call ends where it is.
ProductRefuses(t) ==
    /\ \/ op[t].at = "record" /\ product.status # "TESTING"
       \/ op[t].at = "build" /\ ~ BuildsAnew(t) /\ ~ Replays(t)
    /\ OpEnds(t)
    /\ UNCHANGED <<task, preRun, product, output, requests>>

SendRequest(t) ==
    /\ op[t].at = "send"
    /\ requests' = requests \cup {SignedRequest(op[t].round, op[t].copy)}
    /\ OpGoto(t, "sent")
    /\ UNCHANGED <<task, preRun, product, output>>

\* The process dies, a call of the product gate times out or the mail is refused.
OpDies(t) ==
    /\ op[t].at # "idle"
    /\ Fault
    /\ OpEnds(t)
    /\ UNCHANGED <<task, preRun, product, output, requests>>

\* record_test_approval(), by an approver.
TestApproval ==
    /\ product.status = "TEST_APPROVAL_REQUIRED"
    /\ \E status \in {"RELEASE_PREPARING", "SUBMISSION_BLOCKED"} :
          product' = [product EXCEPT !.status = status]
    /\ UNCHANGED <<task, op, preRun, output, requests>>

(***************************************************************************)
(* run_once() of pre-release                                                *)
(***************************************************************************)
\* Bug: a run only retries what the submission gate vouches for.
RetrySigned(r) ==
    /\ preRun.at = "idle"
    /\ task[r].status = "PRERELEASE_GATE_RUNNING"
    /\ task[r].origin
    /\ preRun' = [at |-> "send", round |-> r, copy |-> task[r]]
    /\ UNCHANGED <<task, op, product, output, requests>>

\* A request that waits is sent from the copy that is read now.
RetryRequest(r) ==
    /\ preRun.at = "idle"
    /\ task[r].status = "PRERELEASE_GATE_RUNNING"
    /\ preRun' = [at |-> "send", round |-> r, copy |-> task[r]]
    /\ UNCHANGED <<task, op, product, output, requests>>

RetrySends ==
    /\ preRun.at = "send"
    /\ requests' = requests \cup {SignedRequest(preRun.round, preRun.copy)}
    /\ preRun' = [preRun EXCEPT !.at = "sent"]
    /\ UNCHANGED <<task, op, product, output>>

RetrySaves ==
    /\ preRun.at = "sent"
    /\ task' = [task EXCEPT ![preRun.round] = [preRun.copy EXCEPT !.status = "PRERELEASE_SENT"]]
    /\ preRun' = NoPreRun
    /\ UNCHANGED <<op, product, output, requests>>

\* _store_submission_message(): the first mail of a round becomes its task.
Store(r, manifest, origin) ==
    /\ preRun.at = "idle"
    /\ task[r].status = "none"
    /\ task' = [task EXCEPT ![r] = [status |-> "TEST_READY", manifest |-> manifest,
                                    origin |-> origin, intent |-> 0]]
    /\ UNCHANGED <<op, preRun, product, output, requests>>

StoreTask(r) == \E m \in passMails[r] : Store(r, m, TRUE)

\* A mail nobody has signed: an event with any manifest that agrees with itself, whether or
\* not a job has passed it, or a text a person wrote, without a manifest.
StorePlainTask(r) ==
    /\ r \in Unsigned
    /\ \E m \in Claimed : Store(r, m, FALSE)

\* The run dies, or the mail is refused.
PreRunDies ==
    /\ preRun.at # "idle"
    /\ Fault
    /\ preRun' = NoPreRun
    /\ UNCHANGED <<task, op, product, output, requests>>

PreInit ==
    /\ task = [r \in Rounds |-> NoTask]
    /\ op = [t \in Testers |-> NoOp]
    /\ preRun = NoPreRun
    /\ product = NoProduct
    /\ output = [r \in Rounds |-> {}]
    /\ requests = {}

\* What a run does about the requests and the mails that are waiting.
PreRunStep ==
    \/ RetrySends \/ RetrySaves
    \/ \E r \in Rounds : RetryRequest(r) \/ StoreTask(r)

\* A step of pre-release that needs no fault.
PreStep ==
    \/ \E t \in Testers :
          \/ LoadTask(t) \/ RecordFailure(t) \/ FreezeIntent(t) \/ Import(t) \/ ImportRefused(t)
          \/ SaveProgress(t) \/ RecordTestResult(t) \/ PublishFinal(t) \/ SaveFinal(t)
          \/ ReplayFinal(t) \/ ProductRefuses(t) \/ SendRequest(t)
    \/ TestApproval \/ PreRunStep
    \/ \E r \in Rounds : StorePlainTask(r)

PreFault == (\E t \in Testers : OpDies(t)) \/ PreRunDies

\* The scheduler starts a run after the other.
PreFairness == WF_preVars(PreRunStep)

Statuses == {"none", "TEST_READY", "TESTING", "TEST_FAILED", "TEST_APPROVAL_REQUIRED",
             "PRERELEASE_BLOCKED", "TEST_PASSED", "PRERELEASE_GATE_RUNNING", "PRERELEASE_SENT"}
TaskFiles == [status : Statuses, manifest : Nat, origin : BOOLEAN, intent : Inputs \cup {0}]
OpPlaces == {"idle", "fail", "failed", "freeze", "import", "testing", "record", "approval",
             "passed", "block", "build", "published", "built", "send", "sent"}
OpStates == [at : OpPlaces, round : Rounds \cup {0}, copy : TaskFiles]
ProductStatuses == {"none", "TESTING", "TEST_APPROVAL_REQUIRED", "SUBMISSION_BLOCKED",
                    "RELEASE_PREPARING", "RELEASE_GATING", "RELEASE_READY", "RELEASE_BLOCKED"}

\* Every variable has its type.
PreTypeOK ==
    /\ task \in [Rounds -> TaskFiles]
    /\ op \in [Testers -> OpStates]
    /\ preRun \in [at : {"idle", "send", "sent"}, round : Rounds \cup {0}, copy : TaskFiles]
    /\ product \in [status : ProductStatuses, round : Rounds \cup {0}, manifest : Nat,
                    final : Inputs \cup {0}]
    /\ output \in [Rounds -> SUBSET Inputs]
    /\ requests \subseteq [round : Rounds, manifest : Nat, verified : BOOLEAN, origin : BOOLEAN]
=============================================================================
