---------------------------- MODULE SubmissionGate ----------------------------
(***************************************************************************)
(* The first half of the material workflow: test-submission mails a round   *)
(* of an event to the submission gate, which has it checked by a GitLab job *)
(* and mails the manifest of a pass on to the testers.                      *)
(*                                                                         *)
(* A run of the gate holds its run lock.  It retries the mails that are       *)
(* pending and takes every mail of the mailbox that has no terminal record.   *)
(* The job, the mail and the record are separate steps, so that a run that    *)
(* dies in between repeats the ones before.  Each file is read when its turn   *)
(* comes and the mailbox only grows, so a run is any sequence of these steps.  *)
(***************************************************************************)
EXTENDS Naturals, FiniteSets

CONSTANTS
    Rounds,      \* the rounds of the event that a mail may name
    Submitted,   \* bound: the rounds that are submitted
    MaxCopies,   \* bound on the mails of one round
    MaxJobs,     \* bound on the jobs that pass
    MaxFaults    \* bound on the deaths, refused mails and killed processes

ASSUME SubmissionAssumption ==
    /\ Rounds \subseteq Nat \ {0}
    /\ Submitted \subseteq Rounds
    /\ {MaxCopies, MaxJobs, MaxFaults} \subseteq Nat

VARIABLES
    submission,   \* submission[r]: the submitter's event file
    inbox,        \* inbox[r]: the mails of round r in the mailbox of the gate
    processed,    \* processed[r][i]: the record of the gate for mail i of round r
    pending,      \* pending[r]: the manifest in the pending-mail file, or 0
    passed,       \* passed[r]: the manifests of the jobs that passed
    passMails,    \* passMails[r]: the manifests mailed to the testers
    gateRun,      \* the run of the submission gate
    faults

submissionVars == <<submission, inbox, processed, pending, passed, passMails, gateRun>>

Mails == Rounds \X (1..MaxCopies)
Arrived == {m \in Mails : m[2] <= inbox[m[1]]}
Terminal(m) == processed[m[1]][m[2]] \in {"SUBMISSION_GATE_PASSED", "SEND_BLOCKED",
                                          "CAPABILITY_BLOCKED"}

\* mail, manifest: what the run is working on.
NoGateRun == [at |-> "idle", mail |-> <<0, 0>>, manifest |-> 0]
GateRound == gateRun.mail[1]
GateGoto(place) == gateRun' = [gateRun EXCEPT !.at = place]

Fault == faults < MaxFaults /\ faults' = faults + 1

Jobs == UNION {passed[r] : r \in Rounds}

(***************************************************************************)
(* test-submission: submit() and run_once()                                 *)
(***************************************************************************)
\* The mail is sent before the event file is written: it may be refused, or be sent
\* without a file, and then the submitter submits the round again.
Submit(r) ==
    /\ submission[r] = "none"
    /\ inbox[r] < MaxCopies
    /\ \/ /\ inbox' = [inbox EXCEPT ![r] = @ + 1]
          /\ submission' = [submission EXCEPT ![r] = "SUBMITTED"]
          /\ UNCHANGED faults
       \/ Fault /\ submission' = [submission EXCEPT ![r] = "SEND_BLOCKED"] /\ UNCHANGED inbox
       \/ Fault /\ inbox' = [inbox EXCEPT ![r] = @ + 1] /\ UNCHANGED submission
    /\ UNCHANGED <<processed, pending, passed, passMails, gateRun>>

Resubmit(r) ==
    /\ submission[r] = "SEND_BLOCKED"
    /\ inbox[r] < MaxCopies
    /\ inbox' = [inbox EXCEPT ![r] = @ + 1]
    /\ \/ submission' = [submission EXCEPT ![r] = "SUBMITTED"] /\ UNCHANGED faults
       \/ Fault /\ UNCHANGED submission
    /\ UNCHANGED <<processed, pending, passed, passMails, gateRun>>

(***************************************************************************)
(* run_once() of the submission gate                                        *)
(***************************************************************************)
\* _retry_pending_mail(): the mail is sent, then its file is removed.  A mail that is
\* refused changes nothing.
SendPending(r) ==
    /\ gateRun.at = "idle"
    /\ pending[r] # 0
    /\ gateRun' = [NoGateRun EXCEPT !.at = "unlink", !.mail = <<r, 0>>]
    /\ passMails' = [passMails EXCEPT ![r] = @ \cup {pending[r]}]
    /\ UNCHANGED <<submission, inbox, processed, pending, passed, faults>>

Unlink ==
    /\ gateRun.at = "unlink"
    /\ pending' = [pending EXCEPT ![GateRound] = 0]
    /\ gateRun' = NoGateRun
    /\ UNCHANGED <<submission, inbox, processed, passed, passMails, faults>>

\* Pending mails are retried before the try block that releases the lock: after an
\* error the lock is held until the process ends.
LockLeaks ==
    /\ gateRun.at = "unlink" \/ (gateRun.at = "idle" /\ \E r \in Rounds : pending[r] # 0)
    /\ Fault
    /\ gateRun' = [NoGateRun EXCEPT !.at = "leaked"]
    /\ UNCHANGED <<submission, inbox, processed, pending, passed, passMails>>

LeakerExits ==
    /\ gateRun.at = "leaked"
    /\ gateRun' = NoGateRun
    /\ UNCHANGED <<submission, inbox, processed, pending, passed, passMails, faults>>

\* _execute_gate(): the job passes, and what it found is a manifest of its own.
GatePasses ==
    /\ gateRun.at = "idle"
    /\ Cardinality(Jobs) < MaxJobs
    /\ \E m \in Arrived :
          LET n == Cardinality(Jobs) + 1
          IN  /\ ~ Terminal(m)
              /\ gateRun' = [at |-> "notify", mail |-> m, manifest |-> n]
              /\ passed' = [passed EXCEPT ![m[1]] = @ \cup {n}]
    /\ UNCHANGED <<submission, inbox, processed, pending, passMails, faults>>

\* The checks fail, and the mail is looked at again by the next run; or a capability of
\* the gate is missing, and it is not.
GateBlocks ==
    /\ gateRun.at = "idle"
    /\ \E m \in Arrived, status \in {"SUBMISSION_GATE_BLOCKED", "CAPABILITY_BLOCKED"} :
          /\ ~ Terminal(m)
          /\ processed' = [processed EXCEPT ![m[1]][m[2]] = status]
    /\ UNCHANGED <<submission, inbox, pending, passed, passMails, gateRun, faults>>

\* _notify_pass(): the mail is accepted, or kept for the next run.
NotifyPass ==
    /\ gateRun.at = "notify"
    /\ passMails' = [passMails EXCEPT ![GateRound] = @ \cup {gateRun.manifest}]
    /\ GateGoto("SUBMISSION_GATE_PASSED")
    /\ UNCHANGED <<submission, inbox, processed, pending, passed, faults>>

\* Bug: a mail that is refused is not kept.
PendingLost ==
    /\ gateRun.at = "notify"
    /\ GateGoto("SEND_BLOCKED")
    /\ UNCHANGED <<submission, inbox, processed, pending, passed, passMails, faults>>

StorePending ==
    /\ gateRun.at = "notify"
    /\ pending' = [pending EXCEPT ![GateRound] = gateRun.manifest]
    /\ GateGoto("SEND_BLOCKED")
    /\ UNCHANGED <<submission, inbox, processed, passed, passMails, faults>>

\* _record()
RecordPassed ==
    /\ gateRun.at \in {"SUBMISSION_GATE_PASSED", "SEND_BLOCKED"}
    /\ processed' = [processed EXCEPT ![GateRound][gateRun.mail[2]] = gateRun.at]
    /\ gateRun' = NoGateRun
    /\ UNCHANGED <<submission, inbox, pending, passed, passMails, faults>>

GateRunDies ==
    /\ gateRun.at \notin {"idle", "leaked"}
    /\ Fault
    /\ gateRun' = NoGateRun
    /\ UNCHANGED <<submission, inbox, processed, pending, passed, passMails>>

SubmissionInit ==
    /\ submission = [r \in Rounds |-> "none"]
    /\ inbox = [r \in Rounds |-> 0]
    /\ processed = [r \in Rounds |-> [i \in 1..MaxCopies |-> "none"]]
    /\ pending = [r \in Rounds |-> 0]
    /\ passed = [r \in Rounds |-> {}]
    /\ passMails = [r \in Rounds |-> {}]
    /\ gateRun = NoGateRun
    /\ faults = 0

\* What a run does about the mails that are waiting; a process that leaked the lock ends.
DeliverPass ==
    \/ \E r \in Rounds : SendPending(r)
    \/ Unlink \/ NotifyPass \/ RecordPassed \/ LeakerExits

SubmissionNext ==
    \/ \E r \in Submitted : Submit(r) \/ Resubmit(r)
    \/ DeliverPass \/ GatePasses \/ GateBlocks
    \/ LockLeaks \/ StorePending \/ GateRunDies

\* The scheduler starts a run after the other, and each run retries the pending mails.
SubmissionFairness == WF_submissionVars(DeliverPass)

GateRuns == [at : {"idle", "unlink", "leaked", "notify", "SUBMISSION_GATE_PASSED", "SEND_BLOCKED"},
             mail : (Rounds \cup {0}) \X Nat, manifest : Nat]
Records == {"none", "SUBMISSION_GATE_PASSED", "SEND_BLOCKED", "SUBMISSION_GATE_BLOCKED",
            "CAPABILITY_BLOCKED"}

\* Every variable has its type.
SubmissionTypeOK ==
    /\ submission \in [Rounds -> {"none", "SUBMITTED", "SEND_BLOCKED"}]
    /\ inbox \in [Rounds -> 0..MaxCopies]
    /\ processed \in [Rounds -> [1..MaxCopies -> Records]]
    /\ pending \in [Rounds -> Nat]
    /\ passed \in [Rounds -> SUBSET Nat] /\ passMails \in [Rounds -> SUBSET Nat]
    /\ gateRun \in GateRuns
    /\ faults \in 0..MaxFaults
=============================================================================
