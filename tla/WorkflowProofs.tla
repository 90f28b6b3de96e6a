--------------------------- MODULE WorkflowProofs ---------------------------
(***************************************************************************)
(* Proofs about the material workflow, for any rounds, testers and inputs,   *)
(* any number of runs that die and mails that are lost, and any mail that a    *)
(* person writes.                                                           *)
(*                                                                         *)
(* A manifest travels from the task to the release group.  It is copied from  *)
(* file to file, and nobody holds a lock over the copies, so none of them says *)
(* more than what no step takes back: the manifest and the origin of a task,   *)
(* the round and the manifest that the product gate has imported, the           *)
(* directories that were built and the requests that were sent (Grows).        *)
(***************************************************************************)
EXTENDS ReleaseWorkflow, FiniteSetTheorems, TLAPS

Sendable == {"PRERELEASE_GATE_RUNNING", "PRERELEASE_SENT"}

Requests == [round : Rounds, manifest : Nat, verified : BOOLEAN, origin : BOOLEAN]
Products == [status : ProductStatuses, round : Rounds \cup {0}, manifest : Nat,
             final : Inputs \cup {0}]
PreRuns == [at : {"idle", "send", "sent"}, round : Rounds \cup {0}, copy : TaskFiles]
RecStates == [status : {"none", "RELEASE_GATE_RUNNING", "RELEASE_READY",
                        "RELEASE_READY_NOTIFIED", "RELEASE_GATE_BLOCKED"},
              manifest : Nat, verified : BOOLEAN, origin : BOOLEAN,
              notice : {"none", "pass", "block"}]
GateStates == [at : {"idle", "notify", "call", "passed", "blocked", "notified"},
               round : Rounds \cup {0}]
Notices == [manifest : Nat, origin : BOOLEAN]

\* What is mailed to the testers was passed.
MailsSound ==
    /\ IsFiniteSet(Jobs)
    /\ \A r \in Rounds : passMails[r] \subseteq passed[r] /\ pending[r] \in {0} \cup passed[r]
    /\ gateRun.at = "notify" => GateRound \in Rounds /\ gateRun.manifest \in passed[GateRound]

\* The final material of task file c of round r is built.
Built(r, c) == Imported(r, c.manifest) /\ c.intent \in output[r]

TaskSound(r) ==
    /\ task[r].origin => task[r].manifest \in passed[r]
    /\ task[r].status \in Sendable => Built(r, task[r])
    /\ task[r].status = "PRERELEASE_SENT" => SignedRequest(r, task[r]) \in requests
TasksSound == \A r \in Rounds : TaskSound(r)

\* A copy of task file r, which may be old: the file may have another status and another
\* frozen PASS by now, but has the same manifest from the same origin.
CopyOf(r, c) ==
    /\ task[r].status # "none"
    /\ c.manifest = task[r].manifest /\ c.origin = task[r].origin

\* The places of create_request() past the import, and past the build.
AfterBuild == {"published", "built", "send", "sent"}
AfterImport == {"testing", "record", "approval", "passed", "build"} \cup AfterBuild

\* What a call may still write to the file stays true, whatever the others have written.
CallSound(t) ==
    op[t].at # "idle" =>
        LET r == op[t].round
            copy == op[t].copy
        IN  /\ r \in Rounds /\ CopyOf(r, copy)
            /\ copy.status \notin {"none", "PRERELEASE_SENT"}
            /\ op[t].at \notin {"fail", "failed"} => copy.intent \in Inputs
            /\ op[t].at \in AfterImport => Imported(r, copy.manifest)
            /\ copy.status \in Sendable \/ op[t].at \in AfterBuild => Built(r, copy)
            /\ op[t].at = "sent" => SignedRequest(r, copy) \in requests
CallsSound == \A t \in Testers : CallSound(t)

RetrySound ==
    preRun.at # "idle" =>
        /\ preRun.round \in Rounds /\ CopyOf(preRun.round, preRun.copy)
        /\ Built(preRun.round, preRun.copy)
        /\ preRun.at = "sent" => SignedRequest(preRun.round, preRun.copy) \in requests

ProductSound == product.status = "none" => product.round = 0

\* A signed request names what was imported, and says truly where its pass is from.
RequestsSound ==
    \A q \in requests : IF q.verified THEN Proven(q.round, q.manifest, q.origin) ELSE ~ q.origin

RecordsSound ==
    \A r \in Rounds :
        /\ IF rec[r].verified THEN Proven(r, rec[r].manifest, rec[r].origin) ELSE ~ rec[r].origin
        /\ rec[r].notice = "pass" => rec[r].status \in {"RELEASE_READY", "RELEASE_READY_NOTIFIED"}

\* A run of the release gate decides a round once, while its record says that it runs.
DeciderSound ==
    gate.at # "idle" =>
        /\ gate.round \in Rounds
        /\ gate.at \in {"call", "passed", "blocked"} => rec[gate.round].status = "RELEASE_GATE_RUNNING"

WorkflowInv ==
    /\ TypeOK
    /\ MailsSound /\ TasksSound /\ CallsSound /\ RetrySound /\ ProductSound
    /\ RequestsSound /\ RecordsSound /\ DeciderSound /\ NotifiedIsProven

\* What no step takes back: the manifests that passed, the directories that were built, the
\* manifest and the origin of a task, the requests that were sent and what was imported.
Grows ==
    /\ \A r \in Rounds :
          /\ passed[r] \subseteq passed'[r] /\ output[r] \subseteq output'[r]
          /\ task[r].status # "none" =>
                /\ task'[r].status # "none"
                /\ task'[r].manifest = task[r].manifest /\ task'[r].origin = task[r].origin
    /\ requests \subseteq requests'
    /\ product.round # 0 => product'.round = product.round /\ product'.manifest = product.manifest

LEMMA ImportedLasts ==
    ASSUME Grows, NEW r \in Rounds, NEW m, Imported(r, m) PROVE Imported(r, m)'
<1>1. r # 0
  BY SubmissionAssumption
<1>. QED BY <1>1 DEF Grows, Imported

LEMMA ProvenLasts ==
    ASSUME Grows, NEW r \in Rounds, NEW m, NEW o, Proven(r, m, o) PROVE Proven(r, m, o)'
  BY ImportedLasts DEF Grows, Proven

LEMMA BuiltLasts ==
    ASSUME Grows, NEW r \in Rounds, NEW c, Built(r, c)
    PROVE  Imported(r, c.manifest)' /\ c.intent \in output'[r]
  BY ImportedLasts DEF Grows, Built

LEMMA CopyLasts ==
    ASSUME Grows, NEW r \in Rounds, NEW c, CopyOf(r, c)
    PROVE  task'[r].status # "none" /\ c.manifest = task'[r].manifest /\ c.origin = task'[r].origin
  BY DEF Grows, CopyOf

\* A task that is not written, a call that does not move and a run that stands still
\* stay sound, and so do the requests.
LEMMA TaskLasts ==
    ASSUME Grows, NEW r \in Rounds, TaskSound(r), task'[r] = task[r] PROVE TaskSound(r)'
<1>1. task'[r].origin => task'[r].manifest \in passed'[r]
  BY DEF Grows, TaskSound
<1>2. task'[r].status \in Sendable => Built(r, task[r])'
  BY BuiltLasts DEF TaskSound, Built
<1>3. task'[r].status = "PRERELEASE_SENT" => SignedRequest(r, task'[r]) \in requests'
  BY DEF Grows, TaskSound
<1>. QED BY <1>1, <1>2, <1>3 DEF TaskSound, Built

LEMMA CallLasts ==
    ASSUME Grows, NEW t \in Testers, CallSound(t), op'[t] = op[t] PROVE CallSound(t)'
<1>. DEFINE r == op[t].round
            copy == op[t].copy
<1>. SUFFICES ASSUME op[t].at # "idle" PROVE CallSound(t)'
  BY DEF CallSound
<1>1. r \in Rounds /\ CopyOf(r, copy)
  BY DEF CallSound
<1>2. CopyOf(r, copy)'
  BY <1>1, CopyLasts DEF CopyOf
<1>3. op[t].at \in AfterImport => Imported(r, copy.manifest)'
  BY <1>1, ImportedLasts DEF CallSound
<1>4. copy.status \in Sendable \/ op[t].at \in AfterBuild => Built(r, copy)'
  BY <1>1, BuiltLasts DEF CallSound, Built
<1>5. op[t].at = "sent" => SignedRequest(r, copy) \in requests'
  BY <1>1 DEF CallSound, Grows
<1>. QED BY <1>1, <1>2, <1>3, <1>4, <1>5 DEF CallSound, CopyOf, Built, Imported

LEMMA RetryLasts ==
    ASSUME Grows, RetrySound, UNCHANGED preRun PROVE RetrySound'
<1>. SUFFICES ASSUME preRun.at # "idle" PROVE RetrySound'
  BY DEF RetrySound
<1>1. preRun.round \in Rounds /\ CopyOf(preRun.round, preRun.copy)
  BY DEF RetrySound
<1>2. CopyOf(preRun.round, preRun.copy)'
  BY <1>1, CopyLasts DEF CopyOf
<1>3. Built(preRun.round, preRun.copy)'
  BY <1>1, BuiltLasts DEF RetrySound, Built
<1>4. preRun.at = "sent" => SignedRequest(preRun.round, preRun.copy) \in requests'
  BY <1>1 DEF RetrySound, Grows
<1>. QED BY <1>1, <1>2, <1>3, <1>4 DEF RetrySound

LEMMA RequestsLast ==
    ASSUME Grows, RequestsSound, requests \subseteq Requests, UNCHANGED requests PROVE RequestsSound'
  BY ProvenLasts DEF RequestsSound, Requests

\* What the release gate has recorded and mailed rests on what lasts.
LEMMA RecordsLast ==
    ASSUME WorkflowInv, Grows, UNCHANGED releaseVars
    PROVE  RecordsSound' /\ DeciderSound' /\ NotifiedIsProven'
<1>. USE DEF releaseVars
<1>1. RecordsSound'
  BY ProvenLasts DEF WorkflowInv, RecordsSound
<1>2. DeciderSound'
  BY DEF WorkflowInv, DeciderSound
<1>3. NotifiedIsProven'
  BY ProvenLasts DEF WorkflowInv, NotifiedIsProven
<1>. QED BY <1>1, <1>2, <1>3

(***************************************************************************)
(* The submission gate                                                      *)
(***************************************************************************)
\* The manifests of the jobs that passed stay finitely many.
LEMMA JobsFinite ==
    ASSUME IsFiniteSet(Jobs), NEW r \in Rounds, passed \in [Rounds -> SUBSET Nat],
           passed' = [passed EXCEPT ![r] = @ \cup {Cardinality(Jobs) + 1}]
    PROVE  /\ Cardinality(Jobs) + 1 \in Nat
           /\ passed' \in [Rounds -> SUBSET Nat]
           /\ IsFiniteSet(Jobs')
<1>. DEFINE n == Cardinality(Jobs) + 1
<1>1. n \in Nat
  BY FS_CardinalityType
<1>. HIDE DEF n
<1>2. passed' = [passed EXCEPT ![r] = passed[r] \cup {n}]
  BY DEF n
<1>3. Jobs' = Jobs \cup {n}
  BY <1>2 DEF Jobs
<1>4. IsFiniteSet(Jobs \cup {n})
  BY FS_AddElement
<1>. QED BY <1>1, <1>2, <1>3, <1>4 DEF n

LEMMA SubmissionTyped ==
    ASSUME SubmissionAssumption, WorkflowInv, SubmissionNext
    PROVE  SubmissionTypeOK' /\ MailsSound' /\ \A r \in Rounds : passed[r] \subseteq passed'[r]
<1>1. /\ SubmissionTypeOK /\ MailsSound /\ MaxFaults \in Nat /\ MaxCopies \in Nat /\ Submitted \subseteq Rounds
      /\ Rounds \subseteq Nat \ {0}
  BY DEF WorkflowInv, TypeOK, SubmissionAssumption
<1>2. NoGateRun \in GateRuns
  BY DEF NoGateRun, GateRuns
<1>. USE DEF SubmissionTypeOK, MailsSound
<1>3. ASSUME NEW r \in Submitted, Submit(r) \/ Resubmit(r)
      PROVE  SubmissionTypeOK' /\ MailsSound' /\ UNCHANGED passed
  <2>1. UNCHANGED <<processed, pending, passed, passMails, gateRun>>
    BY <1>3 DEF Submit, Resubmit
  <2>2. /\ submission' \in [Rounds -> {"none", "SUBMITTED", "SEND_BLOCKED"}]
        /\ inbox' \in [Rounds -> 0..MaxCopies] /\ faults' \in 0..MaxFaults
    BY <1>1, <1>3, SMTT(30) DEF Submit, Resubmit, Fault
  <2>. QED BY <1>1, <2>1, <2>2 DEF Jobs, GateRound
<1>4. ASSUME NEW r \in Rounds, SendPending(r)
      PROVE  SubmissionTypeOK' /\ MailsSound' /\ UNCHANGED passed
  <2>1. /\ UNCHANGED <<submission, inbox, processed, pending, passed, faults>>
        /\ gateRun'.at = "unlink" /\ gateRun' \in GateRuns
        /\ passMails' = [passMails EXCEPT ![r] = @ \cup {pending[r]}] /\ pending[r] \in passed[r]
    BY <1>1, <1>4 DEF SendPending, NoGateRun, GateRuns
  <2>. QED BY <1>1, <2>1 DEF Jobs
<1>5. CASE Unlink
  <2>1. /\ UNCHANGED <<submission, inbox, processed, passed, passMails, faults>> /\ gateRun' = NoGateRun
        /\ pending' = [pending EXCEPT ![GateRound] = 0]
    BY <1>5 DEF Unlink
  <2>. QED BY <1>1, <1>2, <2>1 DEF Jobs, NoGateRun
<1>6. CASE LockLeaks \/ LeakerExits \/ GateRunDies
  <2>1. /\ UNCHANGED <<submission, inbox, processed, pending, passed, passMails>>
        /\ gateRun' \in {[NoGateRun EXCEPT !.at = "leaked"], NoGateRun}
        /\ faults' \in 0..MaxFaults
    BY <1>1, <1>6 DEF LockLeaks, LeakerExits, GateRunDies, Fault
  <2>2. gateRun' \in GateRuns /\ gateRun'.at # "notify"
    BY <2>1 DEF NoGateRun, GateRuns
  <2>. QED BY <1>1, <2>1, <2>2 DEF Jobs
<1>7. CASE NotifyPass \/ StorePending
  <2>1. /\ gateRun.at = "notify" /\ gateRun.manifest \in passed[GateRound] /\ GateRound \in Rounds
        /\ UNCHANGED <<submission, inbox, processed, passed, faults>>
        /\ \/ UNCHANGED pending /\ passMails' = [passMails EXCEPT ![GateRound] = @ \cup {gateRun.manifest}]
           \/ UNCHANGED passMails /\ pending' = [pending EXCEPT ![GateRound] = gateRun.manifest]
    BY <1>1, <1>7 DEF NotifyPass, StorePending
  <2>2. gateRun' \in GateRuns /\ gateRun'.at # "notify"
    BY <1>1, <1>7 DEF NotifyPass, StorePending, GateGoto, GateRuns
  <2>3. gateRun.manifest \in Nat /\ GateRound \in Rounds
    BY <1>1, <2>1 DEF GateRuns
  <2>4. /\ passMails' \in [Rounds -> SUBSET Nat] /\ pending' \in [Rounds -> Nat]
        /\ \A r \in Rounds : passMails'[r] \subseteq passed[r] /\ pending'[r] \in {0} \cup passed[r]
    BY <1>1, <2>1, <2>3, SMTT(30)
  <2>. QED BY <1>1, <2>1, <2>2, <2>4 DEF Jobs
<1>8. CASE RecordPassed
  <2>1. /\ UNCHANGED <<submission, inbox, pending, passed, passMails, faults>> /\ gateRun' = NoGateRun
        /\ gateRun.at \in Records
        /\ processed' = [processed EXCEPT ![GateRound][gateRun.mail[2]] = gateRun.at]
    BY <1>8 DEF RecordPassed, Records
  <2>2. processed' \in [Rounds -> [1..MaxCopies -> Records]]
    BY <1>1, <2>1
  <2>. QED BY <1>1, <1>2, <2>1, <2>2 DEF Jobs, NoGateRun
<1>9. CASE GateBlocks
  <2>1. PICK m \in Arrived, status \in Records :
            /\ UNCHANGED <<submission, inbox, pending, passed, passMails, gateRun, faults>>
            /\ processed' = [processed EXCEPT ![m[1]][m[2]] = status]
    BY <1>9 DEF GateBlocks, Records
  <2>2. processed' \in [Rounds -> [1..MaxCopies -> Records]]
    BY <1>1, <2>1 DEF Arrived, Mails
  <2>. QED BY <1>1, <2>1, <2>2 DEF Jobs, GateRound
<1>10. ASSUME GatePasses PROVE SubmissionTypeOK' /\ MailsSound' /\
              \A r \in Rounds : passed[r] \subseteq passed'[r]
  <2>1. PICK m \in Arrived :
            /\ gateRun' = [at |-> "notify", mail |-> m, manifest |-> Cardinality(Jobs) + 1]
            /\ passed' = [passed EXCEPT ![m[1]] = @ \cup {Cardinality(Jobs) + 1}]
            /\ UNCHANGED <<submission, inbox, processed, pending, passMails, faults>>
    BY <1>10 DEF GatePasses
  <2>2. m \in Rounds \X (1..MaxCopies) /\ m[1] \in Rounds
    BY <2>1 DEF Arrived, Mails
  <2>3. /\ Cardinality(Jobs) + 1 \in Nat /\ passed' \in [Rounds -> SUBSET Nat] /\ IsFiniteSet(Jobs')
    BY <1>1, <2>1, <2>2, JobsFinite
  <2>. DEFINE n == Cardinality(Jobs) + 1
  <2>. HIDE DEF n
  <2>4. /\ gateRun'.at = "notify" /\ gateRun'.manifest = n /\ GateRound' = m[1] /\ gateRun' \in GateRuns
    BY <1>1, <2>1, <2>2, <2>3 DEF GateRound, GateRuns, n
  <2>5. passed' = [passed EXCEPT ![m[1]] = passed[m[1]] \cup {n}]
    BY <2>1 DEF n
  <2>6. n \in passed'[m[1]] /\ \A r \in Rounds : passed[r] \subseteq passed'[r]
    BY <1>1, <2>2, <2>5
  <2>. QED BY <1>1, <2>1, <2>2, <2>3, <2>4, <2>6
<1>. QED BY <1>3, <1>4, <1>5, <1>6, <1>7, <1>8, <1>9, <1>10 DEF SubmissionNext, DeliverPass

LEMMA SubmissionKeeps ==
    ASSUME SubmissionAssumption, WorkflowInv, SubmissionNext, UNCHANGED <<preVars, releaseVars>>
    PROVE  WorkflowInv' /\ Grows
<1>1. SubmissionTypeOK' /\ MailsSound' /\ \A r \in Rounds : passed[r] \subseteq passed'[r]
  BY SubmissionTyped
<1>2. UNCHANGED <<task, op, preRun, product, output, requests, rec, gate, announced>>
  BY DEF preVars, releaseVars
<1>3. Grows
  BY <1>1, <1>2 DEF Grows
<1>4. TypeOK'
  BY <1>1, <1>2 DEF WorkflowInv, TypeOK, PreTypeOK, ReleaseTypeOK
<1>5. TasksSound' /\ CallsSound'
  BY <1>2, <1>3, TaskLasts, CallLasts DEF WorkflowInv, TasksSound, CallsSound
<1>6. RetrySound' /\ ProductSound' /\ RequestsSound'
  BY <1>2, <1>3, RetryLasts, RequestsLast DEF WorkflowInv, TypeOK, PreTypeOK, ProductSound, Requests
<1>. QED BY <1>1, <1>3, <1>4, <1>5, <1>6, RecordsLast DEF WorkflowInv

(***************************************************************************)
(* Pre-release                                                              *)
(***************************************************************************)
\* Nothing that pre-release does takes back what the release gate relies on.
LEMMA PreStands ==
    ASSUME WorkflowInv, UNCHANGED <<submissionVars, releaseVars>>, Grows, faults' \in 0..MaxFaults,
           PreTypeOK', TasksSound', CallsSound', RetrySound', ProductSound', RequestsSound'
    PROVE  WorkflowInv'
<1>1. UNCHANGED <<submission, inbox, processed, pending, passed, passMails, gateRun, rec, gate, announced>>
  BY DEF submissionVars, releaseVars
<1>2. TypeOK' /\ MailsSound'
  BY <1>1 DEF WorkflowInv, TypeOK, SubmissionTypeOK, ReleaseTypeOK, MailsSound, Jobs, GateRound
<1>. QED BY <1>2, RecordsLast DEF WorkflowInv

\* Where the call of a tester is, and what it works on.
LEMMA CallFacts ==
    ASSUME WorkflowInv, NEW t \in Testers
    PROVE  /\ op \in [Testers -> OpStates] /\ op[t] \in OpStates /\ op[t].at \in OpPlaces
           /\ op[t].copy \in TaskFiles /\ CallSound(t)
           /\ task \in [Rounds -> TaskFiles] /\ output \in [Rounds -> SUBSET Inputs]
           /\ preRun \in PreRuns /\ requests \subseteq Requests /\ product \in Products
           /\ faults \in 0..MaxFaults
           /\ TasksSound /\ RetrySound /\ ProductSound /\ RequestsSound
  BY DEF WorkflowInv, TypeOK, SubmissionTypeOK, PreTypeOK, CallsSound, OpStates, PreRuns, Requests,
         Products

\* A call goes on, or ends, without writing the task.
LEMMA CallMoves ==
    ASSUME WorkflowInv, NEW t \in Testers,
           UNCHANGED <<submissionVars, releaseVars, task, preRun>>, faults' \in 0..MaxFaults,
           op' \in [Testers -> OpStates], \A u \in Testers \ {t} : op'[u] = op[u], CallSound(t)',
           product' \in Products, output' \in [Rounds -> SUBSET Inputs], requests' \subseteq Requests,
           Grows, ProductSound', RequestsSound'
    PROVE  WorkflowInv'
<1>1. TasksSound'
  BY TaskLasts, CallFacts DEF TasksSound
<1>2. CallsSound'
  BY CallLasts, CallFacts DEF CallsSound
<1>3. RetrySound'
  BY RetryLasts, CallFacts
<1>4. PreTypeOK'
  BY CallFacts DEF PreTypeOK, PreRuns, Requests, Products
<1>. QED BY <1>1, <1>2, <1>3, <1>4, PreStands

\* It changes nothing but itself.
LEMMA CallOnly ==
    ASSUME WorkflowInv, NEW t \in Testers, faults' \in 0..MaxFaults,
           UNCHANGED <<submissionVars, releaseVars, task, preRun, product, output, requests>>,
           op' \in [Testers -> OpStates], \A u \in Testers \ {t} : op'[u] = op[u], CallSound(t)'
    PROVE  WorkflowInv' /\ Grows
<1>1. Grows
  BY DEF Grows, submissionVars
<1>2. RequestsSound' /\ ProductSound'
  BY <1>1, RequestsLast, CallFacts DEF ProductSound
<1>. QED BY <1>1, <1>2, CallFacts, CallMoves

\* A copy of a task is written over it.
LEMMA TaskWritten ==
    ASSUME WorkflowInv, UNCHANGED <<submissionVars, product, output, requests>>,
           NEW r \in Rounds, NEW c \in TaskFiles, task' = [task EXCEPT ![r] = c],
           CopyOf(r, c), c.status # "none", c.status \in Sendable => Built(r, c),
           c.status = "PRERELEASE_SENT" => SignedRequest(r, c) \in requests
    PROVE  /\ task' \in [Rounds -> TaskFiles] /\ task'[r] = c
           /\ Grows /\ TasksSound'
<1>1. UNCHANGED passed
  BY DEF submissionVars
<1>2. task \in [Rounds -> TaskFiles] /\ TasksSound
  BY DEF WorkflowInv, TypeOK, PreTypeOK
<1>3. task' \in [Rounds -> TaskFiles] /\ task'[r] = c /\ \A q \in Rounds \ {r} : task'[q] = task[q]
  BY <1>2
<1>4. Grows
  BY <1>1, <1>3 DEF Grows, CopyOf
<1>5. TaskSound(r)'
  BY <1>1, <1>2, <1>3 DEF TasksSound, TaskSound, Built, Imported, CopyOf, SignedRequest
<1>6. \A q \in Rounds \ {r} : TaskSound(q)'
  BY <1>2, <1>3, <1>4, TaskLasts DEF TasksSound
<1>. QED BY <1>3, <1>4, <1>5, <1>6 DEF TasksSound

\* The call writes its copy.
LEMMA CallWrites ==
    ASSUME WorkflowInv, NEW t \in Testers, NEW c \in TaskFiles,
           UNCHANGED <<submissionVars, releaseVars, faults, preRun, product, output, requests>>,
           op[t].round \in Rounds, task' = [task EXCEPT ![op[t].round] = c],
           CopyOf(op[t].round, c), c.status # "none", c.status \in Sendable => Built(op[t].round, c),
           c.status = "PRERELEASE_SENT" => SignedRequest(op[t].round, c) \in requests,
           op' \in [Testers -> OpStates], \A u \in Testers \ {t} : op'[u] = op[u], CallSound(t)'
    PROVE  WorkflowInv' /\ Grows
<1>1. task' \in [Rounds -> TaskFiles] /\ Grows /\ TasksSound'
  BY TaskWritten
<1>2. CallsSound'
  BY <1>1, CallLasts, CallFacts DEF CallsSound
<1>3. RetrySound' /\ RequestsSound' /\ ProductSound'
  BY <1>1, RetryLasts, RequestsLast, CallFacts DEF ProductSound
<1>4. PreTypeOK' /\ faults' \in 0..MaxFaults
  BY <1>1, CallFacts DEF PreTypeOK, PreRuns, Requests, Products
<1>. QED BY <1>1, <1>2, <1>3, <1>4, PreStands

\* The call goes to another place.
LEMMA CallGoes ==
    ASSUME WorkflowInv, NEW t \in Testers, NEW p \in OpPlaces, OpGoto(t, p)
    PROVE  /\ op' \in [Testers -> OpStates] /\ \A u \in Testers \ {t} : op'[u] = op[u]
           /\ op'[t].at = p /\ op'[t].round = op[t].round /\ op'[t].copy = op[t].copy
  BY CallFacts DEF OpGoto, OpStates

\* The call ends.
LEMMA CallEnds ==
    ASSUME WorkflowInv, NEW t \in Testers, OpEnds(t)
    PROVE  /\ op' \in [Testers -> OpStates] /\ \A u \in Testers \ {t} : op'[u] = op[u]
           /\ CallSound(t)'
<1>1. NoOp \in OpStates /\ NoOp.at = "idle"
  BY DEF NoOp, NoTask, OpStates, OpPlaces, TaskFiles, Statuses
<1>2. /\ op' \in [Testers -> OpStates] /\ op'[t].at = "idle"
      /\ \A u \in Testers \ {t} : op'[u] = op[u]
  BY <1>1, CallFacts DEF OpEnds
<1>. QED BY <1>2 DEF CallSound

\* The file becomes the copy with the new status.
LEMMA CallSaves ==
    ASSUME WorkflowInv, NEW t \in Testers, NEW s \in Statuses, NEW p \in OpPlaces, Save(t, s, p)
    PROVE  LET c == [op[t].copy EXCEPT !.status = s]
           IN  /\ c \in TaskFiles /\ c.status = s /\ c.intent = op[t].copy.intent
               /\ c.manifest = op[t].copy.manifest /\ c.origin = op[t].copy.origin
               /\ task' = [task EXCEPT ![op[t].round] = c]
               /\ op' \in [Testers -> OpStates] /\ \A u \in Testers \ {t} : op'[u] = op[u]
               /\ op'[t].at = p /\ (p # "idle" => op'[t].round = op[t].round /\ op'[t].copy = c)
<1>. DEFINE c == [op[t].copy EXCEPT !.status = s]
<1>1. /\ c \in TaskFiles /\ c.status = s /\ c.intent = op[t].copy.intent
      /\ c.manifest = op[t].copy.manifest /\ c.origin = op[t].copy.origin
  BY CallFacts DEF TaskFiles
<1>. HIDE DEF c
<1>2. /\ task' = [task EXCEPT ![op[t].round] = c]
      /\ op' = [op EXCEPT ![t] = IF p = "idle" THEN NoOp ELSE [op[t] EXCEPT !.at = p, !.copy = c]]
  BY DEF Save, c
<1>3. NoOp \in OpStates /\ NoOp.at = "idle"
  BY DEF NoOp, NoTask, OpStates, OpPlaces, TaskFiles, Statuses
<1>4. /\ op' \in [Testers -> OpStates] /\ \A u \in Testers \ {t} : op'[u] = op[u]
      /\ op'[t].at = p /\ (p # "idle" => op'[t].round = op[t].round /\ op'[t].copy = c)
  BY <1>1, <1>2, <1>3, CallFacts DEF OpStates
<1>. QED BY <1>1, <1>2, <1>4 DEF c

LEMMA LoadKeeps ==
    ASSUME WorkflowInv, UNCHANGED <<submissionVars, releaseVars, faults>>, NEW t \in Testers, LoadTask(t)
    PROVE  WorkflowInv' /\ Grows
<1>1. PICK r \in Rounds :
          /\ task[r].status \notin {"none", "PRERELEASE_SENT"}
          /\ \/ op' = [op EXCEPT ![t] = [at |-> "fail", round |-> r, copy |-> task[r]]]
             \/ /\ task[r].intent # 0
                /\ op' = [op EXCEPT ![t] = [at |-> AfterIntent(task[r]), round |-> r, copy |-> task[r]]]
             \/ /\ task[r].intent = 0
                /\ \E i \in Inputs :
                      op' = [op EXCEPT ![t] = [at |-> "freeze", round |-> r,
                                               copy |-> [task[r] EXCEPT !.intent = i]]]
  BY DEF LoadTask
<1>2. UNCHANGED <<task, preRun, product, output, requests>>
  BY DEF LoadTask
<1>3. task[r] \in TaskFiles /\ TaskSound(r) /\ output[r] \subseteq Inputs /\ 0 \notin Inputs
  BY CallFacts, PreAssumption DEF TasksSound
<1>4. PICK place \in OpPlaces, copy \in TaskFiles :
          /\ op' = [op EXCEPT ![t] = [at |-> place, round |-> r, copy |-> copy]]
          /\ CopyOf(r, copy) /\ copy.status \notin {"none", "PRERELEASE_SENT"}
          /\ place # "fail" => copy.intent \in Inputs
          /\ copy.status \in Sendable \/ place = "send" => Built(r, copy)
          /\ place \in {"fail", "freeze", "send", "import"}
  <2>1. CASE op' = [op EXCEPT ![t] = [at |-> "fail", round |-> r, copy |-> task[r]]]
    BY <1>1, <1>3, <2>1 DEF OpPlaces, CopyOf, TaskSound
  <2>2. CASE /\ task[r].intent # 0
             /\ op' = [op EXCEPT ![t] = [at |-> AfterIntent(task[r]), round |-> r, copy |-> task[r]]]
    <3>1. /\ AfterIntent(task[r]) \in {"send", "import"}
          /\ AfterIntent(task[r]) = "send" => task[r].status \in Sendable
      BY DEF AfterIntent, Sendable
    <3>2. task[r].intent \in Inputs
      BY <1>3, <2>2 DEF TaskFiles
    <3>. QED BY <1>1, <1>3, <2>2, <3>1, <3>2 DEF OpPlaces, CopyOf, TaskSound
  <2>3. ASSUME task[r].intent = 0, NEW i \in Inputs,
               op' = [op EXCEPT ![t] = [at |-> "freeze", round |-> r,
                                        copy |-> [task[r] EXCEPT !.intent = i]]]
        PROVE  \E place \in OpPlaces, copy \in TaskFiles :
                  /\ op' = [op EXCEPT ![t] = [at |-> place, round |-> r, copy |-> copy]]
                  /\ CopyOf(r, copy) /\ copy.status \notin {"none", "PRERELEASE_SENT"}
                  /\ place # "fail" => copy.intent \in Inputs
                  /\ copy.status \in Sendable \/ place = "send" => Built(r, copy)
                  /\ place \in {"fail", "freeze", "send", "import"}
    <3>. DEFINE c == [task[r] EXCEPT !.intent = i]
    <3>1. /\ c \in TaskFiles /\ c.status = task[r].status /\ c.intent = i
          /\ c.manifest = task[r].manifest /\ c.origin = task[r].origin
      BY <1>3, <2>3 DEF TaskFiles
    <3>. HIDE DEF c
    <3>2. task[r].status \notin Sendable
      BY <1>3, <2>3 DEF TaskSound, Built
    <3>3. op' = [op EXCEPT ![t] = [at |-> "freeze", round |-> r, copy |-> c]]
      BY <2>3 DEF c
    <3>. QED BY <1>1, <2>3, <3>1, <3>2, <3>3 DEF OpPlaces, CopyOf
  <2>. QED BY <1>1, <2>1, <2>2, <2>3
<1>5. /\ op' \in [Testers -> OpStates] /\ \A u \in Testers \ {t} : op'[u] = op[u]
      /\ op'[t] = [at |-> place, round |-> r, copy |-> copy]
  BY <1>4, CallFacts DEF OpStates
<1>6. CallSound(t)'
  BY <1>2, <1>4, <1>5 DEF CallSound, CopyOf, AfterImport, AfterBuild, Built, Imported
<1>. QED BY <1>2, <1>5, <1>6, CallFacts, CallOnly

LEMMA FailKeeps ==
    ASSUME WorkflowInv, UNCHANGED <<submissionVars, releaseVars, faults>>,
           NEW t \in Testers, RecordFailure(t)
    PROVE  WorkflowInv' /\ Grows
<1>. DEFINE r == op[t].round
<1>1. /\ op[t].at \in {"fail", "failed"} /\ UNCHANGED <<preRun, product, output, requests>>
      /\ \/ Save(t, "TESTING", "failed")
         \/ Save(t, "TEST_FAILED", "idle")
  BY DEF RecordFailure
<1>2. r \in Rounds /\ CopyOf(r, op[t].copy)
  BY <1>1, CallFacts DEF CallSound
<1>3. PICK s \in {"TESTING", "TEST_FAILED"}, p \in {"failed", "idle"} : Save(t, s, p)
  BY <1>1
<1>4. s \in Statuses /\ p \in OpPlaces
  BY DEF Statuses, OpPlaces
<1>. DEFINE c == [op[t].copy EXCEPT !.status = s]
<1>5. /\ c \in TaskFiles /\ c.status = s /\ c.manifest = op[t].copy.manifest
      /\ c.origin = op[t].copy.origin
      /\ task' = [task EXCEPT ![r] = c]
      /\ op' \in [Testers -> OpStates] /\ \A u \in Testers \ {t} : op'[u] = op[u]
      /\ op'[t].at = p /\ (p # "idle" => op'[t].round = r /\ op'[t].copy = c)
  BY <1>3, <1>4, CallSaves
<1>. HIDE DEF c
<1>6. CopyOf(r, c) /\ task'[r] = c
  BY <1>2, <1>5, CallFacts DEF CopyOf
<1>7. CallSound(t)'
  BY <1>2, <1>5, <1>6 DEF CallSound, CopyOf, AfterImport, AfterBuild, Sendable
<1>. QED BY <1>1, <1>2, <1>5, <1>6, <1>7, CallWrites DEF Sendable

LEMMA FreezeKeeps ==
    ASSUME WorkflowInv, UNCHANGED <<submissionVars, releaseVars, faults>>,
           NEW t \in Testers, FreezeIntent(t)
    PROVE  WorkflowInv' /\ Grows
<1>. DEFINE r == op[t].round
            c == op[t].copy
<1>1. /\ op[t].at = "freeze" /\ UNCHANGED <<preRun, product, output, requests>>
      /\ task' = [task EXCEPT ![r] = c] /\ OpGoto(t, AfterIntent(c))
  BY DEF FreezeIntent
<1>2. /\ r \in Rounds /\ c \in TaskFiles /\ CopyOf(r, c) /\ c.intent \in Inputs
      /\ c.status \notin {"none", "PRERELEASE_SENT"} /\ (c.status \in Sendable => Built(r, c))
  BY <1>1, CallFacts DEF CallSound
<1>3. /\ AfterIntent(c) \in {"send", "import"}
      /\ AfterIntent(c) = "send" => c.status \in Sendable
  BY DEF AfterIntent, Sendable
<1>4. /\ op' \in [Testers -> OpStates] /\ \A u \in Testers \ {t} : op'[u] = op[u]
      /\ op'[t].at = AfterIntent(c) /\ op'[t].round = r /\ op'[t].copy = c
  BY <1>1, <1>3, CallGoes DEF OpPlaces
<1>5. task'[r] = c
  BY <1>1, <1>2, CallFacts
<1>6. CallSound(t)'
  BY <1>1, <1>2, <1>3, <1>4, <1>5 DEF CallSound, CopyOf, AfterImport, AfterBuild, Built, Imported
<1>. QED BY <1>1, <1>2, <1>4, <1>6, CallWrites

\* The saves past the import: the copy is ready only when its directory is built, and sent
\* only when its request is.
LEMMA SaveKeeps ==
    ASSUME WorkflowInv, UNCHANGED <<submissionVars, releaseVars, faults>>,
           NEW t \in Testers, SaveProgress(t)
    PROVE  WorkflowInv' /\ Grows
<1>. DEFINE r == op[t].round
<1>1. UNCHANGED <<preRun, product, output, requests>>
  BY DEF SaveProgress
<1>2. PICK s \in Statuses, p \in OpPlaces :
          /\ Save(t, s, p)
          /\ \/ op[t].at = "testing" /\ s = "TESTING" /\ p = "record"
             \/ op[t].at = "approval" /\ s = "TEST_APPROVAL_REQUIRED" /\ p = "idle"
             \/ op[t].at = "block" /\ s = "PRERELEASE_BLOCKED" /\ p = "idle"
             \/ op[t].at = "passed" /\ s = "TEST_PASSED" /\ p = "build"
             \/ op[t].at = "built" /\ s = "PRERELEASE_GATE_RUNNING" /\ p = "send"
             \/ op[t].at = "sent" /\ s = "PRERELEASE_SENT" /\ p = "idle"
  BY DEF SaveProgress, Statuses, OpPlaces
<1>3. /\ r \in Rounds /\ CopyOf(r, op[t].copy) /\ op[t].copy.intent \in Inputs
      /\ op[t].at \in AfterImport => Imported(r, op[t].copy.manifest)
      /\ op[t].at \in AfterBuild => Built(r, op[t].copy)
      /\ op[t].at = "sent" => SignedRequest(r, op[t].copy) \in requests
  BY <1>2, CallFacts DEF CallSound
<1>. DEFINE c == [op[t].copy EXCEPT !.status = s]
<1>4. /\ c \in TaskFiles /\ c.status = s /\ c.intent = op[t].copy.intent
      /\ c.manifest = op[t].copy.manifest /\ c.origin = op[t].copy.origin
      /\ task' = [task EXCEPT ![r] = c]
      /\ op' \in [Testers -> OpStates] /\ \A u \in Testers \ {t} : op'[u] = op[u]
      /\ op'[t].at = p /\ (p # "idle" => op'[t].round = r /\ op'[t].copy = c)
  BY <1>2, CallSaves
<1>. HIDE DEF c
<1>5. CopyOf(r, c) /\ task'[r] = c
  BY <1>3, <1>4, CallFacts DEF CopyOf
<1>6. /\ s # "none" /\ (s \in Sendable => op[t].at \in AfterBuild)
      /\ s \in Sendable => Built(r, c)
      /\ s = "PRERELEASE_SENT" => p = "idle" /\ SignedRequest(r, c) \in requests
  BY <1>2, <1>3, <1>4 DEF AfterBuild, Sendable, Built, SignedRequest
<1>7. CallSound(t)'
  <2>1. p \in {"record", "build", "send", "idle"} /\ (p = "send" => s \in Sendable)
    BY <1>2 DEF Sendable
  <2>2. p # "idle" => Imported(r, c.manifest)
    BY <1>2, <1>3, <1>4 DEF AfterImport, AfterBuild
  <2>. QED BY <1>1, <1>3, <1>4, <1>5, <1>6, <2>1, <2>2
           DEF CallSound, CopyOf, AfterBuild, Built, Imported
<1>. QED BY <1>1, <1>3, <1>4, <1>5, <1>6, <1>7, CallWrites

LEMMA ImportKeeps ==
    ASSUME WorkflowInv, UNCHANGED <<submissionVars, releaseVars, faults>>, NEW t \in Testers, Import(t)
    PROVE  WorkflowInv' /\ Grows
<1>. DEFINE r == op[t].round
            new == [NoProduct EXCEPT !.status = "TESTING", !.round = r, !.manifest = op[t].copy.manifest]
            found == [product EXCEPT !.round = r, !.manifest = op[t].copy.manifest]
<1>1. /\ op[t].at = "import"
      /\ product.status = "none" \/ product = found
      /\ product' = IF product.status = "none" THEN new ELSE product
      /\ OpGoto(t, AfterStatus(product'.status))
      /\ UNCHANGED <<task, preRun, output, requests>>
  BY DEF Import
<1>2. /\ r \in Rounds /\ CopyOf(r, op[t].copy) /\ op[t].copy.intent \in Inputs
      /\ op[t].copy.status \notin {"none", "PRERELEASE_SENT"}
      /\ op[t].copy.status \in Sendable => Built(r, op[t].copy)
      /\ op[t].copy \in TaskFiles /\ product \in Products /\ r # 0
  BY <1>1, CallFacts, SubmissionAssumption DEF CallSound
<1>3. AfterStatus(product'.status) \in {"testing", "approval", "passed", "block"}
  BY DEF AfterStatus
<1>4. /\ op' \in [Testers -> OpStates] /\ \A u \in Testers \ {t} : op'[u] = op[u]
      /\ op'[t].at \in {"testing", "approval", "passed", "block"}
      /\ op'[t].round = r /\ op'[t].copy = op[t].copy
  BY <1>1, <1>3, CallGoes DEF OpPlaces
<1>5. /\ product' \in Products /\ product'.status # "none"
      /\ product'.round = r /\ product'.manifest = op[t].copy.manifest
  <2>1. CASE product.status = "none"
    BY <1>1, <1>2, <2>1 DEF Products, ProductStatuses, TaskFiles, NoProduct
  <2>2. CASE product.status # "none"
    BY <1>1, <1>2, <2>2 DEF Products
  <2>. QED BY <2>1, <2>2
<1>6. Grows
  BY <1>1, CallFacts DEF Grows, submissionVars, ProductSound
<1>. HIDE DEF new, found
<1>7. /\ task'[r].status # "none" /\ op[t].copy.manifest = task'[r].manifest
      /\ op[t].copy.origin = task'[r].origin
      /\ op[t].copy.status \in Sendable => op[t].copy.intent \in output'[r]
  BY <1>1, <1>2 DEF CopyOf, Built
<1>8. CallSound(t)'
  BY <1>2, <1>4, <1>5, <1>7 DEF CallSound, AfterBuild, AfterImport, CopyOf, Built, Imported
<1>9. ProductSound' /\ RequestsSound'
  BY <1>1, <1>5, <1>6, RequestsLast, CallFacts DEF ProductSound
<1>. QED BY <1>1, <1>4, <1>5, <1>6, <1>8, <1>9, CallFacts, CallMoves

\* The call goes on, or ends, and has changed nothing yet.
LEMMA MoveKeeps ==
    ASSUME WorkflowInv, UNCHANGED <<submissionVars, releaseVars>>, faults' \in 0..MaxFaults,
           NEW t \in Testers, ImportRefused(t) \/ ReplayFinal(t) \/ ProductRefuses(t) \/ OpDies(t)
    PROVE  WorkflowInv' /\ Grows
<1>1. UNCHANGED <<task, preRun, product, output, requests>>
  BY DEF ImportRefused, ReplayFinal, ProductRefuses, OpDies
<1>2. CASE OpEnds(t)
  BY <1>1, <1>2, CallEnds, CallOnly
<1>3. CASE ImportRefused(t)
  <2>1. op[t].at = "import" /\ OpGoto(t, "block") /\ "block" \in OpPlaces
    BY <1>3 DEF ImportRefused, OpPlaces
  <2>2. /\ op' \in [Testers -> OpStates] /\ \A u \in Testers \ {t} : op'[u] = op[u]
        /\ op'[t].at = "block" /\ op'[t].round = op[t].round /\ op'[t].copy = op[t].copy
    BY <2>1, CallGoes
  <2>3. CallSound(t)'
    BY <1>1, <2>1, <2>2, CallFacts DEF CallSound, AfterImport, AfterBuild, CopyOf, Built, Imported
  <2>. QED BY <1>1, <2>2, <2>3, CallOnly
<1>4. CASE ReplayFinal(t)
  <2>1. /\ op[t].at = "build" /\ op[t].copy.intent \in output[op[t].round]
        /\ OpGoto(t, "built") /\ "built" \in OpPlaces
    BY <1>4 DEF ReplayFinal, Replays, Directory, OpPlaces
  <2>2. /\ op' \in [Testers -> OpStates] /\ \A u \in Testers \ {t} : op'[u] = op[u]
        /\ op'[t].at = "built" /\ op'[t].round = op[t].round /\ op'[t].copy = op[t].copy
    BY <2>1, CallGoes
  <2>3. CallSound(t)'
    BY <1>1, <2>1, <2>2, CallFacts DEF CallSound, AfterImport, AfterBuild, CopyOf, Built, Imported
  <2>. QED BY <1>1, <2>2, <2>3, CallOnly
<1>. QED BY <1>2, <1>3, <1>4 DEF ImportRefused, ReplayFinal, ProductRefuses, OpDies

LEMMA PublishKeeps ==
    ASSUME WorkflowInv, UNCHANGED <<submissionVars, releaseVars, faults>>,
           NEW t \in Testers, PublishFinal(t)
    PROVE  WorkflowInv' /\ Grows
<1>. DEFINE r == op[t].round
            i == op[t].copy.intent
<1>1. /\ op[t].at = "build" /\ OpGoto(t, "published") /\ UNCHANGED <<task, preRun, product, requests>>
      /\ output' = [output EXCEPT ![r] = @ \cup {i}]
  BY DEF PublishFinal, Directory
<1>2. /\ r \in Rounds /\ CopyOf(r, op[t].copy) /\ i \in Inputs /\ Imported(r, op[t].copy.manifest)
      /\ op[t].copy.status \notin {"none", "PRERELEASE_SENT"}
  BY <1>1, CallFacts DEF CallSound, AfterImport
<1>. HIDE DEF r, i
<1>3. /\ output' \in [Rounds -> SUBSET Inputs] /\ i \in output'[r]
      /\ \A q \in Rounds : output[q] \subseteq output'[q]
  BY <1>1, <1>2, CallFacts
<1>4. Grows
  BY <1>1, <1>3 DEF Grows, submissionVars
<1>5. /\ op' \in [Testers -> OpStates] /\ \A u \in Testers \ {t} : op'[u] = op[u]
      /\ op'[t].at = "published" /\ op'[t].round = r /\ op'[t].copy = op[t].copy
  BY <1>1, CallGoes DEF OpPlaces, r
<1>6. CallSound(t)'
  BY <1>1, <1>2, <1>3, <1>5 DEF CallSound, AfterImport, AfterBuild, CopyOf, Built, Imported, i
<1>7. ProductSound' /\ RequestsSound'
  BY <1>1, <1>4, RequestsLast, CallFacts DEF ProductSound
<1>. QED BY <1>1, <1>3, <1>4, <1>5, <1>6, <1>7, CallFacts, CallMoves

\* A signed request names the round and the manifest that were imported, and the origin of
\* the task.
LEMMA RequestSigned ==
    ASSUME WorkflowInv, Grows, UNCHANGED <<product, passed>>, NEW r \in Rounds, NEW c \in TaskFiles,
           CopyOf(r, c), Imported(r, c.manifest), requests' = requests \cup {SignedRequest(r, c)}
    PROVE  requests' \subseteq Requests /\ RequestsSound'
<1>. DEFINE q == SignedRequest(r, c)
<1>1. /\ q \in Requests /\ q.verified /\ q.round = r /\ q.manifest = c.manifest /\ q.origin = c.origin
  BY DEF SignedRequest, TaskFiles, Requests
<1>. HIDE DEF q
<1>2. requests' = requests \cup {q}
  BY DEF q
<1>3. requests \subseteq Requests /\ RequestsSound /\ TaskSound(r)
  BY DEF WorkflowInv, TypeOK, PreTypeOK, Requests, TasksSound
<1>4. Proven(r, c.manifest, c.origin)
  BY <1>3 DEF Proven, TaskSound, CopyOf
<1>5. RequestsSound'
  BY <1>1, <1>2, <1>3, <1>4 DEF RequestsSound, Proven, Imported
<1>. QED BY <1>1, <1>2, <1>3, <1>5

LEMMA SendKeeps ==
    ASSUME WorkflowInv, UNCHANGED <<submissionVars, releaseVars, faults>>,
           NEW t \in Testers, SendRequest(t)
    PROVE  WorkflowInv' /\ Grows
<1>. DEFINE r == op[t].round
            copy == op[t].copy
<1>1. /\ op[t].at = "send" /\ UNCHANGED <<task, preRun, product, output>> /\ OpGoto(t, "sent")
      /\ requests' = requests \cup {SignedRequest(r, copy)}
  BY DEF SendRequest
<1>2. /\ r \in Rounds /\ copy \in TaskFiles /\ CopyOf(r, copy) /\ Imported(r, copy.manifest)
  BY <1>1, CallFacts DEF CallSound, AfterImport, AfterBuild
<1>3. Grows /\ UNCHANGED passed
  BY <1>1 DEF Grows, submissionVars
<1>4. requests' \subseteq Requests /\ RequestsSound'
  BY <1>1, <1>2, <1>3, RequestSigned
<1>5. /\ op' \in [Testers -> OpStates] /\ \A u \in Testers \ {t} : op'[u] = op[u]
      /\ op'[t].at = "sent" /\ op'[t].round = r /\ op'[t].copy = copy
  BY <1>1, CallGoes DEF OpPlaces
<1>6. SignedRequest(r, copy) \in requests'
  BY <1>1
<1>7. CallSound(t)'
  BY <1>1, <1>5, <1>6, CallFacts DEF CallSound, AfterImport, AfterBuild, CopyOf, Built, Imported
<1>8. ProductSound'
  BY <1>1, CallFacts DEF ProductSound
<1>. QED BY <1>1, <1>3, <1>4, <1>5, <1>7, <1>8, CallFacts, CallMoves

\* The event of the product gate gets another status, or its Manifest-R.
LEMMA ProductMoves ==
    ASSUME WorkflowInv, product' \in Products, product'.status # "none",
           product'.round = product.round, product'.manifest = product.manifest,
           UNCHANGED <<submissionVars, task, output, requests>>
    PROVE  Grows /\ ProductSound' /\ RequestsSound'
<1>1. Grows
  BY DEF Grows, submissionVars
<1>2. requests \subseteq Requests /\ RequestsSound
  BY DEF WorkflowInv, TypeOK, PreTypeOK, Requests
<1>. QED BY <1>1, <1>2, RequestsLast DEF ProductSound

\* The product gate answers a call, or an approver.
LEMMA ResultKeeps ==
    ASSUME WorkflowInv, UNCHANGED <<submissionVars, releaseVars, faults>>,
           NEW t \in Testers, RecordTestResult(t) \/ SaveFinal(t)
    PROVE  WorkflowInv' /\ Grows
<1>1. UNCHANGED <<task, preRun, output, requests>>
  BY DEF RecordTestResult, SaveFinal
<1>2. op[t].at # "idle" /\ op[t].copy.intent \in Inputs /\ product \in Products
  BY CallFacts DEF RecordTestResult, SaveFinal, CallSound
<1>3. PICK p \in {"passed", "approval", "built"} :
          /\ OpGoto(t, p) /\ (p = "built" <=> op[t].at = "published")
          /\ op[t].at \in {"record", "published"}
          /\ product' \in Products /\ product'.status # "none"
          /\ product'.round = product.round /\ product'.manifest = product.manifest
  <2>1. CASE RecordTestResult(t)
    BY <1>2, <2>1 DEF RecordTestResult, AfterStatus, Products, ProductStatuses
  <2>2. CASE SaveFinal(t)
    BY <1>2, <2>2 DEF SaveFinal, Directory, Products, ProductStatuses
  <2>. QED BY <2>1, <2>2
<1>4. Grows /\ ProductSound' /\ RequestsSound'
  BY <1>1, <1>3, ProductMoves
<1>5. /\ op' \in [Testers -> OpStates] /\ \A u \in Testers \ {t} : op'[u] = op[u]
      /\ op'[t].at = p /\ op'[t].round = op[t].round /\ op'[t].copy = op[t].copy
  BY <1>3, CallGoes DEF OpPlaces
<1>6. CallSound(t)'
  BY <1>1, <1>3, <1>5, CallFacts DEF CallSound, AfterImport, AfterBuild, CopyOf, Built, Imported
<1>. QED BY <1>1, <1>3, <1>4, <1>5, <1>6, CallFacts, CallMoves

\* A step that leaves tasks, calls and runs of pre-release alone.
LEMMA PreRest ==
    ASSUME WorkflowInv, Grows, UNCHANGED <<task, op, preRun>>,
           product' \in Products, output' \in [Rounds -> SUBSET Inputs], requests' \subseteq Requests
    PROVE  PreTypeOK' /\ TasksSound' /\ CallsSound' /\ RetrySound'
<1>1. TasksSound' /\ CallsSound'
  BY TaskLasts, CallLasts DEF WorkflowInv, TasksSound, CallsSound
<1>2. RetrySound'
  BY RetryLasts DEF WorkflowInv
<1>3. PreTypeOK'
  BY DEF WorkflowInv, TypeOK, PreTypeOK, Products, Requests
<1>. QED BY <1>1, <1>2, <1>3

LEMMA PreFacts ==
    ASSUME WorkflowInv
    PROVE  /\ task \in [Rounds -> TaskFiles] /\ output \in [Rounds -> SUBSET Inputs]
           /\ op \in [Testers -> OpStates]
           /\ preRun \in PreRuns /\ requests \subseteq Requests /\ product \in Products
           /\ faults \in 0..MaxFaults
           /\ TasksSound /\ CallsSound /\ RetrySound /\ ProductSound /\ RequestsSound
  BY DEF WorkflowInv, TypeOK, SubmissionTypeOK, PreTypeOK, PreRuns, Requests, Products

LEMMA ApprovalKeeps ==
    ASSUME WorkflowInv, UNCHANGED <<submissionVars, releaseVars, faults>>, TestApproval
    PROVE  WorkflowInv' /\ Grows
<1>1. PICK s \in {"RELEASE_PREPARING", "SUBMISSION_BLOCKED"} : product' = [product EXCEPT !.status = s]
  BY DEF TestApproval
<1>2. UNCHANGED <<task, op, preRun, output, requests>>
  BY DEF TestApproval
<1>3. /\ product' \in Products /\ product'.status # "none"
      /\ product'.round = product.round /\ product'.manifest = product.manifest
  BY <1>1, PreFacts DEF Products, ProductStatuses
<1>4. Grows /\ ProductSound' /\ RequestsSound'
  BY <1>2, <1>3, ProductMoves
<1>5. PreTypeOK' /\ TasksSound' /\ CallsSound' /\ RetrySound'
  BY <1>2, <1>3, <1>4, PreRest, PreFacts
<1>. QED BY <1>4, <1>5, PreFacts, PreStands

\* A mail becomes the task of its round: one that is marked as signed was passed.
LEMMA StoreKeeps ==
    ASSUME WorkflowInv, UNCHANGED <<submissionVars, releaseVars, faults>>,
           NEW r \in Rounds, StoreTask(r) \/ StorePlainTask(r)
    PROVE  WorkflowInv' /\ Grows
<1>1. PICK m \in Nat, o \in BOOLEAN : Store(r, m, o) /\ (o => m \in passed[r])
  BY PreAssumption DEF StoreTask, StorePlainTask, WorkflowInv, MailsSound, TypeOK, SubmissionTypeOK
<1>. DEFINE c == [status |-> "TEST_READY", manifest |-> m, origin |-> o, intent |-> 0]
<1>2. c \in TaskFiles /\ c.status = "TEST_READY" /\ c.manifest = m /\ c.origin = o
  BY DEF TaskFiles, Statuses
<1>3. /\ task[r].status = "none" /\ UNCHANGED <<op, preRun, product, output, requests, passed>>
      /\ task' = [task EXCEPT ![r] = c]
  BY <1>1 DEF Store, submissionVars
<1>. HIDE DEF c
<1>4. task' \in [Rounds -> TaskFiles] /\ task'[r] = c /\ \A q \in Rounds \ {r} : task'[q] = task[q]
  BY <1>2, <1>3, PreFacts
<1>5. Grows
  BY <1>3, <1>4 DEF Grows
<1>6. TasksSound'
  <2>1. TaskSound(r)'
    BY <1>1, <1>2, <1>3, <1>4 DEF TaskSound, Sendable
  <2>. QED BY <1>4, <1>5, <2>1, TaskLasts, PreFacts DEF TasksSound
<1>7. CallsSound' /\ RetrySound'
  BY <1>3, <1>5, CallLasts, RetryLasts, PreFacts DEF CallsSound
<1>8. ProductSound' /\ RequestsSound'
  BY <1>3, <1>5, RequestsLast, PreFacts DEF ProductSound
<1>9. PreTypeOK' /\ faults' \in 0..MaxFaults
  BY <1>3, <1>4, PreFacts DEF PreTypeOK, PreRuns, Requests, Products
<1>. QED BY <1>5, <1>6, <1>7, <1>8, <1>9, PreStands

\* A run of pre-release, or a person, that does not write a task.
LEMMA RetryOnly ==
    ASSUME WorkflowInv, UNCHANGED <<submissionVars, releaseVars, task, op, product, output>>,
           faults' \in 0..MaxFaults, preRun' \in PreRuns, Grows,
           requests' \subseteq Requests, RetrySound', RequestsSound'
    PROVE  WorkflowInv'
<1>1. TasksSound' /\ CallsSound'
  BY TaskLasts, CallLasts, PreFacts DEF TasksSound, CallsSound
<1>2. PreTypeOK' /\ ProductSound'
  BY PreFacts DEF PreTypeOK, ProductSound, PreRuns, Requests, Products
<1>. QED BY <1>1, <1>2, PreStands

LEMMA RetryKeeps ==
    ASSUME WorkflowInv, UNCHANGED <<submissionVars, releaseVars>>, faults' \in 0..MaxFaults,
           (\E r \in Rounds : RetryRequest(r)) \/ RetrySends \/ PreRunDies
    PROVE  WorkflowInv' /\ Grows
<1>1. UNCHANGED <<task, op, product, output, passed>>
  BY DEF RetryRequest, RetrySends, PreRunDies, submissionVars
<1>2. Grows
  BY <1>1 DEF Grows, RetryRequest, RetrySends, PreRunDies
<1>3. ASSUME NEW r \in Rounds, RetryRequest(r) PROVE WorkflowInv'
  <2>1. /\ preRun' = [at |-> "send", round |-> r, copy |-> task[r]] /\ UNCHANGED requests
        /\ task[r].status = "PRERELEASE_GATE_RUNNING"
    BY <1>3 DEF RetryRequest
  <2>2. task[r] \in TaskFiles /\ CopyOf(r, task[r]) /\ Built(r, task[r])
    BY <2>1, PreFacts DEF CopyOf, TasksSound, TaskSound, Sendable
  <2>3. preRun' \in PreRuns /\ RetrySound'
    BY <1>1, <2>1, <2>2 DEF PreRuns, RetrySound, CopyOf, Built, Imported
  <2>4. RequestsSound'
    BY <1>2, <2>1, RequestsLast, PreFacts
  <2>. QED BY <1>1, <1>2, <2>1, <2>3, <2>4, PreFacts, RetryOnly
<1>4. CASE RetrySends
  <2>1. /\ preRun.at = "send" /\ preRun' = [preRun EXCEPT !.at = "sent"]
        /\ requests' = requests \cup {SignedRequest(preRun.round, preRun.copy)}
    BY <1>4 DEF RetrySends
  <2>2. /\ preRun.round \in Rounds /\ preRun.copy \in TaskFiles
        /\ CopyOf(preRun.round, preRun.copy) /\ Built(preRun.round, preRun.copy)
    BY <2>1, PreFacts DEF RetrySound, PreRuns
  <2>3. requests' \subseteq Requests /\ RequestsSound'
    BY <1>1, <1>2, <2>1, <2>2, RequestSigned DEF Built
  <2>4. /\ preRun' \in PreRuns /\ preRun'.at = "sent"
        /\ preRun'.round = preRun.round /\ preRun'.copy = preRun.copy
    BY <2>1, PreFacts DEF PreRuns
  <2>5. RetrySound'
    BY <1>1, <2>1, <2>2, <2>4 DEF RetrySound, CopyOf, Built, Imported
  <2>. QED BY <1>1, <1>2, <2>3, <2>4, <2>5, RetryOnly
<1>5. CASE PreRunDies
  <2>1. preRun' = NoPreRun /\ UNCHANGED requests
    BY <1>5 DEF PreRunDies
  <2>2. preRun' \in PreRuns /\ RetrySound'
    BY <2>1 DEF NoPreRun, NoTask, TaskFiles, Statuses, RetrySound, PreRuns
  <2>3. RequestsSound'
    BY <1>2, <2>1, RequestsLast, PreFacts
  <2>. QED BY <1>1, <1>2, <2>1, <2>2, <2>3, PreFacts, RetryOnly
<1>. QED BY <1>2, <1>3, <1>4, <1>5

\* The run saves the copy that it has sent.
LEMMA RetrySavesKeeps ==
    ASSUME WorkflowInv, UNCHANGED <<submissionVars, releaseVars, faults>>, RetrySaves
    PROVE  WorkflowInv' /\ Grows
<1>. DEFINE r == preRun.round
            c == [preRun.copy EXCEPT !.status = "PRERELEASE_SENT"]
<1>1. /\ preRun.at = "sent" /\ task' = [task EXCEPT ![r] = c] /\ preRun' = NoPreRun
      /\ UNCHANGED <<op, product, output, requests>>
  BY DEF RetrySaves
<1>2. /\ r \in Rounds /\ preRun.copy \in TaskFiles /\ CopyOf(r, preRun.copy) /\ Built(r, preRun.copy)
      /\ SignedRequest(r, preRun.copy) \in requests
  BY <1>1, PreFacts DEF RetrySound, PreRuns
<1>3. /\ c \in TaskFiles /\ c.status = "PRERELEASE_SENT" /\ c.intent = preRun.copy.intent
      /\ c.manifest = preRun.copy.manifest /\ c.origin = preRun.copy.origin
  BY <1>2 DEF TaskFiles, Statuses
<1>. HIDE DEF c
<1>4. CopyOf(r, c) /\ Built(r, c) /\ SignedRequest(r, c) \in requests
  BY <1>2, <1>3 DEF CopyOf, Built, SignedRequest
<1>. HIDE DEF r
<1>5. task' \in [Rounds -> TaskFiles] /\ Grows /\ TasksSound'
  BY <1>1, <1>2, <1>3, <1>4, TaskWritten
<1>6. CallsSound'
  BY <1>1, <1>5, CallLasts, PreFacts DEF CallsSound
<1>7. RetrySound' /\ ProductSound' /\ RequestsSound'
  BY <1>1, <1>5, RequestsLast, PreFacts DEF NoPreRun, RetrySound, ProductSound
<1>8. preRun' \in PreRuns
  BY <1>1 DEF NoPreRun, NoTask, TaskFiles, Statuses, PreRuns
<1>9. PreTypeOK'
  BY <1>1, <1>5, <1>8, PreFacts DEF PreTypeOK, PreRuns, Requests, Products
<1>. QED BY <1>5, <1>6, <1>7, <1>9, PreFacts, PreStands

LEMMA PreKeeps ==
    ASSUME SubmissionAssumption, WorkflowInv, UNCHANGED <<submissionVars, releaseVars>>,
           (PreStep /\ UNCHANGED faults) \/ PreFault
    PROVE  WorkflowInv' /\ Grows
<1>1. faults \in 0..MaxFaults
  BY PreFacts
<1>2. CASE PreStep /\ UNCHANGED faults
  <2>1. CASE PreRunStep \/ \E r \in Rounds : StorePlainTask(r)
    BY <1>1, <1>2, <2>1, RetryKeeps, RetrySavesKeeps, StoreKeeps DEF PreRunStep
  <2>2. CASE TestApproval
    BY <1>2, <2>2, ApprovalKeeps
  <2>3. ASSUME NEW t \in Testers,
               LoadTask(t) \/ RecordFailure(t) \/ FreezeIntent(t) \/ Import(t) \/ SaveProgress(t)
        PROVE  WorkflowInv' /\ Grows
    BY <1>2, <2>3, LoadKeeps, FailKeeps, FreezeKeeps, ImportKeeps, SaveKeeps
  <2>4. ASSUME NEW t \in Testers,
               RecordTestResult(t) \/ PublishFinal(t) \/ SaveFinal(t) \/ SendRequest(t)
        PROVE  WorkflowInv' /\ Grows
    BY <1>2, <2>4, ResultKeeps, PublishKeeps, SendKeeps
  <2>5. ASSUME NEW t \in Testers, ImportRefused(t) \/ ReplayFinal(t) \/ ProductRefuses(t)
        PROVE  WorkflowInv' /\ Grows
    BY <1>1, <1>2, <2>5, MoveKeeps
  <2>. QED BY <1>2, <2>1, <2>2, <2>3, <2>4, <2>5 DEF PreStep
<1>3. CASE PreFault
  <2>1. faults' \in 0..MaxFaults
    BY <1>1, <1>3 DEF PreFault, OpDies, PreRunDies, Fault, SubmissionAssumption
  <2>. QED BY <1>3, <2>1, MoveKeeps, RetryKeeps DEF PreFault
<1>. QED BY <1>2, <1>3

(***************************************************************************)
(* The release gate                                                         *)
(***************************************************************************)
LEMMA GateFacts ==
    ASSUME WorkflowInv
    PROVE  /\ gate \in GateStates /\ faults \in 0..MaxFaults /\ DeciderSound /\ RecordsSound
           /\ rec \in [Rounds -> RecStates] /\ announced \in [Rounds -> SUBSET Notices]
           /\ product \in Products /\ NotifiedIsProven
  BY DEF WorkflowInv, TypeOK, ReleaseTypeOK, SubmissionTypeOK, PreTypeOK, GateStates, RecStates,
         Notices, Products

\* The event is checked again, or stays as it is: nothing that the other stages have is
\* changed.
LEMMA OthersStand ==
    ASSUME WorkflowInv, OthersUnchanged, faults' \in 0..MaxFaults,
           UNCHANGED product \/ \E s \in ProductStatuses : Checked(s)
    PROVE  /\ Grows /\ SubmissionTypeOK' /\ PreTypeOK'
           /\ MailsSound' /\ TasksSound' /\ CallsSound' /\ RetrySound' /\ ProductSound' /\ RequestsSound'
<1>1. UNCHANGED <<submission, inbox, processed, pending, passed, passMails, gateRun,
                  task, op, preRun, output, requests, submissionVars>>
  BY DEF OthersUnchanged, submissionVars
<1>2. SubmissionTypeOK' /\ MailsSound'
  BY <1>1 DEF WorkflowInv, TypeOK, SubmissionTypeOK, MailsSound, Jobs, GateRound
<1>3. product' \in Products /\ Grows /\ ProductSound' /\ RequestsSound'
  <2>1. CASE UNCHANGED product
    <3>1. Grows
      BY <1>1, <2>1 DEF Grows
    <3>. QED BY <1>1, <2>1, <3>1, RequestsLast, PreFacts DEF ProductSound
  <2>2. ASSUME NEW s \in ProductStatuses, Checked(s)
        PROVE  product' \in Products /\ Grows /\ ProductSound' /\ RequestsSound'
    <3>1. /\ product' \in Products /\ product'.status # "none"
          /\ product'.round = product.round /\ product'.manifest = product.manifest
      BY <2>2, PreFacts DEF Checked, Products
    <3>. QED BY <1>1, <3>1, ProductMoves
  <2>. QED BY <2>1, <2>2
<1>4. PreTypeOK' /\ TasksSound' /\ CallsSound' /\ RetrySound'
  BY <1>1, <1>3, PreRest, PreFacts
<1>. QED BY <1>2, <1>3, <1>4

\* A step of the release gate that checks nothing.
LEMMA ReleaseStands ==
    ASSUME WorkflowInv, OthersUnchanged, faults' \in 0..MaxFaults, UNCHANGED product,
           rec' \in [Rounds -> RecStates], gate' \in GateStates, announced' \in [Rounds -> SUBSET Notices],
           RecordsSound', DeciderSound', NotifiedIsProven'
    PROVE  WorkflowInv' /\ Grows
<1>1. ReleaseTypeOK'
  BY DEF ReleaseTypeOK, RecStates, GateStates, Notices
<1>. QED BY <1>1, OthersStand DEF WorkflowInv, TypeOK

\* A check that a person asks for, or a run whose records stay as they are.
LEMMA GateOnly ==
    ASSUME WorkflowInv, OthersUnchanged, faults' \in 0..MaxFaults, UNCHANGED <<rec, announced>>,
           UNCHANGED product \/ \E s \in ProductStatuses : Checked(s),
           gate' \in GateStates, DeciderSound'
    PROVE  WorkflowInv' /\ Grows
<1>1. /\ Grows /\ SubmissionTypeOK' /\ PreTypeOK'
      /\ MailsSound' /\ TasksSound' /\ CallsSound' /\ RetrySound' /\ ProductSound' /\ RequestsSound'
  BY OthersStand
<1>2. ReleaseTypeOK'
  BY GateFacts DEF ReleaseTypeOK, RecStates, GateStates, Notices
<1>3. RecordsSound'
  BY <1>1, ProvenLasts, GateFacts DEF RecordsSound
<1>4. NotifiedIsProven'
  BY <1>1, ProvenLasts, GateFacts DEF NotifiedIsProven
<1>. QED BY <1>1, <1>2, <1>3, <1>4 DEF WorkflowInv, TypeOK

\* The run ends, or looks at a notice again.
LEMMA GateTurns ==
    ASSUME WorkflowInv, OthersUnchanged, faults' \in 0..MaxFaults, UNCHANGED <<product, rec, announced>>,
           \/ gate' = NoGate
           \/ \E r \in Rounds : gate' = [at |-> "notify", round |-> r]
    PROVE  WorkflowInv' /\ Grows
<1>1. gate' \in GateStates /\ DeciderSound'
  BY DEF NoGate, DeciderSound, GateStates
<1>. QED BY <1>1, GateOnly

LEMMA GateCallKeeps ==
    ASSUME WorkflowInv, OthersUnchanged, UNCHANGED faults, CallGate
    PROVE  WorkflowInv' /\ Grows
<1>1. PICK s \in ProductStatuses, p \in {"passed", "blocked"} :
          Checked(s) /\ gate' = [gate EXCEPT !.at = p]
  BY DEF CallGate, GateAt, ProductStatuses
<1>2. UNCHANGED <<rec, announced>> /\ gate.at = "call"
  BY DEF CallGate
<1>3. gate' \in GateStates /\ gate'.at = p /\ gate'.round = gate.round
  BY <1>1, GateFacts DEF GateStates
<1>4. DeciderSound'
  BY <1>2, <1>3, GateFacts DEF DeciderSound
<1>. QED BY <1>1, <1>2, <1>3, <1>4, GateFacts, GateOnly

LEMMA PersonKeeps ==
    ASSUME WorkflowInv, OthersUnchanged, UNCHANGED <<releaseVars, faults>>, PersonChecks
    PROVE  WorkflowInv' /\ Grows
<1>1. \E s \in ProductStatuses : Checked(s)
  BY DEF PersonChecks, ProductStatuses
<1>2. UNCHANGED <<rec, gate, announced>>
  BY DEF releaseVars
<1>3. DeciderSound'
  BY <1>2, GateFacts DEF DeciderSound
<1>. QED BY <1>1, <1>2, <1>3, GateFacts, GateOnly

\* What a record says.
RecSound(r, c) ==
    /\ IF c.verified THEN Proven(r, c.manifest, c.origin) ELSE ~ c.origin
    /\ c.notice = "pass" => c.status \in {"RELEASE_READY", "RELEASE_READY_NOTIFIED"}
    /\ c.status \in {"RELEASE_READY", "RELEASE_READY_NOTIFIED"} => Proven(r, c.manifest, c.origin)

LEMMA RecTyped ==
    ASSUME WorkflowInv, NEW r \in Rounds
    PROVE  rec[r] \in RecStates /\ DOMAIN rec = Rounds /\ RecSound(r, rec[r])
  BY GateFacts DEF RecordsSound, NotifiedIsProven, RecSound

\* A record is written, for a round that is being decided or has just been.
LEMMA RecordWritten ==
    ASSUME WorkflowInv, OthersUnchanged, UNCHANGED <<product, faults, announced>>, NEW r \in Rounds,
           NEW c \in RecStates, rec' = [rec EXCEPT ![r] = c], RecSound(r, c),
           gate' \in GateStates, gate'.at # "idle" => gate'.round = r,
           gate'.at \in {"call", "passed", "blocked"} => c.status = "RELEASE_GATE_RUNNING"
    PROVE  WorkflowInv' /\ Grows
<1>1. rec' \in [Rounds -> RecStates] /\ rec'[r] = c /\ \A q \in Rounds \ {r} : rec'[q] = rec[q]
  BY GateFacts
<1>2. UNCHANGED <<product, passed>>
  BY DEF OthersUnchanged, submissionVars
<1>3. \A q \in Rounds : RecSound(q, rec[q])'
  <2>. TAKE q \in Rounds
  <2>1. RecSound(q, rec'[q])
    BY <1>1, RecTyped
  <2>. QED BY <1>2, <2>1 DEF RecSound, Proven, Imported
<1>4. RecordsSound'
  BY <1>3 DEF RecordsSound, RecSound
<1>5. DeciderSound'
  BY <1>1 DEF DeciderSound
<1>6. NotifiedIsProven'
  BY <1>2, <1>3, GateFacts DEF NotifiedIsProven, RecSound, Proven, Imported
<1>. QED BY <1>1, <1>4, <1>5, <1>6, GateFacts, ReleaseStands

\* A request is recorded with the round, manifest and origin that it names.
LEMMA ReceiveKeeps ==
    ASSUME WorkflowInv, OthersUnchanged, UNCHANGED faults, NEW r \in Rounds, Receive(r)
    PROVE  WorkflowInv' /\ Grows
<1>1. PICK m \in requests :
          /\ m.round = r
          /\ rec' = [rec EXCEPT ![r] = [status |-> "RELEASE_GATE_RUNNING", manifest |-> m.manifest,
                                        verified |-> m.verified, origin |-> m.origin,
                                        notice |-> "none"]]
  BY DEF Receive
<1>2. gate' = [at |-> "call", round |-> r] /\ UNCHANGED <<product, announced>>
  BY DEF Receive
<1>3. m \in Requests /\ (IF m.verified THEN Proven(r, m.manifest, m.origin) ELSE ~ m.origin)
  BY <1>1, PreFacts DEF RequestsSound
<1>. DEFINE c == [status |-> "RELEASE_GATE_RUNNING", manifest |-> m.manifest,
                  verified |-> m.verified, origin |-> m.origin, notice |-> "none"]
<1>4. c \in RecStates /\ c.status = "RELEASE_GATE_RUNNING" /\ rec' = [rec EXCEPT ![r] = c]
  BY <1>1, <1>3 DEF RecStates, Requests
<1>5. RecSound(r, c)
  BY <1>3 DEF RecSound
<1>6. gate' \in GateStates /\ gate'.round = r /\ gate'.at = "call"
  BY <1>2 DEF GateStates
<1>. HIDE DEF c
<1>. QED BY <1>2, <1>4, <1>5, <1>6, RecordWritten

\* A pass is recorded for what the request proves, or for what the product gate has
\* released, and then it is marked as unverified.
LEMMA PassKeeps ==
    ASSUME WorkflowInv, OthersUnchanged, UNCHANGED faults, RecordPass
    PROVE  WorkflowInv' /\ Grows
<1>. DEFINE r == gate.round
            m == IF rec[r].verified THEN rec[r].manifest ELSE product.manifest
            c == [rec[r] EXCEPT !.status = "RELEASE_READY", !.notice = "pass", !.manifest = m]
<1>1. /\ gate.at = "passed" /\ (rec[r].verified \/ product.round = r)
      /\ UNCHANGED <<product, announced>> /\ gate' = [gate EXCEPT !.at = "notify"]
  BY DEF RecordPass, GateAt, Current, Rebinds
<1>2. r \in Rounds
  BY <1>1, GateFacts DEF DeciderSound
<1>3. rec' = [rec EXCEPT ![r].status = "RELEASE_READY", ![r].notice = "pass", ![r].manifest = m]
  BY DEF RecordPass, Current
<1>4. m \in Nat
  BY <1>2, RecTyped, GateFacts DEF RecStates, Products
<1>5. Proven(r, m, rec[r].origin)
  BY <1>1, <1>2, RecTyped DEF RecSound, Proven, Imported
<1>. HIDE DEF m
<1>6. /\ c \in RecStates /\ c.status = "RELEASE_READY" /\ c.manifest = m
      /\ c.origin = rec[r].origin /\ c.verified = rec[r].verified /\ c.notice = "pass"
  BY <1>2, <1>4, RecTyped DEF RecStates
<1>7. rec' = [rec EXCEPT ![r] = c]
  BY <1>2, <1>3, RecTyped
<1>8. gate' \in GateStates /\ gate'.at = "notify" /\ gate'.round = r
  BY <1>1, GateFacts DEF GateStates
<1>. HIDE DEF c, r
<1>9. RecSound(r, c)
  BY <1>2, <1>5, <1>6, RecTyped DEF RecSound
<1>. QED BY <1>1, <1>2, <1>6, <1>7, <1>8, <1>9, RecordWritten

LEMMA BlockKeeps ==
    ASSUME WorkflowInv, OthersUnchanged, UNCHANGED faults, RecordBlock
    PROVE  WorkflowInv' /\ Grows
<1>. DEFINE r == gate.round
            n == IF rec[r].verified THEN "block" ELSE "none"
            c == [rec[r] EXCEPT !.status = "RELEASE_GATE_BLOCKED", !.notice = n]
<1>1. /\ gate.at \in {"passed", "blocked"} /\ UNCHANGED <<product, announced>>
      /\ gate' = [gate EXCEPT !.at = "notify"] \/ gate' = NoGate
      /\ rec' = [rec EXCEPT ![r].status = "RELEASE_GATE_BLOCKED", ![r].notice = n]
  BY DEF RecordBlock, GateAt, Current
<1>2. r \in Rounds
  BY <1>1, GateFacts DEF DeciderSound
<1>3. n \in {"block", "none"}
  OBVIOUS
<1>. HIDE DEF n
<1>4. /\ c \in RecStates /\ c.status = "RELEASE_GATE_BLOCKED" /\ c.notice # "pass"
      /\ c.verified = rec[r].verified /\ c.manifest = rec[r].manifest /\ c.origin = rec[r].origin
      /\ rec' = [rec EXCEPT ![r] = c]
  BY <1>1, <1>2, <1>3, RecTyped DEF RecStates
<1>5. gate' \in GateStates /\ gate'.at \in {"notify", "idle"} /\ (gate'.at = "notify" => gate'.round = r)
  BY <1>1, <1>2, GateFacts DEF NoGate, GateStates
<1>. HIDE DEF c, r
<1>6. RecSound(r, c)
  BY <1>2, <1>4, RecTyped DEF RecSound
<1>. QED BY <1>1, <1>2, <1>4, <1>5, <1>6, RecordWritten

\* The notice of a pass names the manifest and the origin of the record.
LEMMA NoticeKeeps ==
    ASSUME WorkflowInv, OthersUnchanged, UNCHANGED faults, SendNotice
    PROVE  WorkflowInv' /\ Grows
<1>. DEFINE r == gate.round
            n == [manifest |-> rec[r].manifest, origin |-> rec[r].origin]
<1>1. /\ gate.at = "notify" /\ gate' = [gate EXCEPT !.at = "notified"] /\ UNCHANGED <<product, rec>>
      /\ announced' = IF rec[r].notice # "pass" THEN announced
                      ELSE [announced EXCEPT ![r] = @ \cup {n}]
  BY DEF SendNotice, GateAt, Current, Notice
<1>2. r \in Rounds
  BY <1>1, GateFacts DEF DeciderSound
<1>3. n \in Notices /\ (rec[r].notice = "pass" => Proven(r, n.manifest, n.origin))
  BY <1>2, RecTyped DEF RecStates, Notices, RecSound
<1>4. announced \in [Rounds -> SUBSET Notices]
      /\ \A q \in Rounds : \A k \in announced[q] : Proven(q, k.manifest, k.origin)
  BY GateFacts DEF NotifiedIsProven
<1>5. gate' \in GateStates /\ gate'.at = "notified" /\ gate'.round = r
  BY <1>1, GateFacts DEF GateStates
<1>. HIDE DEF r, n
<1>6. announced' \in [Rounds -> SUBSET Notices]
      /\ \A q \in Rounds : \A k \in announced'[q] : Proven(q, k.manifest, k.origin)
  BY <1>1, <1>2, <1>3, <1>4
<1>7. UNCHANGED <<product, passed, rec>>
  BY <1>1 DEF OthersUnchanged, submissionVars
<1>8. RecordsSound' /\ DeciderSound'
  BY <1>2, <1>5, <1>7, GateFacts DEF RecordsSound, DeciderSound, Proven, Imported
<1>9. NotifiedIsProven'
  BY <1>6, <1>7, GateFacts DEF NotifiedIsProven, Proven, Imported
<1>. QED BY <1>5, <1>6, <1>7, <1>8, <1>9, GateFacts, ReleaseStands

LEMMA SaveNoticeKeeps ==
    ASSUME WorkflowInv, OthersUnchanged, UNCHANGED faults, SaveNotice
    PROVE  WorkflowInv' /\ Grows
<1>. DEFINE r == gate.round
            s == IF rec[r].notice = "pass" THEN "RELEASE_READY_NOTIFIED" ELSE rec[r].status
            c == [rec[r] EXCEPT !.notice = "none", !.status = s]
<1>1. /\ gate.at = "notified" /\ UNCHANGED <<product, announced>> /\ gate' = NoGate
      /\ rec' = [rec EXCEPT ![r].notice = "none", ![r].status = s]
  BY DEF SaveNotice, Current
<1>2. r \in Rounds
  BY <1>1, GateFacts DEF DeciderSound
<1>3. /\ s \in {"RELEASE_READY_NOTIFIED", rec[r].status}
      /\ s \in {"RELEASE_READY", "RELEASE_READY_NOTIFIED"}
            => rec[r].status \in {"RELEASE_READY", "RELEASE_READY_NOTIFIED"}
  BY <1>2, RecTyped DEF RecSound
<1>. HIDE DEF s
<1>4. /\ c \in RecStates /\ c.status = s /\ c.notice = "none"
      /\ c.verified = rec[r].verified /\ c.manifest = rec[r].manifest /\ c.origin = rec[r].origin
      /\ rec' = [rec EXCEPT ![r] = c]
  BY <1>1, <1>2, <1>3, RecTyped DEF RecStates
<1>5. gate' \in GateStates /\ gate'.at = "idle"
  BY <1>1 DEF NoGate, GateStates
<1>. HIDE DEF c, r
<1>6. RecSound(r, c)
  BY <1>2, <1>3, <1>4, RecTyped DEF RecSound
<1>. QED BY <1>1, <1>2, <1>4, <1>5, <1>6, RecordWritten

LEMMA ReleaseKeeps ==
    ASSUME SubmissionAssumption, WorkflowInv, ReleaseRunStep \/ ReleaseStep
    PROVE  WorkflowInv' /\ Grows
<1>1. OthersUnchanged
  BY DEF ReleaseRunStep, ReleaseStep
<1>2. CASE ReleaseRunStep
  <2>1. UNCHANGED faults /\ faults' \in 0..MaxFaults
    BY <1>2, GateFacts DEF ReleaseRunStep
  <2>2. CASE RetryNotice \/ GateRefuses
    <3>1. /\ UNCHANGED <<product, rec, announced>>
          /\ gate' = NoGate \/ \E r \in Rounds : gate' = [at |-> "notify", round |-> r]
      BY <2>2 DEF RetryNotice, GateRefuses
    <3>. QED BY <1>1, <2>1, <3>1, GateTurns
  <2>. QED BY <1>1, <1>2, <2>1, <2>2, ReceiveKeeps, GateCallKeeps, PassKeeps, BlockKeeps, NoticeKeeps,
              SaveNoticeKeeps DEF ReleaseRunStep
<1>3. CASE ReleaseStep
  <2>1. CASE NoticeRefused \/ ReleaseRunDies
    <3>1. UNCHANGED <<product, rec, announced>> /\ gate' = NoGate /\ faults' \in 0..MaxFaults
      BY <2>1, GateFacts DEF NoticeRefused, ReleaseRunDies, Fault, SubmissionAssumption
    <3>. QED BY <1>1, <3>1, GateTurns
  <2>. QED BY <1>1, <1>3, <2>1, PersonKeeps DEF ReleaseStep
<1>. QED BY <1>2, <1>3

\* A request that no plugin has signed vouches for nothing.
LEMMA PlainKeeps ==
    ASSUME WorkflowInv, PersonStep
    PROVE  WorkflowInv' /\ Grows
<1>1. UNCHANGED <<submissionVars, task, op, preRun, product, output, releaseVars, faults>>
  BY DEF PersonStep
<1>2. PICK r \in Rounds : requests' = requests \cup {PlainRequest(r)}
  BY DEF PersonStep, PersonWrites
<1>3. Grows
  BY <1>1, <1>2 DEF Grows, submissionVars
<1>4. requests' \subseteq Requests /\ RequestsSound'
  <2>. DEFINE q == PlainRequest(r)
  <2>1. q \in Requests /\ ~ q.verified /\ ~ q.origin
    BY DEF PlainRequest, Requests
  <2>. HIDE DEF q
  <2>2. requests' = requests \cup {q}
    BY <1>2 DEF q
  <2>3. \A k \in requests : k.verified => Proven(k.round, k.manifest, k.origin)'
    BY <1>3, ProvenLasts, PreFacts DEF RequestsSound, Requests
  <2>. QED BY <2>1, <2>2, <2>3, PreFacts DEF RequestsSound
<1>5. preRun' \in PreRuns /\ RetrySound' /\ faults' \in 0..MaxFaults
  BY <1>1, <1>3, RetryLasts, PreFacts
<1>. QED BY <1>1, <1>3, <1>4, <1>5, RetryOnly

(***************************************************************************)
(* The four stages together                                                 *)
(***************************************************************************)
LEMMA WorkflowStarts == ASSUME SubmissionAssumption, Init PROVE WorkflowInv
<1>1. SubmissionTypeOK /\ MailsSound
  <2>1. Jobs = {} /\ IsFiniteSet(Jobs)
    BY FS_EmptySet DEF Init, SubmissionInit, Jobs
  <2>. QED BY <2>1 DEF Init, SubmissionInit, SubmissionAssumption, SubmissionTypeOK, MailsSound, NoGateRun,
                       GateRuns, Records
<1>2. PreTypeOK /\ ReleaseTypeOK
  BY DEF Init, PreInit, PreTypeOK, ReleaseTypeOK, NoTask, NoOp, NoPreRun, NoProduct, NoRec, NoGate,
         TaskFiles, Statuses, OpStates, OpPlaces, ProductStatuses
<1>3. TasksSound /\ CallsSound /\ RetrySound /\ ProductSound /\ RequestsSound
  BY DEF Init, PreInit, TasksSound, TaskSound, CallsSound, CallSound, RetrySound, ProductSound,
         RequestsSound, NoTask, NoOp, NoPreRun, NoProduct, Sendable
<1>4. RecordsSound /\ DeciderSound /\ NotifiedIsProven
  BY DEF Init, RecordsSound, DeciderSound, NotifiedIsProven, NoRec, NoGate
<1>. QED BY <1>1, <1>2, <1>3, <1>4 DEF WorkflowInv, TypeOK

LEMMA WorkflowSteps ==
    ASSUME SubmissionAssumption, WorkflowInv, [Next]_vars
    PROVE  WorkflowInv' /\ Grows
<1>1. CASE SubmissionNext /\ UNCHANGED <<preVars, releaseVars>>
  BY <1>1, SubmissionKeeps
<1>2. CASE ((PreStep /\ UNCHANGED faults) \/ PreFault) /\ UNCHANGED <<submissionVars, releaseVars>>
  BY <1>2, PreKeeps
<1>3. CASE ReleaseRunStep \/ ReleaseStep
  BY <1>3, ReleaseKeeps
<1>4. CASE PersonStep
  BY <1>4, PlainKeeps
<1>5. CASE UNCHANGED vars
  <2>1. OthersUnchanged /\ UNCHANGED <<product, rec, gate, announced, faults>>
    BY <1>5 DEF vars, OthersUnchanged, preVars, releaseVars
  <2>2. gate' \in GateStates /\ DeciderSound'
    BY <2>1, GateFacts DEF DeciderSound
  <2>. QED BY <2>1, <2>2, GateFacts, GateOnly
<1>. QED BY <1>1, <1>2, <1>3, <1>4, <1>5 DEF Next

\* What is copied from file to file rests on what no step takes back, wherever the stages
\* are cut short and however many testers and runs write back old copies.
THEOREM WorkflowSafety ==
    Spec => []WorkflowInv
<1>1. Init => WorkflowInv
  BY SubmissionAssumption, WorkflowStarts
<1>2. WorkflowInv /\ [Next]_vars => WorkflowInv'
  BY SubmissionAssumption, WorkflowSteps
<1>. QED BY <1>1, <1>2, PTL DEF Spec

\* The release group is only told of a pass with the round and manifest that the product
\* gate has imported, and one that is marked as verified was passed by a job of the
\* submission gate.
THEOREM NoticesAreProven ==
    Spec => []NotifiedIsProven
<1>1. WorkflowInv => NotifiedIsProven
  BY DEF WorkflowInv
<1>. QED BY <1>1, WorkflowSafety, PTL

\* create_request() and the runs write back whole copies without a lock, and yet what a
\* task says to be ready is built from its own manifest and frozen inputs, and what it
\* says to be sent was sent.
THEOREM SentRestsOnBuild ==
    Spec => []SentIsBuilt
<1>1. WorkflowInv => SentIsBuilt
  BY DEF WorkflowInv, TasksSound, TaskSound, Built, Sendable, SentIsBuilt
<1>. QED BY <1>1, WorkflowSafety, PTL
=============================================================================
