---------------------------- MODULE ReleaseWorkflow ----------------------------
(***************************************************************************)
(* The four stages of the material workflow: test-submission and the         *)
(* submission gate, pre-release and the product gate, and here the release     *)
(* gate, which answers a request once: it records the round, has the product   *)
(* gate check the event and mails the result to the release group.             *)
(*                                                                         *)
(* A run of the release gate holds two locks, and no other process writes its *)
(* records.  The event of the product gate also has other users.              *)
(***************************************************************************)
EXTENDS PreRelease

VARIABLES
    rec,         \* rec[r]: the record of the release gate for round r
    gate,        \* the run of the release gate
    announced    \* announced[r]: the passes mailed to the release group: manifest and origin

releaseVars == <<rec, gate, announced>>
vars == <<submissionVars, preVars, releaseVars, faults>>

NoRec == [status |-> "none", manifest |-> 0, verified |-> FALSE, origin |-> FALSE,
          notice |-> "none"]
NoGate == [at |-> "idle", round |-> 0]
Current == rec[gate.round]
GateAt(place) == gate' = [gate EXCEPT !.at = place]

(***************************************************************************)
(* run_once() of the release gate                                           *)
(***************************************************************************)
\* _retry_pending_outbound(), and the retry of a pass whose request comes again.
RetryNotice ==
    /\ gate.at = "idle"
    /\ \E r \in Rounds : rec[r].notice # "none" /\ gate' = [at |-> "notify", round |-> r]
    /\ UNCHANGED <<product, rec, announced>>

\* _process_message(): the first mail of a round is recorded, the others are ignored.
Receive(r) ==
    /\ gate.at = "idle"
    /\ rec[r].status = "none"
    /\ \E m \in requests :
          /\ m.round = r
          /\ rec' = [rec EXCEPT ![r] = [status |-> "RELEASE_GATE_RUNNING", manifest |-> m.manifest,
                                        verified |-> m.verified, origin |-> m.origin,
                                        notice |-> "none"]]
    /\ gate' = [at |-> "call", round |-> r]
    /\ UNCHANGED <<product, announced>>

\* run_release_gate(): every rule passes, the final material differs from what was
\* submitted, or another rule fails.
Checked(status) ==
    /\ product.status \in {"RELEASE_GATING", "RELEASE_BLOCKED"}
    /\ status \in {"RELEASE_READY", "SUBMISSION_BLOCKED", "RELEASE_BLOCKED"}
    /\ product' = [product EXCEPT !.status = status]

CallGate ==
    /\ gate.at = "call"
    /\ \E status \in {"RELEASE_READY", "SUBMISSION_BLOCKED", "RELEASE_BLOCKED"} :
          /\ Checked(status)
          /\ GateAt(IF status = "RELEASE_READY" THEN "passed" ELSE "blocked")
    /\ UNCHANGED <<rec, announced>>

\* The product gate refuses to check an event in another state: the run ends with an
\* error and the record stays at RELEASE_GATE_RUNNING, which no run looks at again.
GateRefuses ==
    /\ gate.at = "call"
    /\ product.status \notin {"RELEASE_GATING", "RELEASE_BLOCKED"}
    /\ gate' = NoGate
    /\ UNCHANGED <<product, rec, announced>>

\* Bug: the round of the authoritative event is not compared.
RebindsAnyRound == product.status = "RELEASE_READY"

\* The record gets the decision and the notice of it.  A plain mail takes manifest and
\* round from the product gate (_rebind_fallback_provenance), keeps its mark as
\* unverified, and gets no notice if it is blocked.
Rebinds == product.status = "RELEASE_READY" /\ product.round = gate.round

RecordPass ==
    /\ gate.at = "passed"
    /\ Current.verified \/ Rebinds
    /\ rec' = [rec EXCEPT ![gate.round].status = "RELEASE_READY",
                          ![gate.round].notice = "pass",
                          ![gate.round].manifest = IF Current.verified THEN @
                                                   ELSE product.manifest]
    /\ GateAt("notify")
    /\ UNCHANGED <<product, announced>>

RecordBlock ==
    /\ \/ gate.at = "blocked"
       \/ gate.at = "passed" /\ ~ Current.verified /\ ~ Rebinds
    /\ rec' = [rec EXCEPT ![gate.round].status = "RELEASE_GATE_BLOCKED",
                          ![gate.round].notice = IF Current.verified THEN "block" ELSE "none"]
    /\ IF Current.verified THEN GateAt("notify") ELSE gate' = NoGate
    /\ UNCHANGED <<product, announced>>

\* _retry_notice(): the notice is mailed, then the record saved without it.
Notice == [manifest |-> Current.manifest, origin |-> Current.origin]

SendNotice ==
    /\ gate.at = "notify"
    /\ announced' = IF Current.notice # "pass" THEN announced
                    ELSE [announced EXCEPT ![gate.round] = @ \cup {Notice}]
    /\ GateAt("notified")
    /\ UNCHANGED <<product, rec>>

SaveNotice ==
    /\ gate.at = "notified"
    /\ rec' = [rec EXCEPT ![gate.round].notice = "none",
                          ![gate.round].status = IF Current.notice = "pass"
                                                 THEN "RELEASE_READY_NOTIFIED" ELSE @]
    /\ gate' = NoGate
    /\ UNCHANGED <<product, announced>>

NoticeRefused ==
    /\ gate.at = "notify"
    /\ Fault
    /\ gate' = NoGate
    /\ UNCHANGED <<product, rec, announced>>

\* The run dies, or the call of the product gate times out.
ReleaseRunDies ==
    /\ gate.at # "idle"
    /\ Fault
    /\ gate' = NoGate
    /\ UNCHANGED <<product, rec, announced>>

\* A person mails a request that no plugin has signed, or has the product gate check
\* the event again.
PersonWrites(r) == requests' = requests \cup {PlainRequest(r)}
PersonChecks == \E status \in {"RELEASE_READY", "SUBMISSION_BLOCKED", "RELEASE_BLOCKED"} :
                    Checked(status)

(***************************************************************************)
(* The four stages together                                                 *)
(***************************************************************************)
Init ==
    /\ SubmissionInit
    /\ PreInit
    /\ rec = [r \in Rounds |-> NoRec]
    /\ gate = NoGate
    /\ announced = [r \in Rounds |-> {}]

\* What a step of the release gate leaves alone.
OthersUnchanged == UNCHANGED <<submissionVars, task, op, preRun, output, requests>>

\* What a run of the release gate does about the requests and notices that are waiting.
ReleaseRunStep ==
    /\ OthersUnchanged
    /\ UNCHANGED faults
    /\ \/ RetryNotice \/ RecordPass \/ RecordBlock \/ SendNotice \/ SaveNotice
       \/ \E r \in Rounds : Receive(r)
       \/ CallGate \/ GateRefuses

ReleaseStep ==
    /\ OthersUnchanged
    /\ \/ NoticeRefused \/ ReleaseRunDies
       \/ PersonChecks /\ UNCHANGED <<releaseVars, faults>>

PersonStep ==
    /\ \E r \in Rounds : PersonWrites(r)
    /\ UNCHANGED <<submissionVars, task, op, preRun, product, output, releaseVars, faults>>

Next ==
    \/ SubmissionNext /\ UNCHANGED <<preVars, releaseVars>>
    \/ PreStep /\ UNCHANGED <<submissionVars, releaseVars, faults>>
    \/ PreFault /\ UNCHANGED <<submissionVars, releaseVars>>
    \/ ReleaseRunStep
    \/ ReleaseStep
    \/ PersonStep

Spec == Init /\ [][Next]_vars

\* The scheduler of each stage starts a run after the other.
Fairness == SubmissionFairness /\ PreFairness /\ WF_vars(ReleaseRunStep)

FairSpec == Spec /\ Fairness

(***************************************************************************)
(* Properties                                                               *)
(***************************************************************************)
\* Every variable has its type.
ReleaseTypeOK ==
    /\ rec \in [Rounds -> [status : {"none", "RELEASE_GATE_RUNNING", "RELEASE_READY",
                                     "RELEASE_READY_NOTIFIED", "RELEASE_GATE_BLOCKED"},
                           manifest : Nat, verified : BOOLEAN, origin : BOOLEAN,
                           notice : {"none", "pass", "block"}]]
    /\ gate \in [at : {"idle", "notify", "call", "passed", "blocked", "notified"},
                 round : Rounds \cup {0}]
    /\ announced \in [Rounds -> SUBSET [manifest : Nat, origin : BOOLEAN]]
TypeOK == SubmissionTypeOK /\ PreTypeOK /\ ReleaseTypeOK

\* Round r and manifest m are those of the product gate's event.
Imported(r, m) == product.round = r /\ product.manifest = m

\* What a pass of round r rests on: round and manifest are those that the product gate has
\* tested, built and checked, and one that is marked as verified was passed by a job of the
\* submission gate.
Proven(r, manifest, origin) ==
    /\ Imported(r, manifest)
    /\ origin => manifest \in passed[r]

\* The release group is only told of a pass that is proven, whoever wrote the pass and the
\* request, whatever testers answer at once, however often a stage was retried, and
\* whatever it mailed before it died.
NotifiedIsProven ==
    \A r \in Rounds :
        /\ \A n \in announced[r] : Proven(r, n.manifest, n.origin)
        /\ rec[r].status \in {"RELEASE_READY", "RELEASE_READY_NOTIFIED"}
               => Proven(r, rec[r].manifest, rec[r].origin)

\* A task that is ready to be sent, or sent, rests on final material that was built from its
\* own manifest with its own frozen inputs, and one that is sent has its request in the
\* mailbox, although testers and runs write back whole copies that they loaded earlier.
SentIsBuilt ==
    \A r \in Rounds :
        /\ task[r].status \in {"PRERELEASE_GATE_RUNNING", "PRERELEASE_SENT"}
               => Imported(r, task[r].manifest) /\ task[r].intent \in output[r]
        /\ task[r].status = "PRERELEASE_SENT" => SignedRequest(r, task[r]) \in requests

\* A PASS that is frozen stays frozen, and a request that was sent stays sent.  With two
\* testers it does not hold: a copy that one has loaded before replaces both.
FrozenStays ==
    [][\A r \in Rounds :
           /\ task[r].intent # 0 => task'[r].intent = task[r].intent
           /\ task[r].status = "PRERELEASE_SENT" => task'[r].status = "PRERELEASE_SENT"]_vars

\* A round that the submission gate records as passed becomes a task of the testers,
\* even if its mail was refused, or sent by a run that died.
PassReachesTester ==
    \A r \in Submitted :
        (\E i \in 1..MaxCopies : processed[r][i] \in {"SUBMISSION_GATE_PASSED", "SEND_BLOCKED"})
            ~> (task[r].status # "none")

\* A request that is ready to be sent reaches the release gate, even if its mail was
\* refused, or the process that built it died, unless another tester writes an older copy
\* over the ready task.
RequestReachesGate ==
    \A r \in Submitted \cup Unsigned :
        (task[r].status = "PRERELEASE_GATE_RUNNING")
            ~> \/ rec[r].status # "none"
               \/ task[r].status \notin {"PRERELEASE_GATE_RUNNING", "PRERELEASE_SENT"}
=============================================================================
