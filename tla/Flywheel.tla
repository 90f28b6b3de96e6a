------------------------------ MODULE Flywheel ------------------------------
(***************************************************************************)
(* The R&D flywheel turns a capability gap that another plugin reports into *)
(* a decision of the governance roles, then into a build by an agent, then  *)
(* into evidence that independent verifiers check.                          *)
(*                                                                         *)
(* One run at a time holds the kernel lock.  It takes the files of the      *)
(* inbox, then the events that wait for a decision, then those that wait    *)
(* for evidence, and moves each as far as it gets, one transaction of the   *)
(* store per transition.  An operator may retry one event under the same    *)
(* lock.  A run may die between any two transactions.                       *)
(***************************************************************************)
EXTENDS Naturals, FiniteSets

CONSTANTS
    Events,       \* idempotency keys
    Inputs,       \* the files of the inbox
    EventOf,      \* the event of a file; None when the file is no valid event
    Kinds,        \* required_evidence
    None,
    MaxBuilds,    \* bound on the builds of an event that fail
    MaxChanges,   \* bound on the changes of the role document and of the adapters
    MaxDeaths     \* bound on the runs that die

ASSUME FlywheelAssumption ==
    /\ EventOf \in [Inputs -> Events \cup {None}]
    /\ None \notin Events \cup Nat
    /\ {MaxBuilds, MaxChanges, MaxDeaths} \subseteq Nat

VARIABLES
    state,      \* state[e]: the row of the event
    inputs,     \* the files recorded, as accepted or as rejected
    frozen,     \* frozen[e]: the role snapshot in the frozen decision package, or None
    presented,  \* the events with a presentation receipt
    mailed,     \* the events whose request was mailed at least once
    granted,    \* granted[e]: the transitions to WAITING_AGENT
    builds,     \* builds[e]: how often the agent was started
    claimed,    \* claimed[e][k]: the build whose evidence of kind k is recorded, or 0
    verified,   \* verified[e][k]: the build whose evidence of kind k was verified, or 0
    run,        \* the run that holds the lock
    roles,      \* the live role document
    ready,      \* the tools, the agent adapter and the decision services are there
    decision,   \* decision[e]: what the independent verifier says of the request
    provable,   \* provable[e]: the kinds whose verifier would accept the evidence
    changes,
    deaths

store == <<state, inputs, granted, claimed, verified>>
files == <<frozen, presented, mailed, builds>>
world == <<roles, ready, decision, provable, changes>>
vars == <<store, files, world, run, deaths>>

States == {"none", "RECEIVED", "VALIDATED", "DECISION_PENDING", "WAITING_AGENT", "BUILDING",
           "EVIDENCE_PENDING", "COMPLETE", "CAPABILITY_BLOCKED"}

Idle == [phase |-> "none", at |-> "idle", ev |-> None, new |-> FALSE, handled |-> {}]
Phases == <<"inbox", "decisions", "evidence">>

Goto(place) == run' = [run EXCEPT !.at = place]

\* The run has the event in its results and looks for the next one.
Leave ==
    run' = IF run.phase = "retry" THEN Idle
           ELSE [run EXCEPT !.at = "scan", !.ev = None, !.handled = @ \cup {run.ev}]

Transition(to) == state' = [state EXCEPT ![run.ev] = to]

\* _block()
Block ==
    /\ Transition("CAPABILITY_BLOCKED")
    /\ Leave
    /\ UNCHANGED <<inputs, granted, claimed, verified>>

(***************************************************************************)
(* run_once()                                                               *)
(***************************************************************************)
StartRun ==
    /\ run.at = "idle"
    /\ run' = [Idle EXCEPT !.phase = "inbox", !.at = "scan"]
    /\ UNCHANGED <<store, files, world, deaths>>

Scans(phase) == run.at = "scan" /\ run.phase = phase

\* A file that is no valid event is recorded once, as rejected.
RejectInput ==
    /\ Scans("inbox")
    /\ \E i \in Inputs \ inputs : EventOf[i] = None /\ inputs' = inputs \cup {i}
    /\ UNCHANGED <<state, granted, claimed, verified, files, world, run, deaths>>

\* record_event(): a new event is received; one that is known stays as it is.
RecordEvent ==
    /\ Scans("inbox")
    /\ \E i \in Inputs \ inputs :
          /\ EventOf[i] # None
          /\ run' = [run EXCEPT !.at = "record", !.ev = EventOf[i],
                                !.new = state[EventOf[i]] = "none"]
          /\ state' = [state EXCEPT ![EventOf[i]] = IF @ = "none" THEN "RECEIVED" ELSE @]
    /\ UNCHANGED <<inputs, granted, claimed, verified, files, world, deaths>>

\* record_input(): only an event that is new in this run goes on.
RecordInput ==
    /\ run.at = "record"
    /\ \E i \in Inputs \ inputs : EventOf[i] = run.ev /\ inputs' = inputs \cup {i}
    /\ run' = IF run.new THEN [run EXCEPT !.at = "validate"]
              ELSE [run EXCEPT !.at = "scan", !.ev = None]
    /\ UNCHANGED <<state, granted, claimed, verified, files, world, deaths>>

Validate ==
    /\ run.at = "validate"
    /\ Transition("VALIDATED")
    /\ Goto("advance")
    /\ UNCHANGED <<inputs, granted, claimed, verified, files, world, deaths>>

\* Bug: only the events that this run has handled.
WaitingHandled(s) == {e \in run.handled : state[e] = s}

\* The events in a state that this run has not handled.
Waiting(s) == {e \in Events \ run.handled : state[e] = s}

\* The next loop of the run; after the last one the lock is free.
NextPhase ==
    /\ run.at = "scan"
    /\ \/ run.phase = "inbox" /\ inputs = Inputs /\ run' = [run EXCEPT !.phase = "decisions"]
       \/ /\ run.phase = "decisions" /\ Waiting("DECISION_PENDING") = {}
          /\ run' = [run EXCEPT !.phase = "evidence"]
       \/ run.phase = "evidence" /\ Waiting("EVIDENCE_PENDING") = {} /\ run' = Idle
    /\ UNCHANGED <<store, files, world, deaths>>

(***************************************************************************)
(* _advance_validated()                                                     *)
(***************************************************************************)
\* Something is missing, or the live roles are no longer those of the frozen package.
AdvanceBlocked ==
    /\ run.at = "advance"
    /\ ~ ready \/ frozen[run.ev] \notin {None, roles}
    /\ Block
    /\ UNCHANGED <<files, world, deaths>>

\* _freeze_decision_package(): the request is frozen with the roles as they are.
Freeze ==
    /\ run.at = "advance"
    /\ ready
    /\ frozen[run.ev] \in {None, roles}
    /\ frozen' = [frozen EXCEPT ![run.ev] = roles]
    /\ Goto(IF run.ev \in presented THEN "pend" ELSE "present")
    /\ UNCHANGED <<store, presented, mailed, builds, world, deaths>>

\* The presenter mails the request: to all recipients or, after a failure, to some or none.
Present ==
    /\ run.at = "present"
    /\ mailed' = mailed \cup {run.ev}
    /\ Goto("receipt")
    /\ UNCHANGED <<store, frozen, presented, builds, world, deaths>>

PresentFails ==
    /\ run.at = "present"
    /\ mailed' \in {mailed, mailed \cup {run.ev}}
    /\ Block
    /\ UNCHANGED <<frozen, presented, builds, world, deaths>>

FreezeReceipt ==
    /\ run.at = "receipt"
    /\ presented' = presented \cup {run.ev}
    /\ Goto("pend")
    /\ UNCHANGED <<store, frozen, mailed, builds, world, deaths>>

Pend ==
    /\ run.at = "pend"
    /\ Transition("DECISION_PENDING")
    /\ Leave
    /\ UNCHANGED <<inputs, granted, claimed, verified, files, world, deaths>>

(***************************************************************************)
(* _verify_decision()                                                       *)
(***************************************************************************)
\* Bug: a run takes up a build that another run left.
DecideOrBuild ==
    /\ Scans("decisions")
    /\ \/ \E e \in Waiting("DECISION_PENDING") : run' = [run EXCEPT !.at = "decide", !.ev = e]
       \/ \E e \in Waiting("BUILDING") : run' = [run EXCEPT !.at = "building", !.ev = e]
    /\ UNCHANGED <<store, files, world, deaths>>

Decide ==
    /\ Scans("decisions")
    /\ \E e \in Waiting("DECISION_PENDING") : run' = [run EXCEPT !.at = "decide", !.ev = e]
    /\ UNCHANGED <<store, files, world, deaths>>

\* Something is missing, the roles have drifted, or the decision is no or too late.
DecisionBlocked ==
    /\ run.at = "decide"
    /\ ~ ready \/ frozen[run.ev] # roles \/ decision[run.ev] = "rejected"
    /\ Block
    /\ UNCHANGED <<files, world, deaths>>

Undecided ==
    /\ run.at = "decide"
    /\ ready /\ frozen[run.ev] = roles /\ decision[run.ev] = "pending"
    /\ Leave
    /\ UNCHANGED <<store, files, world, deaths>>

Approved ==
    /\ run.at = "decide"
    /\ ready /\ frozen[run.ev] = roles /\ decision[run.ev] = "approved"
    /\ Transition("WAITING_AGENT")
    /\ granted' = [granted EXCEPT ![run.ev] = @ + 1]
    /\ Goto("waiting")
    /\ UNCHANGED <<inputs, claimed, verified, files, world, deaths>>

Invoke ==
    /\ run.at = "waiting"
    /\ Transition("BUILDING")
    /\ Goto("building")
    /\ UNCHANGED <<inputs, granted, claimed, verified, files, world, deaths>>

\* The adapter is called.
StartAgent ==
    /\ run.at = "building"
    /\ builds' = [builds EXCEPT ![run.ev] = @ + 1]
    /\ Goto("agent")
    /\ UNCHANGED <<store, frozen, presented, mailed, world, deaths>>

AgentFails ==
    /\ run.at = "agent"
    /\ builds[run.ev] <= MaxBuilds
    /\ Block
    /\ UNCHANGED <<files, world, deaths>>

\* What the agent says is evidence that nobody has verified yet.
AgentAnswers ==
    /\ run.at = "agent"
    /\ Transition("EVIDENCE_PENDING")
    /\ \E K \in {Kinds, {}} :
          claimed' = [claimed EXCEPT ![run.ev] =
                        [k \in Kinds |-> IF k \in K THEN builds[run.ev] ELSE @[k]]]
    /\ Goto("verify")
    /\ UNCHANGED <<inputs, granted, verified, files, world, deaths>>

(***************************************************************************)
(* _verify_pending()                                                        *)
(***************************************************************************)
VerifyEvidence ==
    /\ Scans("evidence")
    /\ \E e \in Waiting("EVIDENCE_PENDING") : run' = [run EXCEPT !.at = "verify", !.ev = e]
    /\ UNCHANGED <<store, files, world, deaths>>

\* The kinds that the run can add to the verified ones.
Additions(e) == {k \in provable[e] : claimed[e][k] > 0 /\ verified[e][k] = 0}

RecordEvidence ==
    /\ run.at = "verify"
    /\ verified' = [verified EXCEPT ![run.ev] =
                      [k \in Kinds |-> IF k \in Additions(run.ev) THEN claimed[run.ev][k]
                                       ELSE @[k]]]
    /\ Goto("missing")
    /\ UNCHANGED <<state, inputs, granted, claimed, files, world, deaths>>

\* missing_completion_evidence()
Missing(e) == {k \in Kinds : verified[e][k] = 0}

Complete ==
    /\ run.at = "missing"
    /\ IF Missing(run.ev) = {} THEN Transition("COMPLETE") ELSE UNCHANGED state
    /\ Leave
    /\ UNCHANGED <<inputs, granted, claimed, verified, files, world, deaths>>

(***************************************************************************)
(* retry_event()                                                            *)
(***************************************************************************)
Retry(e) ==
    /\ run.at = "idle"
    /\ \/ /\ state[e] = "CAPABILITY_BLOCKED"
          /\ state' = [state EXCEPT ![e] = "VALIDATED"]
          /\ run' = [Idle EXCEPT !.phase = "retry", !.at = "advance", !.ev = e]
       \/ /\ state[e] = "EVIDENCE_PENDING"
          /\ UNCHANGED state
          /\ run' = [Idle EXCEPT !.phase = "retry", !.at = "verify", !.ev = e]
    /\ UNCHANGED <<inputs, granted, claimed, verified, files, world, deaths>>

(***************************************************************************)
(* A run that dies, and the world                                           *)
(***************************************************************************)
Die ==
    /\ run.at # "idle"
    /\ deaths < MaxDeaths
    /\ deaths' = deaths + 1
    /\ run' = Idle
    /\ UNCHANGED <<store, files, world>>

Change ==
    /\ changes < MaxChanges
    /\ changes' = changes + 1
    /\ \/ roles' = roles + 1 /\ UNCHANGED ready
       \/ ready' = ~ ready /\ UNCHANGED roles
    /\ UNCHANGED <<store, files, decision, provable, run, deaths>>

\* Whoever has the mail may answer it; a request expires.
DecisionChanges(e) ==
    /\ e \in mailed
    /\ \/ decision[e] = "pending" /\ decision' = [decision EXCEPT ![e] = "approved"]
       \/ decision[e] # "rejected" /\ decision' = [decision EXCEPT ![e] = "rejected"]
    /\ UNCHANGED <<store, files, roles, ready, provable, changes, run, deaths>>

\* Evidence of the build appears where its verifier looks.
Prove(e) ==
    /\ builds[e] > 0
    /\ \E k \in Kinds \ provable[e] : provable' = [provable EXCEPT ![e] = @ \cup {k}]
    /\ UNCHANGED <<store, files, roles, ready, decision, changes, run, deaths>>

Init ==
    /\ state = [e \in Events |-> "none"]
    /\ inputs = {} /\ presented = {}
    /\ frozen = [e \in Events |-> None]
    /\ mailed = {}
    /\ granted = [e \in Events |-> 0] /\ builds = granted
    /\ claimed = [e \in Events |-> [k \in Kinds |-> 0]] /\ verified = claimed
    /\ run = Idle
    /\ roles = 1 /\ ready = TRUE
    /\ decision = [e \in Events |-> "pending"]
    /\ provable = [e \in Events |-> {}]
    /\ changes = 0 /\ deaths = 0

AdvanceStep ==
    AdvanceBlocked \/ Freeze \/ Present \/ PresentFails \/ FreezeReceipt \/ Pend

DecisionStep ==
    \/ DecisionBlocked \/ Undecided \/ Approved \/ Invoke
    \/ StartAgent \/ AgentFails \/ AgentAnswers

\* What a run does of itself once it was started.
RunStep ==
    \/ RejectInput \/ RecordEvent \/ RecordInput \/ Validate \/ NextPhase
    \/ AdvanceStep \/ Decide \/ DecisionStep \/ VerifyEvidence \/ RecordEvidence \/ Complete

World == Change \/ \E e \in Events : DecisionChanges(e) \/ Prove(e)

Next == StartRun \/ RunStep \/ Die \/ World \/ \E e \in Events : Retry(e)

\* The scheduler starts a run again and again; nobody has to retry.
Spec == Init /\ [][Next]_vars /\ WF_vars(RunStep) /\ SF_vars(StartRun)

(***************************************************************************)
(* Properties                                                               *)
(***************************************************************************)
Places == {"idle", "scan", "record", "validate", "advance", "present", "receipt", "pend",
           "decide", "waiting", "building", "agent", "verify", "missing"}

\* Every variable has its type.
TypeOK ==
    /\ state \in [Events -> States]
    /\ inputs \subseteq Inputs
    /\ frozen \in [Events -> Nat \cup {None}]
    /\ presented \subseteq Events
    /\ mailed \subseteq Events
    /\ granted \in [Events -> Nat] /\ builds \in [Events -> Nat]
    /\ claimed \in [Events -> [Kinds -> Nat]] /\ verified \in [Events -> [Kinds -> Nat]]
    /\ run \in [phase : {"none", "retry", "inbox", "decisions", "evidence"}, at : Places,
                 ev : Events \cup {None}, new : BOOLEAN, handled : SUBSET Events]
    /\ roles \in Nat /\ ready \in BOOLEAN
    /\ decision \in [Events -> {"pending", "approved", "rejected"}]
    /\ provable \in [Events -> SUBSET Kinds]
    /\ changes \in 0..MaxChanges /\ deaths \in 0..MaxDeaths

\* A run never moves an event against the protocol: validate_transition() would raise, and
\* what is in the code behind that is never reached.
AllowedTransitions ==
    {<<"none", "RECEIVED">>, <<"RECEIVED", "VALIDATED">>, <<"VALIDATED", "DECISION_PENDING">>,
     <<"DECISION_PENDING", "WAITING_AGENT">>, <<"WAITING_AGENT", "BUILDING">>,
     <<"BUILDING", "EVIDENCE_PENDING">>, <<"EVIDENCE_PENDING", "COMPLETE">>,
     <<"CAPABILITY_BLOCKED", "VALIDATED">>}
    \cup {<<s, "CAPABILITY_BLOCKED">> : s \in {"VALIDATED", "DECISION_PENDING", "BUILDING"}}
TransitionsAllowed ==
    [][\A e \in Events : state'[e] # state[e] => <<state[e], state'[e]>> \in AllowedTransitions]_vars

\* The agent is started at most once for every verified decision, and the decision was
\* asked for with the package that is frozen.
ConsentPerBuild ==
    \A e \in Events :
        /\ builds[e] <= granted[e]
        /\ granted[e] > 0 => e \in presented \cap mailed /\ frozen[e] # None

\* An event is complete only with evidence of every kind, all of it from its last build.
CompleteIsProven ==
    \A e \in Events : state[e] = "COMPLETE" =>
        \A k \in Kinds : verified[e][k] = builds[e] /\ k \in provable[e]

\* An approved decision is taken up by a later run, whatever died before.
DecisionTakenUp ==
    \A e \in Events :
        state[e] = "DECISION_PENDING" /\ decision[e] = "approved" ~> state[e] # "DECISION_PENDING"
=============================================================================
