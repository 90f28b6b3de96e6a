---------------------------- MODULE FlywheelProofs ----------------------------
(***************************************************************************)
(* Proofs about the flywheel, for any events, inputs and kinds of evidence,  *)
(* and for runs that die anywhere any number of times.  What carries them is *)
(* that the place of the run and the row of its event agree, because nobody  *)
(* else writes while the run holds the lock.                                 *)
(***************************************************************************)
EXTENDS Flywheel, TLAPS

\* The states before the agent has answered, and those after the request was made.
Early == {"none", "RECEIVED", "VALIDATED", "DECISION_PENDING", "WAITING_AGENT", "BUILDING",
          "CAPABILITY_BLOCKED"}
Asked == {"DECISION_PENDING", "WAITING_AGENT", "BUILDING", "EVIDENCE_PENDING", "COMPLETE"}

\* The request of the event is frozen and its presentation is on record.
Presented(e) == e \in presented \cap mailed /\ frozen[e] # None

\* The state of the event of the run, by the place of the run.
PlaceSound ==
    /\ run.at \notin {"idle", "scan"} => run.ev \in Events
    /\ run.at = "record" /\ run.new => state[run.ev] = "RECEIVED"
    /\ run.at = "validate" => state[run.ev] = "RECEIVED"
    /\ run.at \in {"advance", "present", "receipt", "pend"} => state[run.ev] = "VALIDATED"
    /\ run.at \in {"present", "receipt"} => frozen[run.ev] # None
    /\ run.at = "receipt" => run.ev \in mailed
    /\ run.at = "pend" => Presented(run.ev)
    /\ run.at = "decide" => state[run.ev] = "DECISION_PENDING"
    /\ run.at = "waiting" => state[run.ev] = "WAITING_AGENT"
    /\ run.at \in {"building", "agent"} => state[run.ev] = "BUILDING"
    /\ run.at = "building" => builds[run.ev] < granted[run.ev]
    /\ run.at \in {"verify", "missing"} => state[run.ev] = "EVIDENCE_PENDING"

\* What a row says of the files and of the builds.
RowSound(e) ==
    /\ e \in presented => Presented(e)
    /\ state[e] \in Asked \/ granted[e] > 0 => Presented(e)
    /\ builds[e] <= granted[e]
    /\ state[e] = "WAITING_AGENT" => builds[e] < granted[e]

\* Evidence is that of the last build: nothing is built once the agent has answered.
EvidenceSound(e) ==
    \A k \in Kinds :
        /\ state[e] \in Early => claimed[e][k] = 0
        /\ claimed[e][k] \in {0, builds[e]}
        /\ verified[e][k] \in {0, claimed[e][k]}
        /\ verified[e][k] # 0 => k \in provable[e]
        /\ state[e] = "COMPLETE" => verified[e][k] # 0

RowsSound == \A e \in Events : RowSound(e)
EvidencesSound == \A e \in Events : EvidenceSound(e)

IInv == TypeOK /\ PlaceSound /\ RowsSound /\ EvidencesSound

\* Nothing has happened yet.
LEMMA InitSound == Init => IInv
<1>. SUFFICES ASSUME Init PROVE IInv
  OBVIOUS
<1>1. TypeOK
  BY FlywheelAssumption DEF Init, TypeOK, Idle, States, Places, FlywheelAssumption
<1>2. PlaceSound /\ RowsSound /\ EvidencesSound
  BY DEF Init, PlaceSound, RowsSound, RowSound, EvidencesSound, EvidenceSound, Idle, Asked, Presented
<1>. QED BY <1>1, <1>2 DEF IInv
(***************************************************************************)
(* Every action keeps the invariant: one lemma per action, one step per part *)
(***************************************************************************)
\* A run, an operator and the world in turn, in the order of the module Flywheel.
LEMMA StartRunSound == ASSUME IInv, StartRun PROVE IInv'
<1>. USE DEF store, files, world, StartRun, Idle
<1>1. TypeOK'
  BY FlywheelAssumption DEF IInv, TypeOK, PlaceSound, States, Places, FlywheelAssumption
<1>2. PlaceSound'
  BY FlywheelAssumption DEF IInv, TypeOK, PlaceSound, Presented, RowsSound, RowSound, Asked, FlywheelAssumption
<1>3. RowsSound'
  BY FlywheelAssumption DEF IInv, TypeOK, PlaceSound, Presented, RowsSound, RowSound, Asked, FlywheelAssumption
<1>4. EvidencesSound'
  BY FlywheelAssumption DEF IInv, TypeOK, PlaceSound, EvidencesSound, EvidenceSound, Early
<1>. QED BY <1>1, <1>2, <1>3, <1>4 DEF IInv

LEMMA RejectInputSound == ASSUME IInv, RejectInput PROVE IInv'
<1>. USE DEF store, files, world, RejectInput, Scans, Idle
<1>1. TypeOK'
  BY FlywheelAssumption DEF IInv, TypeOK, PlaceSound, States, Places, FlywheelAssumption
<1>2. PlaceSound'
  BY FlywheelAssumption DEF IInv, TypeOK, PlaceSound, Presented, RowsSound, RowSound, Asked, FlywheelAssumption
<1>3. RowsSound'
  BY FlywheelAssumption DEF IInv, TypeOK, PlaceSound, Presented, RowsSound, RowSound, Asked, FlywheelAssumption
<1>4. EvidencesSound'
  BY FlywheelAssumption DEF IInv, TypeOK, PlaceSound, EvidencesSound, EvidenceSound, Early
<1>. QED BY <1>1, <1>2, <1>3, <1>4 DEF IInv

LEMMA RecordEventSound == ASSUME IInv, RecordEvent PROVE IInv'
<1>. USE DEF store, files, world, RecordEvent, Scans, Idle
<1>. PICK i \in Inputs \ inputs :
          /\ EventOf[i] # None
          /\ run' = [run EXCEPT !.at = "record", !.ev = EventOf[i],
                                !.new = state[EventOf[i]] = "none"]
          /\ state' = [state EXCEPT ![EventOf[i]] = IF @ = "none" THEN "RECEIVED" ELSE @]
  OBVIOUS
<1>. DEFINE e == EventOf[i]
<1>a. e \in Events
  BY FlywheelAssumption DEF FlywheelAssumption
<1>b. /\ run'.at = "record" /\ run'.ev = e /\ (run'.new => state[e] = "none")
      /\ run'.phase = run.phase /\ run'.handled = run.handled
      /\ run' \in [phase : {"none", "retry", "inbox", "decisions", "evidence"}, at : Places,
                   ev : Events \cup {None}, new : BOOLEAN, handled : SUBSET Events]
  <2>1. (state[e] = "none") \in BOOLEAN
    OBVIOUS
  <2>. DEFINE fresh == state[e] = "none"
  <2>2. run' = [run EXCEPT !.at = "record", !.ev = e, !.new = fresh] /\ fresh \in BOOLEAN
    BY <2>1
  <2>3. fresh => state[e] = "none"
    OBVIOUS
  <2>. HIDE DEF fresh, e
  <2>4. QED BY <2>2, <2>3, <1>a DEF IInv, TypeOK, Places
<1>1. TypeOK'
  BY <1>a, <1>b DEF IInv, TypeOK, States
<1>2. PlaceSound'
  BY <1>a, <1>b DEF IInv, TypeOK, PlaceSound
<1>3. RowsSound'
  BY FlywheelAssumption DEF IInv, TypeOK, PlaceSound, Presented, RowsSound, RowSound, Asked, FlywheelAssumption
<1>4. EvidencesSound'
  BY FlywheelAssumption DEF IInv, TypeOK, PlaceSound, EvidencesSound, EvidenceSound, Early
<1>. QED BY <1>1, <1>2, <1>3, <1>4 DEF IInv

LEMMA RecordInputSound == ASSUME IInv, RecordInput PROVE IInv'
<1>. USE DEF store, files, world, RecordInput, Idle
<1>1. TypeOK'
  BY FlywheelAssumption DEF IInv, TypeOK, PlaceSound, States, Places, FlywheelAssumption
<1>2. PlaceSound'
  BY FlywheelAssumption DEF IInv, TypeOK, PlaceSound, Presented, RowsSound, RowSound, Asked, FlywheelAssumption
<1>3. RowsSound'
  BY FlywheelAssumption DEF IInv, TypeOK, PlaceSound, Presented, RowsSound, RowSound, Asked, FlywheelAssumption
<1>4. EvidencesSound'
  BY FlywheelAssumption DEF IInv, TypeOK, PlaceSound, EvidencesSound, EvidenceSound, Early
<1>. QED BY <1>1, <1>2, <1>3, <1>4 DEF IInv

LEMMA ValidateSound == ASSUME IInv, Validate PROVE IInv'
<1>. USE DEF store, files, world, Validate, Transition, Goto, Idle
<1>1. TypeOK'
  BY FlywheelAssumption DEF IInv, TypeOK, PlaceSound, States, Places, FlywheelAssumption
<1>2. PlaceSound'
  BY FlywheelAssumption DEF IInv, TypeOK, PlaceSound, Presented, RowsSound, RowSound, Asked, FlywheelAssumption
<1>3. RowsSound'
  BY FlywheelAssumption DEF IInv, TypeOK, PlaceSound, Presented, RowsSound, RowSound, Asked, FlywheelAssumption
<1>4. EvidencesSound'
  BY FlywheelAssumption DEF IInv, TypeOK, PlaceSound, EvidencesSound, EvidenceSound, Early
<1>. QED BY <1>1, <1>2, <1>3, <1>4 DEF IInv

LEMMA NextPhaseSound == ASSUME IInv, NextPhase PROVE IInv'
<1>. USE DEF store, files, world, NextPhase, Waiting, Idle
<1>1. TypeOK'
  <2>1. CASE run.phase = "evidence" /\ run' = Idle
    BY <2>1 DEF IInv, TypeOK, Places
  <2>2. CASE run.phase = "inbox" /\ run' = [run EXCEPT !.phase = "decisions"]
    BY <2>2 DEF IInv, TypeOK
  <2>3. CASE run.phase = "decisions" /\ run' = [run EXCEPT !.phase = "evidence"]
    BY <2>3 DEF IInv, TypeOK
  <2>4. QED BY <2>1, <2>2, <2>3
<1>2. PlaceSound'
  BY FlywheelAssumption DEF IInv, TypeOK, PlaceSound, Presented, RowsSound, RowSound, Asked, FlywheelAssumption
<1>3. RowsSound'
  BY FlywheelAssumption DEF IInv, TypeOK, PlaceSound, Presented, RowsSound, RowSound, Asked, FlywheelAssumption
<1>4. EvidencesSound'
  BY FlywheelAssumption DEF IInv, TypeOK, PlaceSound, EvidencesSound, EvidenceSound, Early
<1>. QED BY <1>1, <1>2, <1>3, <1>4 DEF IInv

LEMMA AdvanceBlockedSound == ASSUME IInv, AdvanceBlocked PROVE IInv'
<1>. USE DEF store, files, world, AdvanceBlocked, Block, Transition, Leave, Idle
<1>1. TypeOK'
  BY FlywheelAssumption DEF IInv, TypeOK, PlaceSound, States, Places, FlywheelAssumption
<1>2. PlaceSound'
  BY FlywheelAssumption DEF IInv, TypeOK, PlaceSound, Presented, RowsSound, RowSound, Asked, FlywheelAssumption
<1>3. RowsSound'
  BY FlywheelAssumption DEF IInv, TypeOK, PlaceSound, Presented, RowsSound, RowSound, Asked, FlywheelAssumption
<1>4. EvidencesSound'
  BY FlywheelAssumption DEF IInv, TypeOK, PlaceSound, EvidencesSound, EvidenceSound, Early
<1>. QED BY <1>1, <1>2, <1>3, <1>4 DEF IInv

LEMMA FreezeSound == ASSUME IInv, Freeze PROVE IInv'
<1>. USE DEF store, files, world, Freeze, Goto, Idle
<1>1. TypeOK'
  BY FlywheelAssumption DEF IInv, TypeOK, PlaceSound, States, Places, FlywheelAssumption
<1>2. PlaceSound'
  BY FlywheelAssumption DEF IInv, TypeOK, PlaceSound, Presented, RowsSound, RowSound, Asked, FlywheelAssumption
<1>3. RowsSound'
  BY FlywheelAssumption DEF IInv, TypeOK, PlaceSound, Presented, RowsSound, RowSound, Asked, FlywheelAssumption
<1>4. EvidencesSound'
  BY FlywheelAssumption DEF IInv, TypeOK, PlaceSound, EvidencesSound, EvidenceSound, Early
<1>. QED BY <1>1, <1>2, <1>3, <1>4 DEF IInv

LEMMA PresentSound == ASSUME IInv, Present PROVE IInv'
<1>. USE DEF store, files, world, Present, Goto, Idle
<1>1. TypeOK'
  BY FlywheelAssumption DEF IInv, TypeOK, PlaceSound, States, Places, FlywheelAssumption
<1>2. PlaceSound'
  BY FlywheelAssumption DEF IInv, TypeOK, PlaceSound, Presented, RowsSound, RowSound, Asked, FlywheelAssumption
<1>3. RowsSound'
  BY FlywheelAssumption DEF IInv, TypeOK, PlaceSound, Presented, RowsSound, RowSound, Asked, FlywheelAssumption
<1>4. EvidencesSound'
  BY FlywheelAssumption DEF IInv, TypeOK, PlaceSound, EvidencesSound, EvidenceSound, Early
<1>. QED BY <1>1, <1>2, <1>3, <1>4 DEF IInv

LEMMA PresentFailsSound == ASSUME IInv, PresentFails PROVE IInv'
<1>. USE DEF store, files, world, PresentFails, Block, Transition, Leave, Idle
<1>1. TypeOK'
  BY FlywheelAssumption DEF IInv, TypeOK, PlaceSound, States, Places, FlywheelAssumption
<1>2. PlaceSound'
  BY FlywheelAssumption DEF IInv, TypeOK, PlaceSound, Presented, RowsSound, RowSound, Asked, FlywheelAssumption
<1>3. RowsSound'
  BY FlywheelAssumption DEF IInv, TypeOK, PlaceSound, Presented, RowsSound, RowSound, Asked, FlywheelAssumption
<1>4. EvidencesSound'
  BY FlywheelAssumption DEF IInv, TypeOK, PlaceSound, EvidencesSound, EvidenceSound, Early
<1>. QED BY <1>1, <1>2, <1>3, <1>4 DEF IInv

LEMMA FreezeReceiptSound == ASSUME IInv, FreezeReceipt PROVE IInv'
<1>. USE DEF store, files, world, FreezeReceipt, Goto, Idle
<1>1. TypeOK'
  BY FlywheelAssumption DEF IInv, TypeOK, PlaceSound, States, Places, FlywheelAssumption
<1>2. PlaceSound'
  BY FlywheelAssumption DEF IInv, TypeOK, PlaceSound, Presented, RowsSound, RowSound, Asked, FlywheelAssumption
<1>3. RowsSound'
  BY FlywheelAssumption DEF IInv, TypeOK, PlaceSound, Presented, RowsSound, RowSound, Asked, FlywheelAssumption
<1>4. EvidencesSound'
  BY FlywheelAssumption DEF IInv, TypeOK, PlaceSound, EvidencesSound, EvidenceSound, Early
<1>. QED BY <1>1, <1>2, <1>3, <1>4 DEF IInv

LEMMA PendSound == ASSUME IInv, Pend PROVE IInv'
<1>. USE DEF store, files, world, Pend, Transition, Leave, Idle
<1>1. TypeOK'
  BY FlywheelAssumption DEF IInv, TypeOK, PlaceSound, States, Places, FlywheelAssumption
<1>2. PlaceSound'
  BY FlywheelAssumption DEF IInv, TypeOK, PlaceSound, Presented, RowsSound, RowSound, Asked, FlywheelAssumption
<1>3. RowsSound'
  BY FlywheelAssumption DEF IInv, TypeOK, PlaceSound, Presented, RowsSound, RowSound, Asked, FlywheelAssumption
<1>4. EvidencesSound'
  BY FlywheelAssumption DEF IInv, TypeOK, PlaceSound, EvidencesSound, EvidenceSound, Early
<1>. QED BY <1>1, <1>2, <1>3, <1>4 DEF IInv

LEMMA DecideSound == ASSUME IInv, Decide PROVE IInv'
<1>. USE DEF store, files, world, Decide, Scans, Waiting, Idle
<1>1. TypeOK'
  BY FlywheelAssumption DEF IInv, TypeOK, PlaceSound, States, Places, FlywheelAssumption
<1>2. PlaceSound'
  BY FlywheelAssumption DEF IInv, TypeOK, PlaceSound, Presented, RowsSound, RowSound, Asked, FlywheelAssumption
<1>3. RowsSound'
  BY FlywheelAssumption DEF IInv, TypeOK, PlaceSound, Presented, RowsSound, RowSound, Asked, FlywheelAssumption
<1>4. EvidencesSound'
  BY FlywheelAssumption DEF IInv, TypeOK, PlaceSound, EvidencesSound, EvidenceSound, Early
<1>. QED BY <1>1, <1>2, <1>3, <1>4 DEF IInv

LEMMA DecisionBlockedSound == ASSUME IInv, DecisionBlocked PROVE IInv'
<1>. USE DEF store, files, world, DecisionBlocked, Block, Transition, Leave, Idle
<1>1. TypeOK'
  BY FlywheelAssumption DEF IInv, TypeOK, PlaceSound, States, Places, FlywheelAssumption
<1>2. PlaceSound'
  BY FlywheelAssumption DEF IInv, TypeOK, PlaceSound, Presented, RowsSound, RowSound, Asked, FlywheelAssumption
<1>3. RowsSound'
  BY FlywheelAssumption DEF IInv, TypeOK, PlaceSound, Presented, RowsSound, RowSound, Asked, FlywheelAssumption
<1>4. EvidencesSound'
  BY FlywheelAssumption DEF IInv, TypeOK, PlaceSound, EvidencesSound, EvidenceSound, Early
<1>. QED BY <1>1, <1>2, <1>3, <1>4 DEF IInv

LEMMA UndecidedSound == ASSUME IInv, Undecided PROVE IInv'
<1>. USE DEF store, files, world, Undecided, Leave, Idle
<1>1. TypeOK'
  BY FlywheelAssumption DEF IInv, TypeOK, PlaceSound, States, Places, FlywheelAssumption
<1>2. PlaceSound'
  BY FlywheelAssumption DEF IInv, TypeOK, PlaceSound, Presented, RowsSound, RowSound, Asked, FlywheelAssumption
<1>3. RowsSound'
  BY FlywheelAssumption DEF IInv, TypeOK, PlaceSound, Presented, RowsSound, RowSound, Asked, FlywheelAssumption
<1>4. EvidencesSound'
  BY FlywheelAssumption DEF IInv, TypeOK, PlaceSound, EvidencesSound, EvidenceSound, Early
<1>. QED BY <1>1, <1>2, <1>3, <1>4 DEF IInv

LEMMA ApprovedSound == ASSUME IInv, Approved PROVE IInv'
<1>. USE DEF store, files, world, Approved, Transition, Goto, Idle
<1>1. TypeOK'
  <2>1. granted' \in [Events -> Nat] /\ state' \in [Events -> States]
    BY DEF IInv, TypeOK, PlaceSound, States
  <2>2. run' \in [phase : {"none", "retry", "inbox", "decisions", "evidence"}, at : Places,
                  ev : Events \cup {None}, new : BOOLEAN, handled : SUBSET Events]
    BY DEF IInv, TypeOK, Places
  <2>3. QED BY <2>1, <2>2 DEF IInv, TypeOK
<1>2. PlaceSound'
  BY FlywheelAssumption DEF IInv, TypeOK, PlaceSound, Presented, RowsSound, RowSound, Asked, FlywheelAssumption
<1>3. RowsSound'
  BY FlywheelAssumption DEF IInv, TypeOK, PlaceSound, Presented, RowsSound, RowSound, Asked, FlywheelAssumption
<1>4. EvidencesSound'
  BY FlywheelAssumption DEF IInv, TypeOK, PlaceSound, EvidencesSound, EvidenceSound, Early
<1>. QED BY <1>1, <1>2, <1>3, <1>4 DEF IInv

LEMMA InvokeSound == ASSUME IInv, Invoke PROVE IInv'
<1>. USE DEF store, files, world, Invoke, Transition, Goto, Idle
<1>1. TypeOK'
  BY FlywheelAssumption DEF IInv, TypeOK, PlaceSound, States, Places, FlywheelAssumption
<1>2. PlaceSound'
  BY FlywheelAssumption DEF IInv, TypeOK, PlaceSound, Presented, RowsSound, RowSound, Asked, FlywheelAssumption
<1>3. RowsSound'
  BY FlywheelAssumption DEF IInv, TypeOK, PlaceSound, Presented, RowsSound, RowSound, Asked, FlywheelAssumption
<1>4. EvidencesSound'
  BY FlywheelAssumption DEF IInv, TypeOK, PlaceSound, EvidencesSound, EvidenceSound, Early
<1>. QED BY <1>1, <1>2, <1>3, <1>4 DEF IInv

LEMMA StartAgentSound == ASSUME IInv, StartAgent PROVE IInv'
<1>. USE DEF store, files, world, StartAgent, Goto, Idle
<1>1. TypeOK'
  <2>1. builds' \in [Events -> Nat]
    BY DEF IInv, TypeOK, PlaceSound
  <2>2. run' \in [phase : {"none", "retry", "inbox", "decisions", "evidence"}, at : Places,
                  ev : Events \cup {None}, new : BOOLEAN, handled : SUBSET Events]
    BY DEF IInv, TypeOK, Places
  <2>3. QED BY <2>1, <2>2 DEF IInv, TypeOK
<1>2. PlaceSound'
  BY FlywheelAssumption DEF IInv, TypeOK, PlaceSound, Presented, RowsSound, RowSound, Asked, FlywheelAssumption
<1>3. RowsSound'
  BY FlywheelAssumption DEF IInv, TypeOK, PlaceSound, Presented, RowsSound, RowSound, Asked, FlywheelAssumption
<1>4. EvidencesSound'
  BY FlywheelAssumption DEF IInv, TypeOK, PlaceSound, EvidencesSound, EvidenceSound, Early
<1>. QED BY <1>1, <1>2, <1>3, <1>4 DEF IInv

LEMMA AgentFailsSound == ASSUME IInv, AgentFails PROVE IInv'
<1>. USE DEF store, files, world, AgentFails, Block, Transition, Leave, Idle
<1>1. TypeOK'
  BY FlywheelAssumption DEF IInv, TypeOK, PlaceSound, States, Places, FlywheelAssumption
<1>2. PlaceSound'
  BY FlywheelAssumption DEF IInv, TypeOK, PlaceSound, Presented, RowsSound, RowSound, Asked, FlywheelAssumption
<1>3. RowsSound'
  BY FlywheelAssumption DEF IInv, TypeOK, PlaceSound, Presented, RowsSound, RowSound, Asked, FlywheelAssumption
<1>4. EvidencesSound'
  BY FlywheelAssumption DEF IInv, TypeOK, PlaceSound, EvidencesSound, EvidenceSound, Early
<1>. QED BY <1>1, <1>2, <1>3, <1>4 DEF IInv

LEMMA AgentAnswersSound == ASSUME IInv, AgentAnswers PROVE IInv'
<1>. USE DEF store, files, world, AgentAnswers, Transition, Goto, Idle
<1>1. TypeOK'
  <2>1. claimed' \in [Events -> [Kinds -> Nat]] /\ state' \in [Events -> States]
    BY DEF IInv, TypeOK, PlaceSound, States
  <2>2. run' \in [phase : {"none", "retry", "inbox", "decisions", "evidence"}, at : Places,
                  ev : Events \cup {None}, new : BOOLEAN, handled : SUBSET Events]
    BY DEF IInv, TypeOK, Places
  <2>3. QED BY <2>1, <2>2 DEF IInv, TypeOK
<1>2. PlaceSound'
  BY FlywheelAssumption DEF IInv, TypeOK, PlaceSound, Presented, RowsSound, RowSound, Asked, FlywheelAssumption
<1>3. RowsSound'
  BY FlywheelAssumption DEF IInv, TypeOK, PlaceSound, Presented, RowsSound, RowSound, Asked, FlywheelAssumption
<1>4. EvidencesSound'
  BY FlywheelAssumption DEF IInv, TypeOK, PlaceSound, EvidencesSound, EvidenceSound, Early
<1>. QED BY <1>1, <1>2, <1>3, <1>4 DEF IInv

LEMMA VerifyEvidenceSound == ASSUME IInv, VerifyEvidence PROVE IInv'
<1>. USE DEF store, files, world, VerifyEvidence, Scans, Waiting, Idle
<1>1. TypeOK'
  BY FlywheelAssumption DEF IInv, TypeOK, PlaceSound, States, Places, FlywheelAssumption
<1>2. PlaceSound'
  BY FlywheelAssumption DEF IInv, TypeOK, PlaceSound, Presented, RowsSound, RowSound, Asked, FlywheelAssumption
<1>3. RowsSound'
  BY FlywheelAssumption DEF IInv, TypeOK, PlaceSound, Presented, RowsSound, RowSound, Asked, FlywheelAssumption
<1>4. EvidencesSound'
  BY FlywheelAssumption DEF IInv, TypeOK, PlaceSound, EvidencesSound, EvidenceSound, Early
<1>. QED BY <1>1, <1>2, <1>3, <1>4 DEF IInv

LEMMA RecordEvidenceSound == ASSUME IInv, RecordEvidence PROVE IInv'
<1>. USE DEF store, files, world, RecordEvidence, Goto, Additions, Idle
<1>1. TypeOK'
  BY FlywheelAssumption, ZenonT(30) DEF IInv, TypeOK, PlaceSound, States, Places, FlywheelAssumption
<1>2. PlaceSound'
  BY FlywheelAssumption DEF IInv, TypeOK, PlaceSound, Presented, RowsSound, RowSound, Asked, FlywheelAssumption
<1>3. RowsSound'
  BY FlywheelAssumption DEF IInv, TypeOK, PlaceSound, Presented, RowsSound, RowSound, Asked, FlywheelAssumption
<1>4. EvidencesSound'
  BY FlywheelAssumption DEF IInv, TypeOK, PlaceSound, EvidencesSound, EvidenceSound, Early
<1>. QED BY <1>1, <1>2, <1>3, <1>4 DEF IInv

LEMMA CompleteSound == ASSUME IInv, Complete PROVE IInv'
<1>. USE DEF store, files, world, Complete, Transition, Leave, Missing, Idle
<1>1. TypeOK'
  BY FlywheelAssumption DEF IInv, TypeOK, PlaceSound, States, Places, FlywheelAssumption
<1>2. PlaceSound'
  BY FlywheelAssumption DEF IInv, TypeOK, PlaceSound, Presented, RowsSound, RowSound, Asked, FlywheelAssumption
<1>3. RowsSound'
  BY FlywheelAssumption DEF IInv, TypeOK, PlaceSound, Presented, RowsSound, RowSound, Asked, FlywheelAssumption
<1>4. EvidencesSound'
  BY FlywheelAssumption DEF IInv, TypeOK, PlaceSound, EvidencesSound, EvidenceSound, Early
<1>. QED BY <1>1, <1>2, <1>3, <1>4 DEF IInv

LEMMA DieSound == ASSUME IInv, Die PROVE IInv'
<1>. USE DEF store, files, world, Die, Idle
<1>1. TypeOK'
  BY FlywheelAssumption DEF IInv, TypeOK, PlaceSound, States, Places, FlywheelAssumption
<1>2. PlaceSound'
  BY FlywheelAssumption DEF IInv, TypeOK, PlaceSound, Presented, RowsSound, RowSound, Asked, FlywheelAssumption
<1>3. RowsSound'
  BY FlywheelAssumption DEF IInv, TypeOK, PlaceSound, Presented, RowsSound, RowSound, Asked, FlywheelAssumption
<1>4. EvidencesSound'
  BY FlywheelAssumption DEF IInv, TypeOK, PlaceSound, EvidencesSound, EvidenceSound, Early
<1>. QED BY <1>1, <1>2, <1>3, <1>4 DEF IInv

LEMMA ChangeSound == ASSUME IInv, Change PROVE IInv'
<1>. USE DEF store, files, world, Change, Idle
<1>1. TypeOK'
  <2>1. changes' \in 0..MaxChanges /\ roles' \in Nat /\ ready' \in BOOLEAN
    <3>1. MaxChanges \in Nat
      BY FlywheelAssumption DEF FlywheelAssumption
    <3>2. changes' = changes + 1 /\ changes < MaxChanges /\ changes \in 0..MaxChanges
      BY DEF IInv, TypeOK
    <3>3. roles' \in Nat
      BY DEF IInv, TypeOK
    <3>4. ready' \in BOOLEAN
      BY Zenon DEF IInv, TypeOK
    <3>5. QED BY <3>1, <3>2, <3>3, <3>4
  <2>2. QED BY <2>1 DEF IInv, TypeOK
<1>2. PlaceSound'
  BY FlywheelAssumption DEF IInv, TypeOK, PlaceSound, Presented, RowsSound, RowSound, Asked, FlywheelAssumption
<1>3. RowsSound'
  BY FlywheelAssumption DEF IInv, TypeOK, PlaceSound, Presented, RowsSound, RowSound, Asked, FlywheelAssumption
<1>4. EvidencesSound'
  BY FlywheelAssumption DEF IInv, TypeOK, PlaceSound, EvidencesSound, EvidenceSound, Early
<1>. QED BY <1>1, <1>2, <1>3, <1>4 DEF IInv

LEMMA RetrySound == ASSUME IInv, NEW e \in Events, Retry(e) PROVE IInv'
<1>. USE DEF store, files, world, Retry, Idle
<1>1. TypeOK'
  <2>1. state' \in [Events -> States]
    BY DEF IInv, TypeOK, States
  <2>2. run' \in [phase : {"none", "retry", "inbox", "decisions", "evidence"}, at : Places,
                  ev : Events \cup {None}, new : BOOLEAN, handled : SUBSET Events]
    BY DEF Places
  <2>. QED BY <2>1, <2>2 DEF IInv, TypeOK
<1>2. PlaceSound'
  <2>1. run'.ev = e /\ run'.new = FALSE
    OBVIOUS
  <2>2. CASE run'.at = "advance" /\ state' = [state EXCEPT ![e] = "VALIDATED"]
    BY <2>1, <2>2 DEF IInv, TypeOK, PlaceSound
  <2>3. CASE run'.at = "verify" /\ state' = state /\ state[e] = "EVIDENCE_PENDING"
    BY <2>1, <2>3 DEF IInv, TypeOK, PlaceSound
  <2>4. QED BY <2>2, <2>3
<1>3. RowsSound'
  BY FlywheelAssumption DEF IInv, TypeOK, PlaceSound, Presented, RowsSound, RowSound, Asked, FlywheelAssumption
<1>4. EvidencesSound'
  BY FlywheelAssumption DEF IInv, TypeOK, PlaceSound, EvidencesSound, EvidenceSound, Early
<1>. QED BY <1>1, <1>2, <1>3, <1>4 DEF IInv

LEMMA DecisionChangesSound == ASSUME IInv, NEW e \in Events, DecisionChanges(e) PROVE IInv'
<1>. USE DEF store, files, world, DecisionChanges, Idle
<1>1. TypeOK'
  <2>1. decision' \in [Events -> {"pending", "approved", "rejected"}]
    BY DEF IInv, TypeOK
  <2>2. QED BY <2>1 DEF IInv, TypeOK
<1>2. PlaceSound'
  BY FlywheelAssumption DEF IInv, TypeOK, PlaceSound, Presented, RowsSound, RowSound, Asked, FlywheelAssumption
<1>3. RowsSound'
  BY FlywheelAssumption DEF IInv, TypeOK, PlaceSound, Presented, RowsSound, RowSound, Asked, FlywheelAssumption
<1>4. EvidencesSound'
  BY FlywheelAssumption DEF IInv, TypeOK, PlaceSound, EvidencesSound, EvidenceSound, Early
<1>. QED BY <1>1, <1>2, <1>3, <1>4 DEF IInv

LEMMA ProveSound == ASSUME IInv, NEW e \in Events, Prove(e) PROVE IInv'
<1>. USE DEF store, files, world, Prove, Idle
<1>1. TypeOK'
  BY FlywheelAssumption DEF IInv, TypeOK, PlaceSound, States, Places, FlywheelAssumption
<1>2. PlaceSound'
  BY FlywheelAssumption DEF IInv, TypeOK, PlaceSound, Presented, RowsSound, RowSound, Asked, FlywheelAssumption
<1>3. RowsSound'
  BY FlywheelAssumption DEF IInv, TypeOK, PlaceSound, Presented, RowsSound, RowSound, Asked, FlywheelAssumption
<1>4. EvidencesSound'
  BY FlywheelAssumption DEF IInv, TypeOK, PlaceSound, EvidencesSound, EvidenceSound, Early
<1>. QED BY <1>1, <1>2, <1>3, <1>4 DEF IInv

(***************************************************************************)
(* The theorems                                                             *)
(***************************************************************************)
LEMMA StutterSound == ASSUME IInv, UNCHANGED vars PROVE IInv'
  BY DEF vars, store, files, world, IInv, TypeOK, PlaceSound, RowsSound, RowSound, Presented,
         EvidencesSound, EvidenceSound

LEMMA RunStepSound == ASSUME IInv, RunStep PROVE IInv'
  BY RejectInputSound, RecordEventSound, RecordInputSound, ValidateSound,
     NextPhaseSound, AdvanceBlockedSound, FreezeSound, PresentSound,
     PresentFailsSound, FreezeReceiptSound, PendSound, DecideSound,
     DecisionBlockedSound, UndecidedSound, ApprovedSound, InvokeSound,
     StartAgentSound, AgentFailsSound, AgentAnswersSound, VerifyEvidenceSound,
     RecordEvidenceSound, CompleteSound
  DEF RunStep, AdvanceStep, DecisionStep

LEMMA StepSound == ASSUME IInv, [Next]_vars PROVE IInv'
  BY RunStepSound, StartRunSound, DieSound, ChangeSound, DecisionChangesSound, ProveSound,
     RetrySound, StutterSound
  DEF Next, World

\* The rows of the events agree with the place of the run, the files and the builds,
\* whichever runs die and whatever the operator retries.
THEOREM FlywheelSafety == Spec => []IInv
  BY InitSound, StepSound, PTL DEF Spec

\* The agent of _verify_decision() is started at most once per verified decision, and
\* the decision was asked for with the frozen package.
THEOREM ConsentIsPerBuild == Spec => []ConsentPerBuild
<1>1. IInv => ConsentPerBuild
  BY DEF IInv, RowsSound, RowSound, Presented, ConsentPerBuild
<1>2. QED BY <1>1, FlywheelSafety, PTL

\* _verify_pending() completes an event only with verified evidence of its last build.
THEOREM CompletionIsProven == Spec => []CompleteIsProven
<1>1. IInv => CompleteIsProven
  BY DEF IInv, EvidencesSound, EvidenceSound, CompleteIsProven
<1>2. QED BY <1>1, FlywheelSafety, PTL

\* An action changes a row along an edge of the protocol: the place of the run says
\* which state the row has.
LEMMA StepAllowed ==
    ASSUME IInv, [Next]_vars, NEW e \in Events, state'[e] # state[e]
    PROVE  <<state[e], state'[e]>> \in AllowedTransitions
<1>. USE DEF IInv, TypeOK, PlaceSound, AllowedTransitions, Transition, Block
<1>1. CASE RecordEvent
  BY <1>1, FlywheelAssumption DEF RecordEvent, FlywheelAssumption
<1>2. CASE Validate \/ Pend \/ Approved \/ Invoke \/ AgentAnswers \/ Complete
  BY <1>2 DEF Validate, Pend, Approved, Invoke, AgentAnswers, Complete
<1>3. CASE AdvanceBlocked \/ PresentFails \/ DecisionBlocked \/ AgentFails
  BY <1>3 DEF AdvanceBlocked, PresentFails, DecisionBlocked, AgentFails
<1>4. CASE \E d \in Events : Retry(d)
  BY <1>4 DEF Retry
<1>5. CASE UNCHANGED state
  BY <1>5
<1>6. QED
  BY <1>1, <1>2, <1>3, <1>4, <1>5
  DEF Next, RunStep, AdvanceStep, DecisionStep, World, vars, store, StartRun, RejectInput,
      RecordInput, NextPhase, Freeze, Present, FreezeReceipt, Decide, Undecided, StartAgent,
      VerifyEvidence, RecordEvidence, Die, Change, DecisionChanges, Prove

\* validate_transition() never refuses a transition of a run or of a retry.
THEOREM ProtocolKept == Spec => TransitionsAllowed
<1>1. IInv /\ [Next]_vars =>
          [\A e \in Events : state'[e] # state[e] => <<state[e], state'[e]>> \in AllowedTransitions]_vars
  BY StepAllowed
<1>2. QED BY <1>1, FlywheelSafety, PTL DEF Spec, TransitionsAllowed
===============================================================================
