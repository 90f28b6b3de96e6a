------------------------- MODULE ProductReleaseProofs -------------------------
(***************************************************************************)
(* Proofs about the filesystem release adapter, for every set of targets and *)
(* deployments and any number of killed operations, and about the product   *)
(* release gate that drives it, for any number of runs that die and changes *)
(* of the approval.                                                         *)
(***************************************************************************)
EXTENDS ProductRelease, TLAPS

(***************************************************************************)
(* The adapter                                                              *)
(***************************************************************************)
\* What an operation of deploy() knows at each place.
DeploySound(t) ==
    call[t].op = "deploy" =>
        /\ call[t].at \in {"installed", "point", "repoint", "check", "seal"} => Dep(t) \in installed
        /\ call[t].at \in {"point", "repoint"} =>
              /\ record[Dep(t)].status # "none"
              /\ current[t] = record[Dep(t)].previous
        /\ call[t].at \in {"check", "seal"} =>
              /\ record[Dep(t)].status # "none"
              /\ current[t].ref = Dep(t)

\* And of rollback().
RollbackSound(t) ==
    call[t].op = "rollback" =>
        /\ call[t].at \in {"restore", "complete"} =>
              /\ record[Dep(t)].status # "none"
              /\ rollback[Dep(t)].status # "none"
        /\ call[t].at = "restore" => current[t].ref = Dep(t)
        /\ call[t].at = "complete" => current[t] = Restored(Dep(t))

CallsSound ==
    \A t \in Targets :
        /\ call[t].op # "none" => Dep(t) \in Deployments /\ TargetOf[Dep(t)] = t
        /\ DeploySound(t)
        /\ RollbackSound(t)

\* A deployment replaces a release of its own target, which stays in place; a rollback
\* record names what its deployment replaced.
RecordsSound ==
    \A d \in Deployments :
        /\ record[d].previous.ref # None =>
              /\ record[d].previous.ref \in installed
              /\ TargetOf[record[d].previous.ref] = TargetOf[d]
        /\ rollback[d].status # "none" =>
              record[d].status # "none" /\ rollback[d].restored = Restored(d)

AdapterInv ==
    AdapterTypeOK /\ PointerResolves /\ PassMeansRestored /\ CallsSound /\ RecordsSound

LEMMA InitSound == AdapterInit => AdapterInv
<1>. SUFFICES ASSUME AdapterInit PROVE AdapterInv
  OBVIOUS
<1>1. AdapterTypeOK
  BY ReleaseAssumption
  DEF AdapterInit, AdapterTypeOK, NoPointer, NoRecord, NoRollback, NoCall, Pointers, Places
<1>2. PointerResolves /\ PassMeansRestored /\ CallsSound /\ RecordsSound
  BY DEF AdapterInit, PointerResolves, PassMeansRestored, CallsSound, DeploySound,
         RollbackSound, RecordsSound, NoPointer, NoRecord, NoRollback, NoCall
<1>. QED BY <1>1, <1>2 DEF AdapterInv

Calls == [op : Ops \cup {"none"}, dep : Deployments \cup {None}, at : Places]

\* An operation goes on: the operations on other targets stay where they are.
LEMMA GotoFacts ==
    ASSUME AdapterTypeOK, NEW t \in Targets, NEW place \in Places, Goto(t, place)
    PROVE  /\ call' \in [Targets -> Calls]
           /\ call'[t].op = call[t].op /\ Dep(t)' = Dep(t) /\ call'[t].at = place
           /\ \A u \in Targets \ {t} : call'[u] = call[u] /\ Dep(u)' = Dep(u)
<1>. DEFINE after == [call[t] EXCEPT !.at = place]
<1>1. call \in [Targets -> Calls]
  BY DEF AdapterTypeOK, Calls
<1>2. after \in Calls /\ after.op = call[t].op /\ after.dep = call[t].dep /\ after.at = place
  BY <1>1 DEF Calls
<1>3. call' = [call EXCEPT ![t] = after]
  BY DEF Goto
<1>. HIDE DEF after
<1>. QED BY <1>1, <1>2, <1>3 DEF Dep

\* A call begins.
LEMMA BeginKeeps ==
    ASSUME AdapterInv, NEW d \in Deployments, NEW op \in Ops, Begin(op, d)
    PROVE  AdapterInv'
<1>. DEFINE t == TargetOf[d]
            new == [op |-> op, dep |-> d, at |-> "begun"]
<1>1. /\ t \in Targets
      /\ call \in [Targets -> Calls]
      /\ call' = [call EXCEPT ![t] = new]
      /\ UNCHANGED <<files, damaged, kills>>
  BY ReleaseAssumption DEF Begin, AdapterInv, AdapterTypeOK, Calls
<1>2. new \in Calls /\ new.op \in Ops /\ new.dep = d /\ new.at = "begun"
  BY DEF Calls, Places
<1>. HIDE DEF new, t
<1>3. /\ call' \in [Targets -> Calls]
      /\ call'[t] = new
      /\ \A u \in Targets \ {t} : call'[u] = call[u] /\ Dep(u)' = Dep(u)
  BY <1>1, <1>2 DEF Dep
<1>4. AdapterTypeOK'
  BY <1>1, <1>3 DEF AdapterInv, AdapterTypeOK, files, Calls
<1>5. PointerResolves' /\ RecordsSound'
  BY <1>1 DEF files, AdapterInv, PointerResolves, RecordsSound, Restored
<1>6. PassMeansRestored'
  BY <1>1, <1>2, <1>3 DEF files, AdapterInv, PassMeansRestored, Restored
<1>7. CallsSound'
  <2>1. Dep(t)' = d /\ TargetOf[d] = t
    BY <1>2, <1>3 DEF Dep, t
  <2>. QED BY <1>1, <1>2, <1>3, <2>1
           DEF files, AdapterInv, CallsSound, DeploySound, RollbackSound, Restored
<1>. QED BY <1>4, <1>5, <1>6, <1>7 DEF AdapterInv

\* A call returns or is killed, or files are damaged: no file is written.
LEMMA CallKeeps ==
    ASSUME AdapterInv,
           \/ \E t \in Targets : Return(t) \/ Kill(t)
           \/ \E d \in Deployments : Damage(d)
    PROVE  AdapterInv'
<1>. USE DEF AdapterInv
<1>1. UNCHANGED <<current, record, rollback, installed, stamps>>
  BY DEF Return, Kill, Damage, files
<1>2. /\ call' \in [Targets -> Calls]
      /\ \A u \in Targets : call'[u] = NoCall \/ (call'[u] = call[u] /\ Dep(u)' = Dep(u))
  <2>1. NoCall \in Calls
    BY DEF NoCall, Calls, Places
  <2>2. CASE \E d \in Deployments : Damage(d)
    BY <2>2 DEF Damage, AdapterTypeOK, Calls, Dep
  <2>3. ASSUME NEW t \in Targets, Return(t) \/ Kill(t)
        PROVE  /\ call' \in [Targets -> Calls]
               /\ \A u \in Targets : call'[u] = NoCall \/ (call'[u] = call[u] /\ Dep(u)' = Dep(u))
    <3>1. call' = [call EXCEPT ![t] = NoCall] /\ call \in [Targets -> Calls]
      BY <2>3 DEF Return, Kill, AdapterTypeOK, Calls
    <3>. QED BY <2>1, <3>1 DEF Dep
  <2>. QED BY <2>2, <2>3
<1>3. damaged' \subseteq installed' /\ kills' \in 0..MaxKills
  BY <1>1, ReleaseAssumption DEF Return, Kill, Damage, files, AdapterTypeOK
<1>4. AdapterTypeOK'
  BY <1>1, <1>2, <1>3 DEF AdapterTypeOK, Calls
<1>5. PointerResolves' /\ RecordsSound'
  BY <1>1 DEF PointerResolves, RecordsSound, Restored
<1>6. PassMeansRestored' /\ CallsSound'
  BY <1>1, <1>2 DEF PassMeansRestored, CallsSound, DeploySound, RollbackSound, Restored, NoCall
<1>. QED BY <1>4, <1>5, <1>6

LEMMA DeployKeeps ==
    ASSUME AdapterInv, NEW t \in Targets, DeployStep(t)
    PROVE  AdapterInv'
<1>. USE ReleaseAssumption, GotoFacts DEF AdapterInv, At, Places, Calls
<1>1. CASE Install(t)
  <2>1. AdapterTypeOK'
    BY <1>1 DEF Install, AdapterTypeOK, CallsSound, Refuse, Dep
  <2>2. PointerResolves' /\ RecordsSound'
    BY <1>1 DEF Install, PointerResolves, RecordsSound, Restored
  <2>3. PassMeansRestored'
    BY <1>1 DEF Install, AdapterTypeOK, PassMeansRestored, Refuse, Restored, Dep
  <2>4. CallsSound'
    BY <1>1 DEF Install, AdapterTypeOK, CallsSound, DeploySound, RollbackSound, Refuse,
                Restored, Dep
  <2>. QED BY <2>1, <2>2, <2>3, <2>4
<1>2. CASE Prepare(t)
  <2>1. AdapterTypeOK'
    BY <1>2 DEF Prepare, AdapterTypeOK, CallsSound, Dep, Pointers, NoPointer
  <2>2. PointerResolves' /\ RecordsSound'
    BY <1>2 DEF Prepare, AdapterTypeOK, CallsSound, PointerResolves, RecordsSound, Restored,
                Dep, NoPointer, Pointers
  <2>3. PassMeansRestored'
    <3>. SUFFICES ASSUME NEW u \in Targets,
                         call'[u].op \in {"rollback", "verify_rollback"}, call'[u].at = "PASS"
                  PROVE  /\ rollback'[Dep(u)'].status = "COMPLETE"
                         /\ current'[u] = Restored(Dep(u))'
      BY DEF PassMeansRestored
    <3>1. CASE u # t
      <4>1. /\ Dep(u)' = Dep(u) /\ call'[u] = call[u]
            /\ Dep(u) \in Deployments /\ Dep(u) # Dep(t)
        BY <1>2, <3>1 DEF Prepare, CallsSound, AdapterTypeOK, Pass, Refuse
      <4>. QED BY <1>2, <3>1, <4>1 DEF Prepare, AdapterTypeOK, PassMeansRestored, Restored
    <3>2. CASE u = t
      BY <1>2, <3>2 DEF Prepare, AdapterTypeOK, PassMeansRestored, CallsSound, RollbackSound,
         RecordsSound, Pass, Refuse, Restored, Dep
    <3>. QED BY <3>1, <3>2
  <2>4. CallsSound'
    <3>. SUFFICES ASSUME NEW u \in Targets
                  PROVE  (/\ call[u].op # "none" => Dep(u) \in Deployments /\ TargetOf[Dep(u)] = u
                          /\ DeploySound(u) /\ RollbackSound(u))'
      BY DEF CallsSound
    <3>1. CASE u # t
      <4>1. /\ Dep(u)' = Dep(u) /\ call'[u] = call[u]
            /\ call[u].op # "none" => Dep(u) \in Deployments /\ Dep(u) # Dep(t)
        BY <1>2, <3>1 DEF Prepare, CallsSound, AdapterTypeOK, Pass, Refuse
      <4>. QED BY <1>2, <3>1, <4>1 DEF Prepare, AdapterTypeOK, CallsSound, DeploySound,
                  RollbackSound, Restored
    <3>2. CASE u = t
      BY <1>2, <3>2 DEF Prepare, AdapterTypeOK, CallsSound, DeploySound, RollbackSound,
         RecordsSound, CannotRestore, Pass, Refuse, Restored, Dep
    <3>. QED BY <3>1, <3>2
  <2>. QED BY <2>1, <2>2, <2>3, <2>4
<1>3. CASE ReconcilePrepared(t) \/ CheckActive(t) \/ ReplayActive(t)
  <2>1. AdapterTypeOK'
    BY <1>3 DEF ReconcilePrepared, CheckActive, ReplayActive, files, AdapterTypeOK,
                Refuse, Pass
  <2>2. PointerResolves' /\ RecordsSound'
    BY <1>3 DEF ReconcilePrepared, CheckActive, ReplayActive, files, PointerResolves,
                RecordsSound, Restored
  <2>3. PassMeansRestored'
    BY <1>3 DEF ReconcilePrepared, CheckActive, ReplayActive, files, AdapterTypeOK,
                PassMeansRestored, Refuse, Pass, Restored, Dep
  <2>4. CallsSound'
    BY <1>3 DEF ReconcilePrepared, CheckActive, ReplayActive, files, AdapterTypeOK,
                CallsSound, DeploySound, RollbackSound, Refuse, Pass, Restored, Dep
  <2>. QED BY <2>1, <2>2, <2>3, <2>4
<1>4. CASE Point(t)
  <2>1. AdapterTypeOK'
    BY <1>4 DEF Point, AdapterTypeOK, CallsSound, Dep, Pointers, PointerTo
  <2>2. PointerResolves' /\ RecordsSound'
    BY <1>4 DEF Point, AdapterTypeOK, CallsSound, DeploySound, PointerResolves, RecordsSound,
                Restored, Dep, PointerTo
  <2>3. PassMeansRestored'
    BY <1>4 DEF Point, AdapterTypeOK, PassMeansRestored, Restored, Dep
  <2>4. CallsSound'
    BY <1>4 DEF Point, AdapterTypeOK, CallsSound, DeploySound, RollbackSound,
                Restored, Dep, PointerTo
  <2>. QED BY <2>1, <2>2, <2>3, <2>4
<1>5. CASE SealActive(t)
  <2>1. AdapterTypeOK'
    <3>. DEFINE Records == [status : {"none", "PREPARED", "ACTIVE"},
                            previous : Pointers, pointer : Pointers]
                new == [status |-> "ACTIVE", previous |-> record[Dep(t)].previous,
                        pointer |-> current[t]]
    <3>1. Dep(t) \in Deployments /\ record \in [Deployments -> Records]
      BY <1>5 DEF SealActive, AdapterTypeOK, CallsSound
    <3>2. new \in Records
      BY <3>1 DEF AdapterTypeOK
    <3>3. record' = [record EXCEPT ![Dep(t)] = new]
      BY <1>5 DEF SealActive
    <3>4. record' \in [Deployments -> Records]
      <4>. HIDE DEF new, Records
      <4>. QED BY <3>1, <3>2, <3>3
    <3>. QED BY <1>5, <3>4 DEF SealActive, AdapterTypeOK, Pass
  <2>2. PointerResolves' /\ RecordsSound'
    BY <1>5 DEF SealActive, AdapterTypeOK, CallsSound, PointerResolves, RecordsSound,
                Restored, Dep
  <2>3. PassMeansRestored'
    <3>. SUFFICES ASSUME NEW u \in Targets,
                         call'[u].op \in {"rollback", "verify_rollback"}, call'[u].at = "PASS"
                  PROVE  /\ rollback'[Dep(u)'].status = "COMPLETE"
                         /\ current'[u] = Restored(Dep(u))'
      BY DEF PassMeansRestored
    <3>1. CASE u # t
      <4>1. /\ Dep(u)' = Dep(u) /\ call'[u] = call[u]
            /\ Dep(u) \in Deployments /\ Dep(u) # Dep(t)
        BY <1>5, <3>1 DEF SealActive, CallsSound, AdapterTypeOK, Pass, Refuse
      <4>. QED BY <1>5, <3>1, <4>1 DEF SealActive, AdapterTypeOK, PassMeansRestored, Restored
    <3>2. CASE u = t
      BY <1>5, <3>2 DEF SealActive, AdapterTypeOK, PassMeansRestored, CallsSound, RollbackSound,
         RecordsSound, Pass, Refuse, Restored, Dep
    <3>. QED BY <3>1, <3>2
  <2>4. CallsSound'
    BY <1>5 DEF SealActive, AdapterTypeOK, CallsSound, DeploySound, RollbackSound, Pass,
                Restored, Dep
  <2>. QED BY <2>1, <2>2, <2>3, <2>4
<1>. QED BY <1>1, <1>2, <1>3, <1>4, <1>5 DEF DeployStep

LEMMA RollbackKeeps ==
    ASSUME AdapterInv, NEW t \in Targets, RollbackStep(t)
    PROVE  AdapterInv'
<1>. USE ReleaseAssumption, GotoFacts DEF AdapterInv, At, Places, Calls
<1>1. CASE RefuseRollback(t) \/ ReconcileRollback(t) \/ ReplayRollback(t)
  <2>1. AdapterTypeOK'
    BY <1>1 DEF RefuseRollback, ReconcileRollback, ReplayRollback, files, AdapterTypeOK,
                Refuse, Pass
  <2>2. PointerResolves' /\ RecordsSound'
    BY <1>1 DEF RefuseRollback, ReconcileRollback, ReplayRollback, files, PointerResolves,
                RecordsSound, Restored
  <2>3. PassMeansRestored'
    <3>. SUFFICES ASSUME NEW u \in Targets,
                         call'[u].op \in {"rollback", "verify_rollback"}, call'[u].at = "PASS"
                  PROVE  /\ rollback'[Dep(u)'].status = "COMPLETE"
                         /\ current'[u] = Restored(Dep(u))'
      BY DEF PassMeansRestored
    <3>1. CASE u # t
      <4>1. /\ Dep(u)' = Dep(u) /\ call'[u] = call[u]
            /\ Dep(u) \in Deployments /\ Dep(u) # Dep(t)
        BY <1>1, <3>1 DEF RefuseRollback, ReconcileRollback, ReplayRollback, files, CallsSound,
                          AdapterTypeOK, Pass, Refuse
      <4>. QED BY <1>1, <3>1, <4>1 DEF RefuseRollback, ReconcileRollback, ReplayRollback, files,
                                       AdapterTypeOK, PassMeansRestored, Restored
    <3>2. CASE u = t
      <4>1. CASE RefuseRollback(t)
        BY <3>2, <4>1 DEF RefuseRollback, Refuse
      <4>2. CASE ReconcileRollback(t)
        BY <3>2, <4>2 DEF ReconcileRollback, Refuse
      <4>3. CASE ReplayRollback(t)
        <5>1. Dep(t)' = Dep(t) /\ UNCHANGED files /\ rollback[Dep(t)].status = "COMPLETE"
          BY <4>3 DEF ReplayRollback, Pass, Refuse
        <5>2. current[t] = Restored(Dep(t))
          BY <3>2, <4>3 DEF ReplayRollback, Refuse
        <5>. QED BY <3>2, <5>1, <5>2 DEF files, Restored
      <4>. QED BY <1>1, <4>1, <4>2, <4>3
    <3>. QED BY <3>1, <3>2
  <2>4. CallsSound'
    <3>. SUFFICES ASSUME NEW u \in Targets
                  PROVE  (/\ call[u].op # "none" => Dep(u) \in Deployments /\ TargetOf[Dep(u)] = u
                          /\ DeploySound(u) /\ RollbackSound(u))'
      BY DEF CallsSound
    <3>1. CASE u # t
      <4>1. /\ Dep(u)' = Dep(u) /\ call'[u] = call[u]
            /\ call[u].op # "none" => Dep(u) \in Deployments /\ Dep(u) # Dep(t)
        BY <1>1, <3>1 DEF RefuseRollback, ReconcileRollback, ReplayRollback, files, CallsSound,
                          AdapterTypeOK, Pass, Refuse
      <4>. QED BY <1>1, <3>1, <4>1 DEF RefuseRollback, ReconcileRollback, ReplayRollback, files,
                                       AdapterTypeOK, CallsSound, DeploySound,
                  RollbackSound, Restored
    <3>2. CASE u = t
      <4>1. Dep(t)' = Dep(t) /\ UNCHANGED files /\ call'[t].op = "rollback" /\ call[t].op = "rollback"
        BY <1>1 DEF RefuseRollback, ReconcileRollback, ReplayRollback, Pass, Refuse
      <4>2. call'[t].at \in {"restore", "complete"} => ReconcileRollback(t)
        BY <1>1 DEF RefuseRollback, ReplayRollback, Pass, Refuse
      <4>3. ReconcileRollback(t) =>
               /\ record[Dep(t)].status # "none" /\ rollback[Dep(t)].status # "none"
               /\ call'[t].at = "restore" => current[t].ref = Dep(t)
               /\ call'[t].at = "complete" => current[t] = Restored(Dep(t))
        BY DEF ReconcileRollback, CannotRestore, CallsSound, RecordsSound, Refuse
      <4>. QED BY <3>2, <4>1, <4>2, <4>3 DEF CallsSound, DeploySound, RollbackSound, files, Restored
    <3>. QED BY <3>1, <3>2
  <2>. QED BY <2>1, <2>2, <2>3, <2>4
<1>2. CASE PrepareRollback(t)
  <2>1. AdapterTypeOK'
    BY <1>2 DEF PrepareRollback, AdapterTypeOK, CallsSound, Dep, Restored,
                Pointers, Inactive
  <2>2. PointerResolves' /\ RecordsSound'
    BY <1>2 DEF PrepareRollback, AdapterTypeOK, CallsSound, PointerResolves, RecordsSound,
                CannotRestore, Restored, Dep
  <2>3. PassMeansRestored'
    BY <1>2 DEF PrepareRollback, AdapterTypeOK, PassMeansRestored, CallsSound,
                Restored, Dep
  <2>4. CallsSound'
    BY <1>2 DEF PrepareRollback, AdapterTypeOK, CallsSound, DeploySound, RollbackSound,
                CannotRestore, Restored, Dep
  <2>. QED BY <2>1, <2>2, <2>3, <2>4
<1>3. CASE RestorePointer(t)
  <2>1. AdapterTypeOK'
    BY <1>3 DEF RestorePointer, AdapterTypeOK, CallsSound, Dep, Restored,
                Pointers, Inactive
  <2>2. PointerResolves' /\ RecordsSound'
    BY <1>3 DEF RestorePointer, AdapterTypeOK, CallsSound, PointerResolves, RecordsSound,
                Restored, Dep, Inactive
  <2>3. PassMeansRestored'
    BY <1>3 DEF RestorePointer, AdapterTypeOK, PassMeansRestored, Restored, Dep
  <2>4. CallsSound'
    BY <1>3 DEF RestorePointer, AdapterTypeOK, CallsSound, DeploySound, RollbackSound,
                Restored, Dep
  <2>. QED BY <2>1, <2>2, <2>3, <2>4
<1>4. CASE CompleteRollback(t)
  <2>1. AdapterTypeOK'
    BY <1>4, SMTT(30) DEF CompleteRollback, AdapterTypeOK, CallsSound, Pass, Dep
  <2>2. PointerResolves' /\ RecordsSound'
    BY <1>4 DEF CompleteRollback, AdapterTypeOK, CallsSound, RollbackSound, PointerResolves,
                RecordsSound, Restored, Dep
  <2>3. PassMeansRestored'
    <3>. SUFFICES ASSUME NEW u \in Targets,
                         call'[u].op \in {"rollback", "verify_rollback"}, call'[u].at = "PASS"
                  PROVE  /\ rollback'[Dep(u)'].status = "COMPLETE"
                         /\ current'[u] = Restored(Dep(u))'
      BY DEF PassMeansRestored
    <3>1. CASE u # t
      <4>1. /\ Dep(u)' = Dep(u) /\ call'[u] = call[u]
            /\ Dep(u) \in Deployments /\ Dep(u) # Dep(t)
        BY <1>4, <3>1 DEF CompleteRollback, CallsSound, AdapterTypeOK, Pass, Refuse
      <4>. QED BY <1>4, <3>1, <4>1 DEF CompleteRollback, AdapterTypeOK, PassMeansRestored, Restored
    <3>2. CASE u = t
      BY <1>4, <3>2 DEF CompleteRollback, AdapterTypeOK, PassMeansRestored, CallsSound, RollbackSound,
         RecordsSound, Pass, Refuse, Restored, Dep
    <3>. QED BY <3>1, <3>2
  <2>4. CallsSound'
    <3>. SUFFICES ASSUME NEW u \in Targets
                  PROVE  (/\ call[u].op # "none" => Dep(u) \in Deployments /\ TargetOf[Dep(u)] = u
                          /\ DeploySound(u) /\ RollbackSound(u))'
      BY DEF CallsSound
    <3>1. CASE u # t
      <4>1. /\ Dep(u)' = Dep(u) /\ call'[u] = call[u]
            /\ call[u].op # "none" => Dep(u) \in Deployments /\ Dep(u) # Dep(t)
        BY <1>4, <3>1 DEF CompleteRollback, CallsSound, AdapterTypeOK, Pass, Refuse
      <4>. QED BY <1>4, <3>1, <4>1 DEF CompleteRollback, AdapterTypeOK, CallsSound, DeploySound,
                  RollbackSound, Restored
    <3>2. CASE u = t
      BY <1>4, <3>2 DEF CompleteRollback, AdapterTypeOK, CallsSound, DeploySound, RollbackSound,
         RecordsSound, CannotRestore, Pass, Refuse, Restored, Dep
    <3>. QED BY <3>1, <3>2
  <2>. QED BY <2>1, <2>2, <2>3, <2>4
<1>. QED BY <1>1, <1>2, <1>3, <1>4 DEF RollbackStep

\* The operations that only look.
LEMMA LookKeeps ==
    ASSUME AdapterInv, NEW t \in Targets, Verify(t) \/ VerifyRollback(t) \/ Readback(t)
    PROVE  AdapterInv'
<1>. USE ReleaseAssumption, GotoFacts DEF AdapterInv, At, Places, Calls
<1>1. AdapterTypeOK'
  BY DEF Verify, VerifyRollback, Readback, files, AdapterTypeOK, Refuse, Pass
<1>2. PointerResolves' /\ RecordsSound'
  BY DEF Verify, VerifyRollback, Readback, files, PointerResolves, RecordsSound, Restored
<1>3. PassMeansRestored'
  <2>. SUFFICES ASSUME NEW u \in Targets,
                       call'[u].op \in {"rollback", "verify_rollback"}, call'[u].at = "PASS"
                PROVE  /\ rollback'[Dep(u)'].status = "COMPLETE"
                       /\ current'[u] = Restored(Dep(u))'
    BY DEF PassMeansRestored
  <2>1. CASE u # t
    <3>1. /\ Dep(u)' = Dep(u) /\ call'[u] = call[u]
          /\ Dep(u) \in Deployments /\ Dep(u) # Dep(t)
      BY <2>1 DEF Verify, VerifyRollback, Readback, files, CallsSound, AdapterTypeOK, Pass,
                  Refuse
    <3>. QED BY <2>1, <3>1 DEF Verify, VerifyRollback, Readback, files, AdapterTypeOK,
             PassMeansRestored, Restored
  <2>2. CASE u = t
    BY <2>2 DEF Verify, VerifyRollback, Readback, files, AdapterTypeOK, PassMeansRestored,
                CallsSound, RecordsSound, Pass, Refuse, Restored, Dep
  <2>. QED BY <2>1, <2>2
<1>4. CallsSound'
  BY DEF Verify, VerifyRollback, Readback, files, AdapterTypeOK, CallsSound, DeploySound,
         RollbackSound, Refuse, Pass, Restored, Dep
<1>. QED BY <1>1, <1>2, <1>3, <1>4

LEMMA AdapterNextKeeps == AdapterInv /\ [Next]_adapterVars => AdapterInv'
<1>. SUFFICES ASSUME AdapterInv, [Next]_adapterVars PROVE AdapterInv'
  OBVIOUS
<1>1. CASE UNCHANGED adapterVars
  BY <1>1 DEF adapterVars, files, AdapterInv, AdapterTypeOK, PointerResolves,
              PassMeansRestored, CallsSound, DeploySound, RollbackSound, RecordsSound,
              Restored, Dep
<1>2. ASSUME NEW d \in Deployments, Damage(d) \/ \E op \in Ops : Begin(op, d)
      PROVE  AdapterInv'
  BY <1>2, BeginKeeps, CallKeeps
<1>3. ASSUME NEW t \in Targets, OperationStep(t)
      PROVE  AdapterInv'
  BY <1>3, DeployKeeps, RollbackKeeps, LookKeeps DEF OperationStep
<1>4. ASSUME NEW t \in Targets, Return(t) \/ Kill(t)
      PROVE  AdapterInv'
  BY <1>4, CallKeeps
<1>. QED BY <1>1, <1>2, <1>3, <1>4 DEF Next

\* Consumers can follow the pointer at any time, and a rollback that passes has
\* restored the target, however often the operations before it were killed.
THEOREM AdapterSafety == Spec => []AdapterInv
  BY InitSound, AdapterNextKeeps, PTL DEF Spec

\* The current pointer of a target always names an installed release of that target, so
\* that its consumers can follow it while deploy() and rollback() are killed and repeated.
THEOREM PointerAlwaysResolves == Spec => []PointerResolves
<1>1. AdapterInv => PointerResolves
  BY DEF AdapterInv
<1>. QED BY <1>1, AdapterSafety, PTL

\* A rollback() or verify_rollback() that answers PASS has restored what its deployment
\* replaced.
THEOREM PassedIsRestored == Spec => []PassMeansRestored
<1>1. AdapterInv => PassMeansRestored
  BY DEF AdapterInv
<1>. QED BY <1>1, AdapterSafety, PTL

\* Every step does to the pointers what one operation of ReleaseOrder does, or nothing.
LEMMA StepInOrder ==
    AdapterInv /\ [Next]_adapterVars =>
        [Order!Next]_<<[t \in Targets |-> current[t].ref],
                       {d \in Deployments : record[d].status # "none"},
                       [d \in Deployments |-> record[d].previous.ref]>>
<1>. DEFINE live == [t \in Targets |-> current[t].ref]
            prepared == {d \in Deployments : record[d].status # "none"}
            under == [d \in Deployments |-> record[d].previous.ref]
<1>. SUFFICES ASSUME AdapterInv, [Next]_adapterVars
              PROVE  Order!Next \/ UNCHANGED <<live, prepared, under>>
  OBVIOUS
<1>. USE DEF AdapterInv
<1>1. ASSUME UNCHANGED <<current, record>>
      PROVE  UNCHANGED <<live, prepared, under>>
  BY <1>1
<1>2. ASSUME NEW t \in Targets, Prepare(t)
      PROVE  Order!Next
  <2>1. /\ Dep(t) \in Deployments /\ TargetOf[Dep(t)] = t
        /\ record' = [record EXCEPT ![Dep(t)] =
                        [status |-> "PREPARED", previous |-> current[t], pointer |-> NoPointer]]
        /\ record[Dep(t)].status = "none" /\ UNCHANGED current
    BY <1>2 DEF Prepare, At, CallsSound
  <2>2. Dep(t) \notin prepared /\ live' = live
    BY <2>1
  <2>3. prepared' = prepared \cup {Dep(t)}
    BY <2>1 DEF AdapterTypeOK
  <2>4. under' = [under EXCEPT ![Dep(t)] = live[TargetOf[Dep(t)]]]
    BY <2>1 DEF AdapterTypeOK
  <2>5. PICK d \in Deployments : d = Dep(t)
    BY <2>1
  <2>6. Order!Prepare(d)
    BY <2>1, <2>2, <2>3, <2>4, <2>5 DEF Order!Prepare
  <2>. QED BY <2>6 DEF Order!Next
<1>3. ASSUME NEW t \in Targets, Point(t)
      PROVE  Order!Next
  <2>1. /\ Dep(t) \in Deployments /\ TargetOf[Dep(t)] = t
        /\ record[Dep(t)].status # "none" /\ current[t] = record[Dep(t)].previous
        /\ current' = [current EXCEPT ![t] = PointerTo(Dep(t), stamps[Dep(t)] + 1)]
        /\ UNCHANGED record
    BY <1>3 DEF Point, At, CallsSound, DeploySound
  <2>2. /\ Dep(t) \in prepared /\ live[t] = under[Dep(t)]
        /\ UNCHANGED <<prepared, under>>
    BY <2>1
  <2>3. live' = [live EXCEPT ![t] = Dep(t)]
    BY <2>1 DEF AdapterTypeOK, PointerTo
  <2>5. PICK d \in Deployments : d = Dep(t)
    BY <2>1
  <2>6. Order!GoLive(d)
    BY <2>1, <2>2, <2>3, <2>5 DEF Order!GoLive
  <2>. QED BY <2>6 DEF Order!Next
<1>4. ASSUME NEW t \in Targets, RestorePointer(t)
      PROVE  Order!Next
  <2>1. /\ Dep(t) \in Deployments /\ TargetOf[Dep(t)] = t
        /\ current[t].ref = Dep(t)
        /\ current' = [current EXCEPT ![t] = Restored(Dep(t))]
        /\ UNCHANGED record
    BY <1>4 DEF RestorePointer, At, CallsSound, RollbackSound
  <2>2. live[t] = Dep(t) /\ UNCHANGED <<prepared, under>>
    BY <2>1
  <2>3. live' = [live EXCEPT ![t] = under[Dep(t)]]
    BY <2>1 DEF AdapterTypeOK, Restored, Inactive
  <2>5. PICK d \in Deployments : d = Dep(t)
    BY <2>1
  <2>6. Order!TakeBack(d)
    BY <2>1, <2>2, <2>3, <2>5 DEF Order!TakeBack
  <2>. QED BY <2>6 DEF Order!Next
<1>5. ASSUME NEW t \in Targets, SealActive(t)
      PROVE  UNCHANGED <<live, prepared, under>>
  <2>1. /\ Dep(t) \in Deployments
        /\ record' = [record EXCEPT ![Dep(t)] =
                        [status |-> "ACTIVE", previous |-> @.previous, pointer |-> current[t]]]
        /\ record[Dep(t)].status # "none" /\ UNCHANGED current
    BY <1>5 DEF SealActive, At, CallsSound, DeploySound
  <2>2. \A d \in Deployments : /\ record'[d].previous = record[d].previous
                               /\ record'[d].status # "none" <=> record[d].status # "none"
    BY <2>1 DEF AdapterTypeOK
  <2>3. live' = live
    BY <2>1
  <2>4. prepared' = prepared
    BY <2>2
  <2>5. under' = under
    BY <2>2
  <2>. QED BY <2>3, <2>4, <2>5
<1>6. CASE UNCHANGED adapterVars
  BY <1>1, <1>6 DEF adapterVars, files
<1>7. ASSUME NEW t \in Targets,
             OperationStep(t), ~ Prepare(t), ~ Point(t), ~ RestorePointer(t), ~ SealActive(t)
      PROVE  UNCHANGED <<current, record>>
  BY <1>7 DEF OperationStep, DeployStep, RollbackStep, Install, ReconcilePrepared, CheckActive,
              ReplayActive, RefuseRollback, PrepareRollback, ReconcileRollback,
              CompleteRollback, ReplayRollback, Verify, VerifyRollback, Readback, files
<1>8. ASSUME \/ \E d \in Deployments : Damage(d) \/ \E op \in Ops : Begin(op, d)
             \/ \E t \in Targets : Return(t) \/ Kill(t)
      PROVE  UNCHANGED <<current, record>>
  BY <1>8 DEF Damage, Begin, Return, Kill, files
<1>. HIDE DEF live, prepared, under
<1>9. ASSUME NEW t \in Targets, OperationStep(t)
      PROVE  Order!Next \/ UNCHANGED <<live, prepared, under>>
  <2>1. CASE Prepare(t) \/ Point(t) \/ RestorePointer(t)
    BY <1>2, <1>3, <1>4, <2>1
  <2>2. CASE SealActive(t)
    BY <1>5, <2>2
  <2>. QED BY <1>1, <1>7, <1>9, <2>1, <2>2
<1>. QED BY <1>1, <1>6, <1>8, <1>9 DEF Next

\* Killed and repeated as they may be, the operations on a target replace and restore
\* releases in order: no deployment goes live over another release than it recorded.
THEOREM AdapterImplementsOrder == Spec => ImplementsOrder
<1>1. AdapterInit => Order!Init
  BY DEF AdapterInit, Order!Init, NoPointer, NoRecord
<1>. QED BY <1>1, StepInOrder, AdapterSafety, PTL DEF Spec, ImplementsOrder, Order!Spec

(***************************************************************************)
(* The gate                                                                 *)
(*                                                                         *)
(* A run that dies leaves its adapter running and forgets everything but the *)
(* event file and the receipts.  The invariant therefore says what these    *)
(* mean at any time: a stage without its receipt means that nothing behind  *)
(* it has been touched, and the last receipt means that the release is live *)
(* in production, or that the event cannot be verified any more.            *)
(***************************************************************************)
\* Where a run works on a stage, takes it back, reads production back, reports.
StagePlaces == {"check", "capability", "recheck", "deploy", "verify", "commit"}
UndoPlaces == {"rollback", "rollback_verify", "rolled_back", "rollback_failed"}
ReadbackPlaces == {"precheck", "readback", "commit_readback"}
ReportPlaces == {"report", "commit_report", "send", "smtp", "find", "commit_delivery"}
Working == StagePlaces \cup UndoPlaces \cup ReadbackPlaces

GateRuns ==
    [at : Working \cup ReportPlaces \cup {"idle", "await"}, stage : 0..3, copy : Events,
     op : DOMAIN Called \cup {"none"}]

\* GateTypeOK, and the record of the run in full.
ReleaseTypeOK == GateTypeOK /\ gate \in GateRuns

(***************************************************************************)
(* The files                                                                *)
(***************************************************************************)
\* All the stages before stage i have their receipts.
Passed(i) == \A j \in 1..3 : j < i => Stages[j] \in receipts

\* What an event says has its receipts; it stays authorized until it is blocked.
EventSound ==
    /\ event.status \in {Checkpoints[i] : i \in 1..4} \cup {"CAPABILITY_BLOCKED"} => event.auth = "APPROVED"
    /\ event.status = "CAPABILITY_BLOCKED" => event.origin # "none"
    /\ \A i \in 1..4 : event.status = Checkpoints[i] \/ event.origin = Checkpoints[i] => Passed(i)

\* A stage gets its receipt after the ones before it, and the last one is not
\* overlooked: no adapter is missed, and no authorization issued, after it.
ReceiptsSound ==
    /\ \A i \in 1..3 : Stages[i] \in receipts => Passed(i)
    /\ Full \in receipts => event.status \in {"CANARY_VERIFIED", "PRODUCTION_DEPLOYED", "PRODUCTION_VERIFIED",
                                              "RELEASE_BLOCKED", "ROLLED_BACK", "ROLLBACK_FAILED"}

\* Nothing has touched the target of a stage as long as one before it has no receipt.
Untouched(d) == record[d].status = "none" /\ call[d] = NoCall

UntouchedSound == \A i \in 1..3 : ~ Passed(i) => Untouched(Stages[i])

\* The release is live in production, and no operation that runs can change that.
LiveFull == current[Full].ref = Full /\ call[Full].op \in {"none", "readback"}

\* The event can no longer get to PRODUCTION_VERIFIED.
Doomed ==
    \/ readback = "BLOCKED" \/ credential # "valid"
    \/ event.status \in {"RELEASE_BLOCKED", "ROLLED_BACK", "ROLLBACK_FAILED"}

ProductionSound ==
    /\ Full \in receipts => LiveFull \/ Doomed
    /\ event.status = "PRODUCTION_VERIFIED" => LiveFull /\ readback = "PASS" /\ receipts = Targets

\* Stage i is taken back, and nothing behind it was touched.
RestoredAt(i) ==
    /\ rollback[Stages[i]].status = "COMPLETE"
    /\ current[Stages[i]] = Restored(Stages[i])
    /\ call[Stages[i]] = NoCall
    /\ \A j \in 1..3 : i < j => Untouched(Stages[j])

RestoredSound == event.status = "ROLLED_BACK" => \E i \in 1..3 : RestoredAt(i)

\* Before the first mail there is the attempt, which is never made again.
DeliverySound ==
    /\ mails \in 0..1
    /\ delivery = {} => mails = 0
    /\ "receipt" \in delivery => mails = 1
    /\ event.delivered => "receipt" \in delivery

\* A verification or a readback that passed has seen the release, and the operation
\* still has the lock of the target.
LookSound ==
    \A t \in Targets :
        call[t].op \in {"verify", "readback"} /\ call[t].at = "PASS" => current[t].ref = Dep(t)

FilesInv ==
    /\ EventSound /\ ReceiptsSound /\ UntouchedSound /\ ProductionSound /\ RestoredSound
    /\ DeliverySound

(***************************************************************************)
(* The run                                                                  *)
(***************************************************************************)
\* What the run is about, be it that it still has to call the adapter or waits for it.
Doing == IF gate.at = "await" THEN gate.op ELSE gate.at

\* The answer that is awaited can only be that of the operation that was started.
AwaitSound ==
    gate.at = "await" =>
        /\ gate.op \in DOMAIN Called
        /\ call[Stage] # NoCall => call[Stage].op = Called[gate.op] /\ Dep(Stage) = Stage

\* What the event says while a run is at a place.
PhaseSound ==
    /\ Doing \in Working => gate.stage \in 1..3 /\ Passed(gate.stage)
    /\ Doing \in StagePlaces => event.status = Checkpoints[gate.stage]
    /\ Doing \in UndoPlaces =>
          \/ event.status = Checkpoints[gate.stage]
          \/ gate.stage = 3 /\ event.status \in {"PRODUCTION_DEPLOYED", "RELEASE_BLOCKED"}
    /\ Doing \in ReadbackPlaces => gate.stage = 3 /\ event.status = "PRODUCTION_DEPLOYED"
    /\ Doing \in ReportPlaces => event.status = "PRODUCTION_VERIFIED"

\* The run has a true copy of the event; in a rollback it may have blocked its own.
CopySound ==
    Doing \in Working =>
        \/ gate.copy = event
        \/ Doing \in UndoPlaces /\ gate.copy = [event EXCEPT !.auth = "BLOCKED"]

\* What the run has seen of the stage that it works on stays true.
StageSound ==
    /\ Doing \in {"capability", "recheck", "deploy", "verify"} => Stage \notin receipts
    /\ Doing \in UndoPlaces /\ event.status = Checkpoints[gate.stage] => Stage \notin receipts
    /\ Doing = "commit" => Stage \in receipts
    /\ Doing = "rolled_back" => RestoredAt(gate.stage)

\* And of production: it is only left alone, or the event is past saving.
ReadbackSound ==
    /\ Doing \in UndoPlaces /\ Full \in receipts => Doomed
    /\ Doing \in {"readback", "commit_readback"} => LiveFull
    /\ Doing = "commit_readback" => readback = "PASS"

MailSound ==
    /\ Doing = "send" => mails = 0
    /\ Doing \in {"send", "smtp", "find", "commit_delivery"} => delivery # {}
    /\ Doing = "commit_delivery" => "receipt" \in delivery

RunInv ==
    /\ AwaitSound /\ PhaseSound /\ CopySound /\ StageSound /\ ReadbackSound /\ MailSound

IInv ==
    /\ ReleaseTypeOK /\ AdapterInv /\ LookSound
    /\ FilesInv
    /\ RunInv

(***************************************************************************)
(* Names                                                                    *)
(***************************************************************************)
\* The three stages are different, and each is its own target.
LEMMA StageNames ==
    /\ \A i, j \in 1..3 : Stages[i] = Stages[j] => i = j
    /\ \A i \in 1..3 : Stages[i] \in Targets /\ Stages[i] \in Deployments
    /\ \A d \in Targets : d \in Deployments /\ TargetOf[d] = d /\ \E i \in 1..3 : d = Stages[i]
    /\ \A d \in Deployments : d \in Targets /\ TargetOf[d] = d
    /\ Full = Stages[3]
<1>1. Stages[1] = "preproduction" /\ Stages[2] = "production_canary" /\ Stages[3] = "production_full"
  BY DEF Stages
<1>2. \A i \in 1..3 : i = 1 \/ i = 2 \/ i = 3
  OBVIOUS
<1>. QED BY <1>1, <1>2, GateAssumption DEF GateAssumption, Full

\* The checkpoints are different, and none is another status of an event.
LEMMA CheckpointNames ==
    /\ \A i, j \in 1..4 : Checkpoints[i] = Checkpoints[j] => i = j
    /\ Checkpoints[3] = "CANARY_VERIFIED" /\ Checkpoints[4] = "PRODUCTION_DEPLOYED"
    /\ \A i \in 1..4 : Checkpoints[i] \in Statuses /\ Checkpoints[i] \notin
          {"APPROVAL_COLLECTING", "APPROVAL_PAUSED", "APPROVAL_EXPIRED", "PRE_RELEASE_REQUESTED",
           "RELEASE_AUTHORIZATION_REQUIRED", "RELEASE_BLOCKED", "CAPABILITY_BLOCKED",
           "PRODUCTION_VERIFIED", "ROLLED_BACK", "ROLLBACK_FAILED", "none"}
<1>1. /\ Checkpoints[1] = "RELEASE_AUTHORIZED" /\ Checkpoints[2] = "PREPRODUCTION_VERIFIED"
      /\ Checkpoints[3] = "CANARY_VERIFIED" /\ Checkpoints[4] = "PRODUCTION_DEPLOYED"
  BY DEF Checkpoints
<1>2. \A i \in 1..4 : i = 1 \/ i = 2 \/ i = 3 \/ i = 4
  OBVIOUS
<1>3. \A i \in 1..4 : Checkpoints[i] \in Statuses
  BY DEF Statuses
<1>. QED BY <1>1, <1>2, <1>3

\* The operations that a run calls.
LEMMA CalledNames ==
    /\ DOMAIN Called = {"deploy", "verify", "rollback", "rollback_verify", "readback"}
    /\ \A op \in DOMAIN Called : Called[op] \in Ops
    /\ Called["deploy"] = "deploy" /\ Called["verify"] = "verify" /\ Called["readback"] = "readback"
    /\ Called["rollback"] = "rollback" /\ Called["rollback_verify"] = "verify_rollback"
  BY DEF Called, Ops

LEMMA InitInv == Init => IInv
<1>. SUFFICES ASSUME Init PROVE IInv
  OBVIOUS
<1>1. event \in Events /\ event.status = "APPROVAL_COLLECTING" /\ ~event.delivered /\ event.origin = "none"
  BY DEF Init, Events, Statuses
<1>2. AdapterInv
  BY InitSound DEF Init
<1>3. gate \in GateRuns /\ gate.at = "idle"
  BY <1>1 DEF Init, Idle, GateRuns
<1>4. ReleaseTypeOK
  <2>1. gate.stage \in 0..3 /\ gate.copy \in Events
    BY <1>3 DEF GateRuns
  <2>2. deaths \in 0..MaxDeaths /\ changes \in 0..MaxChanges
    BY GateAssumption DEF GateAssumption, Init
  <2>. QED BY <1>1, <1>2, <1>3, <2>1, <2>2 DEF Init, AdapterInv, ReleaseTypeOK, GateTypeOK
<1>5. \A t \in Targets : call[t] = NoCall
  BY DEF Init, AdapterInit
<1>6. \A d \in Deployments : record[d].status = "none"
  BY DEF Init, AdapterInit, NoRecord
<1>7. LookSound
  BY <1>5 DEF LookSound, NoCall
<1>8. FilesInv
  BY <1>1, <1>5, <1>6, StageNames, CheckpointNames
  DEF Init, FilesInv, EventSound, ReceiptsSound, UntouchedSound, Untouched, ProductionSound,
      RestoredSound, DeliverySound
<1>9. RunInv
  BY <1>3 DEF RunInv, AwaitSound, PhaseSound, CopySound, StageSound, ReadbackSound, MailSound, Doing,
              Working, StagePlaces, UndoPlaces, ReadbackPlaces, ReportPlaces
<1>. QED BY <1>2, <1>4, <1>7, <1>8, <1>9 DEF IInv

(***************************************************************************)
(* The adapter goes on.                                                     *)
(***************************************************************************)
\* An operation touches its own target and deployment only.
LEMMA OperationFrame ==
    ASSUME AdapterInv, NEW t \in Targets, OperationStep(t)
    PROVE  /\ call[t].op \in Ops /\ Dep(t) = t
           /\ call'[t].op = call[t].op /\ Dep(t)' = Dep(t)
           /\ \A u \in Targets \ {t} :
                 /\ call'[u] = call[u] /\ current'[u] = current[u]
                 /\ record'[u] = record[u] /\ rollback'[u] = rollback[u]
           /\ call[t].op \in {"verify", "readback"} =>
                 /\ UNCHANGED files
                 /\ call'[t].at = "PASS" => current[t].ref = Dep(t)
<1>. USE DEF At
<1>1. PICK place \in Places : Goto(t, place)
  BY DEF OperationStep, DeployStep, RollbackStep, Install, Prepare, ReconcilePrepared, Point, CheckActive,
         SealActive, ReplayActive, RefuseRollback, PrepareRollback, ReconcileRollback, RestorePointer,
         CompleteRollback, ReplayRollback, Verify, VerifyRollback, Readback, Pass, Refuse, Places
<1>2. AdapterTypeOK
  BY DEF AdapterInv
<1>3. /\ call'[t].op = call[t].op /\ Dep(t)' = Dep(t) /\ call'[t].at = place
      /\ \A u \in Targets \ {t} : call'[u] = call[u]
  BY <1>1, <1>2, GotoFacts
<1>4. call[t].op \in Ops
  BY DEF Ops, OperationStep, DeployStep, RollbackStep, Install, Prepare, ReconcilePrepared, Point, CheckActive,
         SealActive, ReplayActive, RefuseRollback, PrepareRollback, ReconcileRollback, RestorePointer,
         CompleteRollback, ReplayRollback, Verify, VerifyRollback, Readback
<1>5. Dep(t) \in Deployments /\ Dep(t) = t
  BY <1>4, StageNames DEF AdapterInv, CallsSound, Ops
<1>6. \A u \in Targets \ {t} : current'[u] = current[u] /\ record'[u] = record[u] /\ rollback'[u] = rollback[u]
  BY <1>2, <1>5, StageNames
  DEF AdapterTypeOK, files, OperationStep, DeployStep, RollbackStep, Install, Prepare, ReconcilePrepared, Point,
      CheckActive, SealActive, ReplayActive, RefuseRollback, PrepareRollback, ReconcileRollback, RestorePointer,
      CompleteRollback, ReplayRollback, Verify, VerifyRollback, Readback
<1>7. ASSUME call[t].op \in {"verify", "readback"} PROVE Verify(t) \/ Readback(t)
  BY <1>7 DEF OperationStep, DeployStep, RollbackStep, Install, Prepare, ReconcilePrepared, Point, CheckActive,
         SealActive, ReplayActive, RefuseRollback, PrepareRollback, ReconcileRollback, RestorePointer,
         CompleteRollback, ReplayRollback, VerifyRollback
<1>8. ASSUME Verify(t) \/ Readback(t) PROVE UNCHANGED files /\ (call'[t].at = "PASS" => current[t].ref = Dep(t))
  <2>1. UNCHANGED files /\ (ActiveIs(t, Dep(t)) \/ Refuse(t))
    BY <1>8 DEF Verify, Readback
  <2>2. CASE Refuse(t)
    BY <1>2, <2>1, <2>2, GotoFacts DEF Refuse, Places
  <2>. QED BY <2>1, <2>2 DEF ActiveIs
<1>. QED BY <1>3, <1>4, <1>5, <1>6, <1>7, <1>8

\* What the gate sees of a step of the adapter on target t: files of that target
\* change, and its operation goes on or is over.
Moves(t) ==
    /\ call[t] # NoCall
    /\ call'[t] = NoCall \/ (call'[t].op = call[t].op /\ Dep(t)' = Dep(t))
    /\ call[t].op \in {"none", "verify", "readback"} => UNCHANGED current
    /\ \A u \in Targets \ {t} :
          /\ call'[u] = call[u] /\ current'[u] = current[u]
          /\ record'[u] = record[u] /\ rollback'[u] = rollback[u]

LEMMA StepMoves ==
    ASSUME AdapterInv, NEW t \in Targets, OperationStep(t) \/ Return(t) \/ Kill(t) PROVE Moves(t)
<1>1. CASE OperationStep(t)
  <2>1. call[t] # NoCall
    BY <1>1, OperationFrame DEF NoCall, Ops
  <2>. QED BY <1>1, <2>1, OperationFrame DEF Moves, files, Ops
<1>2. CASE Return(t) \/ Kill(t)
  <2>1. call[t] # NoCall
    BY <1>2 DEF Return, Kill, NoCall
  <2>. QED BY <1>2, <2>1 DEF Return, Kill, Moves, files, AdapterInv, AdapterTypeOK
<1>. QED BY <1>1, <1>2

LEMMA LookKept ==
    ASSUME AdapterInv, LookSound, [Next]_adapterVars PROVE LookSound'
<1>1. ASSUME NEW t \in Targets, Moves(t), OperationStep(t) \/ Return(t) \/ Kill(t) PROVE LookSound'
  <2>. SUFFICES ASSUME NEW u \in Targets, call'[u].op \in {"verify", "readback"}, call'[u].at = "PASS"
                PROVE  current'[u].ref = Dep(u)'
    BY DEF LookSound
  <2>1. CASE u # t
    BY <1>1, <2>1 DEF Moves, LookSound, Dep
  <2>2. CASE u = t
    <3>1. call'[t] # NoCall
      BY <2>2 DEF NoCall
    <3>2. OperationStep(t)
      BY <1>1, <3>1 DEF Return, Kill, AdapterInv, AdapterTypeOK
    <3>. QED BY <2>2, <3>2, OperationFrame DEF files
  <2>. QED BY <2>1, <2>2
<1>2. ASSUME NEW d \in Deployments, NEW op \in Ops, Begin(op, d) PROVE LookSound'
  <2>1. call' = [call EXCEPT ![TargetOf[d]] = [op |-> op, dep |-> d, at |-> "begun"]] /\ UNCHANGED current
    BY <1>2 DEF Begin, files
  <2>. QED BY <2>1, ReleaseAssumption DEF ReleaseAssumption, AdapterInv, AdapterTypeOK, LookSound, Dep
<1>3. ASSUME NEW d \in Deployments, Damage(d) PROVE LookSound'
  BY <1>3 DEF Damage, files, LookSound, Dep
<1>4. CASE UNCHANGED adapterVars
  BY <1>4 DEF adapterVars, files, LookSound, Dep
<1>. QED BY <1>1, <1>2, <1>3, <1>4, StepMoves DEF Next

\* A release that is restored stays so while nothing runs on its target.
LEMMA RestoredKept ==
    ASSUME NEW t \in Targets, Moves(t), NEW i \in 1..3, RestoredAt(i) PROVE RestoredAt(i)'
<1>1. Stages[i] # t /\ \A j \in 1..3 : i < j => Stages[j] # t
  BY DEF Moves, RestoredAt, Untouched
<1>. QED BY <1>1, StageNames DEF Moves, RestoredAt, Untouched, Restored

LEMMA LiveKept ==
    ASSUME NEW t \in Targets, Moves(t), LiveFull PROVE LiveFull'
<1>1. Full \in Targets
  BY StageNames
<1>2. CASE t = Full
  BY <1>1, <1>2 DEF Moves, LiveFull, NoCall
<1>3. CASE t # Full
  BY <1>1, <1>3 DEF Moves, LiveFull
<1>. QED BY <1>2, <1>3

\* What the files say does not mind what the adapters do.
LEMMA FilesKept ==
    ASSUME IInv, UNCHANGED <<event, evidence, credential>>, NEW t \in Targets, Moves(t) PROVE FilesInv'
<1>. USE DEF evidence
<1>1. \A i \in 1..4 : Passed(i)' <=> Passed(i)
  BY DEF Passed
<1>2. EventSound' /\ ReceiptsSound' /\ DeliverySound'
  BY <1>1 DEF IInv, FilesInv, EventSound, ReceiptsSound, DeliverySound
<1>3. UntouchedSound'
  BY <1>1, StageNames DEF IInv, FilesInv, UntouchedSound, Untouched, Moves
<1>4. ProductionSound'
  BY LiveKept DEF IInv, FilesInv, ProductionSound, Doomed
<1>5. RestoredSound'
  BY RestoredKept DEF IInv, FilesInv, RestoredSound
<1>. QED BY <1>2, <1>3, <1>4, <1>5 DEF FilesInv

\* Nor does what a run knows.
LEMMA RunKept ==
    ASSUME IInv, UNCHANGED gateVars, NEW t \in Targets, Moves(t) PROVE RunInv'
<1>. USE DEF gateVars, world, evidence
<1>1. \A i \in 1..4 : Passed(i)' <=> Passed(i)
  BY DEF Passed
<1>2. Doing' = Doing /\ Stage' = Stage
  BY DEF Doing, Stage
<1>3. AwaitSound'
  <2>. SUFFICES ASSUME gate.at = "await", call'[Stage] # NoCall
                PROVE  call'[Stage].op = Called[gate.op] /\ Dep(Stage)' = Stage
    BY <1>2 DEF IInv, RunInv, AwaitSound
  <2>1. Doing \in Working
    BY CalledNames DEF IInv, RunInv, AwaitSound, Doing, Working, StagePlaces, UndoPlaces, ReadbackPlaces
  <2>2. Stage \in Targets
    BY <2>1, StageNames DEF IInv, RunInv, PhaseSound, Stage
  <2>3. call[Stage] # NoCall /\ call'[Stage].op = call[Stage].op /\ Dep(Stage)' = Dep(Stage)
    BY <1>2, <2>2 DEF Moves, Dep
  <2>. QED BY <2>3 DEF IInv, RunInv, AwaitSound
<1>4. PhaseSound' /\ CopySound' /\ MailSound'
  BY <1>1, <1>2 DEF IInv, RunInv, PhaseSound, CopySound, MailSound
<1>5. StageSound'
  BY <1>2, RestoredKept DEF IInv, RunInv, StageSound, PhaseSound, Working, UndoPlaces
<1>6. ReadbackSound'
  BY <1>2, LiveKept DEF IInv, RunInv, ReadbackSound, Doomed
<1>. QED BY <1>3, <1>4, <1>5, <1>6 DEF RunInv

\* The types of the gate.
GateTypes ==
    /\ approval \in {"APPROVAL_VERIFIED", "APPROVAL_PAUSED", "APPROVAL_EXPIRED"}
    /\ credential \in {"none", "valid", "expired"}
    /\ event \in Events
    /\ receipts \subseteq Targets
    /\ readback \in {"none", "PASS", "BLOCKED"}
    /\ report \in {"none", "text", "sealed"}
    /\ delivery \subseteq {"attempt", "smtp", "receipt"}
    /\ mails \in Nat
    /\ gate \in GateRuns
    /\ deaths \in 0..MaxDeaths /\ changes \in 0..MaxChanges

LEMMA TypesKept == ASSUME AdapterInv', GateTypes' PROVE ReleaseTypeOK'
<1>1. gate'.stage \in 0..3 /\ gate'.copy \in Events
  BY DEF GateTypes, GateRuns
<1>. QED BY <1>1 DEF AdapterInv, GateTypes, ReleaseTypeOK, GateTypeOK

LEMMA TypesOf == IInv => GateTypes /\ AdapterInv
  BY DEF IInv, GateTypes, ReleaseTypeOK, GateTypeOK

LEMMA AdapterKeeps ==
    ASSUME IInv,
           \/ \E t \in Targets : AdapterStep(t) \/ OrphanEnds(t) \/ AdapterKilled(t)
           \/ \E t \in Targets : ReleaseDamaged(t)
    PROVE  IInv'
<1>1. UNCHANGED gateVars
  BY DEF AdapterStep, OrphanEnds, AdapterKilled, ReleaseDamaged
<1>2. Next
  BY StageNames DEF AdapterStep, OrphanEnds, AdapterKilled, ReleaseDamaged, Next
<1>3. AdapterInv' /\ LookSound'
  BY <1>2, AdapterNextKeeps, LookKept DEF IInv
<1>4. GateTypes'
  BY <1>1, TypesOf DEF GateTypes, gateVars, world, evidence
<1>5. FilesInv' /\ RunInv'
  <2>1. ASSUME NEW t \in Targets, AdapterStep(t) \/ OrphanEnds(t) \/ AdapterKilled(t) PROVE FilesInv' /\ RunInv'
    BY <1>1, <2>1, StepMoves, FilesKept, RunKept
    DEF IInv, AdapterStep, OrphanEnds, AdapterKilled, gateVars, world
  <2>2. ASSUME NEW t \in Targets, ReleaseDamaged(t) PROVE FilesInv' /\ RunInv'
    <3>1. UNCHANGED <<current, record, rollback, call>>
      BY <2>2 DEF ReleaseDamaged, Damage, files
    <3>. QED BY <1>1, <3>1 DEF IInv, FilesInv, RunInv, gateVars, world, evidence, EventSound,
                               ReceiptsSound, Passed,
           UntouchedSound, Untouched, ProductionSound, LiveFull, Doomed, RestoredSound, RestoredAt, Restored,
           DeliverySound, AwaitSound, PhaseSound, CopySound, StageSound, ReadbackSound, MailSound, Doing,
              Stage, Dep
  <2>. QED BY <2>1, <2>2
<1>. QED BY <1>3, <1>4, <1>5, TypesKept DEF IInv

(***************************************************************************)
(* The steps of the gate                                                    *)
(***************************************************************************)
\* A run that is idle knows nothing that could be wrong.
LEMMA IdleRun == ASSUME gate'.at = "idle" PROVE RunInv'
  BY DEF RunInv, AwaitSound, PhaseSound, CopySound, StageSound, ReadbackSound, MailSound, Doing,
         Working, StagePlaces, UndoPlaces, ReadbackPlaces, ReportPlaces

LEMMA DoneIsIdle == ASSUME event' \in Events, Done PROVE gate'.at = "idle" /\ gate' \in GateRuns
  BY DEF Done, Idle, GateRuns

\* What a run saves is the event with a new status; a rollback may have blocked it.
LEMMA SaveFacts ==
    ASSUME IInv, Doing \in Working, NEW status \in Statuses, Save(status)
    PROVE  /\ event' \in Events /\ event'.status = status /\ event'.origin = event.origin
           /\ event'.delivered = event.delivered
           /\ Doing \notin UndoPlaces => event'.auth = event.auth
<1>1. event \in Events
  BY TypesOf DEF GateTypes
<1>2. CASE gate.copy = event
  BY <1>1, <1>2 DEF Save, Events
<1>3. CASE Doing \in UndoPlaces /\ gate.copy = [event EXCEPT !.auth = "BLOCKED"]
  BY <1>1, <1>3 DEF Save, Events
<1>. QED BY <1>2, <1>3 DEF IInv, RunInv, CopySound

\* A step that leaves the files of the adapter alone, and so its invariants.
LEMMA AdapterStands == ASSUME IInv, UNCHANGED adapterVars PROVE AdapterInv' /\ LookSound'
  BY AdapterNextKeeps, LookKept DEF IInv

\* A step of the gate which changes neither the adapter nor a receipt, and ends the run.
LEMMA EndKeeps ==
    ASSUME IInv, UNCHANGED <<adapterVars, evidence>>, event' \in Events, Done,
           approval' \in {"APPROVAL_VERIFIED", "APPROVAL_PAUSED", "APPROVAL_EXPIRED"},
           credential' \in {"none", "valid", "expired"},
           deaths' \in 0..MaxDeaths, changes' \in 0..MaxChanges,
           EventSound', ReceiptsSound', ProductionSound', RestoredSound',
              event'.delivered => "receipt" \in delivery
    PROVE  IInv'
<1>. USE DEF evidence
<1>1. gate'.at = "idle" /\ gate' \in GateRuns
  BY DoneIsIdle
<1>2. AdapterInv' /\ LookSound' /\ RunInv'
  BY <1>1, AdapterStands, IdleRun
<1>3. GateTypes'
  BY <1>1, TypesOf DEF GateTypes
<1>4. UntouchedSound' /\ DeliverySound'
  BY DEF IInv, FilesInv, UntouchedSound, Untouched, Passed, DeliverySound, adapterVars, files
<1>. QED BY <1>2, <1>3, <1>4, TypesKept DEF IInv, FilesInv

\* What neither the receipts nor the adapter change.
LEMMA Standing ==
    ASSUME UNCHANGED <<adapterVars, evidence>>
    PROVE  /\ \A i \in 1..4 : Passed(i)' <=> Passed(i)
           /\ LiveFull' <=> LiveFull
           /\ \A i \in 1..3 : RestoredAt(i)' <=> RestoredAt(i)
  BY DEF evidence, adapterVars, files, Passed, LiveFull, RestoredAt, Untouched, Restored

\* The event is told that it can begin, or that it is over before anything was done.
LEMMA AuthorizationKeeps ==
    ASSUME IInv, AuthorizationStep PROVE IInv'
<1>. DEFINE Early == {"APPROVAL_COLLECTING", "APPROVAL_PAUSED", "PRE_RELEASE_REQUESTED",
                      "RELEASE_AUTHORIZATION_REQUIRED"}
<1>1. UNCHANGED <<adapterVars, evidence>> /\ Done /\ event.status \in Early
  BY DEF AuthorizationStep, RecordApproval, RequestAuthorization, IssueAuthorization, BlockAuthorization
<1>2. PICK status \in Statuses : /\ status \notin {"CAPABILITY_BLOCKED", "PRODUCTION_VERIFIED", "ROLLED_BACK"}
                                 /\ \A i \in 2..4 : status # Checkpoints[i]
                                 /\ event' = event \/ (/\ event'.status = status /\ event' \in Events
                                                       /\ status = Checkpoints[1] => event'.auth = "APPROVED"
                                                       /\ event'.origin = event.origin
                                                       /\ event'.delivered = event.delivered)
  <2>1. event \in Events /\ approval \in {"APPROVAL_VERIFIED", "APPROVAL_PAUSED", "APPROVAL_EXPIRED"}
    BY TypesOf DEF GateTypes
  <2>. DEFINE Later == {"PRE_RELEASE_REQUESTED", "APPROVAL_PAUSED", "APPROVAL_EXPIRED", "RELEASE_AUTHORIZED",
                        "RELEASE_AUTHORIZATION_REQUIRED", "RELEASE_BLOCKED"}
              Told(s, a) == /\ event' = event \/ event' = [event EXCEPT !.status = s, !.auth = a]
                            /\ a \in {"none", "PENDING", "APPROVED", "BLOCKED"} /\ s \in Later
                            /\ s = "RELEASE_AUTHORIZED" => a = "APPROVED"
  <2>2. PICK s, a : Told(s, a)
    <3>1. CASE RecordApproval
      <4>. DEFINE s == IF Approved THEN "PRE_RELEASE_REQUESTED" ELSE approval
      <4>1. event' = [event EXCEPT !.status = s, !.auth = event.auth]
        BY <2>1, <3>1 DEF RecordApproval, Events
      <4>2. s \in Later /\ s # "RELEASE_AUTHORIZED" /\ event.auth \in {"none", "PENDING", "APPROVED", "BLOCKED"}
        BY <2>1 DEF Events, Approved
      <4>3. Told(s, event.auth)
        BY <4>1, <4>2
      <4>. HIDE DEF s, Told
      <4>. QED BY <4>3
    <3>2. CASE RequestAuthorization
      <4>1. Told("RELEASE_AUTHORIZATION_REQUIRED", "PENDING")
        BY <3>2 DEF RequestAuthorization
      <4>. QED BY <4>1
    <3>3. CASE IssueAuthorization
      <4>1. Told("RELEASE_AUTHORIZED", "APPROVED")
        BY <3>3 DEF IssueAuthorization
      <4>. QED BY <4>1
    <3>4. CASE BlockAuthorization
      <4>1. Told("RELEASE_BLOCKED", "BLOCKED")
        BY <3>4 DEF BlockAuthorization
      <4>. QED BY <4>1
    <3>. QED BY <3>1, <3>2, <3>3, <3>4 DEF AuthorizationStep
  <2>3. s \in Statuses
    BY <2>2, CheckpointNames DEF Statuses, Checkpoints
  <2>4. Checkpoints[1] = "RELEASE_AUTHORIZED"
    BY DEF Checkpoints
  <2>5. \A i \in 2..4 : s # Checkpoints[i]
    BY <2>2, <2>4, CheckpointNames
  <2>. QED BY <2>1, <2>2, <2>3, <2>4, <2>5 DEF Events
<1>3. event' \in Events
  BY <1>2, TypesOf DEF GateTypes
<1>4. Full \notin receipts
  BY <1>1 DEF IInv, FilesInv, ReceiptsSound
<1>5. Passed(1)
  BY DEF Passed
<1>6. EventSound'
  BY <1>1, <1>2, <1>5, Standing, CheckpointNames DEF IInv, FilesInv, EventSound
<1>7. ReceiptsSound' /\ ProductionSound' /\ RestoredSound'
  BY <1>1, <1>2, <1>4, Standing DEF evidence, IInv, FilesInv, ReceiptsSound, ProductionSound, RestoredSound
<1>8. /\ approval' \in {"APPROVAL_VERIFIED", "APPROVAL_PAUSED", "APPROVAL_EXPIRED"}
      /\ credential' \in {"none", "valid", "expired"} /\ changes' \in 0..MaxChanges
  BY TypesOf DEF GateTypes, AuthorizationStep, RecordApproval, RequestAuthorization, IssueAuthorization,
                 BlockAuthorization, world
<1>9. deaths' \in 0..MaxDeaths
  BY TypesOf, GateAssumption DEF GateAssumption, GateTypes, AuthorizationStep, RecordApproval,
                                 RequestAuthorization, IssueAuthorization,
                 BlockAuthorization
<1>10. event'.delivered => "receipt" \in delivery
  BY <1>2 DEF IInv, FilesInv, DeliverySound
<1>. QED BY <1>1, <1>3, <1>6, <1>7, <1>8, <1>9, <1>10, EndKeeps

\* The run goes on, and has changed nothing but what it knows itself.
LEMMA GoOn ==
    ASSUME IInv, UNCHANGED <<adapterVars, evidence, event, world, deaths>>, gate' \in GateRuns, RunInv'
    PROVE  IInv'
<1>. USE DEF evidence, world
<1>1. AdapterInv' /\ LookSound'
  BY AdapterStands
<1>2. GateTypes'
  BY TypesOf DEF GateTypes
<1>3. FilesInv'
  BY Standing DEF IInv, FilesInv, EventSound, ReceiptsSound, UntouchedSound, Untouched, ProductionSound, Doomed,
                  RestoredSound, DeliverySound, adapterVars, files
<1>. QED BY <1>1, <1>2, <1>3, TypesKept DEF IInv

\* The places that a run can be at, told apart.
LEMMA PlacesApart ==
    /\ \A p \in StagePlaces : p \in Working /\ p \notin UndoPlaces /\ p \notin ReadbackPlaces /\
       p \notin ReportPlaces
    /\ \A p \in UndoPlaces : p \in Working /\ p \notin StagePlaces /\ p \notin ReadbackPlaces /\
       p \notin ReportPlaces
    /\ \A p \in ReadbackPlaces : p \in Working /\ p \notin StagePlaces /\ p \notin UndoPlaces /\
       p \notin ReportPlaces
    /\ \A p \in ReportPlaces : p \notin Working
    /\ \A p \in Working \cup ReportPlaces : p # "await" /\ p # "idle"
  BY DEF Working, StagePlaces, UndoPlaces, ReadbackPlaces, ReportPlaces

LEMMA Proceeds ==
    ASSUME IInv, NEW p \in Working \cup ReportPlaces, Proceed(p)
    PROVE  /\ gate' \in GateRuns /\ gate'.at = p /\ gate'.stage = gate.stage /\ gate'.copy = gate.copy
           /\ Doing' = p /\ Stage' = Stage
<1>1. gate \in GateRuns
  BY TypesOf DEF GateTypes
<1>2. gate' \in GateRuns /\ gate'.at = p /\ gate'.stage = gate.stage /\ gate'.copy = gate.copy
  BY <1>1 DEF Proceed, GateRuns
<1>. QED BY <1>2, PlacesApart DEF Doing, Stage

\* The run looks at the event and at the world.
LEMMA StageGoesOn ==
    ASSUME IInv, LoadStage \/ CheckStage \/ CapabilityReady \/ Recheck PROVE IInv'
<1>1. UNCHANGED <<adapterVars, evidence, event, world, deaths>>
  BY DEF LoadStage, CheckStage, CapabilityReady, Recheck
<1>2. event \in Events /\ gate \in GateRuns
  BY TypesOf DEF GateTypes
<1>3. PICK p \in {"check", "capability", "recheck", "deploy"} :
          /\ gate' \in GateRuns /\ gate'.at = p /\ gate'.copy = event
          /\ gate'.stage \in 1..3 /\ event.status = Checkpoints[gate'.stage]
          /\ p # "check" => Stages[gate'.stage] \notin receipts
  <2>1. CASE LoadStage
    <3>1. PICK i \in 1..3 : /\ event.status = Checkpoints[i]
                            /\ gate' = [at |-> "check", stage |-> i, copy |-> event, op |-> "none"]
      BY <2>1 DEF LoadStage
    <3>. QED BY <1>2, <3>1 DEF GateRuns, Working, StagePlaces
  <2>2. ASSUME CheckStage \/ CapabilityReady \/ Recheck
        PROVE  /\ Doing \in StagePlaces /\ gate.stage \in 1..3 /\ event.status = Checkpoints[gate.stage]
               /\ gate.copy = event
               /\ ~ CheckStage => Stage \notin receipts
    <3>1. Doing = gate.at /\ gate.at \in {"check", "capability", "recheck"}
          /\ (~ CheckStage => gate.at \in {"capability", "recheck"})
      BY <2>2 DEF CheckStage, CapabilityReady, Recheck, Doing
    <3>2. Doing \in StagePlaces
      BY <3>1 DEF StagePlaces
    <3>. QED BY <3>1, <3>2, PlacesApart DEF IInv, RunInv, PhaseSound, CopySound, StageSound
  <2>3. CASE CheckStage
    <3>1. Proceed("capability") /\ "capability" \in Working /\ Stage \notin receipts
      BY <2>3 DEF CheckStage, Working, StagePlaces
    <3>. QED BY <2>2, <2>3, <3>1, Proceeds DEF Stage
  <2>4. CASE CapabilityReady
    <3>1. gate' = [gate EXCEPT !.at = "recheck", !.copy = event] /\ ~ CheckStage
      BY <2>4 DEF CapabilityReady, CheckStage
    <3>2. gate' \in GateRuns /\ gate'.at = "recheck" /\ gate'.copy = event /\ gate'.stage = gate.stage
      BY <1>2, <3>1 DEF GateRuns, Working, StagePlaces
    <3>. QED BY <2>2, <2>4, <3>1, <3>2 DEF Stage
  <2>5. CASE Recheck
    <3>1. Proceed("deploy") /\ "deploy" \in Working /\ ~ CheckStage
      BY <2>5 DEF Recheck, CheckStage, Working, StagePlaces
    <3>. QED BY <2>2, <2>5, <3>1, Proceeds DEF Stage
  <2>. QED BY <2>1, <2>3, <2>4, <2>5
<1>4. p \in StagePlaces /\ p # "commit" /\ Doing' = p
  BY <1>3 DEF StagePlaces, Doing
<1>5. Passed(gate'.stage)
  <2>1. \A i \in 1..4 : event.status = Checkpoints[i] => Passed(i)
    BY DEF IInv, FilesInv, EventSound
  <2>. QED BY <1>3, <2>1
<1>6. RunInv'
  <2>1. PhaseSound' /\ CopySound'
    BY <1>1, <1>3, <1>4, <1>5, PlacesApart DEF PhaseSound, CopySound, Passed, evidence
  <2>2. StageSound'
    BY <1>1, <1>3, <1>4, PlacesApart DEF StageSound, Stage, UndoPlaces, evidence
  <2>3. AwaitSound' /\ ReadbackSound' /\ MailSound'
    BY <1>3, <1>4, PlacesApart DEF AwaitSound, ReadbackSound, MailSound
  <2>. QED BY <2>1, <2>2, <2>3 DEF RunInv
<1>. QED BY <1>1, <1>3, <1>6, GoOn

(***************************************************************************)
(* The steps that end a run                                                 *)
(***************************************************************************)
LEMMA EventStands ==
    ASSUME IInv, UNCHANGED <<adapterVars, evidence, event, credential>>
    PROVE  EventSound' /\ ReceiptsSound' /\ ProductionSound' /\ RestoredSound'
  BY Standing DEF evidence, IInv, FilesInv, EventSound, ReceiptsSound, ProductionSound, Doomed, RestoredSound

\* A run that ends without a word, or dies.
LEMMA LeavesEvent ==
    ASSUME IInv, CredentialRefused \/ GateDies \/ (RecoverReadback /\ UNCHANGED event) PROVE IInv'
<1>1. UNCHANGED <<adapterVars, evidence, event, world>> /\ Done
  BY DEF CredentialRefused, GateDies, RecoverReadback, Done, Idle
<1>2. UNCHANGED <<approval, credential, changes>>
  BY <1>1 DEF world
<1>3. GateTypes
  BY TypesOf
<1>4. deaths' \in 0..MaxDeaths
  BY <1>3, GateAssumption DEF GateAssumption, GateTypes, CredentialRefused, GateDies, RecoverReadback
<1>5. event'.delivered => "receipt" \in delivery
  BY <1>1 DEF IInv, FilesInv, DeliverySound
<1>6. EventSound' /\ ReceiptsSound' /\ ProductionSound' /\ RestoredSound'
  BY <1>1, <1>2, EventStands
<1>. QED BY <1>1, <1>2, <1>3, <1>4, <1>5, <1>6, EndKeeps DEF GateTypes

\* A run that ends with a new status of the event.
LEMMA EndsWith ==
    ASSUME IInv, UNCHANGED <<adapterVars, evidence, approval, credential, deaths>>, changes' \in 0..MaxChanges,
           event' \in Events, event'.delivered = event.delivered, Done,
           EventSound', ReceiptsSound', ProductionSound', RestoredSound'
    PROVE  IInv'
<1>1. event'.delivered => "receipt" \in delivery
  BY DEF IInv, FilesInv, DeliverySound
<1>. QED BY <1>1, TypesOf, EndKeeps DEF GateTypes

\* The approval was withdrawn.
LEMMA RevokeKeeps == ASSUME IInv, StageRevoked PROVE IInv'
<1>1. UNCHANGED <<adapterVars, evidence, approval, credential, deaths, changes>> /\ Done
  BY DEF StageRevoked, world
<1>2. Doing \in StagePlaces
  BY DEF StageRevoked, Doing, StagePlaces
<1>3. gate.copy = event
  BY <1>2, PlacesApart DEF IInv, RunInv, CopySound
<1>4. event \in Events /\ changes \in 0..MaxChanges
  BY TypesOf DEF GateTypes
<1>5. /\ event' \in Events /\ event'.delivered = event.delivered /\ event'.origin = event.origin
      /\ event'.status = "RELEASE_BLOCKED"
  BY <1>3, <1>4 DEF StageRevoked, Revoke, Events, Statuses
<1>6. EventSound' /\ ReceiptsSound' /\ ProductionSound' /\ RestoredSound'
  BY <1>1, <1>5, Standing, CheckpointNames
  DEF evidence, IInv, FilesInv, EventSound, ReceiptsSound, ProductionSound, Doomed, RestoredSound
<1>. QED BY <1>1, <1>4, <1>5, <1>6, EndsWith

\* What an event may say while a run works on stage i.
LEMMA StageOf ==
    ASSUME IInv, Doing \in StagePlaces
    PROVE  /\ gate.stage \in 1..3 /\ Passed(gate.stage) /\ gate.copy = event
           /\ event.status = Checkpoints[gate.stage] /\ event.auth = "APPROVED"
           /\ Full \in receipts => gate.stage = 3
<1>1. /\ gate.stage \in 1..3 /\ Passed(gate.stage) /\ gate.copy = event
      /\ event.status = Checkpoints[gate.stage]
  BY PlacesApart DEF IInv, RunInv, PhaseSound, CopySound
<1>2. event.auth = "APPROVED"
  BY <1>1 DEF IInv, FilesInv, EventSound
<1>3. Full \in receipts => gate.stage = 3
  BY <1>1, CheckpointNames DEF IInv, FilesInv, ReceiptsSound
<1>. QED BY <1>1, <1>2, <1>3

\* The stage has its receipt: the event goes on to the next checkpoint.
LEMMA CheckpointKeeps == ASSUME IInv, RecoverStage \/ CommitStage PROVE IInv'
<1>. DEFINE next == gate.stage + 1
<1>1. UNCHANGED <<adapterVars, evidence, approval, credential, deaths, changes>> /\ Done
      /\ Save(Checkpoints[next])
  BY DEF RecoverStage, CommitStage, world
<1>2. Doing \in StagePlaces /\ Stage \in receipts
  BY DEF RecoverStage, CommitStage, IInv, RunInv, StageSound, Doing, StagePlaces
<1>3. gate.stage \in 1..3 /\ next \in 1..4 /\ Passed(gate.stage)
  BY <1>2, StageOf
<1>4. Passed(next)
  <2>1. \A j \in 1..3 : j < next => j < gate.stage \/ j = gate.stage
    BY <1>3
  <2>. QED BY <1>2, <1>3, <2>1 DEF Passed, Stage
<1>5. Checkpoints[next] \in Statuses
  BY <1>3, CheckpointNames
<1>. HIDE DEF next
<1>6. /\ event' \in Events /\ event'.status = Checkpoints[next] /\ event'.origin = event.origin
      /\ event'.delivered = event.delivered /\ event'.auth = "APPROVED"
  BY <1>1, <1>2, <1>5, SaveFacts, StageOf, PlacesApart
<1>7. Full \in receipts => event'.status = "PRODUCTION_DEPLOYED"
  BY <1>2, <1>6, StageOf, CheckpointNames DEF next
<1>8. EventSound'
  <2>1. \A i \in 1..4 : event'.status = Checkpoints[i] => i = next
    BY <1>3, <1>6, CheckpointNames
  <2>2. event'.status # "CAPABILITY_BLOCKED"
    BY <1>3, <1>6, CheckpointNames
  <2>. QED BY <1>1, <1>4, <1>6, <2>1, <2>2, Standing DEF IInv, FilesInv, EventSound
<1>9. ReceiptsSound'
  BY <1>1, <1>7, Standing DEF evidence, IInv, FilesInv, ReceiptsSound
<1>10. event'.status # "PRODUCTION_VERIFIED" /\ event'.status # "ROLLED_BACK"
  BY <1>3, <1>6, CheckpointNames
<1>11. ProductionSound' /\ RestoredSound'
  <2>1. event.status \notin {"RELEASE_BLOCKED", "ROLLED_BACK", "ROLLBACK_FAILED"}
    BY <1>2, <1>3, StageOf, CheckpointNames
  <2>. QED BY <1>1, <1>10, <2>1, Standing DEF evidence, IInv, FilesInv, ProductionSound, Doomed, RestoredSound
<1>12. changes \in 0..MaxChanges
  BY TypesOf DEF GateTypes
<1>. QED BY <1>1, <1>6, <1>8, <1>9, <1>11, <1>12, EndsWith

\* An adapter is missing, and there again.
LEMMA CapabilityKeeps == ASSUME IInv, CapabilityMissing \/ CapabilityRestored PROVE IInv'
<1>1. UNCHANGED <<adapterVars, evidence, approval, credential, deaths>> /\ Done
  BY DEF CapabilityMissing, CapabilityRestored, world
<1>2. event \in Events /\ changes \in 0..MaxChanges
  BY TypesOf DEF GateTypes
<1>3. changes' \in 0..MaxChanges
  BY <1>2, GateAssumption DEF CapabilityMissing, CapabilityRestored, world, GateAssumption
<1>4. /\ \A i \in 1..3 : Checkpoints[i] \in Statuses /\ Checkpoints[i] # "none"
                          /\ Checkpoints[i] \notin {"CAPABILITY_BLOCKED", "PRODUCTION_VERIFIED", "ROLLED_BACK"}
      /\ \A i, j \in 1..4 : Checkpoints[i] = Checkpoints[j] => i = j
      /\ \A i \in 1..4 : Checkpoints[i] # "CAPABILITY_BLOCKED"
  BY CheckpointNames
<1>5. CASE CapabilityMissing
  <2>1. Doing \in StagePlaces /\ Stage \notin receipts
    BY <1>5 DEF CapabilityMissing, IInv, RunInv, StageSound, Doing, StagePlaces
  <2>2. gate.stage \in 1..3 /\ event.status = Checkpoints[gate.stage] /\ event.auth = "APPROVED" /\
           Passed(gate.stage)
    BY <2>1, StageOf
  <2>3. Full \notin receipts
    BY <2>1, StageOf DEF Stage, Full
  <2>4. \/ event.origin # "none" /\ OriginOf(event) = event.origin
        \/ event.origin = "none" /\ OriginOf(event) = Checkpoints[gate.stage]
    BY <2>2 DEF OriginOf
  <2>5. OriginOf(event) \in {Checkpoints[i] : i \in 1..3}
    BY <1>2, <2>2, <2>4 DEF Events
  <2>6. /\ event' \in Events /\ event'.status = "CAPABILITY_BLOCKED" /\ event'.origin = OriginOf(event)
        /\ event'.delivered = event.delivered /\ event'.auth = "APPROVED"
    BY <1>2, <1>5, <2>2, <2>5 DEF CapabilityMissing, Events, Statuses
  <2>7. \A i \in 1..4 : event'.origin = Checkpoints[i] => Passed(i)
    <3>1. \A i \in 1..4 : event.origin = Checkpoints[i] => Passed(i)
      BY DEF IInv, FilesInv, EventSound
    <3>. QED BY <1>4, <2>2, <2>4, <2>6, <3>1
  <2>8. EventSound'
    BY <1>1, <1>4, <2>5, <2>6, <2>7, Standing DEF EventSound
  <2>9. ReceiptsSound' /\ ProductionSound' /\ RestoredSound'
    BY <1>1, <2>3, <2>6, Standing DEF evidence, IInv, FilesInv, ReceiptsSound, ProductionSound, RestoredSound
  <2>. QED BY <1>1, <1>3, <2>6, <2>8, <2>9, EndsWith
<1>6. CASE CapabilityRestored
  <2>1. event.status = "CAPABILITY_BLOCKED"
    BY <1>6 DEF CapabilityRestored
  <2>2. event.auth = "APPROVED" /\ event.origin # "none" /\ Full \notin receipts
    BY <2>1 DEF IInv, FilesInv, EventSound, ReceiptsSound
  <2>3. event.origin \in {Checkpoints[i] : i \in 1..3}
    BY <1>2, <2>2 DEF Events
  <2>4. /\ event' \in Events /\ event'.status = event.origin /\ event'.origin = event.origin
        /\ event'.delivered = event.delivered /\ event'.auth = "APPROVED"
    BY <1>2, <1>4, <1>6, <2>2, <2>3 DEF CapabilityRestored, Events
  <2>5. EventSound'
    BY <1>1, <1>4, <2>2, <2>3, <2>4, Standing DEF IInv, FilesInv, EventSound
  <2>6. ReceiptsSound' /\ ProductionSound' /\ RestoredSound'
    BY <1>1, <1>4, <2>2, <2>3, <2>4, Standing
    DEF evidence, IInv, FilesInv, ReceiptsSound, ProductionSound, RestoredSound
  <2>. QED BY <1>1, <1>3, <2>4, <2>5, <2>6, EndsWith
<1>. QED BY <1>5, <1>6

\* The stage was taken back, or could not be.
LEMMA RollbackEnds == ASSUME IInv, CommitRollback PROVE IInv'
<1>. DEFINE s == IF gate.at = "rolled_back" THEN "ROLLED_BACK" ELSE "ROLLBACK_FAILED"
<1>1. UNCHANGED <<adapterVars, evidence, approval, credential, deaths, changes>> /\ Done /\ Save(s)
  BY DEF CommitRollback, world
<1>2. Doing = gate.at /\ Doing \in UndoPlaces
  BY DEF CommitRollback, Doing, UndoPlaces
<1>3. s \in Statuses
  BY DEF Statuses
<1>4. event' \in Events /\ event'.status = s /\ event'.origin = event.origin /\
         event'.delivered = event.delivered
  BY <1>1, <1>2, <1>3, SaveFacts, PlacesApart
<1>5. s = "ROLLED_BACK" => \E i \in 1..3 : RestoredAt(i)
  BY <1>2, PlacesApart DEF IInv, RunInv, StageSound, PhaseSound
<1>6. s \in {"ROLLED_BACK", "ROLLBACK_FAILED"}
  OBVIOUS
<1>. HIDE DEF s
<1>7. EventSound' /\ ReceiptsSound' /\ ProductionSound' /\ RestoredSound'
  BY <1>1, <1>4, <1>5, <1>6, Standing, CheckpointNames
  DEF evidence, IInv, FilesInv, EventSound, ReceiptsSound, ProductionSound, Doomed, RestoredSound
<1>8. changes \in 0..MaxChanges
  BY TypesOf DEF GateTypes
<1>. QED BY <1>1, <1>4, <1>7, <1>8, EndsWith

\* A run that reads production back finds all the receipts.
LEMMA ReadbackOf ==
    ASSUME IInv, Doing \in ReadbackPlaces
    PROVE  /\ gate.stage = 3 /\ Stage = Full /\ gate.copy = event /\ event.status = "PRODUCTION_DEPLOYED"
           /\ event.auth = "APPROVED" /\ receipts = Targets /\ (LiveFull \/ Doomed)
<1>1. gate.stage = 3 /\ gate.copy = event /\ event.status = Checkpoints[4] /\ Stage = Full
  BY PlacesApart, CheckpointNames DEF IInv, RunInv, PhaseSound, CopySound, Stage, Full
<1>2. Passed(4) /\ event.auth = "APPROVED"
  BY <1>1 DEF IInv, FilesInv, EventSound
<1>3. receipts = Targets
  BY <1>2, StageNames, TypesOf DEF Passed, GateTypes
<1>4. LiveFull \/ Doomed
  BY <1>3, StageNames DEF IInv, FilesInv, ProductionSound
<1>. QED BY <1>1, <1>2, <1>3, <1>4, CheckpointNames

\* Production is what it should be.
LEMMA ReadbackEnds == ASSUME IInv, CommitReadback \/ RecoverReadback PROVE IInv'
<1>1. CASE RecoverReadback /\ UNCHANGED event
  BY <1>1, LeavesEvent
<1>2. CASE CommitReadback \/ (RecoverReadback /\ readback = "PASS")
  <2>1. UNCHANGED <<adapterVars, evidence, approval, credential, deaths, changes>> /\ Done
        /\ Save("PRODUCTION_VERIFIED")
    BY <1>2 DEF CommitReadback, RecoverReadback, world
  <2>2. Doing \in ReadbackPlaces
    BY <1>2 DEF CommitReadback, RecoverReadback, Prechecked, Doing, ReadbackPlaces
  <2>3. event' \in Events /\ event'.status = "PRODUCTION_VERIFIED" /\ event'.origin = event.origin
        /\ event'.delivered = event.delivered
    BY <2>1, <2>2, SaveFacts, PlacesApart DEF Statuses
  <2>4. LiveFull /\ readback = "PASS" /\ receipts = Targets
    <3>1. CASE CommitReadback
      <4>1. Doing = "commit_readback"
        BY <3>1 DEF CommitReadback, Doing
      <4>2. LiveFull /\ readback = "PASS"
        BY <4>1 DEF IInv, RunInv, ReadbackSound
      <4>3. receipts = Targets
        BY <2>2, ReadbackOf
      <4>. QED BY <4>2, <4>3
    <3>2. CASE RecoverReadback /\ readback = "PASS"
      BY <3>2, <2>2, ReadbackOf DEF RecoverReadback, Prechecked, Active, Doomed
    <3>. QED BY <1>2, <3>1, <3>2
  <2>5. EventSound' /\ ReceiptsSound' /\ ProductionSound' /\ RestoredSound'
    BY <2>1, <2>3, <2>4, Standing, CheckpointNames
    DEF evidence, IInv, FilesInv, EventSound, ReceiptsSound, ProductionSound, RestoredSound
  <2>6. changes \in 0..MaxChanges
    BY TypesOf DEF GateTypes
  <2>. QED BY <2>1, <2>3, <2>5, <2>6, EndsWith
<1>. QED BY <1>1, <1>2 DEF RecoverReadback

\* The event is told that it was reported, and that the report was delivered.
LEMMA ReportEnds == ASSUME IInv, CommitReport \/ CommitDelivery PROVE IInv'
<1>1. UNCHANGED <<adapterVars, evidence, approval, credential, deaths, changes>> /\ Done
  BY DEF CommitReport, CommitDelivery, world
<1>2. GateTypes
  BY TypesOf
<1>3. /\ event' \in Events /\ event'.status = event.status /\ event'.origin = event.origin
      /\ event'.auth = event.auth /\ (event'.delivered => event.delivered \/ CommitDelivery)
  BY <1>2 DEF GateTypes, Events, CommitReport, CommitDelivery
<1>4. CommitDelivery => "receipt" \in delivery
  <2>1. gate.at = "commit_delivery" => Doing = "commit_delivery"
    BY DEF Doing
  <2>. QED BY <2>1 DEF CommitDelivery, IInv, RunInv, MailSound
<1>5. event'.delivered => "receipt" \in delivery
  BY <1>3, <1>4 DEF IInv, FilesInv, DeliverySound
<1>6. EventSound' /\ ReceiptsSound' /\ ProductionSound' /\ RestoredSound'
  BY <1>1, <1>3, Standing
  DEF evidence, IInv, FilesInv, EventSound, ReceiptsSound, ProductionSound, Doomed, RestoredSound
<1>. QED BY <1>1, <1>2, <1>3, <1>5, <1>6, EndKeeps DEF GateTypes

(***************************************************************************)
(* The readback goes on                                                     *)
(***************************************************************************)
LEMMA ReadbackGoesOn ==
    ASSUME IInv, LoadReadback \/ PrecheckFailed \/ StartReadback PROVE IInv'
<1>1. UNCHANGED <<adapterVars, evidence, event, world, deaths>>
  BY DEF LoadReadback, PrecheckFailed, StartReadback
<1>2. event \in Events /\ gate \in GateRuns
  BY TypesOf DEF GateTypes
<1>3. PrecheckFailed \/ StartReadback => Doing \in ReadbackPlaces
  BY DEF PrecheckFailed, StartReadback, Prechecked, Doing, ReadbackPlaces
<1>4. /\ event.status = "PRODUCTION_DEPLOYED"
      /\ gate' \in GateRuns /\ gate'.stage = 3 /\ gate'.at \in {"precheck", "rollback", "readback"}
      /\ IF gate'.at = "rollback" THEN gate'.copy = [event EXCEPT !.auth = "BLOCKED"] /\ Doomed
                                  ELSE gate'.copy = event
      /\ gate'.at = "readback" => LiveFull
  <2>1. CASE LoadReadback
    <3>1. gate' = [at |-> "precheck", stage |-> 3, copy |-> event, op |-> "none"]
      BY <2>1 DEF LoadReadback
    <3>. QED BY <1>2, <2>1, <3>1 DEF LoadReadback, GateRuns, Working, ReadbackPlaces
  <2>2. CASE PrecheckFailed
    <3>1. gate' = [gate EXCEPT !.at = "rollback", !.copy.auth = "BLOCKED"] /\ ~ Active(gate.copy)
      BY <2>2 DEF PrecheckFailed
    <3>2. gate.copy = event /\ gate.stage = 3 /\ event.auth = "APPROVED" /\ event.status = "PRODUCTION_DEPLOYED"
      BY <1>3, <2>2, ReadbackOf
    <3>3. [event EXCEPT !.auth = "BLOCKED"] \in Events
      BY <1>2 DEF Events
    <3>4. gate' = [gate EXCEPT !.at = "rollback", !.copy = [event EXCEPT !.auth = "BLOCKED"]]
      BY <1>2, <3>1, <3>2 DEF GateRuns
    <3>. QED BY <1>2, <3>1, <3>2, <3>3, <3>4 DEF GateRuns, Working, UndoPlaces, Active, Doomed
  <2>3. CASE StartReadback
    <3>1. Proceed("readback") /\ "readback" \in Working /\ Prechecked /\ readback = "none"
      BY <2>3 DEF StartReadback, Working, ReadbackPlaces
    <3>2. gate.copy = event /\ gate.stage = 3 /\ event.status = "PRODUCTION_DEPLOYED" /\ (LiveFull \/ Doomed)
      BY <1>3, <2>3, ReadbackOf
    <3>3. LiveFull
      BY <3>1, <3>2 DEF Prechecked, Active, Doomed
    <3>. QED BY <3>1, <3>2, <3>3, Proceeds
  <2>. QED BY <2>1, <2>2, <2>3
<1>5. Doing' = gate'.at /\ Stage' = Full
  BY <1>4 DEF Doing, Stage, Full
<1>6. Passed(3)'
  <2>1. Passed(4)
    BY <1>4, CheckpointNames DEF IInv, FilesInv, EventSound
  <2>. QED BY <1>1, <2>1 DEF Passed, evidence
<1>7. AwaitSound' /\ MailSound'
  BY <1>4, <1>5 DEF AwaitSound, MailSound
<1>8. PhaseSound'
  BY <1>1, <1>4, <1>5, <1>6 DEF PhaseSound, Working, StagePlaces, UndoPlaces, ReadbackPlaces, ReportPlaces
<1>9. CopySound'
  BY <1>1, <1>4, <1>5 DEF CopySound, UndoPlaces
<1>10. StageSound'
  BY <1>1, <1>4, <1>5, CheckpointNames DEF StageSound, UndoPlaces
<1>11. ReadbackSound'
  <2>1. (LiveFull' <=> LiveFull) /\ (Doomed' <=> Doomed)
    BY <1>1, Standing DEF Doomed, evidence, world
  <2>. QED BY <1>1, <1>4, <1>5, <2>1 DEF ReadbackSound, UndoPlaces
<1>. QED BY <1>1, <1>4, <1>7, <1>8, <1>9, <1>10, <1>11, GoOn DEF RunInv

\* The approval was withdrawn from a release in production: it is taken back.
LEMMA PrecheckRevokes == ASSUME IInv, PrecheckRevoked PROVE IInv'
<1>1. UNCHANGED <<adapterVars, evidence, world, deaths>>
  BY DEF PrecheckRevoked
<1>2. event \in Events /\ gate \in GateRuns
  BY TypesOf DEF GateTypes
<1>3. gate.at = "precheck" /\ Doing = "precheck"
  BY DEF PrecheckRevoked, Doing
<1>4. /\ gate.copy = event /\ gate.stage = 3 /\ receipts = Targets
  BY <1>3, ReadbackOf DEF ReadbackPlaces
<1>5. /\ event' \in Events /\ event'.delivered = event.delivered /\ event'.origin = event.origin
      /\ event'.status = "RELEASE_BLOCKED"
  BY <1>2, <1>4 DEF PrecheckRevoked, Revoke, Events, Statuses
<1>6. gate' \in GateRuns /\ gate'.at = "rollback" /\ gate'.stage = 3 /\ gate'.copy = event'
  BY <1>2, <1>4, <1>5 DEF PrecheckRevoked, GateRuns, Working, UndoPlaces
<1>7. Doing' = "rollback"
  BY <1>6 DEF Doing
<1>8. AdapterInv' /\ LookSound'
  BY <1>1, AdapterStands
<1>9. GateTypes'
  BY <1>1, <1>5, <1>6, TypesOf DEF GateTypes, world, evidence
<1>10. FilesInv'
  <2>1. EventSound' /\ ReceiptsSound' /\ ProductionSound' /\ RestoredSound' /\ DeliverySound'
    BY <1>1, <1>5, Standing, CheckpointNames
    DEF evidence, IInv, FilesInv, EventSound, ReceiptsSound, ProductionSound, Doomed, RestoredSound,
        DeliverySound
  <2>2. UntouchedSound'
    BY <1>1, Standing DEF IInv, FilesInv, UntouchedSound, Untouched, adapterVars, files
  <2>. QED BY <2>1, <2>2 DEF FilesInv
<1>11. RunInv'
  <2>1. Passed(3)'
    BY <1>1, <1>4, StageNames DEF Passed, evidence
  <2>2. AwaitSound' /\ MailSound' /\ CopySound'
    BY <1>6, <1>7 DEF AwaitSound, MailSound, CopySound
  <2>3. PhaseSound'
    BY <1>5, <1>6, <1>7, <2>1 DEF PhaseSound, Working, StagePlaces, UndoPlaces, ReadbackPlaces, ReportPlaces
  <2>4. StageSound'
    BY <1>5, <1>6, <1>7, CheckpointNames DEF StageSound, UndoPlaces
  <2>5. ReadbackSound'
    BY <1>5, <1>7 DEF ReadbackSound, Doomed
  <2>. QED BY <2>1, <2>2, <2>3, <2>4, <2>5 DEF RunInv
<1>. QED BY <1>8, <1>9, <1>10, <1>11, TypesKept DEF IInv

(***************************************************************************)
(* The report goes on                                                       *)
(***************************************************************************)
LEMMA ReportGoesOn ==
    ASSUME IInv, UNCHANGED <<adapterVars, event, receipts, readback, world, deaths>>,
           event.status = "PRODUCTION_VERIFIED",
           report' \in {"none", "text", "sealed"}, delivery' \subseteq {"attempt", "smtp", "receipt"},
           DeliverySound', gate' \in GateRuns, gate'.at \in ReportPlaces \cup {"idle"}, MailSound'
    PROVE  IInv'
<1>1. AdapterInv' /\ LookSound'
  BY AdapterStands
<1>2. GateTypes'
  <2>1. mails' \in Nat
    BY DEF DeliverySound
  <2>. QED BY <2>1, TypesOf DEF GateTypes, world
<1>3. FilesInv'
  BY DEF IInv, FilesInv, EventSound, ReceiptsSound, Passed, UntouchedSound, Untouched, ProductionSound,
         LiveFull,
         Doomed, RestoredSound, RestoredAt, Restored, adapterVars, files, world
<1>4. Doing' = gate'.at /\ Doing' \notin Working /\ gate'.at # "await"
  BY PlacesApart DEF Doing, Working, StagePlaces, UndoPlaces, ReadbackPlaces
<1>5. RunInv'
  <2>1. AwaitSound' /\ CopySound' /\ ReadbackSound' /\ StageSound'
    BY <1>4 DEF AwaitSound, CopySound, ReadbackSound, StageSound, Working, StagePlaces, UndoPlaces,
                ReadbackPlaces
  <2>2. PhaseSound'
    BY <1>4 DEF PhaseSound, Working
  <2>. QED BY <2>1, <2>2 DEF RunInv
<1>. QED BY <1>1, <1>2, <1>3, <1>5, TypesKept DEF IInv

\* A run with nothing but a place.
LEMMA PlainRun ==
    ASSUME IInv, NEW p \in ReportPlaces \cup {"idle"}, gate' = [Idle EXCEPT !.at = p] \/ Proceed(p)
    PROVE  gate' \in GateRuns /\ gate'.at = p /\ Doing' = p
<1>1. event \in Events /\ gate \in GateRuns
  BY TypesOf DEF GateTypes
<1>2. gate' \in GateRuns /\ gate'.at = p
  BY <1>1 DEF Idle, Proceed, GateRuns
<1>. QED BY <1>2, PlacesApart DEF Doing, ReportPlaces

LEMMA ReportKeeps ==
    ASSUME IInv, WriteReport \/ SealReport \/ AttemptDelivery \/ SendReport \/ RecordAccepted \/ FindReport
                 \/ ReportPending
    PROVE  IInv'
<1>1. UNCHANGED <<adapterVars, event, receipts, readback, world, deaths>>
  BY DEF WriteReport, SealReport, AttemptDelivery, SendReport, RecordAccepted, FindReport, ReportPending,
         evidence
<1>2. event.status = "PRODUCTION_VERIFIED"
  <2>1. CASE Completed
    BY <2>1 DEF Completed
  <2>2. CASE gate.at \in {"report", "send", "smtp", "find"}
    <3>1. Doing \in ReportPlaces
      BY <2>2 DEF Doing, ReportPlaces
    <3>. QED BY <3>1 DEF IInv, RunInv, PhaseSound
  <2>. QED BY <2>1, <2>2 DEF WriteReport, SealReport, AttemptDelivery, SendReport, RecordAccepted,
                             FindReport, ReportPending
<1>3. /\ report \in {"none", "text", "sealed"} /\ delivery \subseteq {"attempt", "smtp", "receipt"} /\
         DeliverySound
      /\ event \in Events
  BY TypesOf DEF GateTypes, IInv, FilesInv
<1>4. Idle = [Idle EXCEPT !.at = "idle"]
  BY DEF Idle
<1>5. CASE WriteReport \/ SealReport
  <2>1. UNCHANGED <<delivery, mails>> /\ report' \in {"text", "sealed"}
    BY <1>5 DEF WriteReport, SealReport
  <2>2. PICK p \in {"report", "commit_report"} : gate' = [Idle EXCEPT !.at = p] \/ Proceed(p)
    BY <1>5 DEF WriteReport, SealReport
  <2>3. gate' \in GateRuns /\ gate'.at = p /\ Doing' = p /\ p \in ReportPlaces
    BY <2>2, PlainRun DEF ReportPlaces
  <2>4. MailSound'
    BY <2>3 DEF MailSound
  <2>5. DeliverySound'
    BY <1>1, <1>3, <2>1 DEF DeliverySound
  <2>. QED BY <1>1, <1>2, <1>3, <2>1, <2>3, <2>4, <2>5, ReportGoesOn
<1>6. CASE AttemptDelivery
  <2>1. delivery = {} /\ delivery' = {"attempt"} /\ UNCHANGED <<report, mails>> /\ mails = 0
    BY <1>3, <1>6 DEF AttemptDelivery, DeliverySound
  <2>2. gate' \in GateRuns /\ gate'.at = "send" /\ Doing' = "send" /\ "send" \in ReportPlaces
    BY <1>6, PlainRun DEF AttemptDelivery, ReportPlaces
  <2>3. MailSound' /\ DeliverySound'
    BY <1>1, <1>3, <2>1, <2>2 DEF MailSound, DeliverySound
  <2>. QED BY <1>1, <1>2, <1>3, <2>1, <2>2, <2>3, ReportGoesOn
<1>7. CASE SendReport
  <2>1. Doing = "send"
    BY <1>7 DEF SendReport, Doing
  <2>2. mails = 0 /\ delivery # {}
    BY <2>1 DEF IInv, RunInv, MailSound
  <2>3. "receipt" \notin delivery /\ ~ event.delivered
    BY <1>3, <2>2 DEF DeliverySound, Events
  <2>4. mails' \in 0..1 /\ UNCHANGED <<report, delivery>>
    BY <1>7, <2>2 DEF SendReport
  <2>5. PICK p \in {"smtp", "idle"} : gate' = [Idle EXCEPT !.at = p] \/ Proceed(p)
    BY <1>4, <1>7 DEF SendReport
  <2>6. gate' \in GateRuns /\ gate'.at = p /\ Doing' = p /\ p \in ReportPlaces \cup {"idle"}
    BY <2>5, PlainRun DEF ReportPlaces
  <2>7. MailSound' /\ DeliverySound'
    BY <1>1, <2>2, <2>3, <2>4, <2>6 DEF MailSound, DeliverySound
  <2>. QED BY <1>1, <1>2, <1>3, <2>4, <2>6, <2>7, ReportGoesOn
<1>8. CASE RecordAccepted
  <2>1. delivery' = delivery \cup {"smtp"} /\ UNCHANGED <<report, mails>>
    BY <1>8 DEF RecordAccepted
  <2>2. gate' \in GateRuns /\ gate'.at = "find" /\ Doing' = "find" /\ "find" \in ReportPlaces
    BY <1>8, PlainRun DEF RecordAccepted, ReportPlaces
  <2>3. Doing = "smtp"
    BY <1>8 DEF RecordAccepted, Doing
  <2>4. delivery # {}
    BY <2>3 DEF IInv, RunInv, MailSound
  <2>5. MailSound' /\ DeliverySound'
    BY <1>1, <1>3, <2>1, <2>2, <2>4 DEF MailSound, DeliverySound
  <2>. QED BY <1>1, <1>2, <1>3, <2>1, <2>2, <2>5, ReportGoesOn
<1>9. CASE FindReport
  <2>1. delivery' = delivery \cup {"receipt"} /\ UNCHANGED <<report, mails>> /\ mails = 1
    BY <1>9 DEF FindReport
  <2>2. gate' \in GateRuns /\ gate'.at = "commit_delivery" /\ Doing' = "commit_delivery" /\
           "commit_delivery" \in ReportPlaces
    BY <1>9, PlainRun DEF FindReport, ReportPlaces
  <2>3. MailSound' /\ DeliverySound'
    BY <1>1, <1>3, <2>1, <2>2 DEF MailSound, DeliverySound
  <2>. QED BY <1>1, <1>2, <1>3, <2>1, <2>2, <2>3, ReportGoesOn
<1>10. CASE ReportPending
  <2>1. UNCHANGED <<report, delivery, mails>>
    BY <1>10 DEF ReportPending, evidence
  <2>2. gate' \in GateRuns /\ gate'.at = "idle" /\ Doing' = "idle"
    BY <1>4, <1>10, PlainRun DEF ReportPending
  <2>3. MailSound' /\ DeliverySound'
    BY <1>1, <1>3, <2>1, <2>2 DEF MailSound, DeliverySound
  <2>. QED BY <1>1, <1>2, <1>3, <2>1, <2>2, <2>3, ReportGoesOn
<1>. QED BY <1>5, <1>6, <1>7, <1>8, <1>9, <1>10

(***************************************************************************)
(* The world                                                                *)
(***************************************************************************)
LEMMA WorldKeeps == ASSUME IInv, ApprovalChanges \/ CredentialExpires \/ UNCHANGED vars PROVE IInv'
<1>1. UNCHANGED <<adapterVars, evidence, event, gate, deaths>>
  BY DEF ApprovalChanges, CredentialExpires, vars, gateVars, adapterVars
<1>2. credential' = credential \/ credential' = "expired"
  BY DEF ApprovalChanges, CredentialExpires, vars, gateVars, world
<1>3. AdapterInv' /\ LookSound'
  BY <1>1, AdapterStands
<1>4. GateTypes'
  <2>1. GateTypes
    BY TypesOf
  <2>2. changes' \in 0..MaxChanges
    BY <2>1, GateAssumption DEF GateTypes, GateAssumption, ApprovalChanges, CredentialExpires, vars,
                                gateVars, world
  <2>3. approval' \in {"APPROVAL_VERIFIED", "APPROVAL_PAUSED", "APPROVAL_EXPIRED"}
    BY <2>1 DEF GateTypes, ApprovalChanges, CredentialExpires, vars, gateVars, world
  <2>. QED BY <1>1, <1>2, <2>1, <2>2, <2>3 DEF GateTypes, evidence
<1>5. Doomed => Doomed'
  BY <1>1, <1>2 DEF Doomed, evidence
<1>6. FilesInv'
  BY <1>1, <1>5, Standing
  DEF IInv, FilesInv, EventSound, ReceiptsSound, UntouchedSound, Untouched, ProductionSound, RestoredSound,
      DeliverySound, evidence, adapterVars, files
<1>7. RunInv'
  <2>1. Doing' = Doing /\ Stage' = Stage
    BY <1>1 DEF Doing, Stage
  <2>2. AwaitSound'
    BY <1>1, <2>1 DEF IInv, RunInv, AwaitSound, adapterVars, Dep
  <2>3. PhaseSound' /\ CopySound' /\ MailSound'
    BY <1>1, <2>1 DEF IInv, RunInv, PhaseSound, CopySound, MailSound, Passed, evidence
  <2>4. StageSound'
    BY <1>1, <2>1 DEF IInv, RunInv, StageSound, RestoredAt, Untouched, Restored, evidence, adapterVars, files
  <2>5. ReadbackSound'
    BY <1>1, <1>5, <2>1, Standing DEF IInv, RunInv, ReadbackSound, evidence
  <2>. QED BY <2>2, <2>3, <2>4, <2>5 DEF RunInv
<1>. QED BY <1>3, <1>4, <1>6, <1>7, TypesKept DEF IInv

(***************************************************************************)
(* The run calls the adapter                                                *)
(***************************************************************************)
\* While a run works on a stage the event is neither verified nor rolled back.
LEMMA WorkingOn ==
    ASSUME IInv, Doing \in Working
    PROVE  /\ gate.stage \in 1..3 /\ Stage \in Targets /\ Stage \in Deployments /\ TargetOf[Stage] = Stage
           /\ Passed(gate.stage)
           /\ event.status \notin {"PRODUCTION_VERIFIED", "ROLLED_BACK"}
           /\ Stage = Full <=> gate.stage = 3
<1>1. gate.stage \in 1..3 /\ Passed(gate.stage)
  BY DEF IInv, RunInv, PhaseSound
<1>2. Checkpoints[gate.stage] \notin {"PRODUCTION_VERIFIED", "ROLLED_BACK"}
  BY <1>1, CheckpointNames
<1>3. event.status \notin {"PRODUCTION_VERIFIED", "ROLLED_BACK"}
  BY <1>2 DEF IInv, RunInv, PhaseSound, Working
<1>4. Stage \in Targets /\ Stage \in Deployments /\ TargetOf[Stage] = Stage /\ (Stage = Full <=> gate.stage = 3)
  BY <1>1, StageNames DEF Stage
<1>. QED BY <1>1, <1>3, <1>4

\* The places from which the adapter is called.
LEMMA CallingPlaces ==
    /\ \A op \in DOMAIN Called : op \in Working /\ op # "rolled_back" /\ op # "commit" /\ op # "await" /\
       op # "commit_readback"
    /\ "deploy" \in StagePlaces /\ "verify" \in StagePlaces /\ "rollback" \in UndoPlaces
    /\ "rollback_verify" \in UndoPlaces /\ "readback" \in ReadbackPlaces
  BY CalledNames DEF Working, StagePlaces, UndoPlaces, ReadbackPlaces

LEMMA RunCalls == ASSUME IInv, Call PROVE IInv'
<1>1. UNCHANGED <<world, event, evidence, deaths, files>> /\ Begin(Called[gate.at], Stage)
  BY DEF Call, Begin
<1>2. gate \in GateRuns /\ gate.at \in DOMAIN Called /\ Doing = gate.at /\ Doing \in Working
  BY TypesOf, CallingPlaces DEF Call, GateTypes, Doing
<1>3. /\ gate' \in GateRuns /\ gate'.at = "await" /\ gate'.op = gate.at
      /\ gate'.stage = gate.stage /\ gate'.copy = gate.copy
  BY <1>2 DEF Call, GateRuns
<1>4. Doing' = Doing /\ Stage' = Stage
  BY <1>2, <1>3 DEF Doing, Stage
<1>5. gate.stage \in 1..3 /\ Stage \in Targets /\ Stage \in Deployments /\ Passed(gate.stage)
      /\ event.status \notin {"PRODUCTION_VERIFIED", "ROLLED_BACK"} /\ (Stage = Full <=> gate.stage = 3)
  BY <1>2, WorkingOn
<1>6. call[Stage] = NoCall /\ call' = [call EXCEPT ![Stage] =
                           [op |-> Called[gate.at], dep |-> Stage, at |-> "begun"]]
  BY <1>1, <1>2, WorkingOn DEF Begin
<1>7. /\ call'[Stage].op = Called[gate.at] /\ Dep(Stage)' = Stage
      /\ \A u \in Targets \ {Stage} : call'[u] = call[u]
  BY <1>4, <1>5, <1>6 DEF IInv, AdapterInv, AdapterTypeOK, Dep
<1>8. AdapterInv' /\ LookSound'
  <2>1. Called[gate.at] \in Ops
    BY <1>2, CalledNames
  <2>2. Next
    BY <1>1, <1>5, <2>1 DEF Next
  <2>. QED BY <2>2, AdapterNextKeeps, LookKept DEF IInv
<1>9. GateTypes'
  BY <1>1, <1>3, TypesOf DEF GateTypes, world, evidence
<1>10. \A i \in 1..4 : Passed(i)' <=> Passed(i)
  BY <1>1 DEF Passed, evidence
<1>11. LiveFull /\ (Stage # Full \/ Doing = "readback") => LiveFull'
  <2>1. Full \in Targets
    BY StageNames
  <2>2. CASE Stage # Full
    BY <1>1, <1>7, <2>1, <2>2 DEF LiveFull, files
  <2>3. CASE Stage = Full /\ Doing = "readback"
    BY <1>1, <1>2, <1>7, <2>3, CalledNames DEF LiveFull, files
  <2>. QED BY <2>2, <2>3
<1>12. Doomed' <=> Doomed
  BY <1>1 DEF Doomed, evidence, world
<1>13. Full \in receipts /\ Stage = Full /\ Doing # "readback" => Doomed
  <2>1. ASSUME Doing \in {"deploy", "verify"}, Full \in receipts, Stage = Full PROVE FALSE
    BY <2>1 DEF IInv, RunInv, StageSound
  <2>2. ASSUME Doing \in UndoPlaces, Full \in receipts PROVE Doomed
    BY <2>2 DEF IInv, RunInv, ReadbackSound
  <2>. QED BY <1>2, <2>1, <2>2, CalledNames, CallingPlaces
<1>14. FilesInv'
  <2>1. EventSound' /\ ReceiptsSound' /\ DeliverySound'
    BY <1>1, <1>10 DEF IInv, FilesInv, EventSound, ReceiptsSound, DeliverySound, evidence
  <2>2. UntouchedSound'
    <3>. SUFFICES ASSUME NEW i \in 1..3, ~ Passed(i) PROVE Untouched(Stages[i])'
      BY <1>10 DEF UntouchedSound
    <3>1. Stages[i] # Stage /\ Stages[i] \in Targets
      BY <1>5, StageNames DEF Stage
    <3>. QED BY <1>1, <1>7, <3>1 DEF IInv, FilesInv, UntouchedSound, Untouched, files
  <2>3. ProductionSound'
    BY <1>1, <1>5, <1>11, <1>12, <1>13 DEF IInv, FilesInv, ProductionSound, evidence
  <2>4. RestoredSound'
    BY <1>1, <1>5 DEF RestoredSound
  <2>. QED BY <2>1, <2>2, <2>3, <2>4 DEF FilesInv
<1>15. RunInv'
  <2>1. AwaitSound'
    BY <1>2, <1>3, <1>4, <1>7 DEF AwaitSound
  <2>2. PhaseSound' /\ CopySound' /\ MailSound'
    BY <1>1, <1>3, <1>4, <1>10 DEF IInv, RunInv, PhaseSound, CopySound, MailSound, evidence
  <2>3. StageSound'
    BY <1>1, <1>2, <1>3, <1>4, CallingPlaces DEF IInv, RunInv, StageSound, evidence
  <2>4. ReadbackSound'
    BY <1>1, <1>2, <1>4, <1>11, <1>12, CallingPlaces DEF IInv, RunInv, ReadbackSound, evidence
  <2>. QED BY <2>1, <2>2, <2>3, <2>4 DEF RunInv
<1>. QED BY <1>8, <1>9, <1>14, <1>15, TypesKept DEF IInv

(***************************************************************************)
(* The adapter answers, or not                                              *)
(***************************************************************************)
Answered(op) == AnsweredPass(op) \/ AnsweredFail(op)

\* The run was at this operation; whatever happened, what is live stays live.
LEMMA AnswerFacts ==
    ASSUME IInv, NEW op \in DOMAIN Called, Answered(op)
    PROVE  /\ Doing = op /\ Doing \in Working
           /\ AdapterInv' /\ LookSound'
           /\ Moves(Stage) \/ UNCHANGED adapterVars
           /\ LiveFull => LiveFull'
<1>1. Doing = op
  BY CallingPlaces DEF Answered, AnsweredPass, AnsweredFail, Doing
<1>2. Doing \in Working /\ Stage \in Targets
  BY <1>1, CallingPlaces, WorkingOn
<1>3. Return(Stage) \/ UNCHANGED adapterVars
  BY DEF Answered, AnsweredPass, AnsweredFail
<1>4. Moves(Stage) \/ UNCHANGED adapterVars
  BY <1>2, <1>3, StepMoves DEF IInv
<1>5. [Next]_adapterVars
  BY <1>2, <1>3 DEF Next
<1>6. AdapterInv' /\ LookSound'
  BY <1>5, AdapterNextKeeps, LookKept DEF IInv
<1>7. LiveFull => LiveFull'
  BY <1>2, <1>4, LiveKept DEF LiveFull, adapterVars, files
<1>. QED BY <1>1, <1>2, <1>4, <1>6, <1>7

\* The run goes on with the answer, and has changed nothing but what it knows itself.
LEMMA AnswerGoesOn ==
    ASSUME IInv, NEW op \in DOMAIN Called, Answered(op), UNCHANGED <<evidence, event, world, deaths>>,
           gate' \in GateRuns, RunInv'
    PROVE  IInv'
<1>1. Moves(Stage) \/ UNCHANGED adapterVars
  BY AnswerFacts
<1>2. CASE UNCHANGED adapterVars
  BY <1>2, GoOn
<1>3. CASE Moves(Stage)
  <2>1. FilesInv'
    BY <1>3, AnswerFacts, WorkingOn, FilesKept DEF world
  <2>2. GateTypes'
    BY TypesOf DEF GateTypes, world, evidence
  <2>. QED BY <2>1, <2>2, AnswerFacts, TypesKept DEF IInv
<1>. QED BY <1>1, <1>2, <1>3

\* The deployment passed, and is to be verified.
LEMMA DeployedKeeps == ASSUME IInv, Deployed PROVE IInv'
<1>1. Answered("deploy") /\ UNCHANGED <<evidence, event, world, deaths>> /\ Proceed("verify")
  BY DEF Deployed, Answered
<1>2. "deploy" \in DOMAIN Called /\ "verify" \in Working
  BY CalledNames DEF Working, StagePlaces
<1>3. Doing = "deploy" /\ Doing \in Working
  BY <1>1, <1>2, AnswerFacts
<1>4. /\ gate.stage \in 1..3 /\ Passed(gate.stage) /\ gate.copy = event /\
         event.status = Checkpoints[gate.stage]
      /\ Stage \notin receipts
  <2>1. Stage \notin receipts
    BY <1>3 DEF IInv, RunInv, StageSound
  <2>. QED BY <1>3, <2>1, StageOf, CallingPlaces
<1>5. /\ gate' \in GateRuns /\ gate'.at = "verify" /\ gate'.stage = gate.stage /\ gate'.copy = gate.copy
      /\ Doing' = "verify" /\ Stage' = Stage
  BY <1>1, <1>2, Proceeds
<1>6. RunInv'
  <2>1. Passed(gate.stage)'
    BY <1>1, <1>4, <1>5 DEF Passed, evidence
  <2>2. AwaitSound' /\ CopySound' /\ ReadbackSound' /\ MailSound'
    BY <1>1, <1>4, <1>5, CallingPlaces, PlacesApart DEF AwaitSound, CopySound, ReadbackSound, MailSound
  <2>3. PhaseSound'
    BY <1>1, <1>4, <1>5, <2>1, CallingPlaces, PlacesApart DEF PhaseSound
  <2>4. StageSound'
    BY <1>1, <1>4, <1>5, CallingPlaces, PlacesApart DEF StageSound, evidence
  <2>. QED BY <2>2, <2>3, <2>4 DEF RunInv
<1>. QED BY <1>1, <1>2, <1>5, <1>6, AnswerGoesOn

\* A run that takes a stage back knows that it has no receipt, or that the event is doomed.
LEMMA UndoRun ==
    ASSUME IInv, NEW p \in UndoPlaces \ {"rolled_back"}, Doing \in Working, Proceed(p),
           UNCHANGED <<event, evidence, world>>,
           gate.copy = event \/ gate.copy = [event EXCEPT !.auth = "BLOCKED"],
           \/ event.status = Checkpoints[gate.stage]
           \/ gate.stage = 3 /\ event.status \in {"PRODUCTION_DEPLOYED", "RELEASE_BLOCKED"},
           event.status = Checkpoints[gate.stage] => Stage \notin receipts,
           Full \in receipts => Doomed
    PROVE  gate' \in GateRuns /\ RunInv'
<1>1. p \in Working \cup ReportPlaces
  BY PlacesApart
<1>2. /\ gate' \in GateRuns /\ gate'.at = p /\ gate'.stage = gate.stage /\ gate'.copy = gate.copy
      /\ Doing' = p /\ Stage' = Stage
  BY <1>1, Proceeds
<1>3. gate.stage \in 1..3 /\ Passed(gate.stage)' /\ (Doomed' <=> Doomed)
  BY <1>2, WorkingOn DEF Passed, Doomed, evidence, world
<1>4. p # "commit" /\ p # "await" /\ p # "idle"
  BY PlacesApart DEF StagePlaces
<1>5. AwaitSound' /\ CopySound'
  BY <1>2, <1>4 DEF AwaitSound, CopySound
<1>6. PhaseSound'
  BY <1>2, <1>3, PlacesApart DEF PhaseSound
<1>7. StageSound'
  BY <1>2, <1>4, PlacesApart DEF StageSound, evidence, StagePlaces
<1>8. ReadbackSound' /\ MailSound'
  BY <1>2, <1>3, PlacesApart DEF ReadbackSound, MailSound, evidence, ReadbackPlaces, ReportPlaces
<1>. QED BY <1>2, <1>5, <1>6, <1>7, <1>8 DEF RunInv

\* A stage that could not be deployed or verified is taken back.
LEMMA StageFails == ASSUME IInv, DeployFailed \/ VerifyFailed PROVE IInv'
<1>1. PICK op \in {"deploy", "verify"}, p \in {"rollback", "rollback_failed"} :
          Answered(op) /\ UNCHANGED <<evidence, event, world, deaths>> /\ Proceed(p)
  BY DEF DeployFailed, VerifyFailed, Answered
<1>2. op \in DOMAIN Called /\ op \in StagePlaces /\ p \in UndoPlaces \ {"rolled_back"}
  BY CalledNames DEF StagePlaces, UndoPlaces
<1>3. Doing = op /\ Doing \in Working
  BY <1>1, <1>2, AnswerFacts
<1>4. gate.copy = event /\ event.status = Checkpoints[gate.stage] /\ (Full \in receipts => gate.stage = 3)
  BY <1>2, <1>3, StageOf
<1>5. Stage \notin receipts
  BY <1>3 DEF IInv, RunInv, StageSound
<1>6. Full \notin receipts
  BY <1>3, <1>4, <1>5, WorkingOn
<1>7. gate' \in GateRuns /\ RunInv'
  BY <1>1, <1>2, <1>3, <1>4, <1>5, <1>6, UndoRun
<1>. QED BY <1>1, <1>2, <1>7, AnswerGoesOn

\* What a run that takes a stage back knows.
LEMMA UndoOf ==
    ASSUME IInv, Doing \in UndoPlaces
    PROVE  /\ Doing \in Working /\ gate.stage \in 1..3
           /\ gate.copy = event \/ gate.copy = [event EXCEPT !.auth = "BLOCKED"]
           /\ \/ event.status = Checkpoints[gate.stage]
              \/ gate.stage = 3 /\ event.status \in {"PRODUCTION_DEPLOYED", "RELEASE_BLOCKED"}
           /\ event.status = Checkpoints[gate.stage] => Stage \notin receipts
           /\ Full \in receipts => Doomed
  BY PlacesApart DEF IInv, RunInv, PhaseSound, CopySound, StageSound, ReadbackSound

\* The rollback passed, and is to be verified; or one of the two failed.
LEMMA RollbackGoesOn == ASSUME IInv, RolledBack \/ RollbackFailed PROVE IInv'
<1>1. PICK op \in {"rollback", "rollback_verify"}, p \in {"rollback_verify", "rollback_failed"} :
          Answered(op) /\ UNCHANGED <<evidence, event, world, deaths>> /\ Proceed(p)
  BY DEF RolledBack, RollbackFailed, Answered
<1>2. op \in DOMAIN Called /\ op \in UndoPlaces /\ p \in UndoPlaces \ {"rolled_back"}
  BY CalledNames DEF UndoPlaces
<1>3. Doing = op
  BY <1>1, <1>2, AnswerFacts
<1>4. gate' \in GateRuns /\ RunInv'
  BY <1>1, <1>2, <1>3, UndoOf, UndoRun
<1>. QED BY <1>1, <1>2, <1>4, AnswerGoesOn

\* The adapter has seen that the stage is as it was before.
LEMMA RollbackVerifies == ASSUME IInv, RollbackVerified PROVE IInv'
<1>1. /\ Answered("rollback_verify") /\ UNCHANGED <<evidence, event, world, deaths>> /\ Proceed("rolled_back")
      /\ call[Stage].at = "PASS" /\ Return(Stage)
      /\ gate.at = "await" /\ gate.op = "rollback_verify"
  BY DEF RollbackVerified, Answered, AnsweredPass
<1>2. "rollback_verify" \in DOMAIN Called /\ "rolled_back" \in UndoPlaces /\ "rolled_back" \in Working
  BY CalledNames DEF UndoPlaces, Working
<1>3. Doing = "rollback_verify" /\ Doing \in UndoPlaces /\ Doing \in Working
  BY <1>1, <1>2, AnswerFacts, CallingPlaces
<1>4. /\ gate.stage \in 1..3 /\ Stage \in Targets /\ Passed(gate.stage)
  BY <1>3, WorkingOn
<1>5. call[Stage].op = "verify_rollback" /\ Dep(Stage) = Stage
  <2>1. call[Stage] # NoCall
    BY <1>1 DEF NoCall
  <2>. QED BY <1>1, <2>1, CalledNames DEF IInv, RunInv, AwaitSound
<1>6. rollback[Stage].status = "COMPLETE" /\ current[Stage] = Restored(Stage)
  BY <1>1, <1>4, <1>5 DEF IInv, AdapterInv, PassMeansRestored
<1>7. \A j \in 1..3 : gate.stage < j => Untouched(Stages[j])
  <2>. SUFFICES ASSUME NEW j \in 1..3, gate.stage < j PROVE ~ Passed(j)
    BY DEF IInv, FilesInv, UntouchedSound
  <2>1. gate.stage # 3
    BY <1>4
  <2>2. Stage \notin receipts
    BY <1>3, <2>1, UndoOf
  <2>. QED BY <1>4, <2>2 DEF Passed, Stage
<1>8. /\ call' = [call EXCEPT ![Stage] = NoCall] /\ UNCHANGED <<current, record, rollback>>
      /\ call \in [Targets -> [op : Ops \cup {"none"}, dep : Deployments \cup {None}, at : Places]]
  BY <1>1 DEF Return, files, IInv, AdapterInv, AdapterTypeOK
<1>9. /\ gate' \in GateRuns /\ gate'.at = "rolled_back" /\ gate'.stage = gate.stage /\ gate'.copy = gate.copy
      /\ Doing' = "rolled_back" /\ Stage' = Stage
  BY <1>1, <1>2, Proceeds
<1>10. RestoredAt(gate.stage)'
  <2>1. Stages[gate.stage] = Stage /\ call'[Stage] = NoCall
    BY <1>4, <1>8 DEF Stage
  <2>2. \A j \in 1..3 : gate.stage < j => call'[Stages[j]] = call[Stages[j]]
    BY <1>4, <1>8, StageNames DEF Stage
  <2>. QED BY <1>6, <1>7, <1>8, <1>9, <2>1, <2>2 DEF RestoredAt, Restored, Untouched
<1>11. RunInv'
  <2>1. AwaitSound' /\ MailSound'
    BY <1>9 DEF AwaitSound, MailSound
  <2>2. PhaseSound'
    BY <1>1, <1>2, <1>3, <1>4, <1>9, UndoOf, PlacesApart DEF PhaseSound, Passed, evidence
  <2>3. CopySound'
    BY <1>1, <1>2, <1>3, <1>9, UndoOf DEF CopySound
  <2>4. StageSound'
    BY <1>1, <1>3, <1>9, <1>10, UndoOf DEF StageSound, evidence
  <2>5. ReadbackSound'
    BY <1>1, <1>3, <1>9, UndoOf DEF ReadbackSound, Doomed, evidence, world
  <2>. QED BY <2>1, <2>2, <2>3, <2>4, <2>5 DEF RunInv
<1>. QED BY <1>1, <1>2, <1>9, <1>11, AnswerGoesOn

(***************************************************************************)
(* The answer is written down                                               *)
(***************************************************************************)
\* What a passed verification or readback of a stage has seen is live.
LEMMA SeenLive ==
    ASSUME IInv, NEW op \in {"verify", "readback"}, AnsweredPass(op), Stage = Full
    PROVE  LiveFull'
<1>1. op \in DOMAIN Called /\ Called[op] = op
  BY CalledNames
<1>2. call[Stage].at = "PASS" /\ Return(Stage) /\ gate.at = "await" /\ gate.op = op
  BY DEF AnsweredPass
<1>3. call[Stage] # NoCall
  BY <1>2 DEF NoCall
<1>4. call[Stage].op = op /\ Dep(Stage) = Stage
  BY <1>1, <1>2, <1>3 DEF IInv, RunInv, AwaitSound
<1>5. Full \in Targets
  BY StageNames
<1>6. current[Full].ref = Full
  BY <1>2, <1>4, <1>5 DEF IInv, LookSound
<1>7. call' = [call EXCEPT ![Full] = NoCall] /\ UNCHANGED current /\ Full \in DOMAIN call
  BY <1>2, <1>5 DEF Return, files, IInv, AdapterInv, AdapterTypeOK
<1>. QED BY <1>6, <1>7 DEF LiveFull, NoCall

\* A step that writes a receipt, or the receipt of the readback, when the adapter answers.
LEMMA ReceiptKeeps ==
    ASSUME IInv, NEW op \in DOMAIN Called, Answered(op),
           UNCHANGED <<event, report, delivery, mails, world, deaths>>,
           receipts \subseteq receipts', receipts' \subseteq Targets, readback' \in {"none", "PASS", "BLOCKED"},
           gate' \in GateRuns, ReceiptsSound', ProductionSound', RunInv'
    PROVE  IInv'
<1>1. /\ Doing = op /\ Doing \in Working /\ AdapterInv' /\ LookSound'
      /\ Moves(Stage) \/ UNCHANGED adapterVars
  BY AnswerFacts
<1>2. \A i \in 1..4 : Passed(i) => Passed(i)'
  BY DEF Passed
<1>3. GateTypes'
  BY TypesOf DEF GateTypes, world
<1>4. EventSound' /\ DeliverySound'
  BY <1>2 DEF IInv, FilesInv, EventSound, DeliverySound
<1>5. UntouchedSound'
  <2>. SUFFICES ASSUME NEW i \in 1..3, ~ Passed(i)' PROVE Untouched(Stages[i])'
    BY DEF UntouchedSound
  <2>1. Untouched(Stages[i])
    BY <1>2 DEF IInv, FilesInv, UntouchedSound
  <2>2. CASE UNCHANGED adapterVars
    BY <2>1, <2>2 DEF Untouched, adapterVars, files
  <2>3. CASE Moves(Stage)
    BY <1>1, <2>1, <2>3, StageNames, WorkingOn DEF Untouched, Moves
  <2>. QED BY <1>1, <2>2, <2>3
<1>6. RestoredSound'
  BY <1>1, WorkingOn DEF RestoredSound
<1>. QED BY <1>1, <1>3, <1>4, <1>5, <1>6, TypesKept DEF IInv, FilesInv

\* The stage is verified: it gets its receipt.
LEMMA VerifiedKeeps == ASSUME IInv, Verified PROVE IInv'
<1>1. /\ Answered("verify") /\ AnsweredPass("verify") /\ Proceed("commit") /\ receipts' = receipts \cup {Stage}
      /\ UNCHANGED <<event, readback, report, delivery, mails, world, deaths>>
  BY DEF Verified, Answered
<1>2. "verify" \in DOMAIN Called /\ "commit" \in StagePlaces /\ "commit" \in Working /\ "verify" \in StagePlaces
  BY CalledNames DEF Working, StagePlaces
<1>3. Doing = "verify" /\ Doing \in Working /\ Doing \in StagePlaces
  BY <1>1, <1>2, AnswerFacts
<1>4. /\ gate.stage \in 1..3 /\ Passed(gate.stage) /\ gate.copy = event /\
         event.status = Checkpoints[gate.stage]
      /\ Stage \in Targets /\ (Full \in receipts => gate.stage = 3) /\ (Stage = Full <=> gate.stage = 3)
      /\ event.status \notin {"PRODUCTION_VERIFIED", "ROLLED_BACK"}
  BY <1>3, StageOf, WorkingOn
<1>5. Stage \notin receipts
  BY <1>3 DEF IInv, RunInv, StageSound
<1>6. Full \in receipts' => Stage = Full
  BY <1>1, <1>4, <1>5
<1>7. \A i \in 1..4 : Passed(i) => Passed(i)'
  BY <1>1 DEF Passed
<1>8. ReceiptsSound'
  <2>1. \A i \in 1..3 : Stages[i] = Stage => i = gate.stage
    BY <1>4, StageNames DEF Stage
  <2>2. \A i \in 1..3 : Stages[i] \in receipts' => Passed(i)'
    BY <1>1, <1>4, <1>7, <2>1 DEF IInv, FilesInv, ReceiptsSound
  <2>3. Stage = Full => event.status = "CANARY_VERIFIED"
    BY <1>4, CheckpointNames
  <2>. QED BY <1>1, <1>6, <2>2, <2>3 DEF ReceiptsSound
<1>9. ProductionSound'
  <2>1. Stage = Full => LiveFull'
    BY <1>1, SeenLive
  <2>. QED BY <1>1, <1>4, <1>6, <2>1 DEF ProductionSound
<1>10. /\ gate' \in GateRuns /\ gate'.at = "commit" /\ gate'.stage = gate.stage /\ gate'.copy = gate.copy
       /\ Doing' = "commit" /\ Stage' = Stage
  BY <1>1, <1>2, Proceeds
<1>11. RunInv'
  <2>1. Passed(gate.stage)'
    BY <1>4, <1>7, <1>10 DEF Passed
  <2>2. AwaitSound' /\ CopySound' /\ ReadbackSound' /\ MailSound'
    BY <1>1, <1>2, <1>4, <1>10, PlacesApart DEF AwaitSound, CopySound, ReadbackSound, MailSound
  <2>3. PhaseSound'
    BY <1>1, <1>2, <1>4, <1>10, <2>1, PlacesApart DEF PhaseSound
  <2>4. StageSound'
    BY <1>1, <1>2, <1>10, PlacesApart DEF StageSound
  <2>. QED BY <2>2, <2>3, <2>4 DEF RunInv
<1>12. receipts \subseteq Targets /\ readback \in {"none", "PASS", "BLOCKED"}
  BY TypesOf DEF GateTypes
<1>. QED BY <1>1, <1>2, <1>4, <1>8, <1>9, <1>10, <1>11, <1>12, ReceiptKeeps

\* Production is what it should be, or it is not.
LEMMA ReadbackAnswers == ASSUME IInv, ReadbackMatched \/ ReadbackMismatched PROVE IInv'
<1>1. /\ Answered("readback") /\ UNCHANGED <<event, receipts, report, delivery, mails, world, deaths>>
      /\ \/ AnsweredPass("readback") /\ readback' = "PASS" /\ Proceed("commit_readback")
         \/ readback' = "BLOCKED" /\ Proceed("rollback")
  BY DEF ReadbackMatched, ReadbackMismatched, Answered
<1>2. "readback" \in DOMAIN Called /\ "readback" \in ReadbackPlaces
  BY CalledNames DEF ReadbackPlaces
<1>3. Doing = "readback" /\ Doing \in ReadbackPlaces
  BY <1>1, <1>2, AnswerFacts
<1>4. /\ gate.stage = 3 /\ Stage = Full /\ gate.copy = event /\ event.status = "PRODUCTION_DEPLOYED" /\
         receipts = Targets
  BY <1>3, ReadbackOf
<1>5. PICK p \in {"commit_readback", "rollback"} :
          /\ Proceed(p)
          /\ p = "commit_readback" => readback' = "PASS" /\ LiveFull'
          /\ p = "rollback" => readback' = "BLOCKED"
          /\ readback' \in {"PASS", "BLOCKED"}
  BY <1>1, <1>4, SeenLive
<1>6. p \in Working \cup ReportPlaces
  BY DEF Working, UndoPlaces, ReadbackPlaces
<1>7. /\ gate' \in GateRuns /\ gate'.at = p /\ gate'.stage = 3 /\ gate'.copy = event
      /\ Doing' = p /\ Stage' = Full
  BY <1>4, <1>5, <1>6, Proceeds
<1>8. ReceiptsSound' /\ ProductionSound'
  <2>1. \A i \in 1..4 : Passed(i)' <=> Passed(i)
    BY <1>1 DEF Passed
  <2>. QED BY <1>1, <1>4, <1>5, <2>1 DEF IInv, FilesInv, ReceiptsSound, ProductionSound, Doomed
<1>9. RunInv'
  <2>1. Passed(3)'
    BY <1>1, <1>4, StageNames DEF Passed
  <2>2. AwaitSound' /\ CopySound' /\ MailSound'
    BY <1>1, <1>7 DEF AwaitSound, CopySound, MailSound
  <2>3. PhaseSound'
    BY <1>1, <1>4, <1>7, <2>1 DEF PhaseSound, Working, StagePlaces, UndoPlaces, ReadbackPlaces, ReportPlaces
  <2>4. StageSound'
    BY <1>1, <1>4, <1>7, CheckpointNames DEF StageSound, UndoPlaces
  <2>5. ReadbackSound'
    BY <1>5, <1>7 DEF ReadbackSound, Doomed, UndoPlaces
  <2>. QED BY <2>2, <2>3, <2>4, <2>5 DEF RunInv
<1>10. readback' \in {"none", "PASS", "BLOCKED"} /\ receipts \subseteq Targets
  BY <1>4, <1>5
<1>. QED BY <1>1, <1>2, <1>7, <1>8, <1>9, <1>10, ReceiptKeeps

(***************************************************************************)
(* The theorems                                                             *)
(***************************************************************************)
LEMMA GateKeeps == ASSUME IInv, [ReleaseNext]_vars PROVE IInv'
<1>1. CASE AuthorizationStep
  BY <1>1, AuthorizationKeeps
<1>2. CASE StageStep
  BY <1>2, StageGoesOn, LeavesEvent, RevokeKeeps, CheckpointKeeps, CapabilityKeeps, RunCalls,
     DeployedKeeps, StageFails,
     VerifiedKeeps, RollbackGoesOn, RollbackVerifies, RollbackEnds
  DEF StageStep
<1>3. CASE ReadbackStep
  BY <1>3, ReadbackGoesOn, PrecheckRevokes, ReadbackEnds, ReadbackAnswers DEF ReadbackStep
<1>4. CASE ReportStep
  BY <1>4, ReportKeeps, ReportEnds DEF ReportStep
<1>5. CASE GateDies
  BY <1>5, LeavesEvent
<1>6. CASE ApprovalChanges \/ CredentialExpires \/ UNCHANGED vars
  BY <1>6, WorldKeeps
<1>7. CASE \E t \in Targets : AdapterStep(t) \/ OrphanEnds(t) \/ AdapterKilled(t) \/ ReleaseDamaged(t)
  BY <1>7, AdapterKeeps
<1>. QED BY <1>1, <1>2, <1>3, <1>4, <1>5, <1>6, <1>7 DEF ReleaseNext, GateStep

THEOREM ReleaseInductive == ReleaseSpec => []IInv
  BY InitInv, GateKeeps, PTL DEF ReleaseSpec

\* The gate and the adapter under it keep their types.
THEOREM ReleaseTypes == ReleaseSpec => []GateTypeOK
<1>1. IInv => GateTypeOK
  BY DEF IInv, ReleaseTypeOK
<1>. QED BY <1>1, ReleaseInductive, PTL

\* An event says PRODUCTION_VERIFIED only while the release that it is about is in
\* production and every stage and the readback have their receipts, whatever runs died,
\* whatever adapter went on without its run, and whatever the approval did meanwhile.
THEOREM VerifiedHolds == ReleaseSpec => []VerifiedIsLive
<1>1. IInv => VerifiedIsLive
  BY DEF IInv, FilesInv, ProductionSound, LiveFull, VerifiedIsLive
<1>. QED BY <1>1, ReleaseInductive, PTL

\* An event says ROLLED_BACK only while one target is as it was before its deployment,
\* and no target of a later stage was ever touched.
THEOREM RolledBackHolds == ReleaseSpec => []RolledBackIsRestored
<1>1. ASSUME IInv, event.status = "ROLLED_BACK"
      PROVE  \E i \in 1..3 :
                /\ rollback[Stages[i]].status = "COMPLETE"
                /\ current[Stages[i]] = Restored(Stages[i])
                /\ \A j \in (i + 1)..3 : record[Stages[j]].status = "none"
  <2>1. PICK i \in 1..3 : RestoredAt(i)
    BY <1>1 DEF IInv, FilesInv, RestoredSound
  <2>2. \A j \in (i + 1)..3 : record[Stages[j]].status = "none"
    <3>1. \A j \in (i + 1)..3 : j \in 1..3 /\ i < j
      OBVIOUS
    <3>. QED BY <2>1, <3>1 DEF RestoredAt, Untouched
  <2>. QED BY <2>1, <2>2 DEF RestoredAt
<1>2. IInv => RolledBackIsRestored
  BY <1>1 DEF RolledBackIsRestored
<1>. QED BY <1>2, ReleaseInductive, PTL

\* The report of a release is mailed once at the most: the attempt is on disk before the
\* mail is sent, and a run that died after it is never repeated.
THEOREM MailedOnce == ReleaseSpec => []ReportMailedOnce
<1>1. IInv => ReportMailedOnce
  BY DEF IInv, FilesInv, DeliverySound, ReportMailedOnce
<1>. QED BY <1>1, ReleaseInductive, PTL
=============================================================================
