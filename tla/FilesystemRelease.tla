------------------------- MODULE FilesystemRelease --------------------------
(***************************************************************************)
(* The filesystem release adapter of the product release gate.             *)
(*                                                                         *)
(* Each target keeps content-addressed releases, a record per deployment,   *)
(* a record per rollback, and the pointer current.json to the release its   *)
(* consumers use.  An operation is a process of its own that holds the lock *)
(* of the target; it writes one file after the other and may be killed, by  *)
(* a timeout of its caller, between any two writes.  The next call for the  *)
(* same deployment reconciles what it finds.                                *)
(***************************************************************************)
EXTENDS Naturals

CONSTANTS
    Deployments,   \* deployment_ref: one event in one stage
    Targets,       \* target_ref
    TargetOf,      \* the target a deployment goes to
    None,
    MaxKills       \* bound on the operations that are killed

ASSUME ReleaseAssumption ==
    /\ TargetOf \in [Deployments -> Targets]
    /\ None \notin Deployments
    /\ MaxKills \in Nat

VARIABLES
    current,    \* current[t]: the pointer of target t
    record,     \* record[d]: the deployment record
    rollback,   \* rollback[d]: the rollback record
    installed,  \* the deployments whose release directory is in place
    damaged,    \* those whose files no longer match their manifest
    stamps,     \* stamps[d]: the pointers made for d so far, told apart by activated_at
    call,       \* call[t]: the operation that holds the lock of t
    kills

files == <<current, record, rollback, installed, stamps>>
adapterVars == <<files, damaged, call, kills>>

\* The pointer: missing, inactive after a rollback to nothing, or to a deployment.
NoPointer == [ref |-> None, stamp |-> 0]
Inactive == [ref |-> None, stamp |-> 1]
PointerTo(d, n) == [ref |-> d, stamp |-> n]

NoRecord == [status |-> "none", previous |-> NoPointer, pointer |-> NoPointer]
NoRollback == [status |-> "none", restored |-> NoPointer]
NoCall == [op |-> "none", dep |-> None, at |-> "idle"]

Ops == {"deploy", "verify", "rollback", "verify_rollback", "readback"}

Dep(t) == call[t].dep
At(t, op, place) == call[t].op = op /\ call[t].at = place
Goto(t, place) == call' = [call EXCEPT ![t].at = place]

\* The operation ends with PASS or with an AdapterError.
Pass(t) == Goto(t, "PASS")
Refuse(t) == Goto(t, "FAIL")

\* _verify_release(): the files still match the manifest.
Intact(d) == d \in installed \ damaged

\* _verify_active_pointer()
ActiveIs(t, d) == current[t].ref = d /\ Intact(d)

(***************************************************************************)
(* deploy()                                                                *)
(***************************************************************************)
\* A process is started for an operation and gets the lock of the target.
Begin(op, d) ==
    /\ call[TargetOf[d]] = NoCall
    /\ call' = [call EXCEPT ![TargetOf[d]] = [op |-> op, dep |-> d, at |-> "begun"]]
    /\ UNCHANGED <<files, damaged, kills>>

\* Bug: the release is copied after the pointer has been switched.
InstallLater(t) ==
    /\ At(t, "deploy", "begun")
    /\ Goto(t, "installed")
    /\ UNCHANGED <<files, damaged, kills>>

\* _install_release(): staged, then moved into place as a whole.
Install(t) ==
    /\ At(t, "deploy", "begun")
    /\ IF Dep(t) \in damaged THEN Refuse(t) ELSE Goto(t, "installed")
    /\ installed' = installed \cup {Dep(t)}
    /\ UNCHANGED <<current, record, rollback, stamps, damaged, kills>>

\* The first call writes down what it is about to replace.
Prepare(t) ==
    /\ At(t, "deploy", "installed")
    /\ record[Dep(t)].status = "none"
    /\ record' = [record EXCEPT ![Dep(t)] =
                    [status |-> "PREPARED", previous |-> current[t], pointer |-> NoPointer]]
    /\ Goto(t, "point")
    /\ UNCHANGED <<current, rollback, installed, stamps, damaged, kills>>

\* Bug: a prepared deployment is pointed to whatever is live by now.
ReconcileBlindly(t) ==
    /\ At(t, "deploy", "installed")
    /\ record[Dep(t)].status = "PREPARED"
    /\ Goto(t, IF current[t].ref = Dep(t) THEN "check" ELSE "repoint")
    /\ UNCHANGED <<files, damaged, kills>>

\* A call that finds the record prepared: the pointer moved already, has to move, or
\* points to something else by now.
ReconcilePrepared(t) ==
    /\ At(t, "deploy", "installed")
    /\ record[Dep(t)].status = "PREPARED"
    /\ CASE current[t].ref = Dep(t) -> Goto(t, "check")
         [] current[t] = record[Dep(t)].previous -> Goto(t, "repoint")
         [] OTHER -> Refuse(t)
    /\ UNCHANGED <<files, damaged, kills>>

\* The pointer is switched, atomically.
Point(t) ==
    /\ \/ At(t, "deploy", "point") /\ Goto(t, "seal")
       \/ At(t, "deploy", "repoint") /\ Goto(t, "check")
    /\ stamps' = [stamps EXCEPT ![Dep(t)] = @ + 1]
    /\ current' = [current EXCEPT ![t] = PointerTo(Dep(t), stamps[Dep(t)] + 1)]
    /\ UNCHANGED <<record, rollback, installed, damaged, kills>>

\* A call that reconciles looks at the release once more.
CheckActive(t) ==
    /\ At(t, "deploy", "check")
    /\ IF ActiveIs(t, Dep(t)) THEN Goto(t, "seal") ELSE Refuse(t)
    /\ UNCHANGED <<files, damaged, kills>>

\* The record is sealed with the pointer.
SealActive(t) ==
    /\ At(t, "deploy", "seal")
    /\ record' = [record EXCEPT ![Dep(t)] =
                    [status |-> "ACTIVE", previous |-> @.previous, pointer |-> current[t]]]
    /\ Pass(t)
    /\ UNCHANGED <<current, rollback, installed, stamps, damaged, kills>>

\* A call that finds the record sealed passes while the pointer is the sealed one.
ReplayActive(t) ==
    /\ At(t, "deploy", "installed")
    /\ record[Dep(t)].status = "ACTIVE"
    /\ IF ActiveIs(t, Dep(t)) /\ record[Dep(t)].pointer = current[t] THEN Pass(t) ELSE Refuse(t)
    /\ UNCHANGED <<files, damaged, kills>>

(***************************************************************************)
(* rollback()                                                              *)
(***************************************************************************)
\* What a rollback of d brings back.
Restored(d) == IF record[d].previous.ref = None THEN Inactive ELSE record[d].previous

\* There is no such deployment, or the release it replaced is damaged.
CannotRestore(d) ==
    \/ record[d].status = "none"
    \/ record[d].previous.ref # None /\ ~ Intact(record[d].previous.ref)

RefuseRollback(t) ==
    /\ At(t, "rollback", "begun")
    /\ \/ CannotRestore(Dep(t))
       \/ rollback[Dep(t)].status = "none" /\ current[t].ref # Dep(t)
    /\ Refuse(t)
    /\ UNCHANGED <<files, damaged, kills>>

PrepareRollback(t) ==
    /\ At(t, "rollback", "begun")
    /\ ~ CannotRestore(Dep(t))
    /\ rollback[Dep(t)].status = "none"
    /\ current[t].ref = Dep(t)
    /\ rollback' = [rollback EXCEPT ![Dep(t)] =
                      [status |-> "PREPARED", restored |-> Restored(Dep(t))]]
    /\ Goto(t, "restore")
    /\ UNCHANGED <<current, record, installed, stamps, damaged, kills>>

\* A call that finds the rollback prepared.
ReconcileRollback(t) ==
    /\ At(t, "rollback", "begun")
    /\ ~ CannotRestore(Dep(t))
    /\ rollback[Dep(t)].status = "PREPARED"
    /\ CASE current[t] = Restored(Dep(t)) -> Goto(t, "complete")
         [] current[t].ref = Dep(t) -> Goto(t, "restore")
         [] OTHER -> Refuse(t)
    /\ UNCHANGED <<files, damaged, kills>>

RestorePointer(t) ==
    /\ At(t, "rollback", "restore")
    /\ current' = [current EXCEPT ![t] = Restored(Dep(t))]
    /\ Goto(t, "complete")
    /\ UNCHANGED <<record, rollback, installed, stamps, damaged, kills>>

CompleteRollback(t) ==
    /\ At(t, "rollback", "complete")
    /\ rollback' = [rollback EXCEPT ![Dep(t)].status = "COMPLETE"]
    /\ Pass(t)
    /\ UNCHANGED <<current, record, installed, stamps, damaged, kills>>

\* Bug: a rollback that was completed passes again without a look at the target.
ReplayRollbackBlindly(t) ==
    /\ At(t, "rollback", "begun")
    /\ ~ CannotRestore(Dep(t))
    /\ rollback[Dep(t)].status = "COMPLETE"
    /\ Pass(t)
    /\ UNCHANGED <<files, damaged, kills>>

\* A call that finds the rollback complete passes while the target is still restored.
ReplayRollback(t) ==
    /\ At(t, "rollback", "begun")
    /\ ~ CannotRestore(Dep(t))
    /\ rollback[Dep(t)].status = "COMPLETE"
    /\ IF current[t] = Restored(Dep(t)) THEN Pass(t) ELSE Refuse(t)
    /\ UNCHANGED <<files, damaged, kills>>

(***************************************************************************)
(* verify(), verify_rollback() and readback() only look                     *)
(***************************************************************************)
Verify(t) ==
    /\ At(t, "verify", "begun")
    /\ IF record[Dep(t)].status # "none" /\ ActiveIs(t, Dep(t)) THEN Pass(t) ELSE Refuse(t)
    /\ UNCHANGED <<files, damaged, kills>>

VerifyRollback(t) ==
    /\ At(t, "verify_rollback", "begun")
    /\ IF /\ rollback[Dep(t)].status = "COMPLETE"
          /\ current[t] = rollback[Dep(t)].restored
          /\ current[t].ref # None => Intact(current[t].ref)
       THEN Pass(t) ELSE Refuse(t)
    /\ UNCHANGED <<files, damaged, kills>>

\* The release is named by its manifest, which the event has to itself.
Readback(t) ==
    /\ At(t, "readback", "begun")
    /\ IF ActiveIs(t, Dep(t)) THEN Pass(t) ELSE Refuse(t)
    /\ UNCHANGED <<files, damaged, kills>>

\* The process exits and the caller has its answer.
Return(t) ==
    /\ call[t].at \in {"PASS", "FAIL"}
    /\ call' = [call EXCEPT ![t] = NoCall]
    /\ UNCHANGED <<files, damaged, kills>>

\* The process is killed: the caller gets no answer, the lock is free.
Kill(t) ==
    /\ call[t] # NoCall
    /\ kills < MaxKills
    /\ kills' = kills + 1
    /\ call' = [call EXCEPT ![t] = NoCall]
    /\ UNCHANGED <<files, damaged>>

\* The files of an installed release change on the disk.
Damage(d) ==
    /\ d \in installed \ damaged
    /\ damaged' = damaged \cup {d}
    /\ UNCHANGED <<files, call, kills>>

AdapterInit ==
    /\ current = [t \in Targets |-> NoPointer]
    /\ record = [d \in Deployments |-> NoRecord]
    /\ rollback = [d \in Deployments |-> NoRollback]
    /\ installed = {}
    /\ damaged = {}
    /\ stamps = [d \in Deployments |-> 0]
    /\ call = [t \in Targets |-> NoCall]
    /\ kills = 0

DeployStep(t) ==
    \/ Install(t) \/ Prepare(t) \/ ReconcilePrepared(t) \/ Point(t)
    \/ CheckActive(t) \/ SealActive(t) \/ ReplayActive(t)

RollbackStep(t) ==
    \/ RefuseRollback(t) \/ PrepareRollback(t) \/ ReconcileRollback(t) \/ RestorePointer(t)
    \/ CompleteRollback(t) \/ ReplayRollback(t)

OperationStep(t) ==
    DeployStep(t) \/ RollbackStep(t) \/ Verify(t) \/ VerifyRollback(t) \/ Readback(t)

\* Anybody may call any operation at any time, as from the command line.
Next ==
    \/ \E d \in Deployments : Damage(d) \/ \E op \in Ops : Begin(op, d)
    \/ \E t \in Targets : OperationStep(t) \/ Return(t) \/ Kill(t)

Spec == AdapterInit /\ [][Next]_adapterVars

(***************************************************************************)
(* Properties                                                               *)
(***************************************************************************)
Pointers == [ref : Deployments \cup {None}, stamp : Nat]
Places == {"idle", "begun", "installed", "point", "repoint", "check", "seal", "restore",
           "complete", "PASS", "FAIL"}

\* Every variable has its type.
AdapterTypeOK ==
    /\ current \in [Targets -> Pointers]
    /\ record \in [Deployments -> [status : {"none", "PREPARED", "ACTIVE"},
                                   previous : Pointers, pointer : Pointers]]
    /\ rollback \in [Deployments -> [status : {"none", "PREPARED", "COMPLETE"},
                                     restored : Pointers]]
    /\ installed \subseteq Deployments
    /\ damaged \subseteq installed
    /\ stamps \in [Deployments -> Nat]
    /\ call \in [Targets -> [op : Ops \cup {"none"}, dep : Deployments \cup {None}, at : Places]]
    /\ kills \in 0..MaxKills

\* Consumers resolve the pointer at any time: it never leads to a release that is not
\* in place, nor to one of another target.
PointerResolves ==
    \A t \in Targets : current[t].ref # None =>
        current[t].ref \in installed /\ TargetOf[current[t].ref] = t

\* A rollback that passes leaves the target as it was before the deployment.
PassMeansRestored ==
    \A t \in Targets :
        call[t].op \in {"rollback", "verify_rollback"} /\ call[t].at = "PASS" =>
            /\ rollback[Dep(t)].status = "COMPLETE"
            /\ current[t] = Restored(Dep(t))

\* The digest in a sealed record is that of the pointer the deployment has while it is
\* live: to deploy a release that is live again is never refused for the pointer.
SealStaysTrue ==
    \A d \in Deployments :
        record[d].status = "ACTIVE" /\ current[TargetOf[d]].ref = d =>
            record[d].pointer = current[TargetOf[d]]

\* The operations on a target, killed and repeated as they may be, replace and restore
\* releases in order.
Order == INSTANCE ReleaseOrder WITH
             live <- [t \in Targets |-> current[t].ref],
             prepared <- {d \in Deployments : record[d].status # "none"},
             under <- [d \in Deployments |-> record[d].previous.ref]
ImplementsOrder == Order!Spec

(***************************************************************************)
(* What the adapter does not promise.                                       *)
(***************************************************************************)
\* A completed rollback is not undone by a retry of the deployment.
RollbackStays ==
    \A d \in Deployments : rollback[d].status = "COMPLETE" => current[TargetOf[d]].ref # d
=============================================================================
