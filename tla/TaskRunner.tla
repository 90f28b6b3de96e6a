----------------------------- MODULE TaskRunner -----------------------------
(***************************************************************************)
(* One resumable SSH task of RemoteX (plugins/remotex/src/task_manager.py   *)
(* and task_worker.py).                                                     *)
(*                                                                         *)
(* A server process starts a detached worker process, and from then on the  *)
(* two, and every other server process, share the files of the task's       *)
(* directory only, without a lock.  A step is one file operation, one       *)
(* signal or one look at a process; _write_json replaces a file at once and *)
(* creates the directory when it is missing.                                *)
(*                                                                         *)
(* A killed worker may still complete the operation it is in: the kill      *)
(* returns when the signal is sent.  The SSH process that runs the script   *)
(* is a child of the worker with a session of its own (start_new_session,   *)
(* execution.py): a signal to the worker's group does not reach it, and the *)
(* worker has no handler that would pass it on.  On Windows a job object    *)
(* ends the child with its worker, which is one of the ends the child may   *)
(* come to here.  Tasks do not share anything, so one task is the whole     *)
(* story.                                                                   *)
(***************************************************************************)
EXTENDS Naturals

CONSTANT Clients     \* processes that call cancel or collect once they know the id

VARIABLES
    files,       \* the task directory: spec.json, state.json, result.json, worker.pid
    starter,     \* where start() is in the server that starts the task
    pipe,        \* the worker's stdin: "open", "sent" or "closed"
    worker,      \* where run() is in the worker
    dying,       \* the worker was sent SIGTERM
    script,      \* the SSH process: "none", "running" or "over"
    client       \* client[c]: where c is in cancel() or collect()

taskVars == <<files, starter, pipe, worker, dying, script, client>>

NoFiles == [spec |-> FALSE, state |-> "none", result |-> "none", pid |-> FALSE]

Alive == worker \notin {"none", "exited"}

\* status(): the result decides; without one a dead worker makes the task orphaned.
StatusTrusting ==
    IF files.result # "none" THEN files.result ELSE files.state

Status ==
    IF files.result # "none" THEN files.result
    ELSE IF ~ (files.pid /\ Alive) /\ files.state \in {"starting", "running"} THEN "orphaned"
    ELSE files.state

(***************************************************************************)
(* start() and _start_owned()                                              *)
(***************************************************************************)
StartGoto(place) == starter' = place

WriteSpec ==
    /\ starter = "idle"
    /\ files' = [files EXCEPT !.spec = TRUE]
    /\ StartGoto("state")
    /\ UNCHANGED <<pipe, worker, dying, script, client>>

WriteStarting ==
    /\ starter = "state"
    /\ files' = [files EXCEPT !.state = "starting"]
    /\ StartGoto("spawn")
    /\ UNCHANGED <<pipe, worker, dying, script, client>>

Spawn ==
    /\ starter = "spawn"
    /\ worker' = "boot"
    /\ pipe' = "open"
    /\ StartGoto("pid")
    /\ UNCHANGED <<files, dying, script, client>>

WritePid ==
    /\ starter = "pid"
    /\ files' = [files EXCEPT !.pid = TRUE]
    /\ StartGoto("send")
    /\ UNCHANGED <<pipe, worker, dying, script, client>>

SendPayload ==
    /\ starter = "send"
    /\ pipe' = "sent"
    /\ StartGoto("ack")
    /\ UNCHANGED <<files, worker, dying, script, client>>

\* _wait_for_worker_ack() reads state.json, then looks whether the worker lives.
ReadAck ==
    /\ starter = "ack"
    /\ StartGoto(IF files.state \in {"none", "starting"} THEN "poll" ELSE "started")
    /\ UNCHANGED <<files, pipe, worker, dying, script, client>>

PollWorker ==
    /\ starter = "poll"
    /\ StartGoto(IF Alive THEN "ack" ELSE "kill")
    /\ UNCHANGED <<files, pipe, worker, dying, script, client>>

\* Popen, the pid file or the pipe fails, or no acknowledgement comes in
\* TASK_START_ACK_SECONDS.
StartFails ==
    /\ starter \in {"spawn", "pid", "send", "ack", "poll"}
    /\ StartGoto("kill")
    /\ UNCHANGED <<files, pipe, worker, dying, script, client>>

\* _terminate_failed_start(): close the pipe, kill the worker ...
KillFailedStart ==
    /\ starter = "kill"
    /\ pipe' = IF pipe = "sent" THEN "sent" ELSE "closed"
    /\ dying' = (dying \/ Alive)
    /\ StartGoto("remove")
    /\ UNCHANGED <<files, worker, script, client>>

\* ... and remove the directory.
RemoveFailedStart ==
    /\ starter = "remove"
    /\ files' = NoFiles
    /\ StartGoto("failed")
    /\ UNCHANGED <<pipe, worker, dying, script, client>>

\* The server dies before start() returned: nobody knows the task's id, and the
\* worker's pipe ends.
StarterDies ==
    /\ starter \notin {"idle", "started", "failed", "dead"}
    /\ pipe' = IF pipe = "sent" THEN "sent" ELSE "closed"
    /\ StartGoto("dead")
    /\ UNCHANGED <<files, worker, dying, script, client>>

(***************************************************************************)
(* run() in the worker                                                     *)
(***************************************************************************)
\* A worker under a pending kill gets no further than the operation it is in.
WorkGoto(place) == worker' = IF dying THEN "exited" ELSE place

\* Without a specification the worker ends at once, with a traceback.
Boot ==
    /\ worker = "boot"
    /\ WorkGoto(IF files.spec THEN "payload" ELSE "exited")
    /\ UNCHANGED <<files, starter, pipe, dying, script, client>>

ReadPayload ==
    /\ worker = "payload"
    /\ pipe # "open"
    /\ WorkGoto(IF pipe = "sent" THEN "running" ELSE "failing")
    /\ UNCHANGED <<files, starter, pipe, dying, script, client>>

WriteRunning ==
    /\ worker = "running"
    /\ files' = [files EXCEPT !.state = "running"]
    /\ WorkGoto("queue")
    /\ UNCHANGED <<starter, pipe, dying, script, client>>

\* _queue_operation(): the requester may have lost the machine since start(), and the
\* SSH process may not start.  Popen is one operation, which a kill does not undo.
EnterQueue ==
    /\ worker = "queue"
    /\ \/ WorkGoto("script") /\ script' = "running"
       \/ WorkGoto("failing") /\ UNCHANGED script
    /\ UNCHANGED <<files, starter, pipe, dying, client>>

\* execution.run_process() returns with an exit code: the SSH process ended, by itself
\* or by terminate_tree() at the time limit or the output limit.
ScriptReturns ==
    /\ worker = "script"
    /\ script' = "over"
    /\ WorkGoto("completing")
    /\ UNCHANGED <<files, starter, pipe, dying, client>>

\* It raises, with the process over or not (a process that outlives both terminations).
ScriptRaises ==
    /\ worker = "script"
    /\ script' \in {script, "over"}
    /\ WorkGoto("failing")
    /\ UNCHANGED <<files, starter, pipe, dying, client>>

\* The remote script ends, or the connection does, whether or not a worker is there to see it.
SshEnds ==
    /\ script = "running"
    /\ script' = "over"
    /\ UNCHANGED <<files, starter, pipe, worker, dying, client>>

Outcome == IF worker \in {"completing", "completed"} THEN "completed" ELSE "failed"

WriteResult ==
    /\ worker \in {"completing", "failing"}
    /\ files' = [files EXCEPT !.result = Outcome]
    /\ WorkGoto(Outcome)
    /\ UNCHANGED <<starter, pipe, dying, script, client>>

WriteFinished ==
    /\ worker \in {"completed", "failed"}
    /\ files' = [files EXCEPT !.state = Outcome]
    /\ WorkGoto("exited")
    /\ UNCHANGED <<starter, pipe, dying, script, client>>

\* A file cannot be written: run() goes to its except clause, from where it writes
\* both files again, result.json of a completed script included.
WriteFails ==
    /\ worker \in {"running", "completing", "completed"}
    /\ WorkGoto("failing")
    /\ UNCHANGED <<files, starter, pipe, dying, script, client>>

\* The pending kill, or a kill from outside, ends the worker; its SSH process goes on.
WorkerDies ==
    /\ Alive
    /\ worker' = "exited"
    /\ UNCHANGED <<files, starter, pipe, dying, script, client>>

(***************************************************************************)
(* cancel() and collect(), by whoever got the id from start()              *)
(***************************************************************************)
ClientGoto(c, place) == client' = [client EXCEPT ![c] = place]

\* cancel() leaves a finished task alone.
BeginCancel(c) ==
    /\ client[c] = "idle"
    /\ starter = "started"
    /\ files.result = "none"
    /\ ClientGoto(c, "kill")
    /\ UNCHANGED <<files, starter, pipe, worker, dying, script>>

\* Without worker.pid, or with a dead worker, nothing is killed.
CancelKill(c) ==
    /\ client[c] = "kill"
    /\ dying' = (dying \/ (files.pid /\ Alive))
    /\ ClientGoto(c, "result")
    /\ UNCHANGED <<files, starter, pipe, worker, script>>

CancelResult(c) ==
    /\ client[c] = "result"
    /\ files' = [files EXCEPT !.result = "cancelled"]
    /\ ClientGoto(c, "state")
    /\ UNCHANGED <<starter, pipe, worker, dying, script>>

CancelState(c) ==
    /\ client[c] = "state"
    /\ files' = [files EXCEPT !.state = "cancelled"]
    /\ ClientGoto(c, "idle")
    /\ UNCHANGED <<starter, pipe, worker, dying, script>>

\* collect() without cleanup only reads.
BeginCollect(c) ==
    /\ client[c] = "idle"
    /\ starter = "started"
    /\ files.result # "none"
    /\ ClientGoto(c, "wait")
    /\ UNCHANGED <<files, starter, pipe, worker, dying, script>>

\* Bug: cleanup does not wait for the worker.
CleanupAtOnce(c) ==
    /\ client[c] = "wait"
    /\ ClientGoto(c, "remove")
    /\ UNCHANGED <<files, starter, pipe, worker, dying, script>>

\* _wait_for_worker_exit(): refused if the worker does not end in time.
AwaitExit(c) ==
    /\ client[c] = "wait"
    /\ ClientGoto(c, IF files.pid /\ Alive THEN "idle" ELSE "remove")
    /\ UNCHANGED <<files, starter, pipe, worker, dying, script>>

RemoveDirectory(c) ==
    /\ client[c] = "remove"
    /\ files' = NoFiles
    /\ ClientGoto(c, "idle")
    /\ UNCHANGED <<starter, pipe, worker, dying, script>>

\* A client dies in the middle of a call; another one takes its place.
ClientDies(c) ==
    /\ client[c] # "idle"
    /\ ClientGoto(c, "idle")
    /\ UNCHANGED <<files, starter, pipe, worker, dying, script>>

(***************************************************************************)
(* Specification                                                           *)
(***************************************************************************)
TaskInit ==
    /\ files = NoFiles
    /\ starter = "idle"
    /\ pipe = "closed"
    /\ worker = "none"
    /\ dying = FALSE
    /\ script = "none"
    /\ client = [c \in Clients |-> "idle"]

Start ==
    \/ WriteSpec
    \/ WriteStarting
    \/ Spawn
    \/ WritePid
    \/ SendPayload
    \/ ReadAck
    \/ PollWorker
    \/ StartFails
    \/ KillFailedStart
    \/ RemoveFailedStart
    \/ StarterDies

Work ==
    \/ Boot
    \/ ReadPayload
    \/ WriteRunning
    \/ EnterQueue
    \/ ScriptReturns
    \/ ScriptRaises
    \/ WriteResult
    \/ WriteFinished
    \/ WriteFails

CancelTask(c) == BeginCancel(c) \/ CancelKill(c) \/ CancelResult(c) \/ CancelState(c)

Collect(c) == BeginCollect(c) \/ AwaitExit(c) \/ RemoveDirectory(c)

TaskNext ==
    \/ Start
    \/ Work
    \/ WorkerDies
    \/ SshEnds
    \/ \E c \in Clients : CancelTask(c) \/ Collect(c) \/ ClientDies(c)

TaskSpec == TaskInit /\ [][TaskNext]_taskVars

\* The worker goes on by itself: run_process() has a timeout.  Nobody has to call
\* anything.
FairTaskSpec == TaskSpec /\ WF_taskVars(Work)

(***************************************************************************)
(* Properties                                                              *)
(***************************************************************************)
Outcomes == {"completed", "failed", "cancelled"}

TaskTypeOK ==
    /\ files \in [spec : BOOLEAN, state : {"none", "starting", "running"} \cup Outcomes,
                  result : {"none"} \cup Outcomes, pid : BOOLEAN]
    /\ starter \in {"idle", "state", "spawn", "pid", "send", "ack", "poll", "kill",
                    "remove", "started", "failed", "dead"}
    /\ pipe \in {"open", "sent", "closed"}
    /\ worker \in {"none", "boot", "payload", "running", "queue", "script", "completing",
                   "failing", "completed", "failed", "exited"}
    /\ dying \in BOOLEAN
    /\ script \in {"none", "running", "over"}
    /\ client \in [Clients -> {"idle", "kill", "result", "state", "wait", "remove"}]

\* Cleanup never pulls the directory away under the worker, which would write
\* its files into a new one: whoever is about to remove the directory knows
\* that the worker has exited.
CleanupAfterExit ==
    (\E c \in Clients : client[c] = "remove") => worker = "exited"

\* A task that is reported completed has no SSH process left: the exit code in its
\* result is that of a process that ended.
CompletedIsOver ==
    files.result = "completed" => script = "over"

\* A start that failed leaves no worker that goes on (an SSH process it has already
\* started does: only the worker is killed).
FailedStartStops ==
    starter = "failed" => ~ Alive \/ dying

\* Nobody is told "running" for ever: a started task ends up finished, orphaned
\* or removed, whoever dies on the way.
StatusSettles ==
    starter = "started" ~> Status \notin {"starting", "running"}

\* The description of remotex_ssh_task_cancel: "terminate the task worker and its SSH
\* process tree".  It does not hold: the kill reaches the worker's group only, so the
\* script of a cancelled task may go on, without a worker and so without a limit.
CancelStopsScript ==
    files.result = "cancelled" /\ worker = "exited" => script # "running"

\* cancel() is idempotent and reports a finished task as "already-finished": it
\* does not replace the outcome of a task that completed or failed.
FinishedStays ==
    [][files.result \in {"completed", "failed"} => files'.result # "cancelled"]_taskVars
=============================================================================
