----------------------------- MODULE WebJournal -----------------------------
(***************************************************************************)
(* The recovery journal of RemoteX web authorization                        *)
(* (web_authorization_store.py, web_recovery.py): an integrity key and an   *)
(* envelope "uncertain-writes.json" that names the reservations which deny  *)
(* further writes.  All processes of a user share it under recovery.lock.   *)
(*                                                                          *)
(* A key without an envelope is ambiguous: an envelope that was never       *)
(* written cannot be told from one that was lost.  Nothing creates a new    *)
(* one then, except an owner's review (RecoveryService), which publishes an *)
(* envelope that holds one marker, records its intent and takes the marker  *)
(* away.  The process may die between any two of these steps.               *)
(*                                                                          *)
(* Abstracted: the MACs, the file identities, the backup of the key, and    *)
(* the contents of the audit ledger: what is left of it are the sessions    *)
(* with a record in it, from their first one on (site-requested).           *)
(***************************************************************************)
EXTENDS Naturals, FiniteSets

CONSTANTS
    Sessions,    \* the web sessions that may reserve
    Origin,      \* the origin of each session
    Processes,   \* processes that run the recovery service
    None,
    MaxReviews,  \* recovery identities that are drawn
    MaxLosses,   \* envelopes lost outside the program
    MaxDeaths    \* deaths, of these processes and of the sessions' ones

\* Recovery identities and sessions never coincide: both are random.
ASSUME JournalAssumption ==
    /\ MaxReviews \in Nat /\ MaxLosses \in Nat /\ MaxDeaths \in Nat
    /\ Sessions \cap (1 .. MaxReviews) = {}

VARIABLES
    key,      \* integrity.key exists
    version,  \* version of the envelope, 0 when there is none
    pending,  \* the entries of the envelope: sessions and recovery markers
    receipt,  \* the receipt file of each recovery identity: its phase, its ledger
    review,   \* per process: its RecoveryService
    drawn,    \* recovery identities drawn so far
    lost,     \* envelopes lost so far
    deaths,
    trusted,  \* history: no envelope is missing that no owner has accepted
    settledBy \* history: sessions whose lost entries an owner has accepted

store == <<key, version, pending>>
journalVars == <<key, version, pending, receipt, review, drawn, lost, deaths, trusted, settledBy>>

Markers == 1 .. MaxReviews

Receipts == [phase : {"none", "prepared", "finalization-intent"}, ledger : SUBSET Sessions]

Reviews ==
    [at : {"new", "preview", "pending", "stale", "cancelled", "committing", "prepared", "published",
           "intended", "blocked", "committed-unverified", "ready"},
     id : Markers \cup {None}, mode : {None, "initialize", "finalize"},
     cancelled : BOOLEAN, ledger : SUBSET Sessions]

\* A service that has seen nothing: RecoveryService.__init__.
NewReview == [at |-> "new", id |-> None, mode |-> None, cancelled |-> FALSE, ledger |-> {}]

JournalInit ==
    /\ key = FALSE /\ version = 0 /\ pending = {}
    /\ receipt = [i \in Markers |-> [phase |-> "none", ledger |-> {}]]
    /\ review = [p \in Processes |-> NewReview]
    /\ drawn = 0 /\ lost = 0 /\ deaths = 0
    /\ trusted = TRUE /\ settledBy = {}

(***************************************************************************)
(* Reservations.                                                            *)
(***************************************************************************)
\* _conflict: markers and old entries have no origin and conflict with all.
Conflicts(s, entry) == entry \in Sessions => Origin[entry] = Origin[s]

\* Journal._reserve for a site: the envelope loads, has version 2 and no
\* entry, not even this session's, conflicts.
CanReserve(s) == key /\ version = 2 /\ \A e \in pending : ~Conflicts(s, e)

\* The commit steps hold recovery.lock, so nothing else is written meanwhile.
Locked == \E p \in Processes : review[p].at \in {"prepared", "published", "intended"}

(***************************************************************************)
(* Creation, loss and upgrade.                                              *)
(***************************************************************************)
KeepRecovery == UNCHANGED <<receipt, review, drawn, lost, settledBy>>

\* A defect: the key alone does not stop the initialization.
CreateAnyway ==
    /\ ~Locked /\ version = 0
    /\ key' = TRUE /\ version' = 1 /\ pending' = {}
    /\ KeepRecovery /\ UNCHANGED <<deaths, trusted>>

\* Journal.__init__ (login of a session with granular authorization): only a
\* store without key and envelope is initialized.
Create ==
    /\ ~Locked /\ ~key /\ version = 0
    /\ key' = TRUE /\ version' = 1 /\ pending' = {}
    /\ KeepRecovery /\ UNCHANGED <<deaths, trusted>>

\* The process dies after _create_key and before _write.
CreateDies ==
    /\ ~Locked /\ ~key /\ version = 0 /\ deaths < MaxDeaths
    /\ key' = TRUE /\ deaths' = deaths + 1 /\ trusted' = FALSE
    /\ KeepRecovery /\ UNCHANGED <<version, pending>>

\* External: the envelope file disappears.
Lose ==
    /\ version # 0 /\ lost < MaxLosses
    /\ version' = 0 /\ pending' = {} /\ lost' = lost + 1 /\ trusted' = FALSE
    /\ UNCHANGED <<key, receipt, review, drawn, deaths, settledBy>>

\* upgrade_protocol(confirm=True): the inspection is repeated under the lock.
\* existing() refuses a key without an envelope.
Upgradable(idle) == (key <=> version # 0) /\ version < 2 /\ pending = {} /\ idle

Upgrade(idle) ==
    /\ ~Locked /\ Upgradable(idle)
    /\ key' = TRUE /\ version' = 2 /\ pending' = {}
    /\ KeepRecovery /\ UNCHANGED <<deaths, trusted>>

(***************************************************************************)
(* The recovery service of one process.                                     *)
(***************************************************************************)
KeepStore == UNCHANGED <<store, lost, deaths>>

Go(p, at) == review' = [review EXCEPT ![p].at = at]

\* preview: a key without an envelope gets a new identity; an envelope that
\* holds exactly one marker with a receipt may be finalized, unless the ledger
\* has grown since.  inspect_legacy_state, inspect_interrupted_recovery.
Preview(p, idle, ended) ==
    /\ review[p].at \notin {"preview", "pending", "committing", "prepared", "published", "intended"}
    /\ idle /\ key
    /\ \/ /\ version = 0 /\ drawn < MaxReviews
          /\ drawn' = drawn + 1
          /\ review' = [review EXCEPT ![p] = [at |-> "preview", id |-> drawn + 1,
                 mode |-> "initialize", cancelled |-> FALSE, ledger |-> ended]]
       \/ \E i \in Markers :
            /\ version = 2 /\ pending = {i}
            /\ receipt[i].phase # "none" /\ receipt[i].ledger = ended
            /\ review' = [review EXCEPT ![p] = [at |-> "preview", id |-> i,
                   mode |-> "finalize", cancelled |-> FALSE, ledger |-> ended]]
            /\ UNCHANGED drawn
    /\ KeepStore /\ UNCHANGED <<receipt, trusted, settledBy>>

\* recheck_legacy_evidence: still idle, and nothing recorded since the preview
\* that concerns web sessions.
Fresh(p, idle, ended) == idle /\ ended = review[p].ledger

\* The same in mode initialize: still without an envelope.
Evident(p, idle, ended) ==
    Fresh(p, idle, ended) /\ (review[p].mode = "initialize" => key /\ version = 0)

\* _current: neither cancelled nor expired, and idle.
Current(p, idle) == ~review[p].cancelled /\ idle

\* open: the owner's window is shown, or the evidence is stale.
Open(p, idle, ended) ==
    /\ review[p].at = "preview"
    /\ Go(p, IF Evident(p, idle, ended) THEN "pending" ELSE "stale")
    /\ KeepStore /\ UNCHANGED <<receipt, drawn, trusted, settledBy>>

\* _decision: the owner states that all prior effects are reconciled.  The
\* decision covers the sessions whose records the preview has shown.
Decide(p, idle) ==
    /\ review[p].at = "pending" /\ Current(p, idle)
    /\ Go(p, "committing")
    /\ settledBy' = IF review[p].mode = "initialize" THEN settledBy \cup review[p].ledger ELSE settledBy
    /\ KeepStore /\ UNCHANGED <<receipt, drawn, trusted>>

\* cancel, _cancel_review and the expiry of the review: the event is set
\* without the lock, also while the decision is being committed.
Cancel(p) ==
    /\ ~review[p].cancelled /\ review[p].at \notin {"new", "ready"}
    /\ review' = [review EXCEPT ![p].cancelled = TRUE,
           ![p].at = IF @ \in {"preview", "pending"} THEN "cancelled" ELSE @]
    /\ KeepStore /\ UNCHANGED <<receipt, drawn, trusted, settledBy>>

\* recover_key_only_v2 up to the prepared receipt, or finalize_recovery_v2 up
\* to _finish_locked: takes recovery.lock, or fails and leaves it.
Prepare(p, idle, ended) ==
    /\ review[p].at = "committing" /\ ~Locked
    /\ IF Evident(p, idle, ended) /\ Current(p, idle)
       THEN IF review[p].mode = "initialize"
            THEN /\ Go(p, "prepared")
                 /\ receipt' = [receipt EXCEPT ![review[p].id] =
                        [phase |-> "prepared", ledger |-> review[p].ledger]]
            ELSE Go(p, "published") /\ UNCHANGED receipt
       ELSE Go(p, "blocked") /\ UNCHANGED receipt
    /\ KeepStore /\ UNCHANGED <<drawn, trusted, settledBy>>

\* _publish_initial: the marker appears, never over an existing envelope.
Publish(p, idle, ended) ==
    /\ review[p].at = "prepared"
    /\ IF Evident(p, idle, ended) /\ Current(p, idle) /\ version = 0
       THEN Go(p, "published") /\ version' = 2 /\ pending' = {review[p].id}
       ELSE Go(p, "blocked") /\ UNCHANGED <<version, pending>>
    /\ UNCHANGED <<key, receipt, drawn, lost, deaths, trusted, settledBy>>

\* _finish_locked requires the envelope to hold this marker alone.
OnlyMarker(p) == version = 2 /\ pending = {review[p].id}

\* _finish_locked, first half: the audit record and the receipt's intent.
Intend(p, idle, ended) ==
    /\ review[p].at = "published"
    /\ \/ /\ OnlyMarker(p) /\ Current(p, idle) /\ Fresh(p, idle, ended)
          /\ Go(p, "intended") /\ receipt' = [receipt EXCEPT ![review[p].id].phase = "finalization-intent"]
       \/ Go(p, "committed-unverified") /\ UNCHANGED receipt   \* a check or a write fails
    /\ KeepStore /\ UNCHANGED <<drawn, trusted, settledBy>>

\* _finish_locked, second half: the marker is taken away.
Finish(p, idle, ended) ==
    /\ review[p].at = "intended"
    /\ \/ /\ OnlyMarker(p) /\ Current(p, idle) /\ Fresh(p, idle, ended)
          /\ Go(p, "ready") /\ pending' = pending \ {review[p].id} /\ trusted' = TRUE
       \/ Go(p, "committed-unverified") /\ UNCHANGED <<pending, trusted>>
    /\ UNCHANGED <<key, version, receipt, drawn, lost, deaths, settledBy>>

\* The process dies and is started again: its service forgets everything, and
\* the operating system releases its lock.
ProcessDies(p) ==
    /\ deaths < MaxDeaths /\ review[p].at # "new"
    /\ review' = [review EXCEPT ![p] = NewReview] /\ deaths' = deaths + 1
    /\ UNCHANGED <<store, receipt, drawn, lost, trusted, settledBy>>

\* ended: the sessions with a record in the ledger.
JournalNext(idle, ended) ==
    \/ Create \/ CreateDies \/ Lose \/ Upgrade(idle)
    \/ \E p \in Processes :
        \/ Preview(p, idle, ended) \/ Open(p, idle, ended) \/ Decide(p, idle) \/ Cancel(p)
        \/ Prepare(p, idle, ended) \/ Publish(p, idle, ended)
        \/ Intend(p, idle, ended) \/ Finish(p, idle, ended) \/ ProcessDies(p)
=============================================================================
