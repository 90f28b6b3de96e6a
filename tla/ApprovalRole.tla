---------------------------- MODULE ApprovalRole ----------------------------
(***************************************************************************)
(* One approver's side of one release request: the release-approval plugin  *)
(* (plugins/release-approval/src).                                          *)
(*                                                                         *)
(* A scheduled run_once reads the request from the mailbox, checkpoints it  *)
(* and sends decisions that are recorded but not sent.  open_page starts a  *)
(* loopback page with a one-time nonce in a server process; a handler       *)
(* thread of the page records the approver's decision in the database,      *)
(* sends it by mail and records what became of the mail.                    *)
(*                                                                         *)
(* Runs, server processes and handler threads share a SQLite database and   *)
(* the file page-state.json.  A step is one transaction, one mail or one    *)
(* update of page-state.json.  Any step may raise, any process may die.     *)
(* Events, rounds and roles do not interfere, so one of each is enough.     *)
(***************************************************************************)
EXTENDS Naturals

CONSTANTS
    Servers,        \* processes that open pages: the MCP server, the CLI's open-page
    Posts,          \* handler threads
    Verdicts,       \* decision and comment: what the identity of a decision is made of
    None,
    MaxPages,       \* bound on the pages opened
    MaxSecond,      \* bound on the clock, in seconds, the unit of decided_at
    AuditRequired   \* lark_audit is configured as required, not as optional

ASSUME RoleAssumption ==
    /\ None \notin Verdicts
    /\ None \notin Servers
    /\ MaxPages \in Nat
    /\ MaxSecond \in Nat
    /\ AuditRequired \in BOOLEAN

VARIABLES
    checkpoint,   \* what runs have stored about the request
    decidedAt,    \* decisions table: decidedAt[v] is decided_at of v, or Never
    current,      \* the decision that is not superseded
    outcome,      \* the latest row of smtp_outcomes
    mailed,       \* the decisions that were delivered by mail
    nonceFile,    \* page-state.json: the page it belongs to, and its nonce's state
    page,         \* page[s]: the page object of the s-th page session
    opener,       \* opener[m]: where open_page is in m, and for which page
    post,         \* post[t]: the submission thread t handles
    scan,         \* the run that holds the run-once lock
    clock, expired

store == <<checkpoint, decidedAt, current, outcome>>
pages == <<nonceFile, page, opener>>
time == <<clock, expired>>
vars == <<checkpoint, decidedAt, current, outcome, mailed, nonceFile, page, opener,
          post, scan, clock, expired>>

Sessions == 1 .. MaxPages
Seconds == 0 .. MaxSecond
Never == MaxSecond + 1

Recorded == {v \in Verdicts : decidedAt[v] # Never}

NoPage == [home |-> None, live |-> FALSE, reserved |-> FALSE, used |-> FALSE]
\* decided: the decided_at of a decision that is not recorded yet.
NoPost == [at |-> "idle", page |-> 0, verdict |-> None, decided |-> 0, sent |-> FALSE]
\* new: the message was not stored before this run.
NoScan == [at |-> "idle", new |-> FALSE, verdict |-> None, sent |-> FALSE]

(***************************************************************************)
(* run_once()                                                              *)
(***************************************************************************)
ScanGoto(place) == scan' = [scan EXCEPT !.at = place]

\* The run-once lock is free, and the request is still in the mailbox, authentic
\* and valid.  A run that finds the lock taken returns RUN_ALREADY_ACTIVE.
BeginScan ==
    /\ scan.at = "idle"
    /\ ~ expired
    /\ ScanGoto("message")
    /\ UNCHANGED <<store, mailed, pages, post, time>>

\* _record_message_checkpoint(): the message is new unless it is stored already.
CheckpointMessage ==
    /\ scan.at = "message"
    /\ scan' = [scan EXCEPT !.at = "request", !.new = ~ checkpoint.message]
    /\ checkpoint' = [checkpoint EXCEPT !.message = TRUE]
    /\ UNCHANGED <<decidedAt, current, outcome, mailed, pages, post, time>>

CheckpointRequest ==
    /\ scan.at = "request"
    /\ checkpoint' = [checkpoint EXCEPT !.request = TRUE]
    /\ ScanGoto("authenticate")
    /\ UNCHANGED <<decidedAt, current, outcome, mailed, pages, post, time>>

CheckpointAuthenticated ==
    /\ scan.at = "authenticate"
    /\ checkpoint' = [checkpoint EXCEPT !.authenticated = TRUE]
    /\ ScanGoto(IF scan.new THEN "audit" ELSE "decision")
    /\ UNCHANGED <<decidedAt, current, outcome, mailed, pages, post, time>>

\* REQUEST_CREATED is written to the cloud audit, for a new message only.
AuditRequest ==
    /\ scan.at = "audit"
    /\ checkpoint' = [checkpoint EXCEPT !.created = "written"]
    /\ ScanGoto("decision")
    /\ UNCHANGED <<decidedAt, current, outcome, mailed, pages, post, time>>

\* The cloud audit fails: recorded as degraded if optional, an error if required.
AuditRequestFails ==
    /\ scan.at = "audit"
    /\ IF AuditRequired
       THEN scan' = NoScan /\ UNCHANGED checkpoint
       ELSE /\ checkpoint' = [checkpoint EXCEPT !.created = "degraded"]
            /\ ScanGoto("decision")
    /\ UNCHANGED <<decidedAt, current, outcome, mailed, pages, post, time>>

\* _retry_unsent_decision() reads the current decision ...
ReadDecision ==
    /\ scan.at = "decision"
    /\ scan' = IF current = None
               THEN NoScan
               ELSE [scan EXCEPT !.at = "smtp", !.verdict = current]
    /\ UNCHANGED <<store, mailed, pages, post, time>>

\* Bug: a decision without an outcome is taken for sent.
ReadOutcomeQueuedOnly ==
    /\ scan.at = "smtp"
    /\ scan' = IF outcome # "RETRY_QUEUED" THEN NoScan ELSE [scan EXCEPT !.at = "send"]
    /\ UNCHANGED <<store, mailed, pages, post, time>>

\* ... and the latest SMTP outcome of the role, whichever decision it is of.
ReadOutcome ==
    /\ scan.at = "smtp"
    /\ scan' = IF outcome = "SENT" THEN NoScan ELSE [scan EXCEPT !.at = "send"]
    /\ UNCHANGED <<store, mailed, pages, post, time>>

\* What send_email() may do: deliver and say so, or fail, refuse or time out,
\* in which case the mail may have been delivered nevertheless.
Mail(verdict, delivered, sent) ==
    /\ sent => delivered
    /\ mailed' = IF delivered THEN mailed \cup {verdict} ELSE mailed

RetrySends(delivered, sent) ==
    /\ scan.at = "send"
    /\ Mail(scan.verdict, delivered, sent)
    /\ scan' = [scan EXCEPT !.at = "outcome", !.sent = sent]
    /\ UNCHANGED <<store, pages, post, time>>

OutcomeOf(sent) == IF sent THEN "SENT" ELSE "RETRY_QUEUED"

RetryOutcome ==
    /\ scan.at = "outcome"
    /\ outcome' = OutcomeOf(scan.sent)
    /\ scan' = NoScan
    /\ UNCHANGED <<checkpoint, decidedAt, current, mailed, pages, post, time>>

\* The run's process dies or the run raises.  The kernel releases its lock.
ScanDies ==
    /\ scan.at # "idle"
    /\ scan' = NoScan
    /\ UNCHANGED <<store, mailed, pages, post, time>>

(***************************************************************************)
(* open_page()                                                             *)
(***************************************************************************)
\* Bug: a page is opened for any stored request.
ClosePageUnauthenticated(m) ==
    /\ opener[m].at = "idle"
    /\ checkpoint.request
    /\ page' = [s \in Sessions |-> IF page[s].home = m
                                   THEN [page[s] EXCEPT !.live = FALSE] ELSE page[s]]
    /\ opener' = [opener EXCEPT ![m] = [at |-> "create", page |-> 0]]
    /\ UNCHANGED <<store, mailed, nonceFile, post, scan, time>>

\* _rotate_page_session(): only for an authenticated request.  The server of m's
\* live page stops to accept; its handler threads go on.
ClosePage(m) ==
    /\ opener[m].at = "idle"
    /\ checkpoint.authenticated
    /\ page' = [s \in Sessions |-> IF page[s].home = m
                                   THEN [page[s] EXCEPT !.live = FALSE] ELSE page[s]]
    /\ opener' = [opener EXCEPT ![m] = [at |-> "create", page |-> 0]]
    /\ UNCHANGED <<store, mailed, nonceFile, post, scan, time>>

\* create_page_session() writes a new page-state.json over the old one.
CreatePage(m, s) ==
    /\ opener[m].at = "create"
    /\ page[s].home = None
    /\ \A earlier \in 1 .. s - 1 : page[earlier].home # None
    /\ page' = [page EXCEPT ![s].home = m]
    /\ nonceFile' = [page |-> s, state |-> "fresh"]
    /\ opener' = [opener EXCEPT ![m] = [at |-> "start", page |-> s]]
    /\ UNCHANGED <<store, mailed, post, scan, time>>

\* _ensure_live_page() loads what page-state.json says, which must be the new
\* page's, and serves the page.
StartPage(m) ==
    /\ opener[m].at = "start"
    /\ nonceFile.page = opener[m].page
    /\ page' = [page EXCEPT ![opener[m].page] =
                   [home |-> m, live |-> TRUE, reserved |-> nonceFile.state = "reserved",
                    used |-> nonceFile.state = "used"]]
    /\ opener' = [opener EXCEPT ![m] = [at |-> "idle", page |-> 0]]
    /\ UNCHANGED <<store, mailed, nonceFile, post, scan, time>>

\* open_page raises: no capability to reply, or another process has rotated too.
OpenFails(m) ==
    /\ opener[m].at # "idle"
    /\ opener' = [opener EXCEPT ![m] = [at |-> "idle", page |-> 0]]
    /\ UNCHANGED <<store, mailed, nonceFile, page, post, scan, time>>

\* A server process dies, and with it its page and its handler threads.
ServerDies(m) ==
    /\ \E s \in Sessions : page[s].home = m /\ (page[s].live \/ \E t \in Posts : post[t].page = s)
    /\ page' = [s \in Sessions |-> IF page[s].home = m
                                   THEN [page[s] EXCEPT !.live = FALSE] ELSE page[s]]
    /\ post' = [t \in Posts |-> IF post[t].page \in Sessions /\ page[post[t].page].home = m
                                THEN NoPost ELSE post[t]]
    /\ opener' = [opener EXCEPT ![m] = [at |-> "idle", page |-> 0]]
    /\ UNCHANGED <<store, mailed, nonceFile, scan, time>>

(***************************************************************************)
(* _handle_submission() in a handler thread                                *)
(***************************************************************************)
PostGoto(t, place) == post' = [post EXCEPT ![t].at = place]

\* Bug: the nonce is checked and reserved in page-state.json only.
ReserveUnlocked(t, s, v) ==
    /\ post[t].at = "idle"
    /\ page[s].live
    /\ ~ expired
    /\ page' = [page EXCEPT ![s].reserved = TRUE]
    /\ nonceFile' = [nonceFile EXCEPT !.state = "reserved"]
    /\ post' = [post EXCEPT ![t] = [NoPost EXCEPT !.at = "validate", !.page = s, !.verdict = v]]
    /\ UNCHANGED <<store, mailed, opener, scan, time>>

\* A valid form arrives at page s: _reserve_nonce().
Reserve(t, s, v) ==
    /\ post[t].at = "idle"
    /\ page[s].live
    /\ ~ expired
    /\ ~ page[s].used
    /\ ~ page[s].reserved
    /\ nonceFile.state = "fresh"
    /\ page' = [page EXCEPT ![s].reserved = TRUE]
    /\ nonceFile' = [nonceFile EXCEPT !.state = "reserved"]
    /\ post' = [post EXCEPT ![t] = [NoPost EXCEPT !.at = "validate", !.page = s, !.verdict = v]]
    /\ UNCHANGED <<store, mailed, opener, scan, time>>

\* page-state.json says that the nonce is used or reserved: the page believes it.
ReserveRefused(s) ==
    /\ page[s].live
    /\ ~ expired
    /\ ~ page[s].used
    /\ ~ page[s].reserved
    /\ nonceFile.state # "fresh"
    /\ page' = [page EXCEPT ![s].used = nonceFile.state = "used",
                            ![s].reserved = nonceFile.state = "reserved"]
    /\ UNCHANGED <<store, mailed, nonceFile, opener, post, scan, time>>

\* submit_local_decision() validates and looks for a decision to send again.
ReuseDecision(t) ==
    /\ post[t].at = "validate"
    /\ ~ expired
    /\ post' = IF current = post[t].verdict
               THEN [post EXCEPT ![t].at = "send"]
               ELSE [post EXCEPT ![t].at = "record", ![t].decided = clock]
    /\ UNCHANGED <<store, mailed, pages, scan, time>>

\* Bug: the decision is sent before it is recorded.
RecordLater(t) ==
    /\ post[t].at = "record"
    /\ PostGoto(t, "send")
    /\ UNCHANGED <<store, mailed, pages, scan, time>>

\* record_decision(): a new decision supersedes the current one.  The same
\* decision of the same second is returned as it is stored, superseded or not;
\* of another second it is refused (PostFails).
RecordDecision(t) ==
    /\ post[t].at = "record"
    /\ decidedAt[post[t].verdict] \in {Never, post[t].decided}
    /\ IF decidedAt[post[t].verdict] = Never
       THEN /\ decidedAt' = [decidedAt EXCEPT ![post[t].verdict] = post[t].decided]
            /\ current' = post[t].verdict
       ELSE UNCHANGED <<decidedAt, current>>
    /\ post' = [post EXCEPT ![t].at = "send", ![t].decided = 0]
    /\ UNCHANGED <<checkpoint, outcome, mailed, pages, scan, time>>

SendDecision(t, delivered, sent) ==
    /\ post[t].at = "send"
    /\ Mail(post[t].verdict, delivered, sent)
    /\ post' = [post EXCEPT ![t].at = "outcome", ![t].sent = sent]
    /\ UNCHANGED <<store, pages, scan, time>>

\* Bug: a mail that was not accepted is recorded as sent.
RecordOutcomeSent(t) ==
    /\ post[t].at = "outcome"
    /\ outcome' = "SENT"
    /\ PostGoto(t, "finish")
    /\ UNCHANGED <<checkpoint, decidedAt, current, mailed, pages, scan, time>>

RecordOutcome(t) ==
    /\ post[t].at = "outcome"
    /\ outcome' = OutcomeOf(post[t].sent)
    /\ PostGoto(t, "finish")
    /\ UNCHANGED <<checkpoint, decidedAt, current, mailed, pages, scan, time>>

\* The nonce of s can be used again: _release_reserved_nonce().
ReleaseNonce(s) ==
    /\ page' = [page EXCEPT ![s].reserved = FALSE]
    /\ nonceFile' = IF nonceFile.state = "reserved"
                    THEN [nonceFile EXCEPT !.state = "fresh"] ELSE nonceFile

\* The nonce of s is used up: _consume_reserved_nonce().  page-state.json is not
\* asked whose it is.
ConsumeNonce(s) ==
    /\ page' = [page EXCEPT ![s].reserved = FALSE, ![s].used = TRUE]
    /\ nonceFile' = [nonceFile EXCEPT !.state = "used"]

\* PAGE_DECISION is audited, and the thread answers.
Answer(t) ==
    /\ post[t].at = "finish"
    /\ IF post[t].sent THEN ConsumeNonce(post[t].page) ELSE ReleaseNonce(post[t].page)
    /\ post' = [post EXCEPT ![t] = NoPost]
    /\ UNCHANGED <<store, mailed, opener, scan, time>>

\* Something raises: the page has expired meanwhile, the store refuses, there is
\* no capability to reply in the thread, a file cannot be written, a required
\* cloud audit fails.
PostFails(t) ==
    /\ post[t].at # "idle"
    /\ ReleaseNonce(post[t].page)
    /\ post' = [post EXCEPT ![t] = NoPost]
    /\ UNCHANGED <<store, mailed, opener, scan, time>>

(***************************************************************************)
(* Specification                                                           *)
(***************************************************************************)
Tick ==
    /\ clock < MaxSecond
    /\ clock' = clock + 1
    /\ UNCHANGED <<store, mailed, pages, post, scan, expired>>

\* The request reaches its expires_at.
Expire ==
    /\ ~ expired
    /\ expired' = TRUE
    /\ UNCHANGED <<store, mailed, pages, post, scan, clock>>

Init ==
    /\ checkpoint = [message |-> FALSE, request |-> FALSE, authenticated |-> FALSE,
                     created |-> "no"]
    /\ decidedAt = [v \in Verdicts |-> Never]
    /\ current = None
    /\ outcome = "none"
    /\ mailed = {}
    /\ nonceFile = [page |-> 0, state |-> "fresh"]
    /\ page = [s \in Sessions |-> NoPage]
    /\ opener = [m \in Servers |-> [at |-> "idle", page |-> 0]]
    /\ post = [t \in Posts |-> NoPost]
    /\ scan = NoScan
    /\ clock = 0
    /\ expired = FALSE

ScanStep ==
    \/ BeginScan
    \/ CheckpointMessage
    \/ CheckpointRequest
    \/ CheckpointAuthenticated
    \/ AuditRequest
    \/ AuditRequestFails
    \/ ReadDecision
    \/ ReadOutcome
    \/ \E delivered, sent \in BOOLEAN : RetrySends(delivered, sent)
    \/ RetryOutcome

OpenStep(m) ==
    \/ ClosePage(m)
    \/ \E s \in Sessions : CreatePage(m, s)
    \/ StartPage(m)
    \/ OpenFails(m)
    \/ ServerDies(m)

PostStep(t) ==
    \/ \E s \in Sessions, v \in Verdicts : Reserve(t, s, v)
    \/ ReuseDecision(t)
    \/ RecordDecision(t)
    \/ \E delivered, sent \in BOOLEAN : SendDecision(t, delivered, sent)
    \/ RecordOutcome(t)
    \/ Answer(t)
    \/ PostFails(t)

\* Steps of runs that are not cut short.
SteadyNext ==
    \/ ScanStep
    \/ \E m \in Servers : OpenStep(m)
    \/ \E s \in Sessions : ReserveRefused(s)
    \/ \E t \in Posts : PostStep(t)
    \/ Tick
    \/ Expire

Next == SteadyNext \/ ScanDies

Spec == Init /\ [][Next]_vars

\* The scheduler starts run_once again and again, runs are cut short finitely
\* often only, and the mail server does not refuse for ever.
FairSpec ==
    /\ Spec
    /\ WF_vars(ScanStep)
    /\ SF_vars(RetrySends(TRUE, TRUE))
    /\ <>[][SteadyNext]_vars

(***************************************************************************)
(* What the actors know: what the proofs build on                          *)
(***************************************************************************)
\* A thread handles a submission on a reserved page that its server has started;
\* what it mails is recorded, and what it reports as sent is mailed.
PostsSound ==
    \A t \in Posts : post[t].at # "idle" =>
        /\ page[post[t].page].home # None
        /\ page[post[t].page].reserved
        /\ post[t].at \in {"send", "outcome", "finish"} => post[t].verdict \in Recorded
        /\ post[t].at = "outcome" /\ post[t].sent => post[t].verdict \in mailed

ScanSound ==
    /\ scan.at \in {"smtp", "send", "outcome"} => scan.verdict \in Recorded
    /\ scan.at = "outcome" /\ scan.sent => scan.verdict \in mailed
    /\ scan.at = "authenticate" => checkpoint.request

\* A page that is about to start belongs to its opener and to nobody else yet.
PagesSound ==
    /\ \A s \in Sessions : page[s].live => page[s].home # None
    /\ \A s \in Sessions : page[s].home # None => checkpoint.authenticated
    /\ \A m \in Servers : opener[m].at # "idle" => checkpoint.authenticated
    /\ \A m \in Servers : opener[m].at = "start" =>
          /\ opener[m].page \in Sessions
          /\ page[opener[m].page].home = m
          /\ ~ page[opener[m].page].live
          /\ \A t \in Posts : post[t].page # opener[m].page
    /\ checkpoint.authenticated => checkpoint.request

(***************************************************************************)
(* Properties                                                              *)
(***************************************************************************)
StoreTypes ==
    /\ checkpoint \in [message : BOOLEAN, request : BOOLEAN, authenticated : BOOLEAN,
                       created : {"no", "written", "degraded"}]
    /\ outcome \in {"none", "SENT", "RETRY_QUEUED"}

DecisionTypes ==
    /\ decidedAt \in [Verdicts -> Seconds \cup {Never}]
    /\ current \in Recorded \cup {None}
    /\ mailed \subseteq Verdicts

PageTypes ==
    /\ nonceFile \in [page : Sessions \cup {0}, state : {"fresh", "reserved", "used"}]
    /\ page \in [Sessions -> [home : Servers \cup {None}, live : BOOLEAN,
                              reserved : BOOLEAN, used : BOOLEAN]]
    /\ opener \in [Servers -> [at : {"idle", "create", "start"}, page : Sessions \cup {0}]]

Submissions ==
    [at : {"validate", "record", "send", "outcome", "finish"}, page : Sessions,
     verdict : Verdicts, decided : Seconds, sent : BOOLEAN]

PostTypes == post \in [Posts -> Submissions \cup {NoPost}]

Scans ==
    [at : {"idle", "message", "request", "authenticate", "audit", "decision", "smtp",
           "send", "outcome"},
     new : BOOLEAN, verdict : Verdicts \cup {None}, sent : BOOLEAN]

ScanTypes == scan \in Scans

TimeTypes == clock \in Seconds /\ expired \in BOOLEAN

TypeOK ==
    /\ StoreTypes
    /\ DecisionTypes
    /\ PageTypes
    /\ PostTypes
    /\ ScanTypes
    /\ TimeTypes

\* The release group never learns of a decision the approver's own store does
\* not hold: whoever dies or fails, and whoever retries, a decision is durable
\* before it is mailed.
MailedIsRecorded == mailed \subseteq Recorded

\* The nonce of a page is single-use (409 "nonce is single-use"): a page handles
\* one submission at a time, and none once it has sent a decision, although
\* other pages of the same request write the same page-state.json.
NonceSingleUse ==
    \A t \in Posts : post[t].at # "idle" =>
        /\ ~ page[post[t].page].used
        /\ \A u \in Posts \ {t} : post[u].page # post[t].page

\* No decision without an authenticated request: everything a page leads to rests
\* on the durable checkpoint that _rotate_page_session asks for, whatever a
\* dying run has left in the store.
DecisionsAuthenticated == Recorded # {} => checkpoint.request /\ checkpoint.authenticated

\* Retrying stops for a reason: as long as the approver has decided only once,
\* "SENT" in the store means that this decision was delivered, although a mail
\* and its outcome are recorded by different steps of different processes.
SentMeansMailed ==
    outcome = "SENT" => \E v \in Recorded : v \in mailed

\* A decision that is not replaced reaches the release group before the request
\* expires or not at all: runs retry it until it does, across deaths of runs and
\* servers and failures of the mail server.
FirstDecisionMailed ==
    \A v \in Verdicts :
        Recorded = {v} ~> v \in mailed \/ expired \/ Recorded # {v}

Quiet == scan.at = "idle" /\ \A t \in Posts : post[t].at = "idle"

\* "retry known-unsent decisions" (automation-contract.md): when nothing is under
\* way, a current decision that was not mailed is known to be unsent, so that
\* run_once retries it and list_pending shows it.
UnsentIsKnown ==
    Quiet /\ current # None /\ current \notin mailed => outcome # "SENT"

\* "write REQUEST_CREATED once for a new authenticated request"
\* (automation-contract.md): runs get it written, or recorded as degraded.
CreatedAudited ==
    checkpoint.authenticated ~> checkpoint.created # "no" \/ expired

\* "It creates a fresh one-time loopback page session" (automation-contract.md):
\* the nonce of a page is used up only by a submission to that page.
UsedByItself ==
    [][\A s \in Sessions : ~ page[s].used /\ page'[s].used =>
          \E t \in Posts : post[t].page = s]_vars
=============================================================================
