------------------------- MODULE ApprovalRoleProofs -------------------------
(***************************************************************************)
(* What ApprovalRole keeps for every number of servers, threads, pages and  *)
(* decisions.                                                               *)
(***************************************************************************)
EXTENDS ApprovalRole, TLAPS

\* The inductive invariant: the four properties, and what each actor knows at
\* the place where it is.
RoleInv ==
    /\ TypeOK
    /\ MailedIsRecorded
    /\ NonceSingleUse
    /\ DecisionsAuthenticated
    /\ SentMeansMailed
    /\ PostsSound
    /\ ScanSound
    /\ PagesSound

\* The values between two runs and between two submissions have their types.
LEMMA IdleTypes == NoScan \in Scans /\ NoScan.at = "idle" /\ NoPost.at = "idle" /\ NoPost.page = 0
BY DEF NoScan, Scans, NoPost

\* Runs keep the types.
LEMMA ScanKeepsTypes == TypeOK /\ ScanSound /\ (ScanStep \/ ScanDies) => TypeOK'
<1>. SUFFICES ASSUME TypeOK, ScanSound, ScanStep \/ ScanDies PROVE TypeOK'
  OBVIOUS
<1>. USE RoleAssumption DEF store, pages, time
<1>1. PageTypes' /\ PostTypes' /\ TimeTypes'
  <2>1. UNCHANGED <<pages, post, time>>
    BY DEF ScanStep, ScanDies, BeginScan, CheckpointMessage, CheckpointRequest, CheckpointAuthenticated,
           AuditRequest, AuditRequestFails, ReadDecision, ReadOutcome, RetrySends, RetryOutcome, ScanDies
  <2>. QED BY <2>1 DEF TypeOK, PageTypes, PostTypes, TimeTypes
<1>2. StoreTypes'
  BY DEF TypeOK, StoreTypes, ScanStep, OutcomeOf, BeginScan, CheckpointMessage, CheckpointRequest,
         CheckpointAuthenticated, AuditRequest, AuditRequestFails, ReadDecision, ReadOutcome, RetrySends,
         RetryOutcome, ScanDies
<1>3. DecisionTypes'
  <2>1. CASE UNCHANGED <<decidedAt, current, mailed>>
    BY <2>1 DEF TypeOK, DecisionTypes, Recorded
  <2>2. ASSUME NEW delivered \in BOOLEAN, NEW sent \in BOOLEAN, RetrySends(delivered, sent)
        PROVE DecisionTypes'
    BY <2>2 DEF TypeOK, DecisionTypes, ScanSound, RetrySends, Mail, Recorded
  <2>. QED
    BY <2>1, <2>2 DEF ScanStep, BeginScan, CheckpointMessage, CheckpointRequest, CheckpointAuthenticated,
                      AuditRequest, AuditRequestFails, ReadDecision, ReadOutcome, RetryOutcome, ScanDies
<1>4. ScanTypes'
  <2>. USE IdleTypes DEF TypeOK, ScanTypes
  <2>1. Recorded \subseteq Verdicts
    BY DEF Recorded
  <2>2. CASE BeginScan \/ CheckpointMessage \/ CheckpointRequest \/ CheckpointAuthenticated
    BY <2>2, ZenonT(30) DEF BeginScan, CheckpointMessage, CheckpointRequest, CheckpointAuthenticated,
                ScanGoto, Scans
  <2>3. CASE AuditRequest \/ AuditRequestFails
    <3>1. CASE scan' = NoScan BY <3>1
    <3>2. CASE ScanGoto("decision") BY <3>2 DEF ScanGoto, Scans
    <3>. QED BY <2>3, <3>1, <3>2 DEF AuditRequest, AuditRequestFails
  <2>4. CASE ReadDecision
    <3>1. CASE scan' = NoScan BY <3>1
    <3>2. CASE scan' = [scan EXCEPT !.at = "smtp", !.verdict = current]
      BY <2>1, <3>2 DEF Scans, DecisionTypes
    <3>. QED BY <2>4, <3>1, <3>2 DEF ReadDecision
  <2>5. CASE ReadOutcome \/ RetryOutcome \/ ScanDies
    <3>1. CASE scan' = NoScan BY <3>1
    <3>2. CASE scan' = [scan EXCEPT !.at = "send"] BY <3>2 DEF Scans
    <3>. QED BY <2>5, <3>1, <3>2 DEF ReadOutcome, RetryOutcome, ScanDies
  <2>6. ASSUME NEW delivered \in BOOLEAN, NEW sent \in BOOLEAN, RetrySends(delivered, sent)
        PROVE ScanTypes'
    BY <2>6 DEF RetrySends, Scans
  <2>. QED BY <2>2, <2>3, <2>4, <2>5, <2>6 DEF ScanStep
<1>. QED BY <1>1, <1>2, <1>3, <1>4 DEF TypeOK

\* Opening pages keeps the types.
LEMMA OpenKeepsTypes ==
    ASSUME TypeOK, PagesSound, NEW m \in Servers, OpenStep(m) PROVE TypeOK'
<1>. USE RoleAssumption DEF store, pages, time
<1>1. StoreTypes' /\ DecisionTypes' /\ ScanTypes' /\ TimeTypes'
  <2>1. UNCHANGED <<store, mailed, scan, time>>
    BY DEF OpenStep, ClosePage, CreatePage, StartPage, OpenFails, ServerDies
  <2>. QED BY <2>1 DEF TypeOK, StoreTypes, DecisionTypes, ScanTypes, TimeTypes, Recorded
<1>2. PostTypes'
  BY DEF TypeOK, PostTypes, OpenStep, ClosePage, CreatePage, StartPage, OpenFails, ServerDies
<1>3. PageTypes'
  <2>. USE DEF TypeOK, PageTypes
  <2>1. CASE ClosePage(m) BY <2>1, ZenonT(30) DEF ClosePage
  <2>2. ASSUME NEW s \in Sessions, CreatePage(m, s) PROVE PageTypes'
    BY <2>2 DEF CreatePage
  <2>3. CASE StartPage(m)
    <3>1. opener[m].page \in Sessions
      BY <2>3 DEF StartPage, PagesSound
    <3>2. (nonceFile.state = "used") \in BOOLEAN /\ (nonceFile.state = "reserved") \in BOOLEAN
      OBVIOUS
    <3>3. ASSUME NEW used \in BOOLEAN, NEW reserved \in BOOLEAN
          PROVE [page EXCEPT ![opener[m].page] = [home |-> m, live |-> TRUE,
                                                  reserved |-> reserved, used |-> used]]
                    \in [Sessions -> [home : Servers \cup {None}, live : BOOLEAN,
                                  reserved : BOOLEAN, used : BOOLEAN]]
      BY <3>1
    <3>4. page' \in [Sessions -> [home : Servers \cup {None}, live : BOOLEAN,
                                  reserved : BOOLEAN, used : BOOLEAN]]
      BY <2>3, <3>2, <3>3 DEF StartPage
    <3>. QED BY <2>3, <3>4 DEF StartPage
  <2>4. CASE OpenFails(m) BY <2>4 DEF OpenFails
  <2>5. CASE ServerDies(m) BY <2>5 DEF ServerDies
  <2>. QED BY <2>1, <2>2, <2>3, <2>4, <2>5 DEF OpenStep
<1>. QED BY <1>1, <1>2, <1>3 DEF TypeOK

\* A submission under way is a record of its type.
LEMMA BusyPost ==
    ASSUME TypeOK, NEW t \in Posts, post[t].at # "idle" PROVE post[t] \in Submissions
BY DEF TypeOK, PostTypes, NoPost

\* Handling submissions keeps the types.
LEMMA PostKeepsTypes ==
    ASSUME TypeOK, NEW t \in Posts, PostStep(t) PROVE TypeOK'
<1>. USE RoleAssumption DEF store, pages, time
<1>1. ScanTypes' /\ TimeTypes'
  BY DEF TypeOK, ScanTypes, TimeTypes, PostStep, Reserve, ReuseDecision, RecordDecision, SendDecision,
         RecordOutcome, Answer, PostFails
<1>2. StoreTypes'
  BY DEF TypeOK, StoreTypes, OutcomeOf, PostStep, Reserve, ReuseDecision, RecordDecision,
         SendDecision, RecordOutcome, Answer, PostFails
<1>3. DecisionTypes'
  <2>1. CASE UNCHANGED <<decidedAt, current, mailed>>
    BY <2>1 DEF TypeOK, DecisionTypes, Recorded
  <2>2. CASE RecordDecision(t)
    <3>1. post[t].verdict \in Verdicts /\ post[t].decided \in Seconds
      BY <2>2, BusyPost DEF RecordDecision, Submissions
    <3>2. Never \notin Seconds
      BY DEF Never, Seconds
    <3>. QED BY <2>2, <3>1, <3>2 DEF RecordDecision, TypeOK, DecisionTypes, Recorded
  <2>3. ASSUME NEW delivered \in BOOLEAN, NEW sent \in BOOLEAN, SendDecision(t, delivered, sent)
        PROVE DecisionTypes'
    <3>1. post[t].verdict \in Verdicts
      BY <2>3, BusyPost DEF SendDecision, Submissions
    <3>. QED BY <2>3, <3>1 DEF SendDecision, Mail, TypeOK, DecisionTypes, Recorded
  <2>. QED
    BY <2>1, <2>2, <2>3 DEF PostStep, Reserve, ReuseDecision, RecordOutcome, Answer, PostFails
<1>4. PostTypes'
  <2>. USE DEF TypeOK, PostTypes
  <2>1. ASSUME NEW s \in Sessions, NEW v \in Verdicts, Reserve(t, s, v) PROVE PostTypes'
    <3>1. 0 \in Seconds
      BY DEF Seconds
    <3>2. [NoPost EXCEPT !.at = "validate", !.page = s, !.verdict = v] \in Submissions
      BY <3>1 DEF NoPost, Submissions
    <3>. QED BY <2>1, <3>2 DEF Reserve
  <2>2. CASE ReuseDecision(t)
    BY <2>2, BusyPost, ZenonT(30) DEF ReuseDecision, Submissions, TimeTypes
  <2>3. CASE RecordDecision(t)
    <3>1. 0 \in Seconds
      BY DEF Seconds
    <3>. QED BY <2>3, <3>1, BusyPost, ZenonT(30) DEF RecordDecision, Submissions
  <2>4. ASSUME NEW delivered \in BOOLEAN, NEW sent \in BOOLEAN, SendDecision(t, delivered, sent)
        PROVE PostTypes'
    BY <2>4, BusyPost, ZenonT(30) DEF SendDecision, Submissions
  <2>5. CASE RecordOutcome(t)
    BY <2>5, BusyPost DEF RecordOutcome, PostGoto, Submissions
  <2>6. CASE Answer(t) \/ PostFails(t)
    BY <2>6 DEF Answer, PostFails
  <2>. QED BY <2>1, <2>2, <2>3, <2>4, <2>5, <2>6 DEF PostStep
<1>5. PageTypes'
  <2>. USE DEF TypeOK, PageTypes
  <2>1. ASSUME NEW s \in Sessions, NEW v \in Verdicts, Reserve(t, s, v) PROVE PageTypes'
    BY <2>1, ZenonT(30) DEF Reserve
  <2>2. CASE Answer(t) \/ PostFails(t)
    <3>1. opener' = opener
      BY <2>2 DEF Answer, PostFails
    <3>2. ReleaseNonce(post[t].page) \/ ConsumeNonce(post[t].page)
      BY <2>2 DEF Answer, PostFails
    <3>3. page' \in [Sessions -> [home : Servers \cup {None}, live : BOOLEAN,
                                  reserved : BOOLEAN, used : BOOLEAN]]
      <4>. DEFINE pageStates == [home : Servers \cup {None}, live : BOOLEAN,
                                 reserved : BOOLEAN, used : BOOLEAN]
      <4>1. page \in [Sessions -> pageStates]
        OBVIOUS
      <4>2. CASE ReleaseNonce(post[t].page)
        BY ONLY <4>1, <4>2 DEF ReleaseNonce
      <4>3. CASE ConsumeNonce(post[t].page)
        BY ONLY <4>1, <4>3 DEF ConsumeNonce
      <4>. QED BY <3>2, <4>2, <4>3
    <3>4. nonceFile' \in [page : Sessions \cup {0}, state : {"fresh", "reserved", "used"}]
      BY <3>2 DEF ReleaseNonce, ConsumeNonce
    <3>. QED BY <3>1, <3>3, <3>4
  <2>3. CASE UNCHANGED pages BY <2>3
  <2>. QED
    BY <2>1, <2>2, <2>3 DEF PostStep, ReuseDecision, RecordDecision, SendDecision, RecordOutcome
<1>. QED BY <1>1, <1>2, <1>3, <1>4, <1>5 DEF TypeOK

\* The remaining steps keep the types.
LEMMA OtherKeepTypes ==
    ASSUME TypeOK, Tick \/ Expire \/ \E s \in Sessions : ReserveRefused(s) PROVE TypeOK'
<1>. USE RoleAssumption DEF store, pages, time
<1>1. StoreTypes' /\ DecisionTypes' /\ PostTypes' /\ ScanTypes'
  <2>1. UNCHANGED <<store, mailed, post, scan>>
    BY DEF Tick, Expire, ReserveRefused
  <2>. QED BY <2>1 DEF TypeOK, StoreTypes, DecisionTypes, PostTypes, ScanTypes, Recorded
<1>2. TimeTypes'
  <2>1. clock' \in Seconds
    <3>1. CASE clock' = clock BY <3>1 DEF TypeOK, TimeTypes
    <3>2. CASE clock < MaxSecond /\ clock' = clock + 1
      BY <3>2 DEF TypeOK, TimeTypes, Seconds
    <3>. QED BY <3>1, <3>2 DEF Tick, Expire, ReserveRefused
  <2>2. expired' \in BOOLEAN
    BY DEF TypeOK, TimeTypes, Tick, Expire, ReserveRefused
  <2>. QED BY <2>1, <2>2 DEF TimeTypes
<1>3. PageTypes'
  <2>. USE DEF TypeOK, PageTypes
  <2>1. ASSUME NEW s \in Sessions, ReserveRefused(s) PROVE PageTypes'
    <3>1. (nonceFile.state = "used") \in BOOLEAN /\ (nonceFile.state = "reserved") \in BOOLEAN
      OBVIOUS
    <3>2. page' \in [Sessions -> [home : Servers \cup {None}, live : BOOLEAN,
                                  reserved : BOOLEAN, used : BOOLEAN]]
      BY <2>1, <3>1, SMTT(30) DEF ReserveRefused
    <3>. QED BY <2>1, <3>2 DEF ReserveRefused
  <2>2. CASE Tick \/ Expire BY <2>2 DEF Tick, Expire
  <2>. QED BY <2>1, <2>2
<1>. QED BY <1>1, <1>2, <1>3 DEF TypeOK

\* Runs keep the rest: they touch neither pages nor threads nor decisions, they
\* only add checkpoints, and they mail what is recorded.
LEMMA ScanKeepsRest ==
    ASSUME RoleInv, ScanStep \/ ScanDies
    PROVE  /\ MailedIsRecorded' /\ NonceSingleUse' /\ DecisionsAuthenticated'
           /\ SentMeansMailed' /\ PostsSound' /\ ScanSound' /\ PagesSound'
<1>. USE DEF RoleInv
<1>1. UNCHANGED <<decidedAt, current, nonceFile, page, opener, post>>
  BY DEF store, pages, ScanStep, ScanDies, BeginScan, CheckpointMessage, CheckpointRequest,
         CheckpointAuthenticated, AuditRequest, AuditRequestFails, ReadDecision, ReadOutcome,
         RetrySends, RetryOutcome
<1>2. Recorded' = Recorded
  BY <1>1 DEF Recorded
<1>3. mailed \subseteq mailed' /\ mailed' \subseteq Recorded
  <2>1. CASE mailed' = mailed
    BY <2>1 DEF MailedIsRecorded
  <2>2. ASSUME NEW delivered \in BOOLEAN, NEW sent \in BOOLEAN, RetrySends(delivered, sent)
        PROVE  mailed \subseteq mailed' /\ mailed' \subseteq Recorded
    BY <2>2 DEF RetrySends, Mail, MailedIsRecorded, ScanSound
  <2>. QED
    BY <2>1, <2>2 DEF store, ScanStep, ScanDies, BeginScan, CheckpointMessage, CheckpointRequest,
         CheckpointAuthenticated, AuditRequest, AuditRequestFails, ReadDecision, ReadOutcome,
         RetryOutcome
<1>4. /\ checkpoint.request => checkpoint'.request
      /\ checkpoint.authenticated => checkpoint'.authenticated
      /\ checkpoint'.authenticated => checkpoint'.request
  <2>. USE DEF TypeOK, StoreTypes
  <2>1. CASE checkpoint' = checkpoint
    BY <2>1 DEF PagesSound
  <2>2. CASE CheckpointMessage \/ CheckpointRequest \/ AuditRequest \/ AuditRequestFails
    BY <2>2 DEF CheckpointMessage, CheckpointRequest, AuditRequest, AuditRequestFails, PagesSound
  <2>3. CASE CheckpointAuthenticated
    BY <2>3 DEF CheckpointAuthenticated, PagesSound, ScanSound
  <2>. QED
    BY <2>1, <2>2, <2>3 DEF store, ScanStep, ScanDies, BeginScan, ReadDecision, ReadOutcome,
         RetrySends, RetryOutcome
<1>5. MailedIsRecorded'
  BY <1>2, <1>3 DEF MailedIsRecorded
<1>6. NonceSingleUse'
  BY <1>1 DEF NonceSingleUse
<1>7. DecisionsAuthenticated'
  BY <1>2, <1>4 DEF DecisionsAuthenticated
<1>8. SentMeansMailed'
  <2>1. CASE outcome' = outcome
    BY <1>2, <1>3, <2>1 DEF SentMeansMailed
  <2>2. CASE RetryOutcome
    BY <1>2, <1>3, <2>2 DEF RetryOutcome, OutcomeOf, SentMeansMailed, ScanSound
  <2>. QED
    BY <2>1, <2>2 DEF store, ScanStep, ScanDies, BeginScan, CheckpointMessage, CheckpointRequest,
         CheckpointAuthenticated, AuditRequest, AuditRequestFails, ReadDecision, ReadOutcome,
         RetrySends
<1>9. PostsSound'
  BY <1>1, <1>2, <1>3 DEF PostsSound
<1>10. PagesSound'
  BY <1>1, <1>4 DEF PagesSound
<1>11. ScanSound'
  <2>1. scan \in Scans
    BY DEF TypeOK, ScanTypes
  <2>2. CASE scan' = NoScan
    BY <2>2, IdleTypes DEF ScanSound
  <2>3. CASE BeginScan \/ CheckpointMessage \/ CheckpointAuthenticated \/ ScanGoto("decision")
    <3>1. scan'.at \in {"message", "request", "audit", "decision"}
      BY <2>1, <2>3 DEF Scans, ScanGoto, BeginScan, CheckpointMessage, CheckpointAuthenticated
    <3>. QED BY <3>1 DEF ScanSound
  <2>4. CASE CheckpointRequest
    BY <2>1, <2>4 DEF ScanSound, Scans, ScanGoto, CheckpointRequest, TypeOK, StoreTypes
  <2>5. CASE scan' = [scan EXCEPT !.at = "smtp", !.verdict = current] /\ current # None
    BY <1>2, <2>1, <2>5 DEF ScanSound, Scans, TypeOK, DecisionTypes
  <2>6. CASE scan.at = "smtp" /\ scan' = [scan EXCEPT !.at = "send"]
    BY <1>2, <2>1, <2>6 DEF ScanSound, Scans
  <2>7. ASSUME NEW delivered \in BOOLEAN, NEW sent \in BOOLEAN, RetrySends(delivered, sent)
        PROVE  ScanSound'
    BY <1>2, <2>1, <2>7 DEF RetrySends, Mail, ScanSound, Scans
  <2>. QED
    BY <2>2, <2>3, <2>4, <2>5, <2>6, <2>7
       DEF ScanStep, ScanDies, AuditRequest, AuditRequestFails, ReadDecision, ReadOutcome, RetryOutcome
<1>. QED BY <1>5, <1>6, <1>7, <1>8, <1>9, <1>10, <1>11

\* Opening pages and dying servers keep the rest: a page is started before any
\* thread knows it, and a server takes its own threads with it only.
LEMMA OpenKeepsRest ==
    ASSUME RoleInv, NEW m \in Servers, OpenStep(m)
    PROVE  /\ MailedIsRecorded' /\ NonceSingleUse' /\ DecisionsAuthenticated'
           /\ SentMeansMailed' /\ PostsSound' /\ ScanSound' /\ PagesSound'
<1>. USE RoleAssumption DEF RoleInv
<1>1. UNCHANGED <<checkpoint, decidedAt, current, outcome, mailed, scan>>
  BY DEF store, OpenStep, ClosePage, CreatePage, StartPage, OpenFails, ServerDies
<1>2. Recorded' = Recorded
  BY <1>1 DEF Recorded
<1>3. MailedIsRecorded' /\ DecisionsAuthenticated' /\ SentMeansMailed' /\ ScanSound'
  BY <1>1, <1>2 DEF MailedIsRecorded, DecisionsAuthenticated, SentMeansMailed, ScanSound
<1>4. page \in [Sessions -> [home : Servers \cup {None}, live : BOOLEAN,
                             reserved : BOOLEAN, used : BOOLEAN]]
      /\ opener \in [Servers -> [at : {"idle", "create", "start"}, page : Sessions \cup {0}]]
  BY DEF TypeOK, PageTypes
<1>5. \A t \in Posts : post'[t] = post[t] \/ post'[t] = NoPost
  BY DEF TypeOK, PostTypes, OpenStep, ClosePage, CreatePage, StartPage, OpenFails, ServerDies
<1>6. \A t \in Posts : post'[t].at # "idle" =>
         /\ post'[t] = post[t]
         /\ post[t].page \in Sessions
         /\ page'[post[t].page].home = page[post[t].page].home
         /\ page'[post[t].page].reserved = page[post[t].page].reserved
         /\ page'[post[t].page].used = page[post[t].page].used
  <2>. SUFFICES ASSUME NEW t \in Posts, post'[t].at # "idle"
                PROVE  /\ post'[t] = post[t]
                       /\ post[t].page \in Sessions
                       /\ page'[post[t].page].home = page[post[t].page].home
                       /\ page'[post[t].page].reserved = page[post[t].page].reserved
                       /\ page'[post[t].page].used = page[post[t].page].used
    OBVIOUS
  <2>1. post'[t] = post[t]
    BY <1>5, IdleTypes
  <2>2. post[t].page \in Sessions
    BY <2>1, BusyPost DEF Submissions
  <2>3. page[post[t].page].home # None
    BY <2>1 DEF PostsSound
  <2>4. CASE ClosePage(m) \/ ServerDies(m)
    BY <1>4, <2>1, <2>2, <2>4 DEF ClosePage, ServerDies
  <2>5. ASSUME NEW s \in Sessions, CreatePage(m, s)
        PROVE  page'[post[t].page] = page[post[t].page]
    BY <1>4, <2>2, <2>3, <2>5 DEF CreatePage
  <2>6. CASE StartPage(m)
    BY <1>4, <2>2, <2>6 DEF StartPage, PagesSound
  <2>7. CASE OpenFails(m)
    BY <2>1, <2>2, <2>7 DEF OpenFails
  <2>. QED BY <2>1, <2>2, <2>4, <2>5, <2>6, <2>7 DEF OpenStep
<1>7. PostsSound'
  BY <1>1, <1>2, <1>6 DEF PostsSound
<1>8. NonceSingleUse'
  <2>. SUFFICES ASSUME NEW t \in Posts, post'[t].at # "idle"
                PROVE  /\ ~ page'[post'[t].page].used
                       /\ \A u \in Posts \ {t} : post'[u].page # post'[t].page
    BY DEF NonceSingleUse
  <2>1. ~ page'[post'[t].page].used
    BY <1>6 DEF NonceSingleUse
  <2>2. post[t].page \in Sessions /\ 0 \notin Sessions
    BY <1>6 DEF Sessions
  <2>3. ASSUME NEW u \in Posts \ {t} PROVE post'[u].page # post'[t].page
    BY <1>5, <1>6, <2>2, IdleTypes DEF NonceSingleUse
  <2>. QED BY <2>1, <2>3
<1>9. PagesSound'
  <2>. USE DEF PagesSound
  <2>1. CASE ClosePage(m)
    BY <1>1, <1>4, <2>1 DEF ClosePage
  <2>2. ASSUME NEW s \in Sessions, CreatePage(m, s) PROVE PagesSound'
    <3>1. \A t \in Posts : post[t].page # s
      <4>1. ASSUME NEW t \in Posts, post[t].at # "idle" PROVE post[t].page # s
        BY <2>2, <4>1 DEF CreatePage, PostsSound
      <4>2. ASSUME NEW t \in Posts, post[t].at = "idle" PROVE post[t].page # s
        <5>1. post[t] = NoPost
          BY <4>2 DEF TypeOK, PostTypes, Submissions
        <5>. QED BY <5>1, IdleTypes DEF Sessions
      <4>. QED BY <4>1, <4>2
    <3>. QED BY <1>1, <1>4, <2>2, <3>1 DEF CreatePage
  <2>3. CASE StartPage(m)
    BY <1>1, <1>4, <2>3 DEF StartPage
  <2>4. CASE OpenFails(m)
    BY <1>1, <1>4, <2>4 DEF OpenFails
  <2>5. CASE ServerDies(m)
    <3>1. \A k \in Servers : opener'[k].at = "start" => k # m /\ opener'[k] = opener[k]
      BY <1>4, <2>5 DEF ServerDies
    <3>2. 0 \notin Sessions
      BY DEF Sessions
    <3>. QED BY <1>1, <1>4, <1>5, <2>5, <3>1, <3>2, IdleTypes DEF ServerDies
  <2>. QED BY <2>1, <2>2, <2>3, <2>4, <2>5 DEF OpenStep
<1>. QED BY <1>3, <1>7, <1>8, <1>9

\* Handling a submission keeps the rest: the thread owns its page's nonce, records
\* before it mails and mails before it says so.
LEMMA PostKeepsRest ==
    ASSUME RoleInv, NEW t \in Posts, PostStep(t)
    PROVE  /\ MailedIsRecorded' /\ NonceSingleUse' /\ DecisionsAuthenticated'
           /\ SentMeansMailed' /\ PostsSound' /\ ScanSound' /\ PagesSound'
<1>. USE RoleAssumption DEF RoleInv
<1>1. UNCHANGED <<checkpoint, opener, scan>>
  BY DEF store, pages, PostStep, Reserve, ReuseDecision, RecordDecision, SendDecision, RecordOutcome,
         Answer, PostFails
<1>2. post \in [Posts -> Submissions \cup {NoPost}] /\ 0 \notin Sessions
  BY DEF TypeOK, PostTypes, Sessions
<1>3. page \in [Sessions -> [home : Servers \cup {None}, live : BOOLEAN,
                             reserved : BOOLEAN, used : BOOLEAN]]
  BY DEF TypeOK, PageTypes
<1>4. \A u \in Posts \ {t} : post'[u] = post[u]
  BY <1>2 DEF PostStep, Reserve, ReuseDecision, RecordDecision, SendDecision, RecordOutcome, Answer,
         PostFails, PostGoto
<1>5. Recorded \subseteq Recorded'
  <2>1. CASE decidedAt' = decidedAt
    BY <2>1 DEF Recorded
  <2>2. CASE RecordDecision(t)
    <3>1. post[t].verdict \in Verdicts /\ post[t].decided \in Seconds
      BY <2>2, BusyPost DEF RecordDecision, Submissions
    <3>2. Never \notin Seconds
      BY DEF Never, Seconds
    <3>. QED BY <2>2, <3>1, <3>2 DEF RecordDecision, Recorded, TypeOK, DecisionTypes
  <2>. QED
    BY <2>1, <2>2 DEF store, PostStep, Reserve, ReuseDecision, SendDecision, RecordOutcome, Answer,
         PostFails
<1>6. mailed \subseteq mailed' /\ mailed' \subseteq Recorded'
  <2>1. CASE mailed' = mailed
    BY <1>5, <2>1 DEF MailedIsRecorded
  <2>2. ASSUME NEW delivered \in BOOLEAN, NEW sent \in BOOLEAN, SendDecision(t, delivered, sent)
        PROVE  mailed \subseteq mailed' /\ mailed' \subseteq Recorded'
    BY <1>5, <2>2 DEF SendDecision, Mail, MailedIsRecorded, PostsSound
  <2>. QED
    BY <2>1, <2>2 DEF PostStep, Reserve, ReuseDecision, RecordDecision, RecordOutcome, Answer, PostFails
<1>7. MailedIsRecorded'
  BY <1>6 DEF MailedIsRecorded
<1>8. ScanSound'
  BY <1>1, <1>5, <1>6 DEF ScanSound
<1>9. DecisionsAuthenticated'
  <2>1. CASE decidedAt' = decidedAt
    BY <1>1, <2>1 DEF DecisionsAuthenticated, Recorded
  <2>2. CASE RecordDecision(t)
    <3>1. post[t].page \in Sessions /\ page[post[t].page].home # None
      BY <2>2, BusyPost DEF RecordDecision, Submissions, PostsSound
    <3>. QED BY <1>1, <3>1 DEF DecisionsAuthenticated, PagesSound
  <2>. QED
    BY <2>1, <2>2 DEF store, PostStep, Reserve, ReuseDecision, SendDecision, RecordOutcome, Answer,
         PostFails
<1>10. SentMeansMailed'
  <2>1. CASE outcome' = outcome
    BY <1>5, <1>6, <2>1 DEF SentMeansMailed
  <2>2. CASE RecordOutcome(t)
    BY <1>5, <1>6, <2>2 DEF RecordOutcome, OutcomeOf, SentMeansMailed, PostsSound
  <2>. QED
    BY <2>1, <2>2 DEF store, PostStep, Reserve, ReuseDecision, RecordDecision, SendDecision, Answer,
         PostFails
<1>11. ASSUME NEW s \in Sessions, NEW v \in Verdicts, Reserve(t, s, v)
       PROVE  PostsSound' /\ NonceSingleUse' /\ PagesSound'
  <2>1. /\ post'[t].at = "validate" /\ post'[t].page = s
        /\ page' = [page EXCEPT ![s].reserved = TRUE]
        /\ page[s].live /\ ~ page[s].used /\ ~ page[s].reserved
    BY <1>2, <1>11 DEF Reserve, NoPost
  <2>2. \A u \in Posts \ {t} : post[u].page # s
    <3>1. ASSUME NEW u \in Posts, post[u].at # "idle" PROVE post[u].page # s
      BY <2>1, <3>1 DEF PostsSound
    <3>2. ASSUME NEW u \in Posts, post[u].at = "idle" PROVE post[u].page # s
      <4>1. post[u] = NoPost
        BY <1>2, <3>2 DEF Submissions
      <4>. QED BY <1>2, <4>1, IdleTypes
    <3>. QED BY <3>1, <3>2
  <2>3. PostsSound'
    <3>1. ASSUME NEW u \in Posts \ {t}, post'[u].at # "idle"
          PROVE  /\ page'[post'[u].page].home # None
                 /\ page'[post'[u].page].reserved
                 /\ post'[u].at \in {"send", "outcome", "finish"} => post'[u].verdict \in Recorded'
                 /\ post'[u].at = "outcome" /\ post'[u].sent => post'[u].verdict \in mailed'
      <4>1. post'[u] = post[u] /\ post[u].page \in Sessions
        BY <1>4, <3>1, BusyPost DEF Submissions
      <4>. QED BY <1>3, <1>5, <1>6, <2>1, <2>2, <3>1, <4>1 DEF PostsSound
    <3>2. page'[s].home # None /\ page'[s].reserved
      BY <1>3, <2>1 DEF PagesSound
    <3>. QED BY <2>1, <3>1, <3>2 DEF PostsSound
  <2>4. NonceSingleUse'
    <3>1. ~ page'[s].used /\ \A u \in Posts \ {t} : post'[u].page # s
      BY <1>3, <1>4, <2>1, <2>2
    <3>2. ASSUME NEW u \in Posts \ {t}, post'[u].at # "idle"
          PROVE  /\ ~ page'[post'[u].page].used
                 /\ \A w \in Posts \ {u} : post'[w].page # post'[u].page
      <4>1. post'[u] = post[u] /\ post[u].page \in Sessions
        BY <1>4, <3>2, BusyPost DEF Submissions
      <4>2. ~ page'[post[u].page].used
        BY <1>3, <2>1, <3>2, <4>1 DEF NonceSingleUse
      <4>. QED BY <1>4, <2>1, <2>2, <3>2, <4>1, <4>2 DEF NonceSingleUse
    <3>. QED BY <2>1, <3>1, <3>2 DEF NonceSingleUse
  <2>5. PagesSound'
    <3>1. \A p \in Sessions : page'[p].live = page[p].live /\ page'[p].home = page[p].home
      BY <1>3, <2>1
    <3>2. \A m \in Servers : opener[m].at = "start" => opener[m].page # s
      BY <2>1 DEF PagesSound
    <3>. QED BY <1>1, <1>4, <2>1, <3>1, <3>2 DEF PagesSound
  <2>. QED BY <2>3, <2>4, <2>5
<1>12. ASSUME Answer(t) \/ PostFails(t)
       PROVE  PostsSound' /\ NonceSingleUse' /\ PagesSound'
  <2>1. post'[t] = NoPost /\ post[t].at # "idle" /\ post[t].page \in Sessions
    BY <1>2, <1>12, BusyPost DEF Answer, PostFails, Submissions
  <2>2. /\ \A p \in Sessions : page'[p].live = page[p].live
        /\ \A p \in Sessions : page'[p].home = page[p].home
    BY <1>3, <1>12, <2>1 DEF Answer, PostFails, ConsumeNonce, ReleaseNonce
  <2>7. \A p \in Sessions \ {post[t].page} : page'[p] = page[p]
    BY <1>3, <1>12, <2>1 DEF Answer, PostFails, ConsumeNonce, ReleaseNonce
  <2>3. ASSUME NEW u \in Posts, post'[u].at # "idle"
        PROVE  u # t /\ post'[u] = post[u] /\ post[u].page \in Sessions \ {post[t].page}
    <3>1. u # t
      BY <2>1, <2>3, IdleTypes
    <3>2. post'[u] = post[u]
      BY <1>4, <3>1
    <3>3. post[u].page \in Sessions
      BY <2>3, <3>2, BusyPost DEF Submissions
    <3>. QED BY <2>1, <3>1, <3>2, <3>3 DEF NonceSingleUse
  <2>4. PostsSound'
    <3>1. ASSUME NEW u \in Posts, post'[u].at # "idle"
          PROVE  /\ page'[post'[u].page].home # None
                 /\ page'[post'[u].page].reserved
                 /\ post'[u].at \in {"send", "outcome", "finish"} => post'[u].verdict \in Recorded'
                 /\ post'[u].at = "outcome" /\ post'[u].sent => post'[u].verdict \in mailed'
      <4>1. post'[u] = post[u] /\ page'[post[u].page] = page[post[u].page]
        BY <2>7, <2>3, <3>1
      <4>. QED BY <1>5, <1>6, <3>1, <4>1 DEF PostsSound
    <3>. QED BY <3>1 DEF PostsSound
  <2>5. NonceSingleUse'
    <3>. SUFFICES ASSUME NEW u \in Posts, post'[u].at # "idle"
                  PROVE  /\ ~ page'[post'[u].page].used
                         /\ \A w \in Posts \ {u} : post'[w].page # post'[u].page
      BY DEF NonceSingleUse
    <3>1. ~ page'[post'[u].page].used
      <4>1. post'[u] = post[u] /\ page'[post[u].page] = page[post[u].page]
        BY <2>7, <2>3
      <4>. QED BY <4>1 DEF NonceSingleUse
    <3>2. ASSUME NEW w \in Posts \ {u} PROVE post'[w].page # post'[u].page
      BY <1>2, <1>4, <2>1, <2>3, IdleTypes DEF NonceSingleUse
    <3>. QED BY <3>1, <3>2
  <2>6. PagesSound'
    <3>1. \A u \in Posts : post'[u].page \in {post[u].page, 0}
      BY <1>4, <2>1, IdleTypes
    <3>2. ASSUME NEW m \in Servers, opener'[m].at = "start"
          PROVE  /\ opener'[m].page \in Sessions
                 /\ page'[opener'[m].page].home = m
                 /\ ~ page'[opener'[m].page].live
                 /\ \A u \in Posts : post'[u].page # opener'[m].page
      <4>1. /\ opener[m].page \in Sessions /\ page[opener[m].page].home = m
            /\ ~ page[opener[m].page].live /\ \A u \in Posts : post[u].page # opener[m].page
        BY <1>1, <3>2 DEF PagesSound
      <4>2. \A u \in Posts : post'[u].page # opener[m].page
        BY <1>2, <3>1, <4>1
      <4>. QED BY <1>1, <2>2, <4>1, <4>2
    <3>3. /\ \A s \in Sessions : page'[s].live => page'[s].home # None
          /\ \A s \in Sessions : page'[s].home # None => checkpoint'.authenticated
      BY <1>1, <2>2 DEF PagesSound
    <3>4. /\ \A m \in Servers : opener'[m].at # "idle" => checkpoint'.authenticated
          /\ checkpoint'.authenticated => checkpoint'.request
      BY <1>1 DEF PagesSound
    <3>. QED BY <3>2, <3>3, <3>4 DEF PagesSound
  <2>. QED BY <2>4, <2>5, <2>6
<1>13. ASSUME UNCHANGED pages,
              \/ ReuseDecision(t) \/ RecordDecision(t) \/ RecordOutcome(t)
              \/ \E delivered, sent \in BOOLEAN : SendDecision(t, delivered, sent)
       PROVE  PostsSound' /\ NonceSingleUse' /\ PagesSound'
  <2>1. post[t] \in Submissions /\ page' = page
    BY <1>13, BusyPost DEF pages, ReuseDecision, RecordDecision, RecordOutcome, SendDecision
  <2>2. post'[t].page = post[t].page /\ post'[t].verdict = post[t].verdict /\ post[t].at # "idle"
    BY <1>2, <1>13, <2>1 DEF Submissions, ReuseDecision, RecordDecision, RecordOutcome, SendDecision,
         PostGoto
  <2>3. \A u \in Posts : post'[u].page = post[u].page /\ (post'[u].at # "idle" => post[u].at # "idle")
    BY <1>4, <2>2
  <2>4. NonceSingleUse' /\ PagesSound'
    BY <1>1, <2>1, <2>3 DEF NonceSingleUse, PagesSound
  <2>5. post'[t].at \in {"send", "outcome", "finish"} => post[t].verdict \in Recorded'
    <3>1. CASE ReuseDecision(t)
      BY <1>2, <1>5, <2>1, <3>1 DEF ReuseDecision, Submissions, TypeOK, DecisionTypes
    <3>2. CASE RecordDecision(t)
      <4>1. post[t].verdict \in Verdicts /\ post[t].decided \in Seconds /\ Never \notin Seconds
        BY <2>1 DEF Submissions, Seconds, Never
      <4>. QED BY <3>2, <4>1 DEF RecordDecision, Recorded, TypeOK, DecisionTypes
    <3>3. CASE RecordOutcome(t)
      BY <1>5, <3>3 DEF RecordOutcome, PostsSound
    <3>4. ASSUME NEW delivered \in BOOLEAN, NEW sent \in BOOLEAN, SendDecision(t, delivered, sent)
          PROVE  post[t].verdict \in Recorded'
      BY <1>5, <3>4 DEF SendDecision, PostsSound
    <3>. QED BY <1>13, <3>1, <3>2, <3>3, <3>4
  <2>6. post'[t].at = "outcome" /\ post'[t].sent => post[t].verdict \in mailed'
    <3>1. CASE ReuseDecision(t) \/ RecordDecision(t) \/ RecordOutcome(t)
      BY <1>2, <2>1, <3>1 DEF ReuseDecision, RecordDecision, RecordOutcome, PostGoto, Submissions
    <3>2. ASSUME NEW delivered \in BOOLEAN, NEW sent \in BOOLEAN, SendDecision(t, delivered, sent)
          PROVE  post'[t].sent => post[t].verdict \in mailed'
      BY <1>2, <2>1, <3>2 DEF SendDecision, Mail, Submissions
    <3>. QED BY <1>13, <3>1, <3>2
  <2>7. PostsSound'
    <3>1. ASSUME NEW u \in Posts \ {t}, post'[u].at # "idle"
          PROVE  /\ page'[post'[u].page].home # None
                 /\ page'[post'[u].page].reserved
                 /\ post'[u].at \in {"send", "outcome", "finish"} => post'[u].verdict \in Recorded'
                 /\ post'[u].at = "outcome" /\ post'[u].sent => post'[u].verdict \in mailed'
      BY <1>4, <1>5, <1>6, <2>1, <3>1 DEF PostsSound
    <3>2. page'[post'[t].page].home # None /\ page'[post'[t].page].reserved
      BY <2>1, <2>2 DEF PostsSound
    <3>. QED BY <2>2, <2>5, <2>6, <3>1, <3>2 DEF PostsSound
  <2>. QED BY <2>4, <2>7
<1>14. PostsSound' /\ NonceSingleUse' /\ PagesSound'
  BY <1>11, <1>12, <1>13 DEF pages, PostStep, ReuseDecision, RecordDecision, RecordOutcome,
     SendDecision
<1>. QED BY <1>7, <1>8, <1>9, <1>10, <1>14

\* A refused form, the clock and the expiry leave the rest alone: a page that
\* takes its nonce's state from page-state.json handles no submission.
LEMMA OtherKeepRest ==
    ASSUME RoleInv, Tick \/ Expire \/ \E s \in Sessions : ReserveRefused(s)
    PROVE  /\ MailedIsRecorded' /\ NonceSingleUse' /\ DecisionsAuthenticated'
           /\ SentMeansMailed' /\ PostsSound' /\ ScanSound' /\ PagesSound'
<1>. USE RoleAssumption DEF RoleInv
<1>1. UNCHANGED <<checkpoint, decidedAt, outcome, mailed, opener, post, scan>>
  BY DEF store, pages, Tick, Expire, ReserveRefused
<1>2. MailedIsRecorded' /\ DecisionsAuthenticated' /\ SentMeansMailed'
  BY <1>1 DEF MailedIsRecorded, DecisionsAuthenticated, SentMeansMailed, Recorded
<1>3. ScanSound'
  BY <1>1 DEF ScanSound, Recorded
<1>4. CASE page' = page
  BY <1>1, <1>2, <1>3, <1>4 DEF PostsSound, NonceSingleUse, PagesSound, Recorded
<1>5. ASSUME NEW s \in Sessions, ReserveRefused(s)
      PROVE  PostsSound' /\ NonceSingleUse' /\ PagesSound'
  <2>1. /\ page \in [Sessions -> [home : Servers \cup {None}, live : BOOLEAN,
                                   reserved : BOOLEAN, used : BOOLEAN]]
        /\ post \in [Posts -> Submissions \cup {NoPost}]
    BY DEF TypeOK, PageTypes, PostTypes
  <2>2. /\ page[s].live /\ ~ page[s].reserved
        /\ \A p \in Sessions : /\ page'[p].live = page[p].live /\ page'[p].home = page[p].home
                               /\ p # s => page'[p] = page[p]
    BY <1>5, <2>1 DEF ReserveRefused
  <2>3. ASSUME NEW u \in Posts, post[u].at # "idle"
        PROVE  page'[post[u].page] = page[post[u].page]
    <3>1. post[u].page \in Sessions /\ post[u].page # s
      BY <2>2, <2>3, BusyPost DEF PostsSound, Submissions
    <3>. QED BY <2>2, <3>1
  <2>4. PostsSound' /\ NonceSingleUse'
    BY <1>1, <2>3 DEF PostsSound, NonceSingleUse, Recorded
  <2>5. PagesSound'
    BY <1>1, <2>2 DEF PagesSound
  <2>. QED BY <2>4, <2>5
<1>. QED BY <1>2, <1>3, <1>4, <1>5 DEF pages, Tick, Expire

\* The store starts empty, and every actor idle.
LEMMA RoleInvInit == Init => RoleInv
<1>. USE RoleAssumption DEF Init, RoleInv
<1>1. ASSUME Init PROVE TypeOK
  <2>1. StoreTypes
    BY <1>1 DEF StoreTypes
  <2>6. TimeTypes
    <3>1. 0 \in Seconds
      BY DEF Seconds
    <3>. QED BY <1>1, <3>1 DEF TimeTypes
  <2>2. DecisionTypes
    BY <1>1 DEF DecisionTypes
  <2>3. PageTypes
    BY <1>1 DEF PageTypes, NoPage
  <2>4. PostTypes
    BY <1>1 DEF PostTypes
  <2>5. ScanTypes
    BY <1>1 DEF ScanTypes, Scans, NoScan
  <2>. QED BY <2>1, <2>2, <2>3, <2>4, <2>5, <2>6 DEF TypeOK
<1>2. ASSUME Init PROVE Recorded = {}
  BY <1>2 DEF Recorded
<1>3. ASSUME Init
      PROVE  /\ MailedIsRecorded /\ NonceSingleUse /\ DecisionsAuthenticated
             /\ SentMeansMailed /\ PostsSound
  BY <1>2, <1>3 DEF MailedIsRecorded, NonceSingleUse, DecisionsAuthenticated, SentMeansMailed,
     PostsSound, NoPost
<1>4. ASSUME Init PROVE ScanSound /\ PagesSound
  BY <1>4 DEF ScanSound, PagesSound, NoScan, NoPage
<1>. QED BY <1>1, <1>3, <1>4

\* A mailed decision is recorded, a nonce is used once, a decision rests on an
\* authenticated request and SENT on a delivered mail: for any number of server
\* processes, pages, handler threads and verdicts, whoever dies and wherever.
THEOREM RoleSafety ==
    Spec => [](/\ TypeOK /\ MailedIsRecorded /\ NonceSingleUse
               /\ DecisionsAuthenticated /\ SentMeansMailed)
<1>1. RoleInv /\ [Next]_vars => RoleInv'
  <2>. SUFFICES ASSUME RoleInv, [Next]_vars PROVE RoleInv'
    OBVIOUS
  <2>1. CASE ScanStep \/ ScanDies
    BY <2>1, ScanKeepsTypes, ScanKeepsRest DEF RoleInv
  <2>2. ASSUME NEW m \in Servers, OpenStep(m) PROVE RoleInv'
    BY <2>2, OpenKeepsTypes, OpenKeepsRest DEF RoleInv
  <2>3. ASSUME NEW t \in Posts, PostStep(t) PROVE RoleInv'
    BY <2>3, PostKeepsTypes, PostKeepsRest DEF RoleInv
  <2>4. CASE Tick \/ Expire \/ \E s \in Sessions : ReserveRefused(s)
    BY <2>4, OtherKeepTypes, OtherKeepRest DEF RoleInv
  <2>5. CASE UNCHANGED vars
    BY <2>5 DEF vars, RoleInv, TypeOK, StoreTypes, DecisionTypes, PageTypes, PostTypes, ScanTypes,
       TimeTypes, MailedIsRecorded, NonceSingleUse, DecisionsAuthenticated, SentMeansMailed,
       PostsSound, ScanSound, PagesSound, Recorded
  <2>. QED BY <2>1, <2>2, <2>3, <2>4, <2>5 DEF Next, SteadyNext
<1>2. RoleInv => /\ TypeOK /\ MailedIsRecorded /\ NonceSingleUse
                 /\ DecisionsAuthenticated /\ SentMeansMailed
  BY DEF RoleInv
<1>. QED BY RoleInvInit, <1>1, <1>2, PTL DEF Spec

\* The nonce of a page is used once, for any number of pages, handler threads and servers
\* that write the same page-state.json.
THEOREM NoncesAreUsedOnce == Spec => []NonceSingleUse
  BY RoleSafety, PTL

\* "SENT" in the store rests on a delivered mail of a recorded decision, whichever run or
\* handler thread wrote it.
THEOREM SentIsMailed == Spec => []SentMeansMailed
  BY RoleSafety, PTL

\* Every decision rests on a request that was authenticated and checkpointed, whatever a
\* run that died has left in the store.
THEOREM DecisionsRestOnRequest == Spec => []DecisionsAuthenticated
  BY RoleSafety, PTL
=============================================================================
