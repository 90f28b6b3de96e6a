---------------------------- MODULE WebSiteProofs ----------------------------
(***************************************************************************)
(* Proofs about site sessions and the journal they share, for any number of *)
(* sessions, processes, actions and losses of the envelope.                 *)
(***************************************************************************)
EXTENDS WebSite, TLAPS

(***************************************************************************)
(* One session.                                                             *)
(***************************************************************************)
\* An action that may have written.
Writing(n, a) == n.att[a] = "executing" /\ n.kind[a] # "read"

\* What was permitted has an outcome or waits for one; a thread that has not
\* begun finds its action as it was confirmed, or cancelled; what the owner has
\* withdrawn cannot be confirmed again.
ActionSound(n, a) ==
    /\ a \in n.sent => n.att[a] \in {"executing", "completed", "unknown"} /\ (~n.dead => n.kind[a] # "read")
    /\ a \in n.threads => n.att[a] \in {"confirmed", "cancelled"}
    /\ a \in n.withdrawn =>
          n.state = "revoked" \/ n.att[a] \notin {"none", "awaiting", "confirmed", "executing"}
    /\ n.prompt[a] # {} => n.att[a] # "none"
    /\ Writing(n, a) \/ (a \in n.sent /\ n.att[a] # "completed") => n.reserved

\* A session that has reserved has logged in; one that may have written has reserved.
ServiceSound(n) ==
    /\ n \in Services
    /\ \A a \in Attempts : ActionSound(n, a)
    /\ \A r \in Requests : n.net[r] \in {"open", "unknown"} => n.reserved
    /\ n.reserved => n.state # "none"
    /\ n.hook => n.closed

\* What keeps a session's reservation once its channel has closed.
Keeps(n) == Uncertain(n) \/ \E a \in Attempts : n.att[a] = "failed"

(***************************************************************************)
(* The journal.                                                             *)
(***************************************************************************)
\* An envelope needs the key; while one is missing that no owner has accepted,
\* there is none, or it holds a marker.
EnvelopeSound ==
    /\ version # 0 => key
    /\ version = 0 => pending = {}
    /\ ~trusted => key /\ (version = 0 \/ \E i \in Markers : i \in pending)

\* A review starts from a key and knows the identity it works for; what the
\* owner has decided on is accepted.
ReviewSound(p) ==
    /\ review[p].at # "new" => key
    /\ review[p].at \in {"preview", "pending", "committing", "prepared", "published", "intended"} =>
          review[p].id \in Markers
    /\ review[p].at \in {"committing", "prepared"} /\ review[p].mode = "initialize" =>
          review[p].ledger \subseteq settledBy
    /\ review[p].at = "prepared" => review[p].mode = "initialize"

\* The entry of a reservation is there, or the envelope is missing, or an owner
\* has accepted its loss; a session that is still open has not lost it unnoticed.
ReservationSound(s) ==
    /\ svc[s].reserved => key
    /\ svc[s].reserved /\ s \notin pending => version = 0 \/ (s \in settledBy /\ svc[s].closed)
    /\ s \in pending => svc[s].reserved

\* Of two sessions of one origin only one is open with a reservation, unless the
\* loss of the other one was accepted.
OriginSound(s, t) ==
    s # t /\ Origin[s] = Origin[t] /\ svc[s].reserved /\ svc[t].reserved =>
        s \in settledBy \/ svc[t].closed

\* A session that has closed has given back what it could.
ReturnSound(s) ==
    s \in pending /\ svc[s].closed /\ ~svc[s].hook /\ ~svc[s].dead /\ faults = 0 => Keeps(svc[s])

JournalInv ==
    /\ EnvelopeSound
    /\ \A p \in Processes : ReviewSound(p)

SharedInv ==
    /\ \A s \in Sessions : ReservationSound(s) /\ ReturnSound(s)
    /\ \A s, t \in Sessions : OriginSound(s, t)

IInv ==
    /\ TypeOK
    /\ \A s \in Sessions : ServiceSound(svc[s])
    /\ JournalInv
    /\ SharedInv

\* A marker is no session.
LEMMA MarkersApart == Sessions \cap Markers = {}
  BY JournalAssumption DEF JournalAssumption, Markers

\* The state in which nothing has happened.
LEMMA InitSound == Init => IInv
<1>. SUFFICES ASSUME Init PROVE IInv
  OBVIOUS
<1>. USE JournalAssumption, SiteAssumption
     DEF JournalAssumption, SiteAssumption, Init, JournalInit
<1>1. TypeOK
  <2>1. svc \in [Sessions -> Services]
    BY DEF NewService, Services, Outcomes, Kinds
  <2>2. receipt \in [Markers -> Receipts] /\ review \in [Processes -> Reviews]
    BY DEF NewReview, Receipts, Reviews
  <2>3. key \in BOOLEAN /\ trusted \in BOOLEAN
    OBVIOUS
  <2>4. version \in 0 .. 2 /\ pending \subseteq Sessions \cup Markers /\ settledBy \subseteq Sessions
    OBVIOUS
  <2>5. drawn \in 0 .. MaxReviews /\ lost \in 0 .. MaxLosses /\ deaths \in 0 .. MaxDeaths
    OBVIOUS
  <2>6. faults \in 0 .. MaxFaults
    OBVIOUS
  <2>. QED BY <2>1, <2>2, <2>3, <2>4, <2>5, <2>6 DEF TypeOK
<1>2. ASSUME NEW s \in Sessions PROVE ServiceSound(svc[s])
  BY <1>1, <1>2 DEF TypeOK, NewService, ServiceSound, ActionSound, Writing
<1>3. JournalInv
  BY DEF NewReview, JournalInv, EnvelopeSound, ReviewSound
<1>4. SharedInv
  BY DEF NewService, SharedInv, ReservationSound, OriginSound, ReturnSound
<1>. QED BY <1>1, <1>2, <1>3, <1>4 DEF IInv

(***************************************************************************)
(* The edits that several actions make.                                     *)
(***************************************************************************)
\* Closing changes the windows and the awaiting action, and keeps what is uncertain.
LEMMA RevokedSound ==
    ASSUME NEW n, ServiceSound(n)
    PROVE  /\ ServiceSound(Revoked(n))
           /\ Keeps(Revoked(n)) <=> Keeps(n)
           /\ Uncertain(Revoked(n)) <=> Uncertain(n)
           /\ \A f \in {"closed", "hook", "dead", "reserved", "sent"} : Revoked(n)[f] = n[f]
<1>. USE DEF ServiceSound, Revoked
<1>1. Revoked(n) \in Services
  BY DEF Services
<1>2. \A f \in (DOMAIN n) \ {"state"} : Revoked(n)[f] = n[f]
  BY DEF Services
<1>3. Revoked(n).state = "revoked"
  BY DEF Services
<1>. QED BY <1>1, <1>2, <1>3, SMTT(30) DEF Services, ActionSound, Writing, Keeps, Uncertain

\* The same of _closed, which also ends the windows.
LEMMA ShutSound ==
    ASSUME NEW n, ServiceSound(n)
    PROVE  /\ ServiceSound(Shut(n))
           /\ Uncertain(Shut(n)) <=> Uncertain(n)
           /\ Keeps(n) => Keeps(Shut(n))
           /\ Shut(n).closed /\ ~Shut(n).hook
           /\ \A f \in {"dead", "reserved", "sent"} : Shut(n)[f] = n[f]
<1>1. Shut(n) \in Services
  BY DEF ServiceSound, Services, Shut, Revoked, Outcomes
<1>2. /\ \A f \in {"dead", "reserved", "sent", "withdrawn", "threads", "kind",
                "net", "unsure"} : Shut(n)[f] = n[f]
      /\ Shut(n).state = "revoked" /\ Shut(n).closed /\ ~Shut(n).hook
      /\ Shut(n).prompt = [a \in Attempts |-> {}]
      /\ Shut(n).att = [a \in Attempts |-> IF n.att[a] = "awaiting" THEN "cancelled" ELSE n.att[a]]
  BY DEF ServiceSound, Services, Shut, Revoked
<1>. QED BY <1>1, <1>2 DEF ServiceSound, Services, ActionSound, Writing, Keeps, Uncertain

\* m is the session n after an edit that neither closes it nor takes a reservation.
Tame(n, m) ==
    /\ ServiceSound(m)
    /\ m.reserved = n.reserved /\ m.closed = n.closed /\ m.hook = n.hook /\ m.dead = n.dead
    /\ m.sent \cap n.withdrawn \subseteq n.sent
    /\ n.closed /\ Keeps(n) => Keeps(m)

\* What a step of a session does to its entry of the journal.
EntryStep(s) ==
    \/ pending' = pending /\ svc'[s].reserved = svc[s].reserved
    \/ /\ CanReserve(s) /\ ~svc[s].reserved /\ ~svc[s].closed
       /\ svc'[s].reserved /\ pending' = pending \cup {s}
    \/ svc[s].reserved /\ ~svc'[s].reserved /\ pending' = pending \ {s}

\* What every step of a session does.
Edited(s) ==
    /\ svc' = [svc EXCEPT ![s] = svc'[s]]
    /\ ServiceSound(svc'[s])
    /\ svc[s].closed => svc'[s].closed
    /\ svc'[s].sent \cap svc[s].withdrawn \subseteq svc[s].sent
    /\ ReturnSound(s)'
    /\ faults' \in 0 .. MaxFaults /\ faults <= faults'
    /\ EntryStep(s)

\* The session gets the state m, and the journal stays.
LEMMA PutEdited ==
    ASSUME IInv, NEW s \in Sessions, NEW m, ServiceSound(m), svc' = [svc EXCEPT ![s] = m],
           UNCHANGED <<pending, faults>>,
           m.reserved = svc[s].reserved, svc[s].closed => m.closed,
           m.sent \cap svc[s].withdrawn \subseteq svc[s].sent,
           s \in pending /\ m.closed /\ ~m.hook /\ ~m.dead /\ faults = 0 => Keeps(m)
    PROVE  Edited(s)
<1>1. svc'[s] = m /\ svc' = [svc EXCEPT ![s] = svc'[s]]
  BY DEF IInv, TypeOK
<1>2. ReturnSound(s)'
  BY <1>1 DEF ReturnSound, Keeps, Uncertain
<1>3. faults' \in 0 .. MaxFaults /\ faults <= faults'
  BY SiteAssumption DEF IInv, TypeOK, SiteAssumption
<1>. QED BY <1>1, <1>2, <1>3 DEF Edited, EntryStep

LEMMA TamePutEdited ==
    ASSUME IInv, NEW s \in Sessions, NEW m, Tame(svc[s], m), Put(s, m)
    PROVE  Edited(s)
<1>1. s \in pending /\ m.closed /\ ~m.hook /\ ~m.dead /\ faults = 0 => Keeps(m)
  BY DEF IInv, SharedInv, ReturnSound, Tame
<1>. QED BY <1>1, PutEdited DEF Tame, Put

\* _closed may give the reservation back, unless something is uncertain.
LEMMA HookEdited ==
    ASSUME IInv, NEW s \in Sessions, NEW m, ServiceSound(m), m.reserved = svc[s].reserved,
           m.sent \cap svc[s].withdrawn \subseteq svc[s].sent, ClosedHook(s, m)
    PROVE  Edited(s)
<1>. DEFINE resolves == m.reserved /\ ~Uncertain(m)
<1>1. CASE /\ resolves /\ version # 0 /\ ~Locked
           /\ svc' = [svc EXCEPT ![s] = [Shut(m) EXCEPT !.reserved = FALSE]]
           /\ pending' = pending \ {s} /\ UNCHANGED faults
  <2>. DEFINE k == [Shut(m) EXCEPT !.reserved = FALSE]
  <2>1. ServiceSound(Shut(m)) /\ ~Uncertain(Shut(m)) /\ Shut(m).closed /\ Shut(m).sent = m.sent
    BY <1>1, ShutSound
  <2>2. k \in Services /\ \A f \in DOMAIN Shut(m) \ {"reserved"} : k[f] = Shut(m)[f]
    BY <2>1, ZenonT(30) DEF ServiceSound, Services
  <2>3. ~k.reserved
    BY <2>1 DEF ServiceSound, Services
  <2>4. ServiceSound(k) /\ k.closed /\ k.sent = m.sent
    <3>. HIDE DEF k
    <3>. QED BY <2>1, <2>2, <2>3 DEF ServiceSound, Services, ActionSound, Writing, Uncertain
  <2>5. svc'[s] = k /\ svc' = [svc EXCEPT ![s] = svc'[s]]
    BY <1>1 DEF IInv, TypeOK
  <2>. HIDE DEF k
  <2>6. faults' \in 0 .. MaxFaults /\ faults <= faults'
    BY <1>1, SiteAssumption DEF IInv, TypeOK, SiteAssumption
  <2>7. ReturnSound(s)' /\ EntryStep(s)
    BY <1>1, <2>3, <2>5 DEF ReturnSound, EntryStep
  <2>. QED BY <2>3, <2>4, <2>5, <2>6, <2>7 DEF Edited
<1>2. CASE /\ resolves /\ (version # 0 => faults < MaxFaults)
           /\ svc' = [svc EXCEPT ![s] = Shut(m)]
           /\ faults' = IF version = 0 THEN faults ELSE faults + 1
           /\ UNCHANGED pending
  <2>1. svc'[s] = Shut(m) /\ svc' = [svc EXCEPT ![s] = svc'[s]]
    BY <1>2 DEF IInv, TypeOK
  <2>2. ServiceSound(Shut(m)) /\ Shut(m).closed /\ Shut(m).sent = m.sent /\ Shut(m).reserved = m.reserved
    BY ShutSound
  <2>3. faults' \in 0 .. MaxFaults /\ faults <= faults' /\ (version # 0 => faults' # 0)
    BY <1>2, SiteAssumption DEF IInv, TypeOK, SiteAssumption
  <2>4. ReturnSound(s)'
    BY <1>2, <2>3 DEF ReturnSound, IInv, JournalInv, EnvelopeSound
  <2>. QED BY <1>2, <2>1, <2>2, <2>3, <2>4 DEF Edited, EntryStep
<1>3. CASE ~resolves /\ svc' = [svc EXCEPT ![s] = Shut(m)] /\ UNCHANGED <<pending, faults>>
  <2>1. ServiceSound(Shut(m)) /\ Shut(m).closed /\ Shut(m).sent = m.sent /\ Shut(m).reserved = m.reserved
    BY ShutSound
  <2>2. s \in pending => Keeps(Shut(m))
    BY <1>3, ShutSound DEF IInv, SharedInv, ReservationSound, Keeps
  <2>. QED BY <1>3, <2>1, <2>2, PutEdited
<1>. QED BY <1>1, <1>2, <1>3 DEF ClosedHook

\* channel.close() by a thread that holds the lock.
LEMMA CloseEdited ==
    ASSUME IInv, NEW s \in Sessions, NEW m, Tame(svc[s], m), Close(s, m)
    PROVE  Edited(s)
<1>1. CASE m.closed /\ svc' = [svc EXCEPT ![s] = Revoked(m)] /\ UNCHANGED <<pending, faults>>
  <2>1. Tame(svc[s], Revoked(m))
    BY RevokedSound DEF Tame
  <2>. QED BY <1>1, <2>1, TamePutEdited DEF Put
<1>2. CASE ~m.closed /\ ClosedHook(s, m)
  BY <1>2, HookEdited DEF Tame
<1>. QED BY <1>1, <1>2 DEF Close

\* The same while something keeps the reservation.
LEMMA CloseUncertainEdited ==
    ASSUME IInv, NEW s \in Sessions, NEW m, Tame(svc[s], m), CloseUncertain(s, m), Keeps(m), UNCHANGED faults
    PROVE  Edited(s)
<1>. DEFINE k == IF m.closed THEN Revoked(m) ELSE Shut(m)
<1>1. /\ ServiceSound(k) /\ Keeps(k) /\ k.sent = m.sent /\ k.reserved = m.reserved
      /\ m.closed => k.closed
  BY ShutSound, RevokedSound DEF Tame
<1>2. svc' = [svc EXCEPT ![s] = k] /\ UNCHANGED <<pending, faults>>
  BY DEF CloseUncertain
<1>. HIDE DEF k
<1>. QED BY <1>1, <1>2, PutEdited DEF Tame

\* The same for a session whose audit record could not be written.
LEMMA CloseUnsureEdited ==
    ASSUME IInv, NEW s \in Sessions, NEW m, Tame(svc[s], m), CloseUnsure(s, m)
    PROVE  Edited(s)
<1>. DEFINE u == [m EXCEPT !.unsure = TRUE]
            k == IF u.closed THEN Revoked(u) ELSE Shut(u)
<1>1. u \in Services /\ \A f \in DOMAIN m \ {"unsure"} : u[f] = m[f]
  BY DEF Tame, ServiceSound, Services
<1>2. svc' = [svc EXCEPT ![s] = k] /\ UNCHANGED pending
  BY DEF CloseUnsure, CloseUncertain
<1>3. faults' \in 0 .. MaxFaults /\ faults <= faults' /\ faults' # 0
  BY SiteAssumption DEF CloseUnsure, IInv, TypeOK, SiteAssumption
<1>. HIDE DEF u
<1>4. ServiceSound(u) /\ u.sent = m.sent /\ u.reserved = m.reserved /\ u.closed = m.closed
  BY <1>1 DEF Tame, ServiceSound, Services, ActionSound, Writing
<1>5. ServiceSound(k) /\ k.sent = m.sent /\ k.reserved = m.reserved /\ (m.closed => k.closed)
  BY <1>4, ShutSound, RevokedSound
<1>. HIDE DEF k
<1>6. svc'[s] = k /\ svc' = [svc EXCEPT ![s] = svc'[s]]
  BY <1>2 DEF IInv, TypeOK
<1>. QED BY <1>2, <1>3, <1>5, <1>6 DEF Edited, EntryStep, ReturnSound, Tame

\* An edit of what no invariant speaks of.
Quiet(n, m) ==
    /\ m \in Services
    /\ \A f \in {"att", "kind", "sent", "threads", "withdrawn", "net", "unsure",
               "reserved", "closed", "hook", "dead"} : m[f] = n[f]
    /\ \A a \in Attempts : m.prompt[a] \subseteq n.prompt[a]
    /\ m.state = n.state \/ (n.state # "revoked" /\ m.state # "none")

LEMMA QuietTame ==
    ASSUME NEW n, NEW m, ServiceSound(n), Quiet(n, m)
    PROVE  Tame(n, m)
  BY DEF Tame, Quiet, ServiceSound, ActionSound, Writing, Keeps, Uncertain, Services

(***************************************************************************)
(* Login, the site grant, and the end of a session.                         *)
(***************************************************************************)
\* login, and the decision on the site.
LEMMA LoginEdits ==
    ASSUME IInv, NEW s \in Sessions, Login(s) \/ SiteDecide(s) PROVE Edited(s)
<1>0. ServiceSound(svc[s]) /\ svc[s] \in Services
  BY DEF IInv, ServiceSound
<1>1. CASE Login(s)
  <2>. DEFINE m == [svc[s] EXCEPT !.state = "pending", !.asked = TRUE]
  <2>1. Quiet(svc[s], m)
    BY <1>0, <1>1 DEF Login, Quiet, Services
  <2>. QED BY <1>0, <1>1, <2>1, QuietTame, TamePutEdited DEF Login
<1>2. CASE SiteDecide(s)
  <2>. DEFINE n == [svc[s] EXCEPT !.asked = FALSE]
              m == [n EXCEPT !.state = "active"]
  <2>1. Quiet(svc[s], n)
    BY <1>0 DEF Quiet, Services
  <2>2. n.state = "pending" => Quiet(svc[s], m)
    BY <1>0 DEF Quiet, Services
  <2>3. (n.state = "pending" /\ Put(s, m)) \/ CloseUnsure(s, n) \/ Close(s, n)
    BY <1>2 DEF SiteDecide
  <2>. HIDE DEF n, m
  <2>. QED BY <1>0, <2>1, <2>2, <2>3, QuietTame, TamePutEdited, CloseEdited, CloseUnsureEdited
<1>. QED BY <1>1, <1>2

\* What ends a session: the owner, the pipe, the hook.
LEMMA EndEdits ==
    ASSUME IInv, NEW s \in Sessions, Revoke(s) \/ ChannelLost(s) \/ Hook(s) PROVE Edited(s)
<1>0. ServiceSound(svc[s]) /\ svc[s] \in Services
  BY DEF IInv, ServiceSound
<1>1. CASE Revoke(s)
  <2>1. Tame(svc[s], Revoked(svc[s]))
    BY <1>0, RevokedSound DEF Tame
  <2>. QED BY <1>1, <2>1, CloseEdited, CloseUnsureEdited DEF Revoke
<1>2. CASE ChannelLost(s)
  <2>. DEFINE m == [svc[s] EXCEPT !.closed = TRUE, !.hook = TRUE]
  <2>1. m \in Services /\ m.closed /\ m.hook
        /\ \A f \in DOMAIN svc[s] \ {"closed", "hook"} : m[f] = svc[s][f]
    BY <1>0 DEF Services
  <2>2. svc' = [svc EXCEPT ![s] = m] /\ UNCHANGED <<pending, faults>>
    BY <1>2 DEF ChannelLost, Put
  <2>. HIDE DEF m
  <2>3. ServiceSound(m) /\ m.reserved = svc[s].reserved /\ m.sent = svc[s].sent
    BY <1>0, <2>1 DEF ServiceSound, Services, ActionSound, Writing
  <2>. QED BY <2>1, <2>2, <2>3, PutEdited
<1>3. CASE Hook(s)
  BY <1>0, <1>3, HookEdited DEF Hook
<1>. QED BY <1>1, <1>2, <1>3

(***************************************************************************)
(* Actions.                                                                 *)
(***************************************************************************)
\* An edit that concerns the action a.
Local(n, m, a) ==
    /\ m \in Services
    /\ m.state \in {n.state, "revoked"}
    /\ \A f \in {"net", "unsure", "reserved", "closed", "hook", "dead"} : m[f] = n[f]
    /\ \A f \in {"sent", "threads", "withdrawn"} : m[f] \ {a} = n[f] \ {a}
    /\ \A b \in Attempts \ {a} : \A f \in {"att", "kind", "prompt"} : m[f][b] = n[f][b]

\* It keeps the session sound if it keeps the action sound.
LEMMA LocalTame ==
    ASSUME NEW n, NEW m, NEW a \in Attempts, ServiceSound(n), Local(n, m, a), ActionSound(m, a),
           a \in m.sent \cap n.withdrawn => a \in n.sent,
           n.att[a] \in {"executing", "unknown", "failed"} /\ n.closed =>
               m.att[a] \in {"executing", "unknown", "failed"}
    PROVE  Tame(n, m)
<1>1. ASSUME NEW b \in Attempts PROVE ActionSound(m, b)
  <2>1. CASE b # a
    <3>1. ActionSound(n, b)
      BY DEF ServiceSound
    <3>. QED BY <2>1, <3>1 DEF ActionSound, Local, Writing
  <2>. QED BY <2>1
<1>2. ServiceSound(m)
  BY <1>1 DEF ServiceSound, Local
<1>3. m.sent \cap n.withdrawn \subseteq n.sent
  BY DEF Local, ServiceSound, Services
<1>4. n.closed /\ Keeps(n) => Keeps(m)
  BY DEF Local, Keeps, Uncertain
<1>. QED BY <1>2, <1>3, <1>4 DEF Tame, Local

\* execute, and a preview that is answered or fails.
LEMMA ExecuteEdits ==
    ASSUME IInv, NEW s \in Sessions, Execute(s) \/ PreviewAnswered(s) \/ PreviewFails(s)
    PROVE  Edited(s)
<1>0. ServiceSound(svc[s]) /\ svc[s] \in Services
  BY DEF IInv, ServiceSound
<1>. DEFINE m == [svc[s] EXCEPT !.op = "preview"]
            w == [svc[s] EXCEPT !.op = "record"]
            k == [svc[s] EXCEPT !.op = None]
<1>1. /\ Quiet(svc[s], m) /\ Quiet(svc[s], w) /\ Quiet(svc[s], k)
      /\ Quiet(svc[s], svc[s])
  BY <1>0 DEF Quiet, Services
<1>2. Put(s, m) \/ Put(s, w) \/ Put(s, k) \/ Close(s, k) \/ Close(s, svc[s])
  BY DEF Execute, PreviewAnswered, PreviewFails
<1>. HIDE DEF m, w, k
<1>. QED BY <1>0, <1>1, <1>2, QuietTame, TamePutEdited, CloseEdited

\* The attempt is recorded.
LEMMA PreviewedEdits ==
    ASSUME IInv, NEW s \in Sessions, NEW a \in Attempts, NEW k \in Kinds, Previewed(s, a, k)
    PROVE  Edited(s)
<1>0. ServiceSound(svc[s]) /\ svc[s] \in Services /\ ActionSound(svc[s], a)
  BY DEF IInv, ServiceSound
<1>. DEFINE n == [svc[s] EXCEPT !.att[a] = IF k = "sensitive" THEN "awaiting" ELSE "confirmed", !.kind[a] = k]
            m1 == [n EXCEPT !.op = a, !.threads = @ \cup {a}]
            m2 == [n EXCEPT !.op = None, !.pending = a, !.prompt[a] = {"decision", "close"}]
            m3 == [n EXCEPT !.op = None, !.att[a] = "cancelled"]
            m4 == [svc[s] EXCEPT !.op = None]
<1>1. svc[s].att[a] = "none"
  BY DEF Previewed
<1>2. (k # "sensitive" /\ Put(s, m1)) \/ (k = "sensitive" /\ (Put(s, m2) \/ Put(s, m3))) \/ CloseUnsure(s, m4)
  BY DEF Previewed
<1>3. /\ n \in Services /\ \A f \in DOMAIN svc[s] \ {"att", "kind"} : n[f] = svc[s][f]
      /\ n.att = [svc[s].att EXCEPT ![a] = IF k = "sensitive" THEN "awaiting" ELSE "confirmed"]
      /\ n.kind = [svc[s].kind EXCEPT ![a] = k]
  BY <1>0 DEF Services, Outcomes
<1>. HIDE DEF n
<1>4. k # "sensitive" => Local(svc[s], m1, a) /\ ActionSound(m1, a) /\ m1.sent = svc[s].sent
  <2>1. /\ m1 \in Services /\ \A f \in DOMAIN n \ {"op", "threads"} : m1[f] = n[f]
        /\ m1.threads = n.threads \cup {a}
    BY <1>3 DEF Services
  <2>. HIDE DEF m1
  <2>. QED BY <1>0, <1>1, <1>3, <2>1 DEF Local, Services, ActionSound, Writing
<1>5. k = "sensitive" =>
          Local(svc[s], m2, a) /\ ActionSound(m2, a) /\ m2.sent = svc[s].sent
  <2>1. /\ m2 \in Services /\ \A f \in DOMAIN n \ {"op", "pending", "prompt"} : m2[f] = n[f]
        /\ m2.prompt = [n.prompt EXCEPT ![a] = {"decision", "close"}]
    BY <1>3 DEF Services
  <2>. HIDE DEF m2
  <2>. QED BY <1>0, <1>1, <1>3, <2>1 DEF Local, Services, ActionSound, Writing
<1>6. Local(svc[s], m3, a) /\ ActionSound(m3, a) /\ m3.sent = svc[s].sent
  <2>1. /\ m3 \in Services /\ \A f \in DOMAIN n \ {"op", "att"} : m3[f] = n[f]
        /\ m3.att = [n.att EXCEPT ![a] = "cancelled"]
    BY <1>3 DEF Services, Outcomes
  <2>. HIDE DEF m3
  <2>. QED BY <1>0, <1>1, <1>3, <2>1 DEF Local, Services, ActionSound, Writing
<1>7. Quiet(svc[s], m4)
  BY <1>0 DEF Quiet, Services
<1>. HIDE DEF m1, m2, m3, m4
<1>. QED BY <1>0, <1>1, <1>2, <1>4, <1>5, <1>6, <1>7, LocalTame, QuietTame, TamePutEdited, CloseUnsureEdited

\* The owner's decision on an action starts its thread.
LEMMA ConfirmEdits ==
    ASSUME IInv, NEW s \in Sessions, NEW a \in Attempts, Confirm(s, a) PROVE Edited(s)
<1>0. ServiceSound(svc[s]) /\ svc[s] \in Services /\ ActionSound(svc[s], a)
  BY DEF IInv, ServiceSound
<1>. DEFINE n == [svc[s] EXCEPT !.prompt[a] = {"close"}]
            m == [n EXCEPT !.att[a] = "confirmed", !.threads = @ \cup {a}]
<1>1. svc[s].prompt[a] # {}
  BY DEF Confirm
<1>2. Local(svc[s], n, a) /\ n.sent = svc[s].sent /\ n.att = svc[s].att /\ ActionSound(n, a)
  BY <1>0, <1>1, SMTT(30) DEF Local, Services, ActionSound, Writing
<1>3. Local(svc[s], m, a) /\ m.sent = svc[s].sent
  BY <1>0, ZenonT(30) DEF Local, Services, Outcomes
<1>4. n.state = "active" /\ n.att[a] = "awaiting" => ActionSound(m, a)
  BY <1>0 DEF Services, ActionSound, Writing
<1>5. (n.state = "active" /\ n.att[a] = "awaiting" /\ Put(s, m)) \/ CloseUnsure(s, n) \/ Put(s, n) \/
         Close(s, n)
  BY DEF Confirm
<1>. HIDE DEF n, m
<1>. QED BY <1>0, <1>2, <1>3, <1>4, <1>5, LocalTame, TamePutEdited, CloseEdited, CloseUnsureEdited

\* An action that the owner withdraws is not confirmed any more, or its session ends.
LEMMA CancelEdits ==
    ASSUME IInv, NEW s \in Sessions, NEW a \in Attempts, CancelAction(s, a) PROVE Edited(s)
<1>0. ServiceSound(svc[s]) /\ svc[s] \in Services /\ ActionSound(svc[s], a)
  BY DEF IInv, ServiceSound
<1>. DEFINE n == [svc[s] EXCEPT !.prompt[a] = @ \ {"close"}, !.withdrawn = @ \cup {a}]
            m == [n EXCEPT !.att[a] = IF @ \in {"awaiting", "confirmed"} THEN "cancelled" ELSE @,
                           !.pending = IF @ = a THEN None ELSE @]
<1>1. svc[s].prompt[a] # {}
  BY DEF CancelAction
<1>2. \/ n.att[a] = "executing" /\ n.state = "revoked" /\ Put(s, n)
      \/ Close(s, Revoked(n)) \/ CloseUnsure(s, Revoked(n))
      \/ n.att[a] # "executing" /\ Put(s, m)
  BY DEF CancelAction
<1>3. /\ n \in Services /\ \A f \in DOMAIN svc[s] \ {"prompt", "withdrawn"} : n[f] = svc[s][f]
      /\ n.prompt = [svc[s].prompt EXCEPT ![a] = @ \ {"close"}]
      /\ n.withdrawn = svc[s].withdrawn \cup {a}
  BY <1>0 DEF Services
<1>. HIDE DEF n
<1>4. /\ m \in Services /\ \A f \in DOMAIN n \ {"att", "pending"} : m[f] = n[f]
      /\ m.att = [n.att EXCEPT ![a] = IF @ \in {"awaiting", "confirmed"} THEN "cancelled" ELSE @]
  BY <1>3, ZenonT(30) DEF Services, Outcomes
<1>5. /\ Revoked(n) \in Services /\ \A f \in DOMAIN n \ {"state"} : Revoked(n)[f] = n[f]
      /\ Revoked(n).state = "revoked"
  BY <1>3 DEF Revoked, Services
<1>. HIDE DEF m
<1>6. Local(svc[s], n, a) /\ n.sent = svc[s].sent /\ n.att = svc[s].att
  BY <1>0, <1>3 DEF Local, Services
<1>7. n.state = "revoked" => ActionSound(n, a)
  BY <1>0, <1>1, <1>3 DEF Services, ActionSound, Writing
<1>8. Local(svc[s], Revoked(n), a) /\ Revoked(n).sent = svc[s].sent /\ Revoked(n).att = svc[s].att
  BY <1>0, <1>3, <1>5 DEF Local, Services
<1>9. ActionSound(Revoked(n), a)
  BY <1>0, <1>1, <1>3, <1>5 DEF Services, ActionSound, Writing
<1>10. Local(svc[s], m, a) /\ m.sent = svc[s].sent
  BY <1>0, <1>3, <1>4 DEF Local, Services
<1>11. n.att[a] # "executing" => ActionSound(m, a)
  BY <1>0, <1>1, <1>3, <1>4 DEF Services, Outcomes, ActionSound, Writing
<1>12. svc[s].att[a] \in {"unknown", "failed"} => m.att[a] = svc[s].att[a]
  BY <1>0, <1>3, <1>4 DEF Services
<1>13. CASE n.att[a] = "executing" /\ n.state = "revoked" /\ Put(s, n)
  BY <1>0, <1>6, <1>7, <1>13, LocalTame, TamePutEdited
<1>14. CASE Close(s, Revoked(n)) \/ CloseUnsure(s, Revoked(n))
  BY <1>0, <1>8, <1>9, <1>14, LocalTame, CloseEdited, CloseUnsureEdited
<1>15. CASE n.att[a] # "executing" /\ Put(s, m)
  BY <1>0, <1>6, <1>10, <1>11, <1>12, <1>15, LocalTame, TamePutEdited
<1>. QED BY <1>2, <1>13, <1>14, <1>15

\* The session may reserve.
LEMMA ReserveEdited ==
    ASSUME IInv, NEW s \in Sessions, NEW m, ServiceSound(m), svc' = [svc EXCEPT ![s] = m],
           ~svc[s].closed, m.sent = svc[s].sent,
           \/ pending' = pending /\ m.reserved = svc[s].reserved
           \/ CanReserve(s) /\ ~svc[s].reserved /\ m.reserved /\ pending' = pending \cup {s},
           faults' \in 0 .. MaxFaults, faults <= faults', m.closed => faults' # 0
    PROVE  Edited(s)
<1>1. svc'[s] = m /\ svc' = [svc EXCEPT ![s] = svc'[s]]
  BY DEF IInv, TypeOK
<1>. QED BY <1>1 DEF Edited, EntryStep, ReturnSound

\* _run takes the reservation with the first write, or refuses the action.
LEMMA RunEdits ==
    ASSUME IInv, NEW s \in Sessions, NEW a \in Attempts, Run(s, a) PROVE Edited(s)
<1>0. ServiceSound(svc[s]) /\ svc[s] \in Services /\ ActionSound(svc[s], a)
  BY DEF IInv, ServiceSound
<1>. DEFINE n == [svc[s] EXCEPT !.threads = @ \ {a}]
            c == [n EXCEPT !.att[a] = "cancelled", !.pending = None]
            refused == Returned(c, a)
            writes == n.kind[a] # "read"
            ready == Valid(n) /\ n.state = "active" /\ n.att[a] = "confirmed"
            runs == [n EXCEPT !.att[a] = "executing", !.queued = @ \cup {a},
                              !.reserved = IF writes THEN TRUE ELSE @]
            fails == [refused EXCEPT !.unsure = TRUE, !.reserved = IF writes THEN TRUE ELSE @]
<1>1. svc[s].att[a] \in {"confirmed", "cancelled"} /\ a \notin svc[s].sent
  BY <1>0 DEF Run, ActionSound
<1>2. /\ n \in Services /\ \A f \in DOMAIN svc[s] \ {"threads"} : n[f] = svc[s][f]
      /\ n.threads = svc[s].threads \ {a}
  BY <1>0 DEF Services
<1>3. \/ /\ ready /\ IF writes THEN Reserves(s, n) ELSE UNCHANGED pending
         /\ svc' = [svc EXCEPT ![s] = runs] /\ UNCHANGED faults
      \/ /\ ready /\ faults < MaxFaults
         /\ IF writes THEN Reserves(s, n) ELSE UNCHANGED pending
         /\ svc' = [svc EXCEPT ![s] = Shut(fails)] /\ faults' = faults + 1
      \/ Put(s, refused) \/ Close(s, refused)
  BY DEF Run
<1>. HIDE DEF n
<1>4. /\ c \in Services /\ \A f \in DOMAIN n \ {"att", "pending"} : c[f] = n[f]
      /\ c.att = [n.att EXCEPT ![a] = "cancelled"]
  BY <1>2 DEF Services, Outcomes
<1>. HIDE DEF c
<1>5. refused \in Services /\ \A f \in DOMAIN c \ {"op"} : refused[f] = c[f]
  BY <1>4 DEF Services, Returned
<1>6. refused.reserved = n.reserved /\ n.reserved \in BOOLEAN /\ writes \in BOOLEAN
  <2>1. writes \in BOOLEAN
    OBVIOUS
  <2>. QED BY <1>2, <1>4, <1>5, <2>1 DEF Services
<1>7. /\ runs \in Services /\ \A f \in DOMAIN n \ {"att", "queued", "reserved"} : runs[f] = n[f]
      /\ runs.att = [n.att EXCEPT ![a] = "executing"]
      /\ runs.reserved = IF writes THEN TRUE ELSE n.reserved
  BY <1>2, ZenonT(30) DEF Services, Outcomes
<1>. HIDE DEF refused
<1>8. /\ fails \in Services /\ \A f \in DOMAIN refused \ {"unsure", "reserved"} : fails[f] = refused[f]
      /\ fails.reserved = IF writes THEN TRUE ELSE n.reserved
  BY <1>5, <1>6 DEF Services
<1>. HIDE DEF runs, fails
<1>9. Local(svc[s], refused, a) /\ ActionSound(refused, a) /\ refused.sent = svc[s].sent
  BY <1>0, <1>1, <1>2, <1>4, <1>5, SMTT(30) DEF Local, Services, ActionSound, Writing
<1>10. Tame(svc[s], refused)
  BY <1>0, <1>1, <1>9, LocalTame
<1>11. ready => ServiceSound(runs) /\ runs.sent = svc[s].sent /\ ~runs.closed
  <2>. SUFFICES ASSUME ready PROVE ServiceSound(runs) /\ runs.sent = svc[s].sent /\ ~runs.closed
    OBVIOUS
  <2>1. ASSUME NEW b \in Attempts PROVE ActionSound(runs, b)
    <3>1. CASE b = a
      BY <1>0, <1>1, <1>2, <1>7, <3>1 DEF Services, ActionSound, Writing
    <3>2. CASE b # a
      <4>1. ActionSound(svc[s], b)
        BY <1>0 DEF ServiceSound
      <4>. QED BY <1>0, <1>2, <1>7, <3>2, <4>1 DEF Services, ActionSound, Writing
    <3>. QED BY <3>1, <3>2
  <2>2. \A f \in {"net", "state", "hook", "closed", "sent"} : runs[f] = svc[s][f]
    BY <1>0, <1>2, <1>7 DEF Services
  <2>3. svc[s].reserved => runs.reserved
    BY <1>0, <1>2, <1>7 DEF Services
  <2>. QED BY <1>0, <1>2, <1>7, <2>1, <2>2, <2>3 DEF ServiceSound, Services, Valid
<1>12. ready => ServiceSound(fails) /\ fails.sent = svc[s].sent
  <2>. SUFFICES ASSUME ready PROVE ServiceSound(fails) /\ fails.sent = svc[s].sent
    OBVIOUS
  <2>1. ServiceSound(refused)
    BY <1>10 DEF Tame
  <2>2. refused.reserved => fails.reserved
    BY <1>0, <1>2, <1>4, <1>5, <1>8, SMTT(30) DEF Services
  <2>3. refused.state # "none"
    BY <1>2, <1>4, <1>5 DEF Services
  <2>. QED BY <1>5, <1>8, <1>9, <2>1, <2>2, <2>3 DEF ServiceSound, Services, ActionSound, Writing
<1>13. ~svc[s].closed \/ ~ready
  BY <1>2, <1>0 DEF Valid, Services
<1>14. n.reserved = svc[s].reserved
  BY <1>2, <1>0 DEF Services
<1>15. CASE /\ ready /\ IF writes THEN Reserves(s, n) ELSE UNCHANGED pending
            /\ svc' = [svc EXCEPT ![s] = runs] /\ UNCHANGED faults
  <2>1. faults' \in 0 .. MaxFaults /\ faults <= faults'
    BY <1>15, SiteAssumption DEF IInv, TypeOK, SiteAssumption
  <2>2. \/ pending' = pending /\ runs.reserved = svc[s].reserved
        \/ CanReserve(s) /\ ~svc[s].reserved /\ runs.reserved /\ pending' = pending \cup {s}
    BY <1>0, <1>7, <1>14, <1>15 DEF Reserves, Services
  <2>. QED BY <1>11, <1>13, <1>15, <2>1, <2>2, ReserveEdited
<1>16. CASE /\ ready /\ faults < MaxFaults
            /\ IF writes THEN Reserves(s, n) ELSE UNCHANGED pending
            /\ svc' = [svc EXCEPT ![s] = Shut(fails)] /\ faults' = faults + 1
  <2>1. faults' \in 0 .. MaxFaults /\ faults <= faults' /\ faults' # 0
    BY <1>16, SiteAssumption DEF IInv, TypeOK, SiteAssumption
  <2>2. \/ pending' = pending /\ fails.reserved = svc[s].reserved
        \/ CanReserve(s) /\ ~svc[s].reserved /\ fails.reserved /\ pending' = pending \cup {s}
    BY <1>0, <1>8, <1>14, <1>16 DEF Reserves, Services
  <2>3. ServiceSound(Shut(fails)) /\ Shut(fails).sent = svc[s].sent /\ Shut(fails).reserved = fails.reserved
    BY <1>12, <1>16, ShutSound
  <2>. QED BY <1>13, <1>16, <2>1, <2>2, <2>3, ReserveEdited
<1>. QED BY <1>3, <1>10, <1>15, <1>16, TamePutEdited, CloseEdited

(***************************************************************************)
(* The worker.                                                              *)
(***************************************************************************)
\* Channel.request.
LEMMA SendEdits ==
    ASSUME IInv, NEW s \in Sessions, NEW a \in Attempts, Send(s, a) PROVE Edited(s)
<1>0. ServiceSound(svc[s]) /\ svc[s] \in Services
  BY DEF IInv, ServiceSound
<1>. DEFINE m == [svc[s] EXCEPT !.queued = @ \ {a}, !.line = a]
<1>1. Quiet(svc[s], m)
  BY <1>0 DEF Quiet, Services
<1>2. Put(s, m)
  BY DEF Send
<1>. HIDE DEF m
<1>. QED BY <1>0, <1>1, <1>2, QuietTame, TamePutEdited

\* _authorize permits an action only while it executes.
LEMMA DispatchEdits ==
    ASSUME IInv, NEW s \in Sessions, NEW a \in Attempts, Dispatch(s, a) PROVE Edited(s)
<1>0. ServiceSound(svc[s]) /\ svc[s] \in Services /\ ActionSound(svc[s], a)
  BY DEF IInv, ServiceSound
<1>. DEFINE m == [svc[s] EXCEPT !.sent = @ \cup {a}]
<1>1. \/ svc[s].state = "active" /\ svc[s].att[a] = "executing" /\ Put(s, m)
      \/ Close(s, svc[s])
  BY DEF Dispatch
<1>2. svc[s].kind[a] # "read"
  BY DEF Dispatch
<1>3. /\ m \in Services /\ \A f \in DOMAIN svc[s] \ {"sent"} : m[f] = svc[s][f]
      /\ m.sent = svc[s].sent \cup {a}
  BY <1>0 DEF Services
<1>4. Tame(svc[s], svc[s])
  BY <1>0, QuietTame DEF Quiet, Services
<1>. HIDE DEF m
<1>5. CASE svc[s].state = "active" /\ svc[s].att[a] = "executing" /\ Put(s, m)
  <2>1. Local(svc[s], m, a) /\ m.att = svc[s].att
    BY <1>0, <1>3 DEF Local, Services
  <2>2. ActionSound(m, a) /\ a \notin svc[s].withdrawn
    BY <1>0, <1>2, <1>3, <1>5 DEF Services, ActionSound, Writing
  <2>3. Tame(svc[s], m)
    BY <1>0, <2>1, <2>2, LocalTame
  <2>. QED BY <1>5, <2>3, TamePutEdited
<1>. QED BY <1>1, <1>4, <1>5, CloseEdited

\* An answer settles the action; without one it stays unknown.
LEMMA AnswerEdits ==
    ASSUME IInv, NEW s \in Sessions, NEW a \in Attempts, Answer(s, a) PROVE Edited(s)
<1>0. ServiceSound(svc[s]) /\ svc[s] \in Services /\ ActionSound(svc[s], a)
  BY DEF IInv, ServiceSound
<1>. DEFINE n == [svc[s] EXCEPT !.queued = @ \ {a}, !.line = IF @ = a THEN None ELSE @]
            Over(st) == [n EXCEPT !.att[a] = st, !.pending = IF @ = a THEN None ELSE @]
            Final(st) == Returned(Over(st), a)
            outcome == IF n.kind[a] = "read" THEN "failed" ELSE "unknown"
<1>1. n.att[a] = "executing" /\ Live(s)
  BY DEF Answer
<1>2. \/ Valid(n) /\ (n.kind[a] = "read" \/ a \in n.sent) /\ Put(s, Final("completed"))
      \/ Valid(n) /\ a \notin n.sent /\ Put(s, Final("failed-before-dispatch"))
      \/ CloseUnsure(s, Final(outcome))
      \/ CloseUncertain(s, Final(outcome)) /\ UNCHANGED faults
  BY DEF Answer
<1>3. n \in Services /\ \A f \in DOMAIN svc[s] \ {"queued", "line"} : n[f] = svc[s][f]
  BY <1>0, ZenonT(30) DEF Services
<1>. HIDE DEF n
<1>4. ASSUME NEW st \in {"completed", "failed-before-dispatch", "failed", "unknown"},
             st \in {"completed", "failed-before-dispatch"} => Valid(n),
             st = "failed-before-dispatch" => a \notin n.sent,
             st = "failed" => n.kind[a] = "read"
      PROVE  Tame(svc[s], Final(st)) /\ Final(st).att[a] = st
  <2>. DEFINE o == Over(st)
              m == Returned(o, a)
  <2>1. /\ o \in Services /\ \A f \in DOMAIN n \ {"att", "pending"} : o[f] = n[f]
        /\ o.att = [n.att EXCEPT ![a] = st]
    BY <1>3, ZenonT(30) DEF Services, Outcomes
  <2>. HIDE DEF o
  <2>2. m \in Services /\ \A f \in DOMAIN o \ {"op"} : m[f] = o[f]
    BY <2>1 DEF Services, Returned
  <2>. HIDE DEF m
  <2>3. Local(svc[s], m, a) /\ m.sent = svc[s].sent /\ m.att[a] = st
    BY <1>0, <1>3, <2>1, <2>2 DEF Local, Services
  <2>4. \A f \in {"kind", "threads", "withdrawn", "prompt", "reserved", "state", "dead"} : m[f] = svc[s][f]
    BY <1>0, <1>3, <2>1, <2>2 DEF Services
  <2>5. svc[s].att[a] = "executing" /\ ~svc[s].dead /\ n.kind = svc[s].kind /\ n.sent = svc[s].sent
    BY <1>0, <1>1, <1>3 DEF Live, Services
  <2>6. ActionSound(m, a)
    BY <1>0, <1>4, <2>3, <2>4, <2>5 DEF ActionSound, Writing
  <2>7. st \in {"completed", "failed-before-dispatch"} => ~svc[s].closed
    BY <1>0, <1>3, <1>4 DEF Valid, Services
  <2>8. Tame(svc[s], m)
    BY <1>0, <2>3, <2>6, <2>7, LocalTame
  <2>. QED BY <2>3, <2>8 DEF m, o
<1>. HIDE DEF Final
<1>7. Tame(svc[s], Final(outcome)) /\ Keeps(Final(outcome))
  BY <1>4 DEF Keeps, Uncertain
<1>8. CASE Valid(n) /\ Put(s, Final("completed"))
  BY <1>4, <1>8, TamePutEdited
<1>9. CASE Valid(n) /\ a \notin n.sent /\ Put(s, Final("failed-before-dispatch"))
  BY <1>4, <1>9, TamePutEdited
<1>. QED BY <1>2, <1>7, <1>8, <1>9, CloseUnsureEdited, CloseUncertainEdited

\* A request of the page reserves before it is permitted.
LEMMA NetEdits ==
    ASSUME IInv, NEW s \in Sessions, NEW r \in Requests, NetAsk(s, r) \/ NetDone(s, r) PROVE Edited(s)
<1>0. ServiceSound(svc[s]) /\ svc[s] \in Services /\ Tame(svc[s], svc[s])
  BY QuietTame DEF IInv, ServiceSound, Quiet, Services
<1>. DEFINE asks == [svc[s] EXCEPT !.net[r] = "open", !.reserved = TRUE]
            done == [svc[s] EXCEPT !.net[r] = "done"]
            lose == [svc[s] EXCEPT !.net[r] = "unknown", !.unsure = TRUE]
<1>1. /\ asks \in Services /\ \A f \in DOMAIN svc[s] \ {"net", "reserved"} : asks[f] = svc[s][f]
      /\ asks.reserved = TRUE
  BY <1>0 DEF Services
<1>2. done \in Services /\ \A f \in DOMAIN svc[s] \ {"net"} : done[f] = svc[s][f]
      /\ done.net = [svc[s].net EXCEPT ![r] = "done"]
  BY <1>0 DEF Services
<1>3. /\ lose \in Services /\ \A f \in DOMAIN svc[s] \ {"net", "unsure"} : lose[f] = svc[s][f]
      /\ lose.net = [svc[s].net EXCEPT ![r] = "unknown"] /\ lose.unsure
  BY <1>0 DEF Services
<1>4. ~svc[s].closed
  BY DEF NetAsk, NetDone
<1>5. CASE NetAsk(s, r)
  <2>1. CASE Valid(svc[s]) /\ svc[s].state = "active" /\ Reserves(s, svc[s]) /\
             svc' = [svc EXCEPT ![s] = asks] /\ UNCHANGED faults
    <3>1. ServiceSound(asks) /\ asks.sent = svc[s].sent /\ ~asks.closed
      <4>. HIDE DEF asks
      <4>. QED BY <1>0, <1>1, <1>4, <2>1 DEF ServiceSound, Services, ActionSound, Writing
    <3>2. faults' \in 0 .. MaxFaults /\ faults <= faults'
      BY <2>1, SiteAssumption DEF IInv, TypeOK, SiteAssumption
    <3>. HIDE DEF asks
    <3>3. \/ pending' = pending /\ asks.reserved = svc[s].reserved
          \/ CanReserve(s) /\ ~svc[s].reserved /\ asks.reserved /\ pending' = pending \cup {s}
      BY <1>0, <1>1, <2>1 DEF Reserves, Services
    <3>. QED BY <1>4, <2>1, <3>1, <3>2, <3>3, ReserveEdited
  <2>2. CASE Close(s, svc[s])
    BY <1>0, <2>2, CloseEdited
  <2>. QED BY <1>5, <2>1, <2>2 DEF NetAsk
<1>6. CASE NetDone(s, r)
  <2>1. Put(s, done) \/ Close(s, lose)
    BY <1>6 DEF NetDone
  <2>2. svc[s].net[r] = "open"
    BY <1>6 DEF NetDone
  <2>. HIDE DEF done, lose
  <2>3. Tame(svc[s], done)
    BY <1>0, <1>2, <1>4 DEF Tame, ServiceSound, Services, ActionSound, Writing
  <2>4. Tame(svc[s], lose)
    BY <1>0, <1>3, <1>4, <2>2 DEF Tame, ServiceSound, Services, ActionSound, Writing
  <2>. QED BY <2>1, <2>3, <2>4, TamePutEdited, CloseEdited
<1>. QED BY <1>5, <1>6

\* Every step of a session, in the words of Edited.
LEMMA SessionEdits ==
    ASSUME IInv, NEW s \in Sessions, SessionStep(s) PROVE Edited(s)
<1>1. Acts[s] \subseteq Attempts /\ Asks[s] \subseteq Requests
  BY SiteAssumption DEF SiteAssumption
<1>. QED
  BY <1>1, LoginEdits, EndEdits, ExecuteEdits, PreviewedEdits, ConfirmEdits, CancelEdits, RunEdits,
     SendEdits, DispatchEdits, AnswerEdits, NetEdits DEF SessionStep

(***************************************************************************)
(* Sessions keep the invariant.                                             *)
(***************************************************************************)
\* Whatever a session does keeps the invariant of all.
LEMMA EditedKeeps ==
    ASSUME IInv, NEW s \in Sessions, Edited(s), KeepJournal PROVE IInv'
<1>. USE DEF KeepJournal
<1>0. /\ svc \in [Sessions -> Services] /\ svc'[s] \in Services
      /\ \A t \in Sessions \ {s} : svc'[t] = svc[t]
  BY DEF IInv, TypeOK, Edited, ServiceSound
<1>1. TypeOK'
  <2>1. svc' \in [Sessions -> Services]
    BY <1>0 DEF Edited
  <2>2. pending' \subseteq Sessions \cup Markers
    BY DEF Edited, EntryStep, IInv, TypeOK
  <2>3. /\ receipt' \in [Markers -> Receipts] /\ review' \in [Processes -> Reviews]
        /\ drawn' \in 0 .. MaxReviews /\ lost' \in 0 .. MaxLosses /\ deaths' \in 0 .. MaxDeaths
        /\ settledBy' \subseteq Sessions /\ faults' \in 0 .. MaxFaults /\ version' \in 0 .. 2
    BY DEF Edited, IInv, TypeOK
  <2>4. key' \in BOOLEAN /\ trusted' \in BOOLEAN
    BY DEF IInv, TypeOK
  <2>. QED BY <2>1, <2>2, <2>3, <2>4 DEF TypeOK
<1>2. ASSUME NEW t \in Sessions PROVE ServiceSound(svc[t])'
  BY <1>0 DEF Edited, IInv, ServiceSound, ActionSound, Writing
<1>3. JournalInv'
  <2>1. ASSUME NEW i \in Markers, i \in pending PROVE i \in pending'
    <3>1. i # s
      BY <2>1, MarkersApart
    <3>2. EntryStep(s)
      BY DEF Edited
    <3>. QED BY <2>1, <3>1, <3>2 DEF EntryStep
  <2>2. version = 0 => pending' = {}
    BY DEF Edited, EntryStep, CanReserve, IInv, JournalInv, EnvelopeSound
  <2>. QED BY <2>1, <2>2 DEF IInv, JournalInv, EnvelopeSound, ReviewSound
<1>4. ASSUME NEW t \in Sessions PROVE ReservationSound(t)' /\ ReturnSound(t)'
  <2>1. CASE t = s
    BY <2>1, <1>0 DEF Edited, EntryStep, CanReserve, IInv, SharedInv, ReservationSound
  <2>2. CASE t # s
    <3>1. t \in pending' <=> t \in pending
      BY <2>2 DEF Edited, EntryStep
    <3>2. faults' = 0 => faults = 0
      BY DEF Edited, IInv, TypeOK
    <3>. QED BY <1>0, <2>2, <3>1, <3>2
         DEF IInv, SharedInv, ReservationSound, ReturnSound, Keeps, Uncertain
  <2>. QED BY <2>1, <2>2
<1>5. ASSUME NEW t \in Sessions, NEW u \in Sessions PROVE OriginSound(t, u)'
  <2>. SUFFICES ASSUME t # u, Origin[t] = Origin[u], svc'[t].reserved, svc'[u].reserved,
                       t \notin settledBy, ~svc'[u].closed
                PROVE  FALSE
    BY DEF OriginSound
  <2>1. CASE svc[t].reserved /\ svc[u].reserved
    <3>1. ~svc[u].closed
      BY <1>0 DEF Edited
    <3>. QED BY <2>1, <3>1 DEF IInv, SharedInv, OriginSound
  <2>2. CASE u = s /\ ~svc[u].reserved
    <3>1. CanReserve(u) /\ svc[t].reserved
      BY <1>0, <2>2 DEF Edited, EntryStep
    <3>2. t \in pending
      BY <3>1 DEF CanReserve, IInv, SharedInv, ReservationSound
    <3>. QED BY <3>1, <3>2 DEF CanReserve, Conflicts
  <2>3. CASE t = s /\ ~svc[t].reserved
    <3>1. CanReserve(t) /\ svc[u].reserved /\ ~svc[u].closed
      BY <1>0, <2>3 DEF Edited, EntryStep
    <3>2. u \in pending
      BY <3>1 DEF CanReserve, IInv, SharedInv, ReservationSound
    <3>. QED BY <3>1, <3>2 DEF CanReserve, Conflicts
  <2>. QED BY <1>0, <2>1, <2>2, <2>3
<1>. QED BY <1>1, <1>2, <1>3, <1>4, <1>5 DEF IInv, SharedInv

\* A dead session keeps its reservation.
LEMMA DieKeeps ==
    ASSUME IInv, NEW s \in Sessions, Die(s) PROVE IInv'
<1>. DEFINE m == [NewService EXCEPT !.state = "revoked", !.closed = TRUE, !.dead = TRUE,
                    !.att = svc[s].att, !.net = svc[s].net, !.sent = svc[s].sent, !.reserved = svc[s].reserved]
<1>0. ServiceSound(svc[s]) /\ svc[s] \in Services /\ svc \in [Sessions -> Services]
  BY DEF IInv, ServiceSound, TypeOK
<1>1. /\ m \in Services /\ \A f \in {"att", "net", "sent", "reserved"} : m[f] = svc[s][f]
      /\ m.state = "revoked" /\ m.closed /\ ~m.hook /\ m.dead
      /\ m.threads = {} /\ m.withdrawn = {} /\ \A a \in Attempts : m.kind[a] = "read" /\ m.prompt[a] = {}
  <2>1. m = [NewService EXCEPT !.state = "revoked", !.closed = TRUE, !.dead = TRUE,
                !.att = svc[s].att, !.net = svc[s].net, !.sent = svc[s].sent, !.reserved = svc[s].reserved]
    OBVIOUS
  <2>. HIDE DEF m
  <2>2. /\ \A f \in {"att", "net", "sent", "reserved"} : m[f] = svc[s][f]
        /\ m.state = "revoked" /\ m.closed /\ ~m.hook /\ m.dead
        /\ m.threads = {} /\ m.withdrawn = {}
        /\ m.kind = [a \in Attempts |-> "read"] /\ m.prompt = [a \in Attempts |-> {}]
    BY <2>1 DEF NewService
  <2>3. NewService \in Services
    BY DEF NewService, Services, Kinds, Outcomes
  <2>4. m \in Services
    BY <1>0, <2>1, <2>3 DEF Services
  <2>. QED BY <2>2, <2>4
<1>2. svc' = [svc EXCEPT ![s] = m]
  BY DEF Die
<1>. HIDE DEF m
<1>3. ServiceSound(m)
  BY <1>0, <1>1 DEF ServiceSound, Services, ActionSound, Writing
<1>4. svc'[s] = m /\ \A t \in Sessions \ {s} : svc'[t] = svc[t]
  BY <1>0, <1>2
<1>5. TypeOK'
  <2>1. svc' \in [Sessions -> Services]
    BY <1>0, <1>1, <1>2
  <2>2. deaths' \in 0 .. MaxDeaths
    BY JournalAssumption DEF JournalAssumption, Die, IInv, TypeOK
  <2>3. UNCHANGED <<key, version, pending, receipt, review, drawn, lost, trusted, settledBy, faults>>
    BY DEF Die
  <2>. QED BY <2>1, <2>2, <2>3 DEF IInv, TypeOK
<1>6. ASSUME NEW t \in Sessions PROVE ServiceSound(svc[t])'
  BY <1>3, <1>4 DEF IInv, ServiceSound, ActionSound, Writing
<1>7. JournalInv'
  BY DEF Die, IInv, JournalInv, EnvelopeSound, ReviewSound
<1>8. SharedInv'
  BY <1>1, <1>4 DEF Die, IInv, SharedInv, ReservationSound, ReturnSound, OriginSound, Keeps, Uncertain
<1>. QED BY <1>5, <1>6, <1>7, <1>8 DEF IInv

(***************************************************************************)
(* The journal keeps the invariant.                                         *)
(***************************************************************************)
\* The types of what the journal may change.
JournalTypes ==
    /\ key \in BOOLEAN /\ version \in 0 .. 2 /\ pending \subseteq Sessions \cup Markers
    /\ receipt \in [Markers -> Receipts] /\ review \in [Processes -> Reviews]
    /\ drawn \in 0 .. MaxReviews /\ lost \in 0 .. MaxLosses /\ deaths \in 0 .. MaxDeaths
    /\ settledBy \subseteq Sessions /\ trusted \in BOOLEAN

\* A step of the journal may drop entries of sessions, and must keep what they say.
LEMMA JournalKeeps ==
    ASSUME IInv, UNCHANGED <<svc, faults>>, JournalTypes', JournalInv', settledBy \subseteq settledBy',
           \A s \in Sessions : s \in pending' => s \in pending,
           \A s \in Sessions : ReservationSound(s)'
    PROVE  IInv'
<1>1. TypeOK'
  BY DEF IInv, TypeOK, JournalTypes
<1>2. ASSUME NEW s \in Sessions PROVE ServiceSound(svc[s])' /\ ReturnSound(s)'
  BY DEF IInv, SharedInv, ReturnSound, ServiceSound, ActionSound, Writing, Keeps, Uncertain
<1>3. ASSUME NEW s \in Sessions, NEW t \in Sessions PROVE OriginSound(s, t)'
  BY DEF IInv, SharedInv, OriginSound
<1>. QED BY <1>1, <1>2, <1>3 DEF IInv, SharedInv

\* The same for a step that leaves the store alone.
LEMMA StoreKeeps ==
    ASSUME IInv, UNCHANGED <<svc, faults, key, version, pending>>, JournalTypes', JournalInv',
           settledBy \subseteq settledBy'
    PROVE  IInv'
<1>1. ASSUME NEW s \in Sessions PROVE ReservationSound(s)'
  BY DEF IInv, SharedInv, ReservationSound
<1>. QED BY <1>1, JournalKeeps

\* Reviews of other processes are not touched.
LEMMA ReviewKept ==
    ASSUME IInv, NEW p \in Processes, NEW v \in Reviews, review' = [review EXCEPT ![p] = v],
           key => key', settledBy \subseteq settledBy', ReviewSound(p)'
    PROVE  /\ review' \in [Processes -> Reviews] /\ review'[p] = v
           /\ \A q \in Processes : ReviewSound(q)'
  BY DEF IInv, TypeOK, JournalInv, ReviewSound

\* An envelope is made only where there was nothing, or where there is nothing in it.
LEMMA CreationKeeps ==
    ASSUME IInv, UNCHANGED <<svc, faults>>, Create \/ CreateDies \/ Lose \/ Upgrade(Idle)
    PROVE  IInv'
<1>1. JournalTypes'
  <2>1. deaths' \in 0 .. MaxDeaths /\ lost' \in 0 .. MaxLosses
    BY JournalAssumption
    DEF JournalAssumption, Create, CreateDies, Lose, Upgrade, KeepRecovery, IInv, TypeOK
  <2>2. key' \in BOOLEAN /\ trusted' \in BOOLEAN
    BY DEF Create, CreateDies, Lose, Upgrade, KeepRecovery, IInv, TypeOK
  <2>3. version' \in 0 .. 2 /\ pending' \subseteq Sessions \cup Markers
    BY DEF Create, CreateDies, Lose, Upgrade, KeepRecovery, IInv, TypeOK
  <2>4. UNCHANGED <<receipt, review, drawn, settledBy>>
    BY DEF Create, CreateDies, Lose, Upgrade, KeepRecovery
  <2>. QED BY <2>1, <2>2, <2>3, <2>4 DEF IInv, TypeOK, JournalTypes
<1>2. (key => key') /\ UNCHANGED <<review, settledBy>> /\ (pending' = {} \/ pending' = pending)
  BY DEF Create, CreateDies, Lose, Upgrade, KeepRecovery
<1>3. EnvelopeSound'
  BY DEF Create, CreateDies, Lose, Upgrade, Upgradable, KeepRecovery, IInv, JournalInv, EnvelopeSound
<1>4. JournalInv'
  BY <1>2, <1>3 DEF IInv, JournalInv, ReviewSound
<1>5. ASSUME NEW s \in Sessions PROVE ReservationSound(s)'
  BY DEF Create, CreateDies, Lose, Upgrade, Upgradable, KeepRecovery, IInv, JournalInv, EnvelopeSound,
         SharedInv, ReservationSound
<1>. QED BY <1>1, <1>2, <1>4, <1>5, JournalKeeps

\* A step of one review that leaves the store alone.
LEMMA ReviewKeeps ==
    ASSUME IInv, UNCHANGED <<svc, faults, key, version, pending, trusted, lost>>,
           NEW p \in Processes, NEW v \in Reviews, review' = [review EXCEPT ![p] = v], ReviewSound(p)',
           receipt' \in [Markers -> Receipts], drawn' \in 0 .. MaxReviews, deaths' \in 0 .. MaxDeaths,
           settledBy \subseteq settledBy', settledBy' \subseteq Sessions
    PROVE  IInv'
<1>1. review' \in [Processes -> Reviews] /\ \A q \in Processes : ReviewSound(q)'
  BY ReviewKept
<1>2. JournalTypes'
  BY <1>1 DEF JournalTypes, IInv, TypeOK
<1>3. JournalInv'
  BY <1>1 DEF IInv, JournalInv, EnvelopeSound
<1>. QED BY <1>2, <1>3, StoreKeeps

\* The same when only the place of the review changes.
LEMMA GoKeeps ==
    ASSUME IInv, UNCHANGED <<svc, faults, key, version, pending, trusted, lost, drawn, deaths>>,
           NEW p \in Processes, NEW at, Go(p, at), [review[p] EXCEPT !.at = at] \in Reviews,
           receipt' \in [Markers -> Receipts],
           settledBy \subseteq settledBy', settledBy' \subseteq Sessions,
           at \in {"preview", "pending", "committing", "prepared", "published", "intended"} =>
               review[p].at \in {"preview", "pending", "committing", "prepared", "published", "intended"},
           at \in {"committing", "prepared"} /\ review[p].mode = "initialize" =>
               review[p].ledger \subseteq settledBy',
           at = "prepared" => review[p].mode = "initialize",
           review[p].at # "new"
    PROVE  IInv'
<1>. DEFINE v == [review[p] EXCEPT !.at = at]
<1>1. review[p] \in Reviews /\ review \in [Processes -> Reviews] /\ ReviewSound(p)
  BY DEF IInv, TypeOK, JournalInv
<1>2. v.at = at /\ v.id = review[p].id /\ v.mode = review[p].mode /\ v.ledger = review[p].ledger
  BY <1>1 DEF Reviews
<1>3. review' = [review EXCEPT ![p] = v]
  BY <1>1 DEF Go
<1>. HIDE DEF v
<1>4. review'[p] = v
  BY <1>1, <1>3
<1>5. ReviewSound(p)'
  BY <1>1, <1>2, <1>4 DEF ReviewSound
<1>6. drawn' \in 0 .. MaxReviews /\ deaths' \in 0 .. MaxDeaths
  BY DEF IInv, TypeOK
<1>. QED BY <1>3, <1>5, <1>6, ReviewKeeps DEF v

\* A preview writes nothing but its own process.
LEMMA PreviewKeeps ==
    ASSUME IInv, UNCHANGED <<svc, faults>>, NEW p \in Processes, Preview(p, Idle, Ended)
    PROVE  IInv'
<1>. USE DEF KeepStore, store
<1>1. Ended \subseteq Sessions
  BY DEF Ended
<1>2. CASE /\ drawn < MaxReviews /\ drawn' = drawn + 1
           /\ review' = [review EXCEPT ![p] = [at |-> "preview", id |-> drawn + 1,
                  mode |-> "initialize", cancelled |-> FALSE, ledger |-> Ended]]
  <2>. DEFINE v == [at |-> "preview", id |-> drawn + 1,
                    mode |-> "initialize", cancelled |-> FALSE, ledger |-> Ended]
  <2>1. drawn' \in 0 .. MaxReviews /\ drawn + 1 \in Markers
    BY <1>2, JournalAssumption DEF JournalAssumption, IInv, TypeOK, Markers
  <2>2. v \in Reviews
    BY <1>1, <2>1 DEF Reviews
  <2>3. review'[p] = v
    BY <1>2 DEF IInv, TypeOK
  <2>4. ReviewSound(p)'
    BY <2>1, <2>3 DEF ReviewSound, Preview
  <2>5. receipt' \in [Markers -> Receipts] /\ deaths' \in 0 .. MaxDeaths /\ settledBy' \subseteq Sessions
    BY DEF Preview, IInv, TypeOK
  <2>. HIDE DEF v
  <2>6. review' = [review EXCEPT ![p] = v]
    BY <1>2 DEF v
  <2>. QED BY <2>1, <2>2, <2>4, <2>5, <2>6, ReviewKeeps DEF Preview
<1>3. ASSUME NEW i \in Markers, UNCHANGED drawn,
             review' = [review EXCEPT ![p] = [at |-> "preview", id |-> i,
                  mode |-> "finalize", cancelled |-> FALSE, ledger |-> Ended]]
      PROVE  IInv'
  <2>. DEFINE v == [at |-> "preview", id |-> i,
                    mode |-> "finalize", cancelled |-> FALSE, ledger |-> Ended]
  <2>1. v \in Reviews
    BY <1>1 DEF Reviews
  <2>2. review'[p] = v
    BY <1>3 DEF IInv, TypeOK
  <2>3. ReviewSound(p)'
    BY <2>2 DEF ReviewSound, Preview
  <2>4. receipt' \in [Markers -> Receipts] /\ deaths' \in 0 .. MaxDeaths /\ settledBy' \subseteq Sessions
        /\ drawn' \in 0 .. MaxReviews
    BY <1>3 DEF Preview, IInv, TypeOK
  <2>. HIDE DEF v
  <2>5. review' = [review EXCEPT ![p] = v]
    BY <1>3 DEF v
  <2>. QED BY <2>1, <2>3, <2>4, <2>5, ReviewKeeps DEF Preview
<1>. QED BY <1>2, <1>3 DEF Preview

\* The owner's window, and the decision that accepts what the preview has shown.
LEMMA OpenKeeps ==
    ASSUME IInv, UNCHANGED <<svc, faults>>, NEW p \in Processes, Open(p, Idle, Ended) \/ Decide(p, Idle)
    PROVE  IInv'
<1>. USE DEF KeepStore, store
<1>1. review[p] \in Reviews /\ receipt \in [Markers -> Receipts] /\ settledBy \subseteq Sessions
  BY DEF IInv, TypeOK
<1>2. CASE Open(p, Idle, Ended)
  <2>1. PICK at \in {"pending", "stale"} : Go(p, at)
    BY <1>2 DEF Open
  <2>2. [review[p] EXCEPT !.at = at] \in Reviews
    BY <1>1, <2>1 DEF Reviews
  <2>. QED BY <1>1, <1>2, <2>1, <2>2, GoKeeps DEF Open
<1>3. CASE Decide(p, Idle)
  <2>1. [review[p] EXCEPT !.at = "committing"] \in Reviews
    BY <1>1 DEF Reviews
  <2>2. review[p].ledger \subseteq Sessions
    BY <1>1 DEF Reviews
  <2>3. settledBy \subseteq settledBy' /\ settledBy' \subseteq Sessions
    BY <1>1, <1>3, <2>2 DEF Decide
  <2>4. review[p].mode = "initialize" => review[p].ledger \subseteq settledBy'
    BY <1>3 DEF Decide
  <2>5. Go(p, "committing") /\ review[p].at = "pending" /\ UNCHANGED <<key, version, pending,
           trusted, lost, drawn, deaths, receipt>>
    BY <1>3 DEF Decide
  <2>. QED BY <1>1, <2>1, <2>3, <2>4, <2>5, GoKeeps
<1>. QED BY <1>2, <1>3

\* A cancelled review goes no further.
LEMMA CancelKeeps ==
    ASSUME IInv, UNCHANGED <<svc, faults>>, NEW p \in Processes, Cancel(p) PROVE IInv'
<1>. DEFINE v == [review[p] EXCEPT !.cancelled = TRUE,
                             !.at = IF @ \in {"preview", "pending"} THEN "cancelled" ELSE @]
<1>1. review[p] \in Reviews /\ review \in [Processes -> Reviews] /\ ReviewSound(p)
  BY DEF IInv, TypeOK, JournalInv
<1>2. /\ v \in Reviews /\ v.at \in {review[p].at, "cancelled"}
      /\ v.id = review[p].id /\ v.mode = review[p].mode /\ v.ledger = review[p].ledger
  BY <1>1 DEF Reviews
<1>3. review' = [review EXCEPT ![p] = v]
  BY <1>1 DEF Cancel
<1>4. UNCHANGED <<key, version, pending, trusted, lost, drawn, deaths, receipt, settledBy>>
      /\ review[p].at # "new"
  BY DEF Cancel, KeepStore, store
<1>. HIDE DEF v
<1>5. review'[p] = v
  BY <1>1, <1>3
<1>6. ReviewSound(p)'
  BY <1>1, <1>2, <1>4, <1>5 DEF ReviewSound
<1>7. receipt' \in [Markers -> Receipts] /\ drawn' \in 0 .. MaxReviews /\ deaths' \in 0 .. MaxDeaths
      /\ settledBy' \subseteq Sessions
  BY <1>4 DEF IInv, TypeOK
<1>. QED BY <1>2, <1>3, <1>4, <1>6, <1>7, ReviewKeeps

\* The receipt comes before the envelope.
LEMMA PrepareKeeps ==
    ASSUME IInv, UNCHANGED <<svc, faults>>, NEW p \in Processes, Prepare(p, Idle, Ended)
    PROVE  IInv'
<1>1. review[p] \in Reviews /\ receipt \in [Markers -> Receipts] /\ settledBy \subseteq Sessions /\
         ReviewSound(p)
  BY DEF IInv, TypeOK, JournalInv
<1>2. review[p].at = "committing" /\ UNCHANGED <<key, version, pending, trusted, lost, drawn, deaths,
         settledBy>>
  BY DEF Prepare, KeepStore, store
<1>3. \A at \in {"prepared", "published", "blocked"} : [review[p] EXCEPT !.at = at] \in Reviews
  BY <1>1 DEF Reviews
<1>4. CASE /\ Go(p, "prepared") /\ review[p].mode = "initialize"
           /\ receipt' = [receipt EXCEPT ![review[p].id] = [phase |-> "prepared", ledger |-> review[p].ledger]]
  <2>1. [phase |-> "prepared", ledger |-> review[p].ledger] \in Receipts
    BY <1>1 DEF Reviews, Receipts
  <2>2. receipt' \in [Markers -> Receipts]
    BY <1>1, <1>4, <2>1
  <2>. QED BY <1>1, <1>2, <1>3, <1>4, <2>2, GoKeeps DEF ReviewSound
<1>5. CASE Go(p, "published") /\ UNCHANGED receipt
  BY <1>1, <1>2, <1>3, <1>5, GoKeeps
<1>6. CASE Go(p, "blocked") /\ UNCHANGED receipt
  BY <1>1, <1>2, <1>3, <1>6, GoKeeps
<1>. QED BY <1>4, <1>5, <1>6 DEF Prepare

\* The sessions whose entries the missing envelope held are closed, and the
\* owner has accepted them: the ledger has not grown since the preview.
LEMMA PublishKeeps ==
    ASSUME IInv, UNCHANGED <<svc, faults>>, NEW p \in Processes, Publish(p, Idle, Ended)
    PROVE  IInv'
<1>1. /\ review[p] \in Reviews /\ review \in [Processes -> Reviews]
      /\ receipt \in [Markers -> Receipts] /\ settledBy \subseteq Sessions /\ ReviewSound(p)
  BY DEF IInv, TypeOK, JournalInv
<1>2. review[p].at = "prepared" /\ UNCHANGED <<key, receipt, drawn, lost, deaths, trusted, settledBy>>
  BY DEF Publish
<1>3. \A at \in {"published", "blocked"} : [review[p] EXCEPT !.at = at] \in Reviews
  BY <1>1 DEF Reviews
<1>4. CASE Go(p, "blocked") /\ UNCHANGED <<version, pending>>
  BY <1>1, <1>2, <1>3, <1>4, GoKeeps
<1>5. CASE /\ Evident(p, Idle, Ended) /\ Current(p, Idle) /\ version = 0
           /\ Go(p, "published") /\ version' = 2 /\ pending' = {review[p].id}
  <2>. DEFINE v == [review[p] EXCEPT !.at = "published"]
  <2>1. v \in Reviews /\ v.at = "published" /\ v.id = review[p].id
    BY <1>1, <1>3 DEF Reviews
  <2>2. review' = [review EXCEPT ![p] = v]
    BY <1>1, <1>5 DEF Go
  <2>. HIDE DEF v
  <2>3. review'[p] = v /\ review[p].id \in Markers
    BY <1>1, <1>2, <2>2 DEF ReviewSound
  <2>4. ReviewSound(p)'
    BY <1>1, <1>2, <2>1, <2>3 DEF ReviewSound
  <2>5. review' \in [Processes -> Reviews] /\ \A q \in Processes : ReviewSound(q)'
    BY <1>2, <2>1, <2>2, <2>4, ReviewKept
  <2>6. version' \in 0 .. 2 /\ pending' \subseteq Sessions \cup Markers
    BY <1>5, <2>3
  <2>7. JournalTypes'
    BY <1>2, <2>5, <2>6 DEF JournalTypes, IInv, TypeOK
  <2>8. key
    BY <1>1, <1>2 DEF ReviewSound
  <2>9. EnvelopeSound'
    BY <1>2, <1>5, <2>3, <2>8 DEF EnvelopeSound
  <2>10. ASSUME NEW s \in Sessions PROVE s \notin pending'
    BY <1>5, <2>3, MarkersApart
  <2>11. ASSUME NEW s \in Sessions, svc[s].reserved PROVE s \in settledBy /\ svc[s].closed
    <3>1. svc[s].state # "none"
      BY <2>11 DEF IInv, ServiceSound
    <3>2. s \in Ended /\ svc[s].closed
      BY <1>5, <3>1 DEF Ended, Current, Idle
    <3>3. Ended \subseteq settledBy
      BY <1>1, <1>2, <1>5 DEF Evident, Fresh, ReviewSound
    <3>. QED BY <3>2, <3>3
  <2>12. ASSUME NEW s \in Sessions PROVE ReservationSound(s)'
    BY <1>2, <2>8, <2>10, <2>11 DEF ReservationSound
  <2>. QED BY <1>2, <2>5, <2>7, <2>9, <2>10, <2>12, JournalKeeps DEF JournalInv
<1>. QED BY <1>4, <1>5 DEF Publish

\* The intent leaves the marker where it is.
LEMMA IntendKeeps ==
    ASSUME IInv, UNCHANGED <<svc, faults>>, NEW p \in Processes, Intend(p, Idle, Ended)
    PROVE  IInv'
<1>1. review[p] \in Reviews /\ receipt \in [Markers -> Receipts] /\ settledBy \subseteq Sessions /\
         ReviewSound(p)
  BY DEF IInv, TypeOK, JournalInv
<1>2. review[p].at = "published" /\ UNCHANGED <<key, version, pending, trusted, lost, drawn, deaths, settledBy>>
  BY DEF Intend, KeepStore, store
<1>3. \A at \in {"intended", "committed-unverified"} : [review[p] EXCEPT !.at = at] \in Reviews
  BY <1>1 DEF Reviews
<1>4. CASE /\ Go(p, "intended")
           /\ receipt' = [receipt EXCEPT ![review[p].id].phase = "finalization-intent"]
  <2>1. review[p].id \in Markers
    BY <1>1, <1>2 DEF ReviewSound
  <2>2. receipt' \in [Markers -> Receipts]
    BY <1>1, <1>4, <2>1 DEF Receipts
  <2>. QED BY <1>1, <1>2, <1>3, <1>4, <2>2, GoKeeps
<1>5. CASE Go(p, "committed-unverified") /\ UNCHANGED receipt
  BY <1>1, <1>2, <1>3, <1>5, GoKeeps
<1>. QED BY <1>4, <1>5 DEF Intend

\* The envelope holds the marker alone, so that no reservation goes with it.
LEMMA FinishKeeps ==
    ASSUME IInv, UNCHANGED <<svc, faults>>, NEW p \in Processes, Finish(p, Idle, Ended)
    PROVE  IInv'
<1>1. /\ review[p] \in Reviews /\ review \in [Processes -> Reviews]
      /\ receipt \in [Markers -> Receipts] /\ settledBy \subseteq Sessions /\ ReviewSound(p)
  BY DEF IInv, TypeOK, JournalInv
<1>2. review[p].at = "intended" /\ UNCHANGED <<key, version, receipt, drawn, lost, deaths, settledBy>>
  BY DEF Finish
<1>3. \A at \in {"ready", "committed-unverified"} : [review[p] EXCEPT !.at = at] \in Reviews
  BY <1>1 DEF Reviews
<1>4. CASE Go(p, "committed-unverified") /\ UNCHANGED <<pending, trusted>>
  BY <1>1, <1>2, <1>3, <1>4, GoKeeps
<1>5. CASE /\ OnlyMarker(p) /\ Go(p, "ready")
           /\ pending' = pending \ {review[p].id} /\ trusted' = TRUE
  <2>. DEFINE v == [review[p] EXCEPT !.at = "ready"]
  <2>1. v \in Reviews /\ v.at = "ready" /\ review' = [review EXCEPT ![p] = v]
    BY <1>1, <1>3, <1>5 DEF Reviews, Go
  <2>. HIDE DEF v
  <2>2. review'[p] = v
    BY <1>1, <2>1
  <2>3. ReviewSound(p)'
    BY <1>1, <1>2, <2>1, <2>2 DEF ReviewSound
  <2>4. review' \in [Processes -> Reviews] /\ \A q \in Processes : ReviewSound(q)'
    BY <1>2, <2>1, <2>3, ReviewKept
  <2>5. pending' \subseteq Sessions \cup Markers /\ pending' = {} /\ version = 2 /\ trusted' \in BOOLEAN
    BY <1>5 DEF OnlyMarker
  <2>6. JournalTypes'
    BY <1>2, <2>4, <2>5 DEF JournalTypes, IInv, TypeOK
  <2>7. EnvelopeSound'
    BY <1>2, <1>5, <2>5 DEF EnvelopeSound, IInv, JournalInv
  <2>8. ASSUME NEW s \in Sessions PROVE s \notin pending
    BY <1>1, <1>2, <1>5, MarkersApart DEF OnlyMarker, ReviewSound
  <2>9. ASSUME NEW s \in Sessions PROVE ReservationSound(s)'
    BY <1>2, <2>5, <2>8 DEF IInv, SharedInv, ReservationSound
  <2>. QED BY <1>2, <2>4, <2>5, <2>6, <2>7, <2>9, JournalKeeps DEF JournalInv
<1>. QED BY <1>4, <1>5 DEF Finish

\* A process that dies leaves the store as it is.
LEMMA ProcessDiesKeeps ==
    ASSUME IInv, UNCHANGED <<svc, faults>>, NEW p \in Processes, ProcessDies(p) PROVE IInv'
<1>1. NewReview \in Reviews
  BY DEF NewReview, Reviews
<1>2. review' = [review EXCEPT ![p] = NewReview]
      /\ UNCHANGED <<key, version, pending, receipt, drawn, lost, trusted, settledBy>>
  BY DEF ProcessDies, store
<1>3. deaths' \in 0 .. MaxDeaths
  BY JournalAssumption DEF JournalAssumption, ProcessDies, IInv, TypeOK
<1>4. review'[p] = NewReview
  BY <1>2 DEF IInv, TypeOK
<1>5. ReviewSound(p)'
  BY <1>4 DEF ReviewSound, NewReview
<1>6. receipt' \in [Markers -> Receipts] /\ drawn' \in 0 .. MaxReviews /\ settledBy' \subseteq Sessions
  BY <1>2 DEF IInv, TypeOK
<1>. QED BY <1>1, <1>2, <1>3, <1>5, <1>6, ReviewKeeps

\* The invariant is inductive.
LEMMA StepKeeps == ASSUME IInv, [Next]_vars PROVE IInv'
<1>1. ASSUME NEW s \in Sessions, SessionStep(s) PROVE IInv'
  BY <1>1, SessionEdits, EditedKeeps DEF SessionStep
<1>2. ASSUME NEW s \in Sessions, Die(s) PROVE IInv'
  BY <1>2, DieKeeps
<1>3. ASSUME JournalNext(Idle, Ended), UNCHANGED <<svc, faults>> PROVE IInv'
  BY <1>3, CreationKeeps, PreviewKeeps, OpenKeeps, CancelKeeps, PrepareKeeps, PublishKeeps, IntendKeeps,
     FinishKeeps, ProcessDiesKeeps DEF JournalNext
<1>4. CASE UNCHANGED vars
  <2>1. JournalTypes'
    BY <1>4 DEF vars, journalVars, IInv, TypeOK, JournalTypes
  <2>2. JournalInv'
    BY <1>4 DEF vars, journalVars, IInv, JournalInv, EnvelopeSound, ReviewSound
  <2>. QED BY <1>4, <2>1, <2>2, StoreKeeps DEF vars, journalVars
<1>. QED BY <1>1, <1>2, <1>3, <1>4 DEF Next

\* The invariant holds in every state.
THEOREM Inductive == Spec => []IInv
<1>1. Init => IInv
  BY InitSound
<1>2. IInv /\ [Next]_vars => IInv'
  BY StepKeeps
<1>. QED BY <1>1, <1>2, PTL DEF Spec

\* Every variable keeps its type, a session's record and an envelope included.
THEOREM SiteTypes == Spec => []TypeOK
<1>1. IInv => TypeOK
  BY DEF IInv
<1>. QED BY <1>1, Inductive, PTL

(***************************************************************************)
(* What the journal is for.                                                 *)
(***************************************************************************)
\* A session's write that may have reached the site, and whose outcome nobody
\* knows (site_service.py _run, _network_event), keeps every other session of
\* the origin out, however the sessions close or die, and whatever becomes of
\* the envelope, until an owner has accepted its loss.
THEOREM OriginsFenced == Spec => []UnsettledFenced
<1>1. ASSUME IInv PROVE UnsettledFenced
  <2>. SUFFICES ASSUME NEW s \in Sessions, NEW t \in Sessions,
                       s # t, Origin[s] = Origin[t], Unsettled(s), s \notin settledBy
                PROVE  ~CanReserve(t) /\ (svc[t].reserved => svc[t].closed)
    BY DEF UnsettledFenced
  <2>1. svc[s].reserved
    <3>1. ServiceSound(svc[s]) /\ svc[s].sent \subseteq Attempts
      BY <1>1 DEF IInv, ServiceSound, Services
    <3>2. CASE \E a \in svc[s].sent : svc[s].att[a] # "completed"
      BY <3>1, <3>2 DEF ServiceSound, ActionSound
    <3>3. CASE \E r \in Requests : svc[s].net[r] \in {"open", "unknown"}
      BY <3>1, <3>3 DEF ServiceSound
    <3>. QED BY <3>2, <3>3 DEF Unsettled
  <2>2. s \in pending \/ version = 0
    BY <1>1, <2>1 DEF IInv, SharedInv, ReservationSound
  <2>3. ~CanReserve(t)
    BY <2>2 DEF CanReserve, Conflicts
  <2>4. svc[t].reserved => svc[t].closed
    BY <1>1, <2>1 DEF IInv, SharedInv, OriginSound
  <2>. QED BY <2>3, <2>4
<1>. QED BY <1>1, Inductive, PTL

\* A session whose outcomes are all known and whose channel has closed (_closed)
\* has left nothing in the envelope, unless a write of it failed.
THEOREM ReservationsReturned == Spec => []ReservationReturned
<1>1. IInv => ReservationReturned
  BY DEF IInv, SharedInv, ReturnSound, Keeps, ReservationReturned
<1>. QED BY <1>1, Inductive, PTL

\* Once an envelope may be missing, no session takes a reservation before an
\* owner's review has been committed (recover_key_only_v2, _finish_locked).
THEOREM HistoriesReviewed == Spec => HistoryReviewed
<1>1. ASSUME IInv, [Next]_vars
      PROVE  \A s \in Sessions : svc'[s].reserved /\ ~svc[s].reserved => trusted
  <2>. SUFFICES ASSUME NEW s \in Sessions, svc'[s].reserved, ~svc[s].reserved PROVE trusted
    OBVIOUS
  <2>1. ASSUME NEW t \in Sessions, SessionStep(t) PROVE trusted
    <3>1. Edited(t)
      BY <1>1, <2>1, SessionEdits
    <3>2. t = s
      BY <1>1, <3>1 DEF Edited, IInv, TypeOK
    <3>3. CanReserve(s)
      BY <3>1, <3>2 DEF Edited, EntryStep
    <3>4. \A i \in Markers : Conflicts(s, i)
      BY MarkersApart DEF Conflicts
    <3>. QED BY <1>1, <3>3, <3>4 DEF CanReserve, IInv, JournalInv, EnvelopeSound
  <2>2. ASSUME NEW t \in Sessions, Die(t) PROVE trusted
    <3>. DEFINE m == [NewService EXCEPT !.state = "revoked", !.closed = TRUE, !.dead = TRUE,
                        !.att = svc[t].att, !.net = svc[t].net, !.sent = svc[t].sent,
                        !.reserved = svc[t].reserved]
    <3>1. m.reserved = svc[t].reserved
      BY DEF NewService
    <3>2. svc' = [svc EXCEPT ![t] = m]
      BY <2>2 DEF Die
    <3>. HIDE DEF m
    <3>. QED BY <1>1, <3>1, <3>2 DEF IInv, TypeOK
  <2>3. CASE svc' = svc
    BY <2>3
  <2>. QED BY <1>1, <2>1, <2>2, <2>3 DEF Next, vars
<1>. QED BY <1>1, Inductive, PTL DEF Spec, HistoryReviewed

\* An action that its owner has withdrawn is never permitted any more
\* (_cancel_action, _authorize): what was sent before it stays sent.
THEOREM WithdrawnStaysSo == Spec => WithdrawnStays
<1>1. ASSUME IInv, [Next]_vars
      PROVE  \A s \in Sessions : svc'[s].sent \cap svc[s].withdrawn \subseteq svc[s].sent
  <2>. SUFFICES ASSUME NEW s \in Sessions PROVE svc'[s].sent \cap svc[s].withdrawn \subseteq svc[s].sent
    OBVIOUS
  <2>1. ASSUME NEW t \in Sessions, SessionStep(t) PROVE svc'[s].sent \cap svc[s].withdrawn \subseteq svc[s].sent
    <3>1. Edited(t)
      BY <1>1, <2>1, SessionEdits
    <3>. QED BY <1>1, <3>1 DEF Edited, IInv, TypeOK
  <2>2. ASSUME NEW t \in Sessions, Die(t) PROVE svc'[s].sent = svc[s].sent
    <3>. DEFINE m == [NewService EXCEPT !.state = "revoked", !.closed = TRUE, !.dead = TRUE,
                        !.att = svc[t].att, !.net = svc[t].net, !.sent = svc[t].sent,
                        !.reserved = svc[t].reserved]
    <3>1. m.sent = svc[t].sent
      BY DEF NewService
    <3>2. svc' = [svc EXCEPT ![t] = m]
      BY <2>2 DEF Die
    <3>. HIDE DEF m
    <3>. QED BY <1>1, <3>1, <3>2 DEF IInv, TypeOK
  <2>3. CASE svc' = svc
    BY <2>3
  <2>. QED BY <1>1, <2>1, <2>2, <2>3 DEF Next, vars
<1>. QED BY <1>1, Inductive, PTL DEF Spec, WithdrawnStays
=============================================================================
