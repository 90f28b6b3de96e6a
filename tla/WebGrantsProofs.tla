---------------------------- MODULE WebGrantsProofs ----------------------------
(***************************************************************************)
(* Proofs about granular grants, for any requests, attempts and budgets: what *)
(* the owner has withdrawn stays withdrawn, what may have been written stays *)
(* in the journal, and a line of grants stays within its budget.             *)
(***************************************************************************)
EXTENDS WebGrants, TLAPS, FiniteSetTheorems, WellFoundedInduction

(***************************************************************************)
(* Requests, grants and revocations.                                        *)
(***************************************************************************)
\* A line of grants: a request replaces the grants of its source's line.
LineSound(r) ==
    /\ r \in req[r].line
    /\ req[r].source = None => req[r].line = {r}
    /\ req[r].source # None =>
          /\ r \in Setups /\ req[r].source \in Setups \ {r}
          /\ req[req[r].source].state # "none"
          /\ req[r].line = {r} \cup req[req[r].source].line
    /\ grant[r].state # "none" =>
          \A s \in req[r].line \ {r} : req[s].state = "replaced" /\ s \notin withdrawn

\* What the state of a request says of its grant, window and revocation.
StateSound(r) ==
    /\ req[r].state = "none" =>
          /\ req[r] = Blank(r) /\ window[r] \in {"none", "done"} /\ r \notin withdrawn
    /\ req[r].state = "replaced" => grant[r].state = "replaced"
    /\ grant[r].state # "none" => req[r].state \in {"approved", "replaced"}
    /\ r \in withdrawn => req[r].fence \/ grant[r].state = "revoked"
    /\ window[r] \in {"sync", "release", "check"} => req[r].fence \/ req[r].state = "replaced"

\* A decision that is being published, and a proposal that is being made.
ThreadsSound ==
    /\ decision.at = "deciding" =>
          /\ decision.r \in Requests /\ grant[decision.r].state = "none"
          /\ req[decision.r].state \in {"pending", "expired"}
    /\ call.at = "propose" => call.r \in Setups /\ req[call.r].state = "none"
    /\ call.at = "cancel" => call.r \in Requests

GrantsInv ==
    /\ \A r \in Requests : LineSound(r) /\ StateSound(r)
    /\ ThreadsSound

(***************************************************************************)
(* Executions.                                                              *)
(***************************************************************************)
\* The places of a call that executes.
Within == {"start", "waiting", "finish", "release", "failed"}

\* The reader works on the write of a.
Asks(a) == net.at # "idle" /\ net.a = a

\* What may still be written: while the call waits for its result only, and nothing over a
\* channel that is closed, whatever the reader still answers.
AttemptSound(a) ==
    /\ IF att[a].state = "none" THEN confirm[a] = "none" /\ a \notin dispatched
                               ELSE att[a].of \in Requests
    /\ att[a].state \in {"awaiting", "reserved"} => a \in journal
    /\ confirm[a] \in {"check", "finish", "done"} => att[a].fence
    /\ confirm[a] = "finish" =>
          a \notin permits \cup forwarded /\ (a \in dispatched \/ Asks(a) => session.closed)
    /\ a \in dispatched \/ Asks(a) => att[a].state \notin {"none", "awaiting"}
    /\ a \in dispatched =>
          att[a].state = "verified" \/ a \in journal
             \/ (session.closed /\ a \notin permits \cup forwarded)
    /\ a \in executing => call.at \in Within /\ call.a = a
    /\ a \in permits \/ Asks(a) => session.closed \/ (call.at = "waiting" /\ call.a = a)
    /\ a \in permits \/ Asks(a) =>
          \/ session.closed \/ session.fenced
          \/ att[a].of \notin withdrawn /\ ~(att[a].fence /\ confirm[a] = "done")
    /\ Asks(a) /\ net.at = "allowed" => a \in dispatched
    /\ Asks(a) /\ net.at = "taken" =>
          session.closed \/ session.fenced \/ att[a].state = "reserved"

CallSound ==
    /\ call.at \in Within \cup {"reserved"} =>
          /\ call.a \in Attempts /\ call.r \in Requests
          /\ att[call.a].of = call.r /\ att[call.a].state \notin {"none", "verified"}
    /\ call.at \in Within => call.a \in executing

ActionsInv ==
    /\ \A a \in Attempts : AttemptSound(a)
    /\ CallSound
    /\ permits \cup forwarded \subseteq dispatched

IInv == TypeOK /\ GrantsInv /\ ActionsInv

\* The invariant holds before anything was proposed.
LEMMA InitSound == Init => IInv
<1>. SUFFICES ASSUME Init PROVE IInv
  OBVIOUS
<1>. USE GrantsAssumption DEF GrantsAssumption, Init, Idle, Blank, NoGrant
<1>1. TypeOK
  BY DEF TypeOK, RequestTypes, AttemptTypes, ThreadTypes, Proposals, Executions, Sessions, Calls,
         States, Places, AttemptStates
<1>2. GrantsInv
  BY DEF GrantsInv, LineSound, StateSound, ThreadsSound
<1>3. ActionsInv
  BY DEF ActionsInv, AttemptSound, CallSound, Within, Asks
<1>. QED BY <1>1, <1>2, <1>3 DEF IInv

(***************************************************************************)
(* What an action leaves alone.                                             *)
(***************************************************************************)
\* The part about requests, for an action that leaves them alone.
LEMMA GrantsKept ==
    ASSUME IInv, UNCHANGED <<req, grant, window, withdrawn>>,
           decision'.at = "deciding" => decision' = decision,
           call'.at \in {"propose", "cancel"} => call' = call
    PROVE  GrantsInv'
  BY DEF IInv, GrantsInv, LineSound, StateSound, ThreadsSound, Blank

\* The part about executions, for an action that leaves them alone.
LEMMA ActionsKept ==
    ASSUME IInv, UNCHANGED acted, UNCHANGED net,
           session'.closed = session.closed, session.fenced => session'.fenced,
           withdrawn' \subseteq withdrawn,
           call' = call \/ {call.at, call'.at} \cap (Within \cup {"reserved"}) = {}
    PROVE  ActionsInv'
  BY ZenonT(30) DEF IInv, ActionsInv, AttemptSound, CallSound, Asks, Within, acted

(***************************************************************************)
(* The edits that several actions make.                                     *)
(***************************************************************************)
\* A request gets a state or a fence, and nothing else of it changes.
LEMMA Settled ==
    ASSUME IInv, NEW r \in Requests, NEW state \in States, req' = [req EXCEPT ![r].state = state]
    PROVE  /\ req' \in [Requests -> Proposals]
           /\ \A x \in Requests :
                 /\ req'[x].line = req[x].line /\ req'[x].source = req[x].source
                 /\ req'[x].fence = req[x].fence
                 /\ req'[x].state = IF x = r THEN state ELSE req[x].state
<1>. DEFINE it == [req[r] EXCEPT !.state = state]
<1>1. req \in [Requests -> Proposals] /\ req[r] \in Proposals
  BY DEF IInv, TypeOK, RequestTypes
<1>2. it \in Proposals /\ it.line = req[r].line /\ it.source = req[r].source
  BY <1>1 DEF Proposals
<1>3. it.state = state /\ it.fence = req[r].fence
  BY <1>1 DEF Proposals
<1>4. req' = [req EXCEPT ![r] = it]
  OBVIOUS
<1>. HIDE DEF it
<1>. QED BY <1>1, <1>2, <1>3, <1>4

\* A request is fenced, or is not, and nothing else of it changes.
LEMMA Fenced ==
    ASSUME IInv, NEW r \in Requests, NEW set \in BOOLEAN, req' = [req EXCEPT ![r].fence = set]
    PROVE  /\ req' \in [Requests -> Proposals]
           /\ \A x \in Requests :
                 /\ req'[x].line = req[x].line /\ req'[x].source = req[x].source
                 /\ req'[x].state = req[x].state
                 /\ req'[x].fence = IF x = r THEN set ELSE req[x].fence
<1>. DEFINE it == [req[r] EXCEPT !.fence = set]
<1>1. req \in [Requests -> Proposals] /\ req[r] \in Proposals
  BY DEF IInv, TypeOK, RequestTypes
<1>2. it \in Proposals /\ it.line = req[r].line /\ it.source = req[r].source
  BY <1>1 DEF Proposals
<1>3. it.state = req[r].state /\ it.fence = set
  BY <1>1 DEF Proposals
<1>4. req' = [req EXCEPT ![r] = it]
  OBVIOUS
<1>. HIDE DEF it
<1>. QED BY <1>1, <1>2, <1>3, <1>4

\* An attempt gets a state or a fence.
LEMMA AttemptTyped ==
    ASSUME IInv, NEW a \in Attempts, NEW state \in AttemptStates
    PROVE  /\ [att EXCEPT ![a].state = state] \in [Attempts -> Executions]
           /\ [att EXCEPT ![a].fence = TRUE] \in [Attempts -> Executions]
  BY DEF IInv, TypeOK, AttemptTypes, Executions

\* The same for its ticket, alone and with a confirmation.
LEMMA TicketTyped ==
    ASSUME IInv, NEW a \in Attempts, NEW ticket \in {"none", "valid", "used", "expired"}
    PROVE  /\ [att EXCEPT ![a].ticket = ticket] \in [Attempts -> Executions]
           /\ [att EXCEPT ![a].state = "reserved", ![a].ticket = ticket] \in [Attempts -> Executions]
  BY ZenonT(30) DEF IInv, TypeOK, AttemptTypes, Executions, AttemptStates

\* The session is fenced, or its worker held or released.
LEMMA SessionTyped ==
    ASSUME IInv, NEW hold \in BOOLEAN
    PROVE  /\ [session EXCEPT !.fenced = TRUE] \in Sessions
           /\ [session EXCEPT !.hold = hold] \in Sessions
  BY DEF IInv, TypeOK, ThreadTypes, Sessions

\* Lines do not change with the states of requests, if "replaced" lasts.
LEMMA LinesKept ==
    ASSUME IInv,
           \A x \in Requests :
              /\ req'[x].line = req[x].line /\ req'[x].source = req[x].source
              /\ req[x].state # "none" => req'[x].state # "none"
              /\ req[x].state = "replaced" => req'[x].state = "replaced",
           withdrawn' \subseteq withdrawn
    PROVE  \A x \in Requests :
              (grant'[x].state # "none" => grant[x].state # "none") => LineSound(x)'
<1>. SUFFICES ASSUME NEW x \in Requests, grant'[x].state # "none" => grant[x].state # "none"
              PROVE  LineSound(x)'
  OBVIOUS
<1>1. LineSound(x) /\ req[x].line \subseteq Requests /\ Setups \subseteq Requests
  BY GrantsAssumption DEF IInv, TypeOK, RequestTypes, Proposals, GrantsInv, GrantsAssumption
<1>. QED BY <1>1 DEF LineSound

\* A replacement is published.
LEMMA Replaced ==
    ASSUME IInv, NEW r \in Requests, NEW s \in Requests \ {r},
           req' = [req EXCEPT ![r].state = "approved", ![s].state = "replaced"]
    PROVE  /\ req' \in [Requests -> Proposals]
           /\ \A x \in Requests :
                 /\ req'[x].line = req[x].line /\ req'[x].source = req[x].source
                 /\ req'[x].fence = req[x].fence
                 /\ req'[x].state = IF x = r THEN "approved"
                                    ELSE IF x = s THEN "replaced" ELSE req[x].state
<1>. DEFINE it == [req[r] EXCEPT !.state = "approved"]
            from == [req[s] EXCEPT !.state = "replaced"]
<1>1. req \in [Requests -> Proposals] /\ req[r] \in Proposals /\ req[s] \in Proposals
  BY DEF IInv, TypeOK, RequestTypes
<1>2. it \in Proposals /\ it.line = req[r].line /\ it.source = req[r].source
      /\ it.fence = req[r].fence /\ it.state = "approved"
  BY <1>1 DEF Proposals, States
<1>3. from \in Proposals /\ from.line = req[s].line /\ from.source = req[s].source
      /\ from.fence = req[s].fence /\ from.state = "replaced"
  BY <1>1 DEF Proposals, States
<1>4. req' = [req EXCEPT ![r] = it, ![s] = from]
  BY <1>1
<1>. HIDE DEF it, from
<1>. QED BY <1>1, <1>2, <1>3, <1>4

(***************************************************************************)
(* Every action keeps the invariant: one lemma per action, one step per part *)
(***************************************************************************)
LEMMA RequestSound == ASSUME IInv, NEW r \in Requests, Request(r) PROVE IInv'
<1>. USE GrantsAssumption DEF GrantsAssumption, asked, acted, Request, Opens, Pending, ActiveCount
<1>a. PICK n \in 1..MaxUses, t \in BOOLEAN :
         req' = [req EXCEPT ![r].state = "pending", ![r].uses = n, ![r].timed = t]
  OBVIOUS
<1>. DEFINE it == [req[r] EXCEPT !.state = "pending", !.uses = n, !.timed = t]
<1>b. req[r] \in Proposals /\ req \in [Requests -> Proposals]
  BY DEF IInv, TypeOK, RequestTypes
<1>c. it \in Proposals
  <2>1. n \in 0..MaxUses
    BY ONLY <1>a, GrantsAssumption DEF GrantsAssumption
  <2>2. [req[r] EXCEPT !.state = "pending"] \in Proposals
    BY ONLY <1>b DEF Proposals, States
  <2>3. [[req[r] EXCEPT !.state = "pending"] EXCEPT !.uses = n] \in Proposals
    BY ONLY <2>1, <2>2 DEF Proposals
  <2>. QED BY ONLY <1>a, <2>3 DEF it, Proposals
<1>d. req' = [req EXCEPT ![r] = it]
  BY ONLY <1>a, <1>b
<1>e. it.line = req[r].line /\ it.source = req[r].source /\ it.state = "pending"
  BY ONLY <1>b DEF Proposals
<1>. HIDE DEF it
<1>f. req' \in [Requests -> Proposals] /\ \A x \in Requests : req'[x] = IF x = r THEN it ELSE req[x]
  BY ONLY <1>b, <1>c, <1>d
<1>1. TypeOK'
  <2>1. RequestTypes'
    BY <1>f DEF IInv, TypeOK, RequestTypes
  <2>2. AttemptTypes'
    BY DEF IInv, TypeOK, AttemptTypes, Executions, ThreadTypes, Calls, AttemptStates
  <2>3. ThreadTypes'
    BY DEF IInv, TypeOK, RequestTypes, ThreadTypes, Sessions, Calls, Places
  <2>. QED BY <2>1, <2>2, <2>3 DEF TypeOK
<1>2. GrantsInv'
  <2>1. \A x \in Requests : LineSound(x)'
    BY <1>e, <1>f, LinesKept
  <2>2. grant[r].state = "none" /\ r \notin withdrawn
    BY <1>b DEF IInv, GrantsInv, StateSound
  <2>3. \A x \in Requests \ {r} : StateSound(x)'
    BY <1>f DEF IInv, TypeOK, RequestTypes, GrantsInv, StateSound, Blank
  <2>4. StateSound(r)'
    BY <1>e, <1>f, <2>2 DEF IInv, TypeOK, RequestTypes, StateSound
  <2>5. ThreadsSound'
    BY <1>f DEF ThreadsSound, Free
  <2>. QED BY <2>1, <2>3, <2>4, <2>5 DEF GrantsInv
<1>3. ActionsInv'
  BY ActionsKept DEF Within
<1>. QED BY <1>1, <1>2, <1>3 DEF IInv

LEMMA HoldSound == ASSUME IInv, NEW r \in Requests, Hold(r) PROVE IInv'
<1>. USE GrantsAssumption DEF GrantsAssumption, asked, acted, Hold, Idle
<1>1. TypeOK'
  <2>1. RequestTypes'
    BY DEF IInv, TypeOK, RequestTypes, Proposals, ThreadTypes, States
  <2>2. AttemptTypes'
    BY DEF IInv, TypeOK, AttemptTypes, Executions, ThreadTypes, Calls, AttemptStates
  <2>3. ThreadTypes'
    BY DEF IInv, TypeOK, RequestTypes, ThreadTypes, Sessions, Calls, Places
  <2>. QED BY <2>1, <2>2, <2>3 DEF TypeOK
<1>2. GrantsInv'
  BY DEF IInv, TypeOK, RequestTypes, Proposals, ThreadTypes, Calls, GrantsInv, LineSound,
         StateSound, ThreadsSound, Blank
<1>3. ActionsInv'
  BY ActionsKept DEF Within
<1>. QED BY <1>1, <1>2, <1>3 DEF IInv

LEMMA ProposeSound == ASSUME IInv, Propose PROVE IInv'
<1>. USE GrantsAssumption
   DEF GrantsAssumption, asked, acted, Propose, Opens, Source, Usable, Pending
<1>a. /\ call.r \in Setups /\ req[call.r].state = "none" /\ req[call.r] = Blank(call.r)
      /\ call.r \in Requests /\ grant[call.r].state = "none" /\ call'.at = "sync"
  BY DEF IInv, TypeOK, ThreadTypes, Calls, GrantsInv, StateSound, ThreadsSound
<1>. DEFINE new(s) == [state |-> "pending", fence |-> FALSE, source |-> s, timed |-> FALSE,
                       line |-> {call.r} \cup req[s].line, uses |-> grant[s].left]
            From(s) == /\ req' = [req EXCEPT ![call.r] = new(s)] /\ new(s) \in Proposals
                       /\ grant[s].state = "active" /\ req[s].state # "none"
                       /\ window' \in [Requests -> {"none", "open", "revoke", "sync", "release",
                                                    "check", "done"}]
                       /\ \E w \in {"open", "revoke"} : window' = [window EXCEPT ![call.r] = w]
<1>b. UNCHANGED <<req, window>> \/ \E s \in Setups \ {call.r} : From(s)
  <2>. SUFFICES ASSUME NEW s \in Setups \ {call.r}, Source(s), Opens(call.r),
                       req' = [req EXCEPT ![call.r] =
                          [state |-> "pending", fence |-> FALSE, source |-> s, timed |-> FALSE,
                           line |-> {call.r} \cup req[s].line, uses |-> grant[s].left]]
                PROVE  From(s)
    OBVIOUS
  <2>1. s \in Requests /\ req[s].line \subseteq Requests /\ grant[s].left \in 0..MaxUses
    BY DEF IInv, TypeOK, RequestTypes, Proposals
  <2>2. new(s) \in Proposals
    BY <1>a, <2>1 DEF Proposals, States
  <2>4. req' = [req EXCEPT ![call.r] = new(s)]
    OBVIOUS
  <2>5. grant[s].state = "active" /\ req[s].state # "none"
    BY <2>1 DEF IInv, GrantsInv, StateSound
  <2>6. /\ \E w \in {"open", "revoke"} : window' = [window EXCEPT ![call.r] = w]
        /\ window' \in [Requests -> {"none", "open", "revoke", "sync", "release", "check", "done"}]
    <3>1. PICK w \in {"open", "revoke"} : window' = [window EXCEPT ![call.r] = w]
      OBVIOUS
    <3>2. window \in [Requests -> {"none", "open", "revoke", "sync", "release", "check", "done"}]
      BY DEF IInv, TypeOK, RequestTypes
    <3>. QED BY ONLY <1>a, <3>1, <3>2
  <2>. HIDE DEF new
  <2>. QED BY <2>2, <2>4, <2>5, <2>6
<1>. HIDE DEF new
<1>1. TypeOK'
  <2>1. RequestTypes'
    <3>1. CASE UNCHANGED <<req, window>>
      BY <3>1 DEF IInv, TypeOK, RequestTypes
    <3>2. ASSUME NEW s \in Setups \ {call.r}, From(s) PROVE RequestTypes'
      <4>1. req' \in [Requests -> Proposals]
        BY ONLY <1>a, <3>2, IInv DEF IInv, TypeOK, RequestTypes
      <4>. QED BY <3>2, <4>1 DEF IInv, TypeOK, RequestTypes
    <3>. QED BY <1>b, <3>1, <3>2
  <2>2. AttemptTypes'
    BY DEF IInv, TypeOK, AttemptTypes, Executions, ThreadTypes, Calls, AttemptStates
  <2>3. ThreadTypes'
    BY SMTT(30) DEF IInv, TypeOK, RequestTypes, ThreadTypes, Sessions, Calls, Places
  <2>. QED BY <2>1, <2>2, <2>3 DEF TypeOK
<1>2. GrantsInv'
  <2>1. CASE UNCHANGED <<req, window>>
    BY <1>a, <2>1, GrantsKept
  <2>2. ASSUME NEW s \in Setups \ {call.r}, From(s) PROVE GrantsInv'
    <3>0. /\ s \in Requests /\ req'[call.r] = new(s) /\ new(s).source = s
          /\ new(s).line = {call.r} \cup req[s].line /\ new(s).state = "pending"
          /\ \A x \in Requests \ {call.r} : req'[x] = req[x] /\ window'[x] = window[x]
      BY ONLY <1>a, <2>2, IInv, GrantsAssumption
         DEF IInv, TypeOK, RequestTypes, new, GrantsAssumption
    <3>1. ASSUME NEW x \in Requests PROVE LineSound(x)'
      <4>1. CASE x = call.r
        <5>1. grant'[x].state = "none" /\ req'[s] = req[s]
          BY <1>a, <2>2, <3>0, <4>1
        <5>. QED BY ONLY <1>a, <2>2, <3>0, <4>1, <5>1, GrantsAssumption
             DEF LineSound, From, GrantsAssumption
      <4>2. CASE x # call.r
        <5>1. LineSound(x) /\ req'[x] = req[x] /\ req[x].line \subseteq Requests
          BY <3>0, <4>2 DEF IInv, TypeOK, RequestTypes, Proposals, GrantsInv
        <5>2. grant'[x] = grant[x] /\ withdrawn' = withdrawn
          OBVIOUS
        <5>. QED BY ONLY <1>a, <3>0, <4>2, <5>1, <5>2, GrantsAssumption
             DEF LineSound, GrantsAssumption
      <4>. QED BY <4>1, <4>2
    <3>2. ASSUME NEW x \in Requests PROVE StateSound(x)'
      <4>1. StateSound(x)
        BY DEF IInv, GrantsInv
      <4>2. CASE x = call.r
        <5>1. window'[x] \in {"open", "revoke"} /\ x \notin withdrawn'
          BY <1>a, <2>2, <4>1, <4>2 DEF IInv, TypeOK, RequestTypes, StateSound
        <5>. QED BY <1>a, <3>0, <4>2, <5>1 DEF StateSound
      <4>3. CASE x # call.r
        BY <3>0, <4>1, <4>3 DEF StateSound
      <4>. QED BY <4>2, <4>3
    <3>3. ThreadsSound'
      <4>1. decision.at # "deciding" /\ decision' = decision /\ call'.at = "sync"
        BY <1>a DEF Free
      <4>. QED BY <4>1 DEF ThreadsSound
    <3>. QED BY <3>1, <3>2, <3>3 DEF GrantsInv
  <2>. QED BY <1>b, <2>1, <2>2
<1>3. ActionsInv'
  BY <1>a, ActionsKept DEF Within
<1>. QED BY <1>1, <1>2, <1>3 DEF IInv

LEMMA SyncCallSound == ASSUME IInv, SyncCall PROVE IInv'
<1>. USE GrantsAssumption DEF GrantsAssumption, asked, acted, SyncCall, Idle
<1>1. TypeOK'
  <2>1. RequestTypes'
    BY DEF IInv, TypeOK, RequestTypes, Proposals, ThreadTypes, States
  <2>2. AttemptTypes'
    BY DEF IInv, TypeOK, AttemptTypes, Executions, ThreadTypes, Calls, AttemptStates
  <2>3. ThreadTypes'
    BY DEF IInv, TypeOK, RequestTypes, ThreadTypes, Sessions, Calls, Places
  <2>. QED BY <2>1, <2>2, <2>3 DEF TypeOK
<1>2. GrantsInv'
  BY GrantsKept DEF IInv, TypeOK, ThreadTypes, Calls
<1>3. ActionsInv'
  BY ActionsKept DEF Within
<1>. QED BY <1>1, <1>2, <1>3 DEF IInv

LEMMA StatusSound == ASSUME IInv, Status PROVE IInv'
<1>. USE GrantsAssumption DEF GrantsAssumption, asked, acted, Status, Idle
<1>1. TypeOK'
  <2>1. RequestTypes'
    BY DEF IInv, TypeOK, RequestTypes, Proposals, ThreadTypes, States
  <2>2. AttemptTypes'
    BY DEF IInv, TypeOK, AttemptTypes, Executions, ThreadTypes, Calls, AttemptStates
  <2>3. ThreadTypes'
    BY DEF IInv, TypeOK, RequestTypes, ThreadTypes, Sessions, Calls, Places
  <2>. QED BY <2>1, <2>2, <2>3 DEF TypeOK
<1>2. GrantsInv'
  BY GrantsKept DEF IInv, TypeOK, ThreadTypes, Calls
<1>3. ActionsInv'
  BY ActionsKept DEF Within
<1>. QED BY <1>1, <1>2, <1>3 DEF IInv

LEMMA DecideSound == ASSUME IInv, NEW r \in Requests, Decide(r) PROVE IInv'
<1>. USE GrantsAssumption DEF GrantsAssumption, asked, acted, Decide, Settle, After, Pending
<1>0. /\ req' \in [Requests -> Proposals]
      /\ \A x \in Requests :
            /\ req'[x].line = req[x].line /\ req'[x].source = req[x].source
            /\ req'[x].fence = req[x].fence
            /\ req'[x].state = req[x].state
               \/ /\ x = r /\ decision'.at # "deciding"
                  /\ req'[x].state \in {"rejected", "replacement-blocked"}
  <2>1. CASE req' = [req EXCEPT ![r].state = "rejected"] /\ decision'.at # "deciding"
    <3>1. "rejected" \in States
      BY DEF States
    <3>2. /\ req' \in [Requests -> Proposals]
          /\ \A x \in Requests :
                /\ req'[x].line = req[x].line /\ req'[x].source = req[x].source
                /\ req'[x].fence = req[x].fence
                /\ req'[x].state = IF x = r THEN "rejected" ELSE req[x].state
      BY ONLY <2>1, <3>1, Settled, IInv, r \in Requests
    <3>. QED BY <2>1, <3>2
  <2>2. CASE req' = [req EXCEPT ![r].state = "replacement-blocked"] /\ decision'.at # "deciding"
    <3>1. "replacement-blocked" \in States
      BY DEF States
    <3>2. /\ req' \in [Requests -> Proposals]
          /\ \A x \in Requests :
                /\ req'[x].line = req[x].line /\ req'[x].source = req[x].source
                /\ req'[x].fence = req[x].fence
                /\ req'[x].state = IF x = r THEN "replacement-blocked" ELSE req[x].state
      BY ONLY <2>2, <3>1, Settled, IInv, r \in Requests
    <3>. QED BY <2>2, <3>2
  <2>3. CASE UNCHANGED req
    BY <2>3 DEF IInv, TypeOK, RequestTypes
  <2>. QED BY <2>1, <2>2, <2>3
<1>a. req[r].uses \in 0..MaxUses /\ grant[r].state = "none"
  BY DEF IInv, TypeOK, RequestTypes, Proposals, GrantsInv, StateSound
<1>1. TypeOK'
  <2>1. RequestTypes'
    BY <1>0 DEF IInv, TypeOK, RequestTypes
  <2>2. AttemptTypes'
    BY DEF IInv, TypeOK, AttemptTypes, Executions, ThreadTypes, Calls, AttemptStates
  <2>3. ThreadTypes'
    <3>1. decision'.at \in {"idle", "deciding", "sync"} /\ decision'.r \in Requests \cup {None}
      OBVIOUS
    <3>2. decision' \in [at : {"idle", "deciding", "sync", "release"}, r : Requests \cup {None},
                        uses : 0..MaxUses]
      BY <1>a
    <3>. QED BY <3>2 DEF IInv, TypeOK, ThreadTypes
  <2>. QED BY <2>1, <2>2, <2>3 DEF TypeOK
<1>2. GrantsInv'
  <2>1. \A x \in Requests : LineSound(x)'
    BY <1>0, LinesKept DEF IInv, TypeOK, RequestTypes
  <2>2. ASSUME NEW x \in Requests PROVE StateSound(x)'
    BY <1>0 DEF IInv, TypeOK, RequestTypes, Proposals, GrantsInv, StateSound, ThreadsSound, Blank
  <2>3. ThreadsSound'
    <3>1. decision'.at = "deciding" => decision'.r = r /\ UNCHANGED req
      OBVIOUS
    <3>2. decision'.at = "deciding" => decision'.r \in Requests
          /\ grant'[decision'.r].state = "none" /\ req'[decision'.r].state = "pending"
      BY <1>a, <3>1
    <3>3. call' = call /\ (call.at = "propose" => req'[call.r].state = "none")
      BY <1>0 DEF IInv, GrantsInv, ThreadsSound
    <3>. QED BY <3>2, <3>3 DEF IInv, GrantsInv, ThreadsSound
  <2>. QED BY <2>1, <2>2, <2>3 DEF GrantsInv
<1>3. ActionsInv'
  BY ActionsKept DEF Within
<1>. QED BY <1>1, <1>2, <1>3 DEF IInv

LEMMA PublishSound == ASSUME IInv, Publish PROVE IInv'
<1>. USE GrantsAssumption
   DEF GrantsAssumption, asked, acted, Publish, Issue, Settle, After, Unchanged, Source, Usable,
       Pending
<1>. DEFINE r == decision.r
            s == req[r].source
            new == [state |-> "active", left |-> decision.uses, approved |-> decision.uses]
            Grants == [state : {"none", "active", "expired", "revoked", "replaced"},
                       left : 0..MaxUses, approved : 0..MaxUses]
            Windows == {"none", "open", "revoke", "sync", "release", "check", "done"}
<1>a. /\ r \in Requests /\ grant[r].state = "none" /\ req[r].state \in {"pending", "expired"}
      /\ decision'.at # "deciding" /\ new \in Grants
      /\ grant \in [Requests -> Grants] /\ window \in [Requests -> Windows]
  BY DEF IInv, TypeOK, RequestTypes, ThreadTypes, GrantsInv, ThreadsSound
<1>b. \/ req' = [req EXCEPT ![r].state = "approved"] /\ s = None
         /\ grant' = [grant EXCEPT ![r] = new] /\ UNCHANGED window
      \/ req' = [req EXCEPT ![r].state = "approved", ![s].state = "replaced"]
         /\ grant' = [[grant EXCEPT ![s].state = "replaced"] EXCEPT ![r] = new]
         /\ window' = [window EXCEPT ![s] = "done"]
         /\ s \in Setups /\ grant[s].state = "active" /\ ~req[s].fence
      \/ req' = [req EXCEPT ![r].state = "replacement-blocked"] /\ UNCHANGED <<grant, window>>
      \/ UNCHANGED <<req, grant>>
         /\ window' = [window EXCEPT ![r] = IF @ = "open" THEN "revoke" ELSE @]
  BY DEF Replace
<1>r. r \in Requests
  BY <1>a
<1>c. /\ s # None => s \in Requests \ {r} /\ req[s].state # "none"
      /\ r \in req[r].line /\ (s = None => req[r].line = {r})
  BY <1>a, GrantsAssumption DEF IInv, TypeOK, RequestTypes, GrantsInv, LineSound
<1>d. new.state = "active" /\ (s \in Setups => s # None)
  BY DEF GrantsAssumption
<1>. HIDE DEF r, s, new, Grants, Windows
<1>. DEFINE Same == \A x \in Requests : /\ req'[x].line = req[x].line
                                       /\ req'[x].source = req[x].source
                                       /\ req'[x].fence = req[x].fence
            Only(state) == /\ req' \in [Requests -> Proposals] /\ Same
                              /\ \A x \in Requests :
                                    req'[x].state = IF x = r THEN state ELSE req[x].state
<1>e. (req' = [req EXCEPT ![r].state = "approved"] => Only("approved"))
      /\ (req' = [req EXCEPT ![r].state = "replacement-blocked"] => Only("replacement-blocked"))
  <2>1. "approved" \in States /\ "replacement-blocked" \in States
    BY DEF States
  <2>. QED BY ONLY <1>r, <2>1, IInv, Settled
<1>f. ASSUME req' = [req EXCEPT ![r].state = "approved", ![s].state = "replaced"], s # None
      PROVE  /\ req' \in [Requests -> Proposals] /\ Same
             /\ \A x \in Requests : req'[x].state =
                   IF x = r THEN "approved" ELSE IF x = s THEN "replaced" ELSE req[x].state
  BY ONLY <1>c, <1>r, <1>f, IInv, Replaced, ZenonT(30)
<1>g. /\ req' \in [Requests -> Proposals] /\ Same
      /\ \A x \in Requests : /\ req[x].state # "none" => req'[x].state # "none"
                             /\ req[x].state = "replaced" => req'[x].state = "replaced"
                             /\ req[x].state = "none" => req'[x] = req[x]
  <2>1. req \in [Requests -> Proposals]
    BY DEF IInv, TypeOK, RequestTypes
  <2>2. \A x \in Requests : req[x].state = "none" => req'[x] = req[x]
    BY ONLY <1>a, <1>b, <1>c, <1>d, <2>1
  <2>3. CASE s = None \/ UNCHANGED req \/ req' = [req EXCEPT ![r].state = "replacement-blocked"]
    BY ONLY <1>a, <1>b, <1>d, <1>e, <2>1, <2>2, <2>3
  <2>4. CASE s # None /\ req' = [req EXCEPT ![r].state = "approved", ![s].state = "replaced"]
    <3>1. /\ req' \in [Requests -> Proposals] /\ Same
          /\ \A x \in Requests : req'[x].state =
                IF x = r THEN "approved" ELSE IF x = s THEN "replaced" ELSE req[x].state
      BY ONLY <1>f, <2>4
    <3>2. req[r].state \in {"pending", "expired"}
      BY ONLY <1>a
    <3>. HIDE DEF Same
    <3>. QED BY ONLY <2>2, <3>1, <3>2
  <2>. QED BY ONLY <1>b, <1>d, <2>3, <2>4
<1>1. TypeOK'
  <2>1. RequestTypes'
    <3>1. grant' \in [Requests -> Grants] /\ window' \in [Requests -> Windows]
      BY <1>a, <1>b, <1>c, <1>d DEF Grants, Windows
    <3>. QED BY <1>g, <3>1 DEF IInv, TypeOK, RequestTypes, Grants, Windows
  <2>2. AttemptTypes'
    BY DEF IInv, TypeOK, AttemptTypes, Executions, ThreadTypes, Calls, AttemptStates
  <2>3. ThreadTypes'
    BY DEF IInv, TypeOK, ThreadTypes
  <2>. QED BY <2>1, <2>2, <2>3 DEF TypeOK
<1>2. GrantsInv'
  <2>1. \A x \in Requests : LineSound(x)'
    <3>. SUFFICES ASSUME NEW x \in Requests PROVE LineSound(x)'
      OBVIOUS
    <3>1. (grant'[x].state # "none" => grant[x].state # "none") => LineSound(x)'
      BY <1>g, LinesKept
    <3>2. x # r \/ grant' = grant => (grant'[x].state # "none" => grant[x].state # "none")
      BY <1>a, <1>b, <1>d DEF Grants
    <3>3. ASSUME x = r, grant' # grant PROVE LineSound(x)'
      <4>1. LineSound(r)
        BY <1>r DEF IInv, GrantsInv
      <4>2. CASE s = None
        BY ONLY <1>c, <1>g, <1>r, <3>3, <4>1, <4>2 DEF LineSound, Same, s
      <4>3. CASE s # None
        <5>1. /\ LineSound(s) /\ StateSound(s) /\ req[s].line \subseteq Requests /\ s \in Requests
              /\ grant[s].state = "active" /\ ~req[s].fence /\ withdrawn' = withdrawn
              /\ req' = [req EXCEPT ![r].state = "approved", ![s].state = "replaced"]
          BY <1>b, <1>c, <3>3, <4>3 DEF IInv, TypeOK, RequestTypes, Proposals, GrantsInv
        <5>2. \A t \in req[s].line : t \notin withdrawn /\ (t # r => req'[t].state = "replaced")
          BY ONLY <1>f, <1>g, <4>3, <5>1 DEF LineSound, StateSound
        <5>3. req'[x].line = {x} \cup req[s].line /\ req'[x].source = s /\ req'[s].line = req[s].line
              /\ s \in Setups \ {x} /\ x \in Setups /\ req'[s].state # "none"
          BY ONLY <1>c, <1>f, <1>g, <1>r, <3>3, <4>1, <4>3, <5>1 DEF LineSound, Same, s
        <5>. QED BY ONLY <3>3, <4>3, <5>1, <5>2, <5>3 DEF LineSound
      <4>. QED BY <4>2, <4>3
    <3>. QED BY <3>1, <3>2, <3>3
  <2>2. ASSUME NEW x \in Requests PROVE StateSound(x)'
    <3>1. StateSound(x)
      BY DEF IInv, GrantsInv
    <3>2. withdrawn' = withdrawn
      OBVIOUS
    <3>3. CASE /\ req' = [req EXCEPT ![r].state = "approved"] /\ s = None
               /\ grant' = [grant EXCEPT ![r] = new] /\ UNCHANGED window
      BY ONLY <1>a, <1>d, <1>e, <1>g, <3>1, <3>2, <3>3 DEF StateSound, Same, Only
    <3>4. CASE /\ req' = [req EXCEPT ![r].state = "approved", ![s].state = "replaced"]
               /\ grant' = [[grant EXCEPT ![s].state = "replaced"] EXCEPT ![r] = new]
               /\ window' = [window EXCEPT ![s] = "done"]
               /\ s \in Setups /\ grant[s].state = "active" /\ ~req[s].fence
      <4>0. s # None /\ s \in Requests \ {r}
        BY ONLY <1>c, <1>d, <3>4
      <4>1. /\ grant'[r] = new /\ grant'[s].state = "replaced" /\ window'[s] = "done"
            /\ \A y \in Requests \ {r, s} : grant'[y] = grant[y]
            /\ \A y \in Requests \ {s} : window'[y] = window[y]
        BY ONLY <1>a, <1>r, <3>4, <4>0 DEF Grants, Windows
      <4>2. req'[x].fence = req[x].fence /\ req'[x].state = IF x = r THEN "approved"
                                          ELSE IF x = s THEN "replaced" ELSE req[x].state
        BY ONLY <1>f, <3>4, <4>0, x \in Requests DEF Same
      <4>. QED BY ONLY <1>a, <1>d, <1>g, <3>1, <3>2, <3>4, <4>0, <4>1, <4>2 DEF StateSound
    <3>5. CASE req' = [req EXCEPT ![r].state = "replacement-blocked"] /\ UNCHANGED <<grant, window>>
      BY ONLY <1>a, <1>d, <1>e, <1>g, <3>1, <3>2, <3>5 DEF StateSound, Same, Only
    <3>6. CASE UNCHANGED <<req, grant>>
               /\ window' = [window EXCEPT ![r] = IF @ = "open" THEN "revoke" ELSE @]
      BY ONLY <1>a, <3>1, <3>2, <3>6 DEF StateSound, Windows
    <3>. QED BY <1>b, <3>3, <3>4, <3>5, <3>6
  <2>3. ThreadsSound'
    <3>1. decision'.at # "deciding" /\ call' = call /\ \A x \in Setups : x \in Requests
      BY <1>a
    <3>. QED BY <1>g, <3>1 DEF IInv, GrantsInv, ThreadsSound
  <2>. QED BY <2>1, <2>2, <2>3 DEF GrantsInv
<1>3. ActionsInv'
  BY ActionsKept DEF Within
<1>. QED BY <1>1, <1>2, <1>3 DEF IInv

LEMMA SyncDecisionSound == ASSUME IInv, SyncDecision PROVE IInv'
<1>. USE GrantsAssumption DEF GrantsAssumption, asked, acted, SyncDecision
<1>1. TypeOK'
  <2>1. RequestTypes'
    BY DEF IInv, TypeOK, RequestTypes, Proposals, ThreadTypes, States
  <2>2. AttemptTypes'
    BY DEF IInv, TypeOK, AttemptTypes, Executions, ThreadTypes, Calls, AttemptStates
  <2>3. ThreadTypes'
    BY ZenonT(30) DEF IInv, TypeOK, RequestTypes, ThreadTypes, Sessions, Calls, Places
  <2>. QED BY <2>1, <2>2, <2>3 DEF TypeOK
<1>2. GrantsInv'
  BY DEF IInv, TypeOK, RequestTypes, Proposals, ThreadTypes, Calls, GrantsInv, LineSound,
         StateSound, ThreadsSound, Blank
<1>3. ActionsInv'
  BY ActionsKept DEF Within
<1>. QED BY <1>1, <1>2, <1>3 DEF IInv

LEMMA ReleaseDecisionSound == ASSUME IInv, ReleaseDecision PROVE IInv'
<1>. USE GrantsAssumption DEF GrantsAssumption, asked, acted, ReleaseDecision
<1>1. TypeOK'
  <2>1. RequestTypes'
    BY DEF IInv, TypeOK, RequestTypes, Proposals, ThreadTypes, States
  <2>2. AttemptTypes'
    BY DEF IInv, TypeOK, AttemptTypes, Executions, ThreadTypes, Calls, AttemptStates
  <2>3. ThreadTypes'
    BY DEF IInv, TypeOK, RequestTypes, ThreadTypes, Sessions, Calls, Places
  <2>. QED BY <2>1, <2>2, <2>3 DEF TypeOK
<1>2. GrantsInv'
  BY DEF IInv, TypeOK, RequestTypes, Proposals, ThreadTypes, Calls, GrantsInv, LineSound,
         StateSound, ThreadsSound, Blank
<1>3. ActionsInv'
  BY ActionsKept DEF Within
<1>. QED BY <1>1, <1>2, <1>3 DEF IInv

LEMMA ReviewExpiresSound == ASSUME IInv, NEW r \in Requests, ReviewExpires(r) PROVE IInv'
<1>. USE GrantsAssumption DEF GrantsAssumption, asked, acted, ReviewExpires, Settle
<1>0. /\ req' \in [Requests -> Proposals]
      /\ \A x \in Requests :
            /\ req'[x].line = req[x].line /\ req'[x].source = req[x].source
            /\ req'[x].fence = req[x].fence
            /\ req'[x].state = IF x = r THEN "expired" ELSE req[x].state
  BY Settled, ZenonT(30) DEF States
<1>1. TypeOK'
  <2>1. RequestTypes'
    BY <1>0 DEF IInv, TypeOK, RequestTypes
  <2>2. AttemptTypes'
    BY DEF IInv, TypeOK, AttemptTypes, Executions, ThreadTypes, Calls, AttemptStates
  <2>3. ThreadTypes'
    BY DEF IInv, TypeOK, RequestTypes, ThreadTypes, Sessions, Calls, Places
  <2>. QED BY <2>1, <2>2, <2>3 DEF TypeOK
<1>2. GrantsInv'
  <2>1. \A x \in Requests : LineSound(x)'
    BY <1>0, LinesKept DEF IInv, TypeOK, RequestTypes
  <2>2. ASSUME NEW x \in Requests PROVE StateSound(x)'
    BY <1>0 DEF IInv, TypeOK, RequestTypes, Proposals, GrantsInv, StateSound, ThreadsSound, Blank
  <2>3. ThreadsSound'
    BY <1>0
       DEF IInv, TypeOK, RequestTypes, Proposals, ThreadTypes, Calls, GrantsInv, StateSound,
           ThreadsSound, Blank
  <2>. QED BY <2>1, <2>2, <2>3 DEF GrantsInv
<1>3. ActionsInv'
  BY ActionsKept DEF Within
<1>. QED BY <1>1, <1>2, <1>3 DEF IInv

LEMMA GrantExpiresSound == ASSUME IInv, NEW r \in Requests, GrantExpires(r) PROVE IInv'
<1>. USE GrantsAssumption DEF GrantsAssumption, asked, acted, GrantExpires
<1>1. TypeOK'
  <2>1. RequestTypes'
    BY DEF IInv, TypeOK, RequestTypes, Proposals, ThreadTypes, States
  <2>2. AttemptTypes'
    BY DEF IInv, TypeOK, AttemptTypes, Executions, ThreadTypes, Calls, AttemptStates
  <2>3. ThreadTypes'
    BY DEF IInv, TypeOK, RequestTypes, ThreadTypes, Sessions, Calls, Places
  <2>. QED BY <2>1, <2>2, <2>3 DEF TypeOK
<1>2. GrantsInv'
  BY DEF IInv, TypeOK, RequestTypes, Proposals, ThreadTypes, Calls, GrantsInv, LineSound,
         StateSound, ThreadsSound, Blank
<1>3. ActionsInv'
  BY ActionsKept DEF Within
<1>. QED BY <1>1, <1>2, <1>3 DEF IInv

LEMMA WindowRevokesSound == ASSUME IInv, NEW r \in Requests, WindowRevokes(r) PROVE IInv'
<1>. USE GrantsAssumption DEF GrantsAssumption, asked, acted, WindowRevokes
<1>1. TypeOK'
  <2>1. RequestTypes'
    BY DEF IInv, TypeOK, RequestTypes, Proposals, ThreadTypes, States
  <2>2. AttemptTypes'
    BY DEF IInv, TypeOK, AttemptTypes, Executions, ThreadTypes, Calls, AttemptStates
  <2>3. ThreadTypes'
    BY DEF IInv, TypeOK, RequestTypes, ThreadTypes, Sessions, Calls, Places
  <2>. QED BY <2>1, <2>2, <2>3 DEF TypeOK
<1>2. GrantsInv'
  BY DEF IInv, TypeOK, RequestTypes, Proposals, ThreadTypes, Calls, GrantsInv, LineSound,
         StateSound, ThreadsSound, Blank
<1>3. ActionsInv'
  BY ActionsKept DEF Within
<1>. QED BY <1>1, <1>2, <1>3 DEF IInv

LEMMA FenceSound == ASSUME IInv, NEW r \in Requests, Fence(r) PROVE IInv'
<1>. USE GrantsAssumption DEF GrantsAssumption, asked, acted, Fence
<1>. DEFINE set == req[r].fence \/ req[r].state # "replaced"
<1>a. set \in BOOLEAN
  BY DEF IInv, TypeOK, RequestTypes, Proposals
<1>b. req' = [req EXCEPT ![r].fence = set]
  OBVIOUS
<1>0. /\ req' \in [Requests -> Proposals]
      /\ \A x \in Requests :
            /\ req'[x].line = req[x].line /\ req'[x].source = req[x].source
            /\ req'[x].state = req[x].state
            /\ req'[x].fence = IF x = r THEN set ELSE req[x].fence
  BY <1>a, <1>b, Fenced
<1>1. TypeOK'
  <2>1. RequestTypes'
    BY <1>0 DEF IInv, TypeOK, RequestTypes
  <2>2. AttemptTypes'
    BY DEF IInv, TypeOK, AttemptTypes, Executions, ThreadTypes, Calls, AttemptStates
  <2>3. ThreadTypes'
    BY DEF IInv, TypeOK, RequestTypes, ThreadTypes, Sessions, Calls, Places
  <2>. QED BY <2>1, <2>2, <2>3 DEF TypeOK
<1>2. GrantsInv'
  <2>1. \A x \in Requests : LineSound(x)'
    BY <1>0, LinesKept DEF IInv, TypeOK, RequestTypes
  <2>2. ASSUME NEW x \in Requests PROVE StateSound(x)'
    <3>0. req[r].state # "none" /\ StateSound(x)
      BY DEF IInv, GrantsInv, StateSound
    <3>1. CASE x = r
      BY <1>0, <3>0, <3>1 DEF IInv, TypeOK, RequestTypes, StateSound
    <3>2. CASE x # r
      <4>1. req'[x] = req[x] /\ window'[x] = window[x]
        BY <3>2 DEF IInv, TypeOK, RequestTypes
      <4>. QED BY <3>0, <4>1 DEF StateSound
    <3>. QED BY <3>1, <3>2
  <2>3. ThreadsSound'
    BY <1>0
       DEF IInv, TypeOK, RequestTypes, Proposals, ThreadTypes, Calls, GrantsInv, StateSound,
           ThreadsSound, Blank
  <2>. QED BY <2>1, <2>2, <2>3 DEF GrantsInv
<1>3. ActionsInv'
  BY ActionsKept DEF Within
<1>. QED BY <1>1, <1>2, <1>3 DEF IInv

LEMMA SyncWindowSound == ASSUME IInv, NEW r \in Requests, SyncWindow(r) PROVE IInv'
<1>. USE GrantsAssumption DEF GrantsAssumption, asked, acted, SyncWindow
<1>1. TypeOK'
  <2>1. RequestTypes'
    BY DEF IInv, TypeOK, RequestTypes, Proposals, ThreadTypes, States
  <2>2. AttemptTypes'
    BY DEF IInv, TypeOK, AttemptTypes, Executions, ThreadTypes, Calls, AttemptStates
  <2>3. ThreadTypes'
    <3>. DEFINE held == session.hold /\ ~session.fenced
    <3>1. held \in BOOLEAN /\ session' = [session EXCEPT !.hold = held]
      BY DEF IInv, TypeOK, ThreadTypes, Sessions
    <3>. HIDE DEF held
    <3>2. session' \in Sessions
      BY <3>1, SessionTyped
    <3>. QED BY <3>2 DEF IInv, TypeOK, ThreadTypes
  <2>. QED BY <2>1, <2>2, <2>3 DEF TypeOK
<1>2. GrantsInv'
  BY DEF IInv, TypeOK, RequestTypes, Proposals, ThreadTypes, Calls, GrantsInv, LineSound,
         StateSound, ThreadsSound, Blank
<1>3. ActionsInv'
  BY ActionsKept DEF Within
<1>. QED BY <1>1, <1>2, <1>3 DEF IInv

LEMMA ReleaseWindowSound == ASSUME IInv, NEW r \in Requests, ReleaseWindow(r) PROVE IInv'
<1>. USE GrantsAssumption DEF GrantsAssumption, asked, acted, ReleaseWindow
<1>1. TypeOK'
  <2>1. RequestTypes'
    BY DEF IInv, TypeOK, RequestTypes, Proposals, ThreadTypes, States
  <2>2. AttemptTypes'
    BY DEF IInv, TypeOK, AttemptTypes, Executions, ThreadTypes, Calls, AttemptStates
  <2>3. ThreadTypes'
    BY SessionTyped DEF IInv, TypeOK, ThreadTypes
  <2>. QED BY <2>1, <2>2, <2>3 DEF TypeOK
<1>2. GrantsInv'
  BY DEF IInv, TypeOK, RequestTypes, Proposals, ThreadTypes, Calls, GrantsInv, LineSound,
         StateSound, ThreadsSound, Blank
<1>3. ActionsInv'
  BY ActionsKept DEF Within
<1>. QED BY <1>1, <1>2, <1>3 DEF IInv

LEMMA CheckExecutingSound == ASSUME IInv, NEW r \in Requests, CheckExecuting(r) PROVE IInv'
<1>. USE GrantsAssumption DEF GrantsAssumption, asked, acted, CheckExecuting, Revoked, Emergency
<1>1. TypeOK'
  <2>1. RequestTypes'
    BY DEF IInv, TypeOK, RequestTypes, Proposals, ThreadTypes, States
  <2>2. AttemptTypes'
    BY DEF IInv, TypeOK, AttemptTypes, Executions, ThreadTypes, Calls, AttemptStates
  <2>3. ThreadTypes'
    <3>1. session' \in Sessions
      BY SessionTyped DEF IInv, TypeOK, ThreadTypes
    <3>. QED BY <3>1 DEF IInv, TypeOK, ThreadTypes
  <2>. QED BY <2>1, <2>2, <2>3 DEF TypeOK
<1>2. GrantsInv'
  BY DEF IInv, TypeOK, RequestTypes, Proposals, ThreadTypes, Calls, GrantsInv, LineSound,
         StateSound, ThreadsSound, Blank
<1>3. ActionsInv'
  <2>0. /\ session'.closed = session.closed /\ (session.fenced => session'.fenced)
        /\ (\E x \in executing : att[x].of = r) => session'.fenced
        /\ withdrawn' \subseteq withdrawn \cup {r}
    BY DEF IInv, TypeOK, ThreadTypes, Sessions
  <2>1. ASSUME NEW x \in Attempts PROVE AttemptSound(x)'
    BY <2>0 DEF IInv, ActionsInv, AttemptSound, CallSound, Asks, Within
  <2>2. CallSound'
    BY DEF IInv, ActionsInv, CallSound
  <2>. QED BY <2>0, <2>1, <2>2 DEF IInv, ActionsInv
<1>. QED BY <1>1, <1>2, <1>3 DEF IInv

LEMMA RevokeSound == ASSUME IInv, NEW r \in Requests, Revoke(r) PROVE IInv'
<1>. USE GrantsAssumption DEF GrantsAssumption, asked, acted, Revoke, Revoked
<1>1. TypeOK'
  <2>1. RequestTypes'
    BY DEF IInv, TypeOK, RequestTypes, Proposals, ThreadTypes, States
  <2>2. AttemptTypes'
    BY DEF IInv, TypeOK, AttemptTypes, Executions, ThreadTypes, Calls, AttemptStates
  <2>3. ThreadTypes'
    BY DEF IInv, TypeOK, RequestTypes, ThreadTypes, Sessions, Calls, Places
  <2>. QED BY <2>1, <2>2, <2>3 DEF TypeOK
<1>2. GrantsInv'
  BY DEF IInv, TypeOK, RequestTypes, Proposals, ThreadTypes, Calls, GrantsInv, LineSound,
         StateSound, ThreadsSound, Blank
<1>3. ActionsInv'
  BY DEF IInv, TypeOK, AttemptTypes, Executions, ThreadTypes, Sessions, Calls, ActionsInv,
         AttemptSound, CallSound, Asks, Within
<1>. QED BY <1>1, <1>2, <1>3 DEF IInv

LEMMA CancelSound == ASSUME IInv, NEW r \in Requests, Cancel(r) PROVE IInv'
<1>. USE GrantsAssumption DEF GrantsAssumption, asked, acted, Cancel, Pending, Idle
<1>0. /\ req' \in [Requests -> Proposals]
      /\ \A x \in Requests :
            /\ req'[x].line = req[x].line /\ req'[x].source = req[x].source
            /\ req'[x].state = req[x].state
            /\ req'[x].fence = IF x = r THEN TRUE ELSE req[x].fence
  BY Fenced
<1>1. TypeOK'
  <2>1. RequestTypes'
    BY <1>0 DEF IInv, TypeOK, RequestTypes
  <2>2. AttemptTypes'
    BY DEF IInv, TypeOK, AttemptTypes, Executions, ThreadTypes, Calls, AttemptStates
  <2>3. ThreadTypes'
    BY ZenonT(30) DEF IInv, TypeOK, RequestTypes, ThreadTypes, Sessions, Calls, Places
  <2>. QED BY <2>1, <2>2, <2>3 DEF TypeOK
<1>2. GrantsInv'
  <2>1. \A x \in Requests : LineSound(x)'
    BY <1>0, LinesKept DEF IInv, TypeOK, RequestTypes
  <2>2. ASSUME NEW x \in Requests PROVE StateSound(x)'
    <3>0. req[r].state # "none" /\ StateSound(x)
      BY DEF IInv, GrantsInv, StateSound
    <3>1. CASE x = r
      BY <1>0, <3>0, <3>1 DEF IInv, TypeOK, RequestTypes, StateSound
    <3>2. CASE x # r
      <4>1. req'[x] = req[x] /\ window'[x] = window[x]
        BY <3>2 DEF IInv, TypeOK, RequestTypes
      <4>. QED BY <3>0, <4>1 DEF StateSound
    <3>. QED BY <3>1, <3>2
  <2>3. ThreadsSound'
    BY <1>0
       DEF IInv, TypeOK, RequestTypes, Proposals, ThreadTypes, Calls, GrantsInv, StateSound,
           ThreadsSound, Blank
  <2>. QED BY <2>1, <2>2, <2>3 DEF GrantsInv
<1>3. ActionsInv'
  BY ActionsKept DEF Within
<1>. QED BY <1>1, <1>2, <1>3 DEF IInv

LEMMA CancelledSound == ASSUME IInv, Cancelled PROVE IInv'
<1>. USE GrantsAssumption DEF GrantsAssumption, asked, acted, Cancelled, Settle, Idle, Free
<1>a. call.r \in Requests
  BY DEF IInv, GrantsInv, ThreadsSound
<1>0. /\ req' \in [Requests -> Proposals]
      /\ \A x \in Requests :
            /\ req'[x].line = req[x].line /\ req'[x].source = req[x].source
            /\ req'[x].fence = req[x].fence
            /\ req'[x].state = IF x = call.r /\ req[x].state = "pending" THEN "cancelled"
                              ELSE req[x].state
  <2>1. CASE req[call.r].state = "pending"
    BY <1>a, <2>1, Settled DEF States
  <2>2. CASE req[call.r].state # "pending"
    BY <2>2 DEF IInv, TypeOK, RequestTypes
  <2>. QED BY <2>1, <2>2
<1>1. TypeOK'
  <2>1. RequestTypes'
    BY <1>a, <1>0 DEF IInv, TypeOK, RequestTypes
  <2>2. AttemptTypes'
    BY DEF IInv, TypeOK, AttemptTypes, Executions, ThreadTypes, Calls, AttemptStates
  <2>3. ThreadTypes'
    BY <1>a DEF IInv, TypeOK, ThreadTypes, Calls, Places
  <2>. QED BY <2>1, <2>2, <2>3 DEF TypeOK
<1>2. GrantsInv'
  <2>1. \A x \in Requests : LineSound(x)'
    BY <1>0, LinesKept DEF IInv, TypeOK, RequestTypes
  <2>2. ASSUME NEW x \in Requests PROVE StateSound(x)'
    BY <1>a, <1>0
       DEF IInv, TypeOK, RequestTypes, Proposals, GrantsInv, StateSound, ThreadsSound, Blank
  <2>3. ThreadsSound'
    BY <1>a, <1>0
       DEF IInv, TypeOK, RequestTypes, Proposals, ThreadTypes, Calls, GrantsInv, StateSound,
           ThreadsSound, Blank
  <2>. QED BY <2>1, <2>2, <2>3 DEF GrantsInv
<1>3. ActionsInv'
  BY ActionsKept DEF Within
<1>. QED BY <1>1, <1>2, <1>3 DEF IInv

LEMMA CheckStartupSound == ASSUME IInv, NEW r \in Requests, CheckStartup(r) PROVE IInv'
<1>. USE GrantsAssumption DEF GrantsAssumption, asked, acted, CheckStartup, Take, Usable
<1>1. TypeOK'
  <2>1. RequestTypes'
    BY DEF IInv, TypeOK, RequestTypes, Proposals, ThreadTypes, States
  <2>2. AttemptTypes'
    BY DEF IInv, TypeOK, AttemptTypes, Executions, ThreadTypes, Calls, AttemptStates
  <2>3. ThreadTypes'
    BY DEF IInv, TypeOK, RequestTypes, ThreadTypes, Sessions, Calls, Places
  <2>. QED BY <2>1, <2>2, <2>3 DEF TypeOK
<1>2. GrantsInv'
  BY DEF IInv, TypeOK, RequestTypes, Proposals, ThreadTypes, Calls, GrantsInv, LineSound,
         StateSound, ThreadsSound, Blank
<1>3. ActionsInv'
  BY DEF IInv, TypeOK, AttemptTypes, Executions, ThreadTypes, Sessions, Calls, ActionsInv,
         AttemptSound, CallSound, Asks, Within
<1>. QED BY <1>1, <1>2, <1>3 DEF IInv

LEMMA AnswerSound == ASSUME IInv, Answer PROVE IInv'
<1>. USE GrantsAssumption DEF GrantsAssumption, asked, acted, Answer, Usable, Idle
<1>1. TypeOK'
  <2>1. RequestTypes'
    BY DEF IInv, TypeOK, RequestTypes, Proposals, ThreadTypes, States
  <2>2. AttemptTypes'
    BY DEF IInv, TypeOK, AttemptTypes, Executions, ThreadTypes, Calls, AttemptStates
  <2>3. ThreadTypes'
    BY DEF IInv, TypeOK, RequestTypes, ThreadTypes, Sessions, Calls, Places
  <2>. QED BY <2>1, <2>2, <2>3 DEF TypeOK
<1>2. GrantsInv'
  BY GrantsKept DEF IInv, TypeOK, ThreadTypes, Calls
<1>3. ActionsInv'
  BY DEF IInv, TypeOK, AttemptTypes, Executions, ThreadTypes, Sessions, Calls, ActionsInv,
         AttemptSound, CallSound, Asks, Within
<1>. QED BY <1>1, <1>2, <1>3 DEF IInv

LEMMA SendSound == ASSUME IInv, Send PROVE IInv'
<1>. USE GrantsAssumption DEF GrantsAssumption, asked, acted, Send, Idle
<1>1. TypeOK'
  <2>1. RequestTypes'
    BY DEF IInv, TypeOK, RequestTypes, Proposals, ThreadTypes, States
  <2>2. AttemptTypes'
    BY DEF IInv, TypeOK, AttemptTypes, Executions, ThreadTypes, Calls, AttemptStates
  <2>3. ThreadTypes'
    BY DEF IInv, TypeOK, RequestTypes, ThreadTypes, Sessions, Calls, Places
  <2>. QED BY <2>1, <2>2, <2>3 DEF TypeOK
<1>2. GrantsInv'
  BY GrantsKept DEF IInv, TypeOK, ThreadTypes, Calls
<1>3. ActionsInv'
  BY DEF IInv, TypeOK, AttemptTypes, Executions, ThreadTypes, Sessions, Calls, ActionsInv,
         AttemptSound, CallSound, Asks, Within
<1>. QED BY <1>1, <1>2, <1>3 DEF IInv

LEMMA AuthenticateSound == ASSUME IInv, Authenticate PROVE IInv'
<1>. USE GrantsAssumption
   DEF GrantsAssumption, asked, acted, Authenticate, ReplacementPending, Pending, Free, Blank,
       NoGrant
<1>0. /\ req' \in [Requests -> Proposals]
      /\ \A x \in Requests :
            /\ req'[x] = IF x \in Setups /\ ~Pending(x) THEN Blank(x) ELSE req[x]
            /\ grant'[x] = IF x \in Setups THEN NoGrant ELSE grant[x]
            /\ window'[x] = IF x \in Setups THEN "done" ELSE window[x]
            /\ req[x].source # None => ~Pending(x)
  BY DEF IInv, TypeOK, RequestTypes, Proposals, States
<1>1. TypeOK'
  <2>1. RequestTypes'
    BY DEF IInv, TypeOK, RequestTypes, Proposals, ThreadTypes, States
  <2>2. AttemptTypes'
    BY DEF IInv, TypeOK, AttemptTypes, Executions, ThreadTypes, Calls, AttemptStates
  <2>3. ThreadTypes'
    BY DEF IInv, TypeOK, RequestTypes, ThreadTypes, Sessions, Calls, Places
  <2>. QED BY <2>1, <2>2, <2>3 DEF TypeOK
<1>2. GrantsInv'
  <2>1. \A x \in Requests : LineSound(x)'
    <3>. SUFFICES ASSUME NEW x \in Requests PROVE LineSound(x)'
      OBVIOUS
    <3>1. LineSound(x)
      BY DEF IInv, GrantsInv
    <3>2. req'[x].source = None /\ req'[x].line = {x}
      BY <1>0, <3>1 DEF LineSound
    <3>. QED BY <3>2 DEF LineSound
  <2>2. ASSUME NEW x \in Requests PROVE StateSound(x)'
    BY <1>0 DEF IInv, TypeOK, RequestTypes, Proposals, GrantsInv, StateSound, ThreadsSound, Blank
  <2>3. ThreadsSound'
    BY <1>0
       DEF IInv, TypeOK, RequestTypes, Proposals, ThreadTypes, Calls, GrantsInv, StateSound,
           ThreadsSound, Blank
  <2>. QED BY <2>1, <2>2, <2>3 DEF GrantsInv
<1>3. ActionsInv'
  BY ActionsKept DEF Within
<1>. QED BY <1>1, <1>2, <1>3 DEF IInv

LEMMA ExecuteSound == ASSUME IInv, NEW r \in Requests, NEW a \in Attempts, Execute(r, a) PROVE IInv'
<1>. USE GrantsAssumption DEF GrantsAssumption, asked, acted, Execute
<1>1. TypeOK'
  <2>1. RequestTypes'
    BY DEF IInv, TypeOK, RequestTypes, Proposals, ThreadTypes, States
  <2>2. AttemptTypes'
    BY SMTT(30) DEF IInv, TypeOK, AttemptTypes, Executions, ThreadTypes, Calls, AttemptStates
  <2>3. ThreadTypes'
    BY DEF IInv, TypeOK, RequestTypes, ThreadTypes, Sessions, Calls, Places
  <2>. QED BY <2>1, <2>2, <2>3 DEF TypeOK
<1>2. GrantsInv'
  BY GrantsKept DEF IInv, TypeOK, ThreadTypes, Calls
<1>3. ActionsInv'
  BY DEF IInv, TypeOK, AttemptTypes, Executions, ThreadTypes, Sessions, Calls, ActionsInv,
         AttemptSound, CallSound, Asks, Within
<1>. QED BY <1>1, <1>2, <1>3 DEF IInv

LEMMA ExecuteConfirmedSound == ASSUME IInv, NEW a \in Attempts, ExecuteConfirmed(a) PROVE IInv'
<1>. USE GrantsAssumption DEF GrantsAssumption, asked, acted, ExecuteConfirmed
<1>1. TypeOK'
  <2>1. RequestTypes'
    BY DEF IInv, TypeOK, RequestTypes, Proposals, ThreadTypes, States
  <2>2. AttemptTypes'
    BY DEF IInv, TypeOK, AttemptTypes, Executions, ThreadTypes, Calls, AttemptStates
  <2>3. ThreadTypes'
    BY DEF IInv, TypeOK, ThreadTypes, Calls, Places, AttemptTypes, Executions
  <2>. QED BY <2>1, <2>2, <2>3 DEF TypeOK
<1>2. GrantsInv'
  BY GrantsKept DEF IInv, TypeOK, ThreadTypes, Calls
<1>3. ActionsInv'
  BY DEF IInv, TypeOK, AttemptTypes, Executions, ThreadTypes, Sessions, Calls, ActionsInv,
         AttemptSound, CallSound, Asks, Within
<1>. QED BY <1>1, <1>2, <1>3 DEF IInv

LEMMA ConfirmSound == ASSUME IInv, NEW a \in Attempts, Confirm(a) PROVE IInv'
<1>. USE GrantsAssumption DEF GrantsAssumption, asked, acted, Confirm
<1>1. TypeOK'
  <2>1. RequestTypes'
    BY DEF IInv, TypeOK, RequestTypes, Proposals, ThreadTypes, States
  <2>2. AttemptTypes'
    BY TicketTyped DEF IInv, TypeOK, AttemptTypes, AttemptStates
  <2>3. ThreadTypes'
    BY DEF IInv, TypeOK, RequestTypes, ThreadTypes, Sessions, Calls, Places
  <2>. QED BY <2>1, <2>2, <2>3 DEF TypeOK
<1>2. GrantsInv'
  BY GrantsKept DEF IInv, TypeOK, ThreadTypes, Calls
<1>3. ActionsInv'
  BY DEF IInv, TypeOK, AttemptTypes, Executions, ThreadTypes, Sessions, Calls, ActionsInv,
         AttemptSound, CallSound, Asks, Within
<1>. QED BY <1>1, <1>2, <1>3 DEF IInv

LEMMA DenySound == ASSUME IInv, NEW a \in Attempts, Deny(a) PROVE IInv'
<1>. USE GrantsAssumption DEF GrantsAssumption, asked, acted, Deny, Finish
<1>1. TypeOK'
  <2>1. RequestTypes'
    BY DEF IInv, TypeOK, RequestTypes, Proposals, ThreadTypes, States
  <2>2. AttemptTypes'
    BY DEF IInv, TypeOK, AttemptTypes, Executions, ThreadTypes, Calls, AttemptStates
  <2>3. ThreadTypes'
    BY DEF IInv, TypeOK, RequestTypes, ThreadTypes, Sessions, Calls, Places
  <2>. QED BY <2>1, <2>2, <2>3 DEF TypeOK
<1>2. GrantsInv'
  BY GrantsKept DEF IInv, TypeOK, ThreadTypes, Calls
<1>3. ActionsInv'
  BY DEF IInv, TypeOK, AttemptTypes, Executions, ThreadTypes, Sessions, Calls, ActionsInv,
         AttemptSound, CallSound, Asks, Within
<1>. QED BY <1>1, <1>2, <1>3 DEF IInv

LEMMA TicketExpiresSound == ASSUME IInv, NEW a \in Attempts, TicketExpires(a) PROVE IInv'
<1>. USE GrantsAssumption DEF GrantsAssumption, asked, acted, TicketExpires
<1>1. TypeOK'
  <2>1. RequestTypes'
    BY DEF IInv, TypeOK, RequestTypes, Proposals, ThreadTypes, States
  <2>2. AttemptTypes'
    BY DEF IInv, TypeOK, AttemptTypes, Executions, ThreadTypes, Calls, AttemptStates
  <2>3. ThreadTypes'
    BY DEF IInv, TypeOK, RequestTypes, ThreadTypes, Sessions, Calls, Places
  <2>. QED BY <2>1, <2>2, <2>3 DEF TypeOK
<1>2. GrantsInv'
  BY GrantsKept DEF IInv, TypeOK, ThreadTypes, Calls
<1>3. ActionsInv'
  BY DEF IInv, TypeOK, AttemptTypes, Executions, ThreadTypes, Sessions, Calls, ActionsInv,
         AttemptSound, CallSound, Asks, Within
<1>. QED BY <1>1, <1>2, <1>3 DEF IInv

LEMMA RevokeActionSound == ASSUME IInv, NEW a \in Attempts, RevokeAction(a) PROVE IInv'
<1>. USE GrantsAssumption DEF GrantsAssumption, asked, acted, RevokeAction
<1>1. TypeOK'
  <2>1. RequestTypes'
    BY DEF IInv, TypeOK, RequestTypes, Proposals, ThreadTypes, States
  <2>2. AttemptTypes'
    BY AttemptTyped DEF IInv, TypeOK, AttemptTypes, AttemptStates
  <2>3. ThreadTypes'
    BY DEF IInv, TypeOK, RequestTypes, ThreadTypes, Sessions, Calls, Places
  <2>. QED BY <2>1, <2>2, <2>3 DEF TypeOK
<1>2. GrantsInv'
  BY GrantsKept DEF IInv, TypeOK, ThreadTypes, Calls
<1>3. ActionsInv'
  BY DEF IInv, TypeOK, AttemptTypes, Executions, ThreadTypes, Sessions, Calls, ActionsInv,
         AttemptSound, CallSound, Asks, Within
<1>. QED BY <1>1, <1>2, <1>3 DEF IInv

LEMMA CheckActionSound == ASSUME IInv, NEW a \in Attempts, CheckAction(a) PROVE IInv'
<1>. USE GrantsAssumption DEF GrantsAssumption, asked, acted, CheckAction, Emergency
<1>1. TypeOK'
  <2>1. RequestTypes'
    BY DEF IInv, TypeOK, RequestTypes, Proposals, ThreadTypes, States
  <2>2. AttemptTypes'
    BY DEF IInv, TypeOK, AttemptTypes, Executions, ThreadTypes, Calls, AttemptStates
  <2>3. ThreadTypes'
    <3>1. session' \in Sessions
      BY SessionTyped DEF IInv, TypeOK, ThreadTypes
    <3>. QED BY <3>1 DEF IInv, TypeOK, ThreadTypes
  <2>. QED BY <2>1, <2>2, <2>3 DEF TypeOK
<1>2. GrantsInv'
  BY GrantsKept DEF IInv, TypeOK, ThreadTypes, Calls
<1>3. ActionsInv'
  BY DEF IInv, TypeOK, AttemptTypes, Executions, ThreadTypes, Sessions, Calls, ActionsInv,
         AttemptSound, CallSound, Asks, Within
<1>. QED BY <1>1, <1>2, <1>3 DEF IInv

LEMMA FinishActionSound == ASSUME IInv, NEW a \in Attempts, FinishAction(a) PROVE IInv'
<1>. USE GrantsAssumption DEF GrantsAssumption, asked, acted, FinishAction, Finish
<1>1. TypeOK'
  <2>1. RequestTypes'
    BY DEF IInv, TypeOK, RequestTypes, Proposals, ThreadTypes, States
  <2>2. AttemptTypes'
    <3>1. att' \in [Attempts -> Executions] /\ journal' \subseteq Attempts
      <4>1. CASE session.fenced
        BY <4>1 DEF IInv, TypeOK, AttemptTypes
      <4>2. CASE ~session.fenced
        <5>1. att' = [att EXCEPT ![a].state = "failed-before-dispatch"] /\ journal' \subseteq journal
          BY <4>2
        <5>2. "failed-before-dispatch" \in AttemptStates
          BY DEF AttemptStates
        <5>3. [att EXCEPT ![a].state = "failed-before-dispatch"] \in [Attempts -> Executions]
          BY ONLY <5>2, AttemptTyped, IInv, a \in Attempts
        <5>. QED BY <5>1, <5>3 DEF IInv, TypeOK, AttemptTypes
      <4>. QED BY <4>1, <4>2
    <3>. QED BY <3>1 DEF IInv, TypeOK, AttemptTypes
  <2>3. ThreadTypes'
    BY DEF IInv, TypeOK, RequestTypes, ThreadTypes, Sessions, Calls, Places
  <2>. QED BY <2>1, <2>2, <2>3 DEF TypeOK
<1>2. GrantsInv'
  BY GrantsKept DEF IInv, TypeOK, ThreadTypes, Calls
<1>3. ActionsInv'
  BY DEF IInv, TypeOK, AttemptTypes, Executions, ThreadTypes, Sessions, Calls, ActionsInv,
         AttemptSound, CallSound, Asks, Within
<1>. QED BY <1>1, <1>2, <1>3 DEF IInv

LEMMA EnterSound == ASSUME IInv, Enter PROVE IInv'
<1>. USE GrantsAssumption DEF GrantsAssumption, asked, acted, Enter, To
<1>1. TypeOK'
  <2>1. RequestTypes'
    BY DEF IInv, TypeOK, RequestTypes, Proposals, ThreadTypes, States
  <2>2. AttemptTypes'
    BY DEF IInv, TypeOK, AttemptTypes, ActionsInv, CallSound
  <2>3. ThreadTypes'
    BY DEF IInv, TypeOK, RequestTypes, ThreadTypes, Sessions, Calls, Places
  <2>. QED BY <2>1, <2>2, <2>3 DEF TypeOK
<1>2. GrantsInv'
  BY GrantsKept DEF IInv, TypeOK, ThreadTypes, Calls
<1>3. ActionsInv'
  BY DEF IInv, TypeOK, AttemptTypes, Executions, ThreadTypes, Sessions, Calls, ActionsInv,
         AttemptSound, CallSound, Asks, Within
<1>. QED BY <1>1, <1>2, <1>3 DEF IInv

LEMMA StartSound == ASSUME IInv, Start PROVE IInv'
<1>. USE GrantsAssumption DEF GrantsAssumption, asked, acted, Start, To
<1>1. TypeOK'
  <2>1. RequestTypes'
    BY DEF IInv, TypeOK, RequestTypes, Proposals, ThreadTypes, States
  <2>2. AttemptTypes'
    BY DEF IInv, TypeOK, AttemptTypes, Executions, ThreadTypes, Calls, AttemptStates
  <2>3. ThreadTypes'
    BY DEF IInv, TypeOK, RequestTypes, ThreadTypes, Sessions, Calls, Places
  <2>. QED BY <2>1, <2>2, <2>3 DEF TypeOK
<1>2. GrantsInv'
  BY GrantsKept DEF IInv, TypeOK, ThreadTypes, Calls
<1>3. ActionsInv'
  BY DEF IInv, TypeOK, AttemptTypes, Executions, ThreadTypes, Sessions, Calls, ActionsInv,
         AttemptSound, CallSound, Asks, Within
<1>. QED BY <1>1, <1>2, <1>3 DEF IInv

LEMMA CheckWriteSound == ASSUME IInv, CheckWrite PROVE IInv'
<1>. USE GrantsAssumption DEF GrantsAssumption, asked, acted, CheckWrite, Take, Usable, Idle
<1>. DEFINE b == call.a
<1>a. call.r \in Requests /\ b \in Attempts /\ att[b].of = call.r
  BY DEF IInv, ActionsInv, CallSound, Within

<1>1. TypeOK'
  <2>1. RequestTypes'
    <3>1. grant' \in [Requests -> [state : {"none", "active", "expired", "revoked", "replaced"},
                                  left : 0..MaxUses, approved : 0..MaxUses]]
      BY <1>a DEF IInv, TypeOK, RequestTypes
    <3>2. spent' \in [Requests -> Nat]
      BY <1>a DEF IInv, TypeOK, RequestTypes
    <3>. QED BY <3>1, <3>2 DEF IInv, TypeOK, RequestTypes
  <2>2. AttemptTypes'
    <3>. DEFINE ticket == IF req[call.r].timed THEN "used" ELSE "none"
    <3>1. att' = [att EXCEPT ![b].ticket = ticket] /\ ticket \in {"none", "valid", "used", "expired"}
      OBVIOUS
    <3>. HIDE DEF ticket, b
    <3>2. att' \in [Attempts -> Executions]
      BY ONLY <1>a, <3>1, TicketTyped, IInv
    <3>. QED BY <3>2 DEF IInv, TypeOK, AttemptTypes
  <2>3. ThreadTypes'
    BY <1>a DEF IInv, TypeOK, ThreadTypes
  <2>. QED BY <2>1, <2>2, <2>3 DEF TypeOK
<1>2. GrantsInv'
  BY DEF IInv, TypeOK, RequestTypes, Proposals, ThreadTypes, Calls, GrantsInv, LineSound,
         StateSound, ThreadsSound, Blank
<1>3. ActionsInv'
  <2>0. /\ \A x \in Attempts : /\ att'[x].state = att[x].state /\ att'[x].of = att[x].of
                             /\ att'[x].fence = att[x].fence
        /\ call.at = "waiting" /\ ~att[b].fence /\ att[b].state = "reserved"
        /\ net'.at = "idle" \/ (net'.at = "taken" /\ net'.a = b)
    BY <1>a DEF IInv, TypeOK, AttemptTypes, Executions
  <2>1. call.r \notin withdrawn
    BY <1>a DEF IInv, GrantsInv, StateSound
  <2>2. ASSUME NEW x \in Attempts PROVE AttemptSound(x)'
    BY <1>a, <2>0, <2>1 DEF IInv, ActionsInv, AttemptSound, Asks
  <2>3. CallSound'
    BY <1>a, <2>0 DEF IInv, ActionsInv, CallSound
  <2>. QED BY <2>2, <2>3 DEF IInv, ActionsInv
<1>. QED BY <1>1, <1>2, <1>3 DEF IInv

LEMMA ForwardSound == ASSUME IInv, NEW a \in Attempts, Forward(a) PROVE IInv'
<1>. USE GrantsAssumption DEF GrantsAssumption, asked, acted, Forward
<1>1. TypeOK'
  <2>1. RequestTypes'
    BY DEF IInv, TypeOK, RequestTypes, Proposals, ThreadTypes, States
  <2>2. AttemptTypes'
    BY DEF IInv, TypeOK, AttemptTypes, Executions, ThreadTypes, Calls, AttemptStates
  <2>3. ThreadTypes'
    BY DEF IInv, TypeOK, RequestTypes, ThreadTypes, Sessions, Calls, Places
  <2>. QED BY <2>1, <2>2, <2>3 DEF TypeOK
<1>2. GrantsInv'
  BY GrantsKept DEF IInv, TypeOK, ThreadTypes, Calls
<1>3. ActionsInv'
  BY DEF IInv, TypeOK, AttemptTypes, Executions, ThreadTypes, Sessions, Calls, ActionsInv,
         AttemptSound, CallSound, Asks, Within
<1>. QED BY <1>1, <1>2, <1>3 DEF IInv

LEMMA WorkerEndsSound == ASSUME IInv, WorkerEnds PROVE IInv'
<1>. USE GrantsAssumption DEF GrantsAssumption, asked, acted, WorkerEnds, To
<1>1. TypeOK'
  <2>1. RequestTypes'
    BY DEF IInv, TypeOK, RequestTypes, Proposals, ThreadTypes, States
  <2>2. AttemptTypes'
    BY DEF IInv, TypeOK, AttemptTypes, Executions, ThreadTypes, Calls, AttemptStates
  <2>3. ThreadTypes'
    BY DEF IInv, TypeOK, RequestTypes, ThreadTypes, Sessions, Calls, Places
  <2>. QED BY <2>1, <2>2, <2>3 DEF TypeOK
<1>2. GrantsInv'
  BY GrantsKept DEF IInv, TypeOK, ThreadTypes, Calls
<1>3. ActionsInv'
  BY DEF IInv, TypeOK, AttemptTypes, Executions, ThreadTypes, Sessions, Calls, ActionsInv,
         AttemptSound, CallSound, Asks, Within
<1>. QED BY <1>1, <1>2, <1>3 DEF IInv

LEMMA WorkerLostSound == ASSUME IInv, WorkerLost PROVE IInv'
<1>. USE GrantsAssumption DEF GrantsAssumption, asked, acted, WorkerLost, To
<1>1. TypeOK'
  <2>1. RequestTypes'
    BY DEF IInv, TypeOK, RequestTypes, Proposals, ThreadTypes, States
  <2>2. AttemptTypes'
    BY DEF IInv, TypeOK, AttemptTypes, Executions, ThreadTypes, Calls, AttemptStates
  <2>3. ThreadTypes'
    BY DEF IInv, TypeOK, RequestTypes, ThreadTypes, Sessions, Calls, Places
  <2>. QED BY <2>1, <2>2, <2>3 DEF TypeOK
<1>2. GrantsInv'
  BY GrantsKept DEF IInv, TypeOK, ThreadTypes, Calls
<1>3. ActionsInv'
  BY DEF IInv, TypeOK, AttemptTypes, Executions, ThreadTypes, Sessions, Calls, ActionsInv,
         AttemptSound, CallSound, Asks, Within
<1>. QED BY <1>1, <1>2, <1>3 DEF IInv

LEMMA FinishCallSound == ASSUME IInv, FinishCall PROVE IInv'
<1>. USE GrantsAssumption DEF GrantsAssumption, asked, acted, FinishCall, Finish, To
<1>1. TypeOK'
  <2>1. RequestTypes'
    BY DEF IInv, TypeOK, RequestTypes, Proposals, ThreadTypes, States
  <2>2. AttemptTypes'
    BY SMTT(30) DEF IInv, TypeOK, AttemptTypes, Executions, ThreadTypes, Calls, AttemptStates
  <2>3. ThreadTypes'
    BY DEF IInv, TypeOK, RequestTypes, ThreadTypes, Sessions, Calls, Places
  <2>. QED BY <2>1, <2>2, <2>3 DEF TypeOK
<1>2. GrantsInv'
  BY GrantsKept DEF IInv, TypeOK, ThreadTypes, Calls
<1>3. ActionsInv'
  BY SMTT(30) DEF IInv, TypeOK, AttemptTypes, Executions, ThreadTypes, Sessions, Calls, ActionsInv,
         AttemptSound, CallSound, Asks, Within
<1>. QED BY <1>1, <1>2, <1>3 DEF IInv

LEMMA ReleaseOutputSound == ASSUME IInv, ReleaseOutput PROVE IInv'
<1>. USE GrantsAssumption DEF GrantsAssumption, asked, acted, ReleaseOutput, EndCall, To, Idle
<1>1. TypeOK'
  <2>1. RequestTypes'
    BY DEF IInv, TypeOK, RequestTypes, Proposals, ThreadTypes, States
  <2>2. AttemptTypes'
    BY DEF IInv, TypeOK, AttemptTypes, Executions, ThreadTypes, Calls, AttemptStates
  <2>3. ThreadTypes'
    BY DEF IInv, TypeOK, RequestTypes, ThreadTypes, Sessions, Calls, Places
  <2>. QED BY <2>1, <2>2, <2>3 DEF TypeOK
<1>2. GrantsInv'
  BY GrantsKept DEF IInv, TypeOK, ThreadTypes, Calls
<1>3. ActionsInv'
  BY DEF IInv, TypeOK, AttemptTypes, Executions, ThreadTypes, Sessions, Calls, ActionsInv,
         AttemptSound, CallSound, Asks, Within
<1>. QED BY <1>1, <1>2, <1>3 DEF IInv

LEMMA FailedSound == ASSUME IInv, Failed PROVE IInv'
<1>. USE GrantsAssumption DEF GrantsAssumption, asked, acted, Failed, Finish, EndCall, Idle
<1>1. TypeOK'
  <2>1. RequestTypes'
    BY DEF IInv, TypeOK, RequestTypes, Proposals, ThreadTypes, States
  <2>2. AttemptTypes'
    BY DEF IInv, TypeOK, AttemptTypes, Executions, ThreadTypes, Calls, AttemptStates
  <2>3. ThreadTypes'
    BY DEF IInv, TypeOK, RequestTypes, ThreadTypes, Sessions, Calls, Places
  <2>. QED BY <2>1, <2>2, <2>3 DEF TypeOK
<1>2. GrantsInv'
  BY GrantsKept DEF IInv, TypeOK, ThreadTypes, Calls
<1>3. ActionsInv'
  BY SMTT(30) DEF IInv, TypeOK, AttemptTypes, Executions, ThreadTypes, Sessions, Calls, ActionsInv,
         AttemptSound, CallSound, Asks, Within
<1>. QED BY <1>1, <1>2, <1>3 DEF IInv

LEMMA ReconcileSound == ASSUME IInv, NEW a \in Attempts, Reconcile(a) PROVE IInv'
<1>. USE GrantsAssumption DEF GrantsAssumption, asked, acted, Reconcile, Finish
<1>1. TypeOK'
  <2>1. RequestTypes'
    BY DEF IInv, TypeOK, RequestTypes, Proposals, ThreadTypes, States
  <2>2. AttemptTypes'
    BY DEF IInv, TypeOK, AttemptTypes, Executions, ThreadTypes, Calls, AttemptStates
  <2>3. ThreadTypes'
    BY DEF IInv, TypeOK, RequestTypes, ThreadTypes, Sessions, Calls, Places
  <2>. QED BY <2>1, <2>2, <2>3 DEF TypeOK
<1>2. GrantsInv'
  BY GrantsKept DEF IInv, TypeOK, ThreadTypes, Calls
<1>3. ActionsInv'
  BY DEF IInv, TypeOK, AttemptTypes, Executions, ThreadTypes, Sessions, Calls, ActionsInv,
         AttemptSound, CallSound, Asks, Within
<1>. QED BY <1>1, <1>2, <1>3 DEF IInv

LEMMA SessionFencedSound == ASSUME IInv, SessionFenced PROVE IInv'
<1>. USE GrantsAssumption DEF GrantsAssumption, asked, acted, SessionFenced, Emergency
<1>1. TypeOK'
  <2>1. RequestTypes'
    BY DEF IInv, TypeOK, RequestTypes, Proposals, ThreadTypes, States
  <2>2. AttemptTypes'
    BY DEF IInv, TypeOK, AttemptTypes, Executions, ThreadTypes, Calls, AttemptStates
  <2>3. ThreadTypes'
    BY ZenonT(30) DEF IInv, TypeOK, RequestTypes, ThreadTypes, Sessions, Calls, Places
  <2>. QED BY <2>1, <2>2, <2>3 DEF TypeOK
<1>2. GrantsInv'
  BY GrantsKept DEF IInv, TypeOK, ThreadTypes, Calls
<1>3. ActionsInv'
  BY ActionsKept DEF Within
<1>. QED BY <1>1, <1>2, <1>3 DEF IInv

LEMMA CloseChannelSound == ASSUME IInv, CloseChannel PROVE IInv'
<1>. USE GrantsAssumption DEF GrantsAssumption, asked, acted, CloseChannel
<1>1. TypeOK'
  <2>1. RequestTypes'
    BY DEF IInv, TypeOK, RequestTypes, Proposals, ThreadTypes, States
  <2>2. AttemptTypes'
    BY DEF IInv, TypeOK, AttemptTypes, Executions, ThreadTypes, Calls, AttemptStates
  <2>3. ThreadTypes'
    BY ZenonT(30) DEF IInv, TypeOK, RequestTypes, ThreadTypes, Sessions, Calls, Places
  <2>. QED BY <2>1, <2>2, <2>3 DEF TypeOK
<1>2. GrantsInv'
  BY GrantsKept DEF IInv, TypeOK, ThreadTypes, Calls
<1>3. ActionsInv'
  BY DEF IInv, TypeOK, AttemptTypes, Executions, ThreadTypes, Sessions, Calls, ActionsInv,
         AttemptSound, CallSound, Asks, Within
<1>. QED BY <1>1, <1>2, <1>3 DEF IInv

\* A step that changes nothing.
LEMMA StutterSound == ASSUME IInv, UNCHANGED vars PROVE IInv'
<1>1. TypeOK'
  BY DEF IInv, TypeOK, RequestTypes, AttemptTypes, ThreadTypes, vars
<1>2. GrantsInv'
  BY GrantsKept DEF vars
<1>3. ActionsInv'
  BY ActionsKept DEF vars, acted
<1>. QED BY <1>1, <1>2, <1>3 DEF IInv


\* Every step keeps the invariant.
LEMMA NextSound == ASSUME IInv, [Next]_vars PROVE IInv'
  BY RequestSound, HoldSound, ProposeSound, SyncCallSound, StatusSound, DecideSound,
     PublishSound, SyncDecisionSound, ReleaseDecisionSound, ReviewExpiresSound,
     GrantExpiresSound, WindowRevokesSound, FenceSound, SyncWindowSound,
     ReleaseWindowSound, CheckExecutingSound, RevokeSound, CancelSound, CancelledSound,
     CheckStartupSound, AnswerSound, SendSound, AuthenticateSound, ExecuteSound,
     ExecuteConfirmedSound, ConfirmSound, DenySound, TicketExpiresSound,
     RevokeActionSound, CheckActionSound, FinishActionSound, EnterSound, StartSound,
     CheckWriteSound, ForwardSound, WorkerEndsSound, WorkerLostSound, FinishCallSound,
     ReleaseOutputSound, FailedSound, ReconcileSound, SessionFencedSound,
     CloseChannelSound, StutterSound
  DEF Next, Step

\* The threads of windows, decisions, calls and the reader agree with the grants and the
\* journal, whatever is revoked, lost or closed in between.
THEOREM GrantsSafety == Spec => []IInv
  BY InitSound, NextSound, PTL DEF Spec

\* Broker.revoke_request() and revoke(): no grant takes over from one that was withdrawn.
THEOREM RevocationIsFinal == Spec => []RevocationLasts
<1>1. IInv => RevocationLasts
  BY DEF IInv, TypeOK, RequestTypes, GrantsInv, LineSound, StateSound, RevocationLasts, Usable
<1>2. QED BY <1>1, GrantsSafety, PTL

\* finish() takes an attempt out of the journal only if it was read back or never sent.
THEOREM WritesStayFenced == Spec => []WritesFenced
<1>1. IInv => WritesFenced
  BY DEF IInv, TypeOK, AttemptTypes, ActionsInv, AttemptSound, WritesFenced
<1>2. QED BY <1>1, GrantsSafety, PTL

\* A permit whose grant or confirmation was withdrawn is of no use: _prompt_revoked() and
\* _action_revoked() close the session of an attempt that executes.
THEOREM WithdrawnIsNotWritten == Spec => NoLateWrite
<1>1. ASSUME IInv, [Next]_vars, NEW a \in forwarded' \ forwarded,
             att[a].of \in withdrawn \/ (att[a].fence /\ confirm[a] = "done")
      PROVE  session.fenced
  <2>1. PICK b \in Attempts : Forward(b)
    <3>1. forwarded' # forwarded
      BY <1>1
    <3>. QED BY <1>1, <3>1, ZenonT(30)
      DEF Next, Step, vars, asked, acted, Propose, SyncCall, Publish, SyncDecision,
          ReleaseDecision, Cancelled, Answer, Send, Enter, Start, WorkerLost, FinishCall,
          ReleaseOutput, Failed, CloseChannel, Fence, SyncWindow, ReleaseWindow,
          CheckExecuting, CheckAction, FinishAction, Status, Authenticate, CheckWrite,
          WorkerEnds, SessionFenced, Request, Hold, Decide, WindowRevokes, Revoke, Cancel,
          ReviewExpires, GrantExpires, CheckStartup, Execute, ExecuteConfirmed, Confirm,
          Deny, TicketExpires, RevokeAction, Reconcile
  <2>2. a = b /\ a \in permits /\ ~session.closed /\ a \in Attempts
    BY <1>1, <2>1 DEF Forward
  <2>3. AttemptSound(a)
    BY <1>1, <2>2 DEF IInv, ActionsInv
  <2>. QED BY <1>1, <2>2, <2>3 DEF AttemptSound
<1>2. IInv /\ [Next]_vars =>
        [\A a \in forwarded' \ forwarded :
            att[a].of \in withdrawn \/ (att[a].fence /\ confirm[a] = "done") => session.fenced]_vars
  BY <1>1
<1>3. QED BY <1>2, GrantsSafety, PTL DEF Spec, NoLateWrite

(***************************************************************************)
(* Budgets.  What was taken in a line of grants is a sum over the line, and  *)
(* the sum is the number of pairs of a grant and one of its uses: so what    *)
(* the library says of finite sets says how the sum changes.                 *)
(***************************************************************************)
\* The sum of f over a set, as WebGrants takes it.
Total(f, S) == MapThenSumSet(LAMBDA g : f[g], S)

\* As many pairs as f adds up to.
Units(f, S) == {p \in S \X Nat : p[2] \in 1..f[p[1]]}

\* Finitely many, when each of f is bounded.
LEMMA UnitsOf ==
    ASSUME NEW T, NEW M \in Nat, NEW f \in [T -> 0..M], NEW S \in SUBSET T, IsFiniteSet(S)
    PROVE  IsFiniteSet(Units(f, S)) /\ Cardinality(Units(f, S)) \in Nat
<1>1. IsFiniteSet(1..M)
  BY FS_Interval
<1>2. IsFiniteSet(S \X (1..M))
  BY <1>1, FS_Product
<1>3. Units(f, S) \in SUBSET (S \X (1..M))
  BY DEF Units
<1>. QED BY <1>2, <1>3, FS_Subset, FS_CardinalityType

\* An empty set has none.
LEMMA UnitsEmpty == ASSUME NEW f PROVE Cardinality(Units(f, {})) = 0
<1>1. Units(f, {}) = {}
  BY DEF Units
<1>. QED BY <1>1, FS_EmptySet

\* An element adds as many as f of it: the pairs of different elements are disjoint.
LEMMA UnitsAdd ==
    ASSUME NEW T, NEW M \in Nat, NEW f \in [T -> 0..M], NEW S \in SUBSET T, IsFiniteSet(S),
           NEW x \in T \ S
    PROVE  Cardinality(Units(f, S \cup {x})) = f[x] + Cardinality(Units(f, S))
<1>. DEFINE C == {x} \X (1..f[x])
<1>1. IsFiniteSet(C) /\ Cardinality(C) = f[x]
  <2>1. IsFiniteSet(1..f[x]) /\ Cardinality(1..f[x]) = f[x]
    BY FS_Interval
  <2>2. IsFiniteSet({x}) /\ Cardinality({x}) = 1
    BY FS_Singleton
  <2>3. IsFiniteSet(C) /\ Cardinality(C) = 1 * f[x]
    BY <2>1, <2>2, FS_Product
  <2>. QED BY <2>3
<1>2. IsFiniteSet(Units(f, S)) /\ Cardinality(Units(f, S)) \in Nat
  BY UnitsOf
<1>3. Units(f, S \cup {x}) = C \cup Units(f, S) /\ C \cap Units(f, S) = {}
  BY DEF Units
<1>4. Cardinality(C \cap Units(f, S)) = 0
  BY <1>3, FS_EmptySet
<1>5. f[x] \in Nat
  OBVIOUS
<1>6. Cardinality(C \cup Units(f, S)) =
          Cardinality(C) + Cardinality(Units(f, S)) - Cardinality(C \cap Units(f, S))
  BY <1>1, <1>2, FS_Union
<1>7. \A a \in Nat, b \in Nat : a + b - 0 = a + b
  OBVIOUS
<1>. QED BY <1>1, <1>2, <1>3, <1>4, <1>5, <1>6, <1>7, ZenonT(30)

\* g adds f up, one element at a time, over the subsets of S.
Adds(g, f, S) ==
    g = [s \in SUBSET S |-> IF s = {} THEN 0
                            ELSE f[CHOOSE x \in s : TRUE] + g[s \ {CHOOSE x \in s : TRUE}]]

\* The fold of the library is such a g, if there is one.
LEMMA TotalAdds ==
    ASSUME NEW f, NEW S, \E g : Adds(g, f, S)
    PROVE  \E g : Adds(g, f, S) /\ Total(f, S) = g[S]
  BY Zenon DEF Total, MapThenSumSet, MapThenFoldSet, Adds

\* There is one: the number of pairs.
LEMMA UnitsAdded ==
    ASSUME NEW T, NEW M \in Nat, NEW f \in [T -> 0..M], NEW S \in SUBSET T, IsFiniteSet(S)
    PROVE  Adds([s \in SUBSET S |-> Cardinality(Units(f, s))], f, S)
<1>. DEFINE g == [s \in SUBSET S |-> Cardinality(Units(f, s))]
<1>1. SUFFICES ASSUME NEW s \in SUBSET S
               PROVE  g[s] = IF s = {} THEN 0
                             ELSE f[CHOOSE x \in s : TRUE] + g[s \ {CHOOSE x \in s : TRUE}]
  BY Zenon DEF Adds
<1>2. CASE s = {}
  BY <1>2, UnitsEmpty
<1>3. CASE s # {}
  <2>. DEFINE x == CHOOSE x \in s : TRUE
              rest == s \ {x}
  <2>1. x \in s
    BY <1>3
  <2>. HIDE DEF x
  <2>2. rest \in SUBSET T /\ rest \in SUBSET S /\ IsFiniteSet(rest) /\ x \in T \ rest /\ rest \cup {x} = s
    BY <2>1, FS_Subset
  <2>3. Cardinality(Units(f, s)) = f[x] + Cardinality(Units(f, rest))
    BY <2>2, UnitsAdd
  <2>4. g[s] = f[x] + g[rest]
    BY <2>2, <2>3
  <2>. QED BY <1>3, <2>4 DEF x
<1>. QED BY <1>2, <1>3

\* No two add up differently: a smallest subset where they do cannot be.
LEMMA AddsOnce ==
    ASSUME NEW T, NEW M \in Nat, NEW f \in [T -> 0..M], NEW S \in SUBSET T, IsFiniteSet(S),
           NEW g, Adds(g, f, S)
    PROVE  g[S] = Cardinality(Units(f, S))
<1>. DEFINE W == {s \in SUBSET S : g[s] # Cardinality(Units(f, s))}
<1>1. SUFFICES ASSUME W # {} PROVE FALSE
  OBVIOUS
<1>2. IsWellFoundedOn(StrictSubsetOrdering(S), FiniteSubsetsOf(S))
  BY FS_StrictSubsetOrderingWellFounded
<1>3. W \subseteq FiniteSubsetsOf(S)
  BY FS_Subset DEF FiniteSubsetsOf
<1>4. PICK s \in W : \A t \in W : ~ (<<t, s>> \in StrictSubsetOrdering(S))
  <2>. HIDE DEF W
  <2>. QED BY <1>1, <1>2, <1>3, WFMin
<1>5. s # {}
  BY UnitsEmpty DEF Adds
<1>. DEFINE x == CHOOSE x \in s : TRUE
            rest == s \ {x}
<1>6. x \in s
  BY <1>5
<1>7. g[s] = f[x] + g[rest]
  BY <1>5 DEF Adds
<1>. HIDE DEF x
<1>8. rest \in SUBSET S /\ IsFiniteSet(rest) /\ x \in T \ rest /\ rest \cup {x} = s
  BY <1>6, FS_Subset
<1>9. g[rest] = Cardinality(Units(f, rest))
  BY <1>4, <1>6, <1>8 DEF StrictSubsetOrdering
<1>. QED BY <1>7, <1>8, <1>9, UnitsAdd

\* The sum is the number of pairs.
LEMMA TotalUnits ==
    ASSUME NEW T, NEW M \in Nat, NEW f \in [T -> 0..M], NEW S \in SUBSET T, IsFiniteSet(S)
    PROVE  Total(f, S) = Cardinality(Units(f, S))
<1>1. \E g : Adds(g, f, S)
  BY UnitsAdded
<1>2. PICK g : Adds(g, f, S) /\ Total(f, S) = g[S]
  BY <1>1, TotalAdds
<1>. QED BY <1>2, AddsOnce

\* The grants of a line from s to r, which is the latest.
Segment(r, s) == {g \in req[r].line : s \in req[g].line}

\* A line is finite, what is in it was proposed, and it holds the lines of what is in it.
LineClosed(r) ==
    /\ IsFiniteSet(req[r].line)
    /\ \A g \in req[r].line :
          /\ g \in Requests /\ req[g].line \subseteq req[r].line
          /\ g = r \/ req[g].state # "none"

\* What was spent, with what is left, stays within what was approved: for each grant, and
\* for the line of each grant.
SpentSound(r) ==
    IF grant[r].state = "none" THEN spent[r] = 0
    ELSE /\ spent[r] + grant[r].left <= grant[r].approved
         /\ \A s \in req[r].line : Total(spent, Segment(r, s)) + grant[r].left <= grant[s].approved

BudgetInv ==
    /\ \A r \in Requests : LineClosed(r) /\ SpentSound(r)
    /\ decision.at = "deciding" => decision.uses <= req[decision.r].uses

\* A sum of bounded naturals is a natural.
LEMMA TotalTyped ==
    ASSUME NEW T, NEW M \in Nat, NEW f \in [T -> 0..M], NEW S \in SUBSET T, IsFiniteSet(S)
    PROVE  Total(f, S) \in Nat
  BY TotalUnits, UnitsOf

\* The sum over a set with one more element.
LEMMA TotalAdd ==
    ASSUME NEW T, NEW M \in Nat, NEW f \in [T -> 0..M], NEW S \in SUBSET T, IsFiniteSet(S),
           NEW x \in T \ S
    PROVE  Total(f, S \cup {x}) = f[x] + Total(f, S)
<1>1. IsFiniteSet(S \cup {x}) /\ S \cup {x} \in SUBSET T
  BY FS_AddElement
<1>2. Total(f, S \cup {x}) = Cardinality(Units(f, S \cup {x}))
  BY <1>1, TotalUnits
<1>3. Total(f, S) = Cardinality(Units(f, S))
  BY TotalUnits
<1>. QED BY <1>2, <1>3, UnitsAdd

\* The sum over one element.
LEMMA TotalOne ==
    ASSUME NEW T, NEW M \in Nat, NEW f \in [T -> 0..M], NEW x \in T
    PROVE  Total(f, {x}) = f[x]
<1>1. IsFiniteSet({}) /\ {} \in SUBSET T /\ x \in T \ {} /\ {} \cup {x} = {x}
  BY FS_EmptySet
<1>2. Total(f, {}) = 0
  BY <1>1, TotalUnits, UnitsEmpty
<1>3. Total(f, {x}) = f[x] + Total(f, {})
  BY <1>1, TotalAdd
<1>. QED BY <1>2, <1>3

\* Two functions with the same values have the same sum.
LEMMA TotalSame ==
    ASSUME NEW T, NEW M \in Nat, NEW f \in [T -> 0..M], NEW h \in [T -> 0..M],
           NEW S \in SUBSET T, IsFiniteSet(S), \A x \in S : f[x] = h[x]
    PROVE  Total(f, S) = Total(h, S)
<1>1. Units(f, S) = Units(h, S)
  BY DEF Units
<1>2. Total(f, S) = Cardinality(Units(f, S))
  BY TotalUnits
<1>3. Total(h, S) = Cardinality(Units(h, S))
  BY TotalUnits
<1>. QED BY <1>1, <1>2, <1>3

\* One use more in one place is one more in the sum.
LEMMA TotalMore ==
    ASSUME NEW T, NEW M \in Nat, NEW f \in [T -> 0..M], NEW h \in [T -> 0..M],
           NEW S \in SUBSET T, IsFiniteSet(S), NEW x \in S,
           h[x] = f[x] + 1, \A y \in S \ {x} : h[y] = f[y]
    PROVE  Total(h, S) = Total(f, S) + 1
<1>. DEFINE rest == S \ {x}
<1>1. rest \in SUBSET T /\ IsFiniteSet(rest) /\ x \in T \ rest /\ rest \cup {x} = S
  BY FS_Subset
<1>2. \A y \in rest : f[y] = h[y]
  OBVIOUS
<1>3. f[x] \in Nat
  OBVIOUS
<1>. HIDE DEF rest
<1>4. Total(f, rest) = Total(h, rest)
  BY <1>1, <1>2, TotalSame
<1>5. Total(f, rest) \in Nat
  BY <1>1, TotalTyped
<1>6. Total(f, rest \cup {x}) = f[x] + Total(f, rest)
  BY <1>1, TotalAdd
<1>7. Total(h, rest \cup {x}) = h[x] + Total(h, rest)
  BY <1>1, TotalAdd
<1>. QED BY <1>1, <1>3, <1>4, <1>5, <1>6, <1>7

\* The types the sums need.
LEMMA BudgetFacts ==
    ASSUME IInv, BudgetInv
    PROVE  /\ MaxUses \in Nat
           /\ spent \in [Requests -> 0..MaxUses]
           /\ \A x \in Requests :
                 /\ grant[x].left \in 0..MaxUses /\ grant[x].approved \in 0..MaxUses
                 /\ spent[x] \in Nat
                 /\ \A s \in Requests : Segment(x, s) \in SUBSET Requests /\ IsFiniteSet(Segment(x, s))
<1>1. MaxUses \in Nat
  BY GrantsAssumption DEF GrantsAssumption
<1>2. ASSUME NEW x \in Requests
      PROVE  /\ grant[x].left \in 0..MaxUses /\ grant[x].approved \in 0..MaxUses
             /\ spent[x] \in Nat
  BY DEF IInv, TypeOK, RequestTypes
<1>3. ASSUME NEW x \in Requests PROVE spent[x] \in 0..MaxUses
  BY <1>1, <1>2 DEF BudgetInv, SpentSound
<1>4. spent \in [Requests -> 0..MaxUses]
  BY <1>3 DEF IInv, TypeOK, RequestTypes
<1>5. ASSUME NEW x \in Requests, NEW s \in Requests
      PROVE  Segment(x, s) \in SUBSET Requests /\ IsFiniteSet(Segment(x, s))
  <2>1. req[x].line \in SUBSET Requests /\ IsFiniteSet(req[x].line)
    BY DEF BudgetInv, LineClosed
  <2>2. Segment(x, s) \in SUBSET req[x].line
    BY DEF Segment
  <2>. QED BY <2>1, <2>2, FS_Subset
<1>. QED BY <1>1, <1>2, <1>4, <1>5

\* Lines and budgets stay.
LEMMA BudgetStays ==
    ASSUME IInv, BudgetInv, spent' = spent,
           decision'.at = "deciding" => decision'.uses <= req'[decision'.r].uses,
           \A x \in Requests :
              /\ req'[x].line = req[x].line /\ (req[x].state # "none" => req'[x].state # "none")
              /\ grant'[x].left = grant[x].left /\ grant'[x].approved = grant[x].approved
              /\ grant'[x].state = "none" <=> grant[x].state = "none"
    PROVE  BudgetInv'
<1>. SUFFICES ASSUME NEW x \in Requests PROVE LineClosed(x)' /\ SpentSound(x)'
  BY DEF BudgetInv
<1>1. LineClosed(x) /\ SpentSound(x)
  BY DEF BudgetInv
<1>2. LineClosed(x)'
  BY <1>1 DEF LineClosed
<1>3. req[x].line \subseteq Requests
  BY <1>1 DEF LineClosed
<1>4. \A s : Segment(x, s)' = Segment(x, s)
  BY <1>3 DEF Segment
<1>5. SpentSound(x)'
  <2>. HIDE DEF Segment
  <2>. QED BY <1>1, <1>3, <1>4 DEF SpentSound
<1>. QED BY <1>2, <1>5

\* Most steps leave them alone.
LEMMA BudgetStill ==
    ASSUME IInv, BudgetInv, UNCHANGED <<req, grant, spent>>,
           decision' = decision \/ decision'.at # "deciding"
    PROVE  BudgetInv'
<1>1. decision'.at = "deciding" => decision'.uses <= req'[decision'.r].uses
  BY DEF BudgetInv
<1>. QED BY <1>1, BudgetStays

\* A use is taken from the last grant of a line.
LEMMA TakeBudget ==
    ASSUME IInv, BudgetInv, NEW r \in Requests, Take(r), UNCHANGED <<req, decision>>
    PROVE  BudgetInv'
<1>1. /\ grant' = [grant EXCEPT ![r].left = @ - 1] /\ spent' = [spent EXCEPT ![r] = @ + 1]
      /\ grant[r].state = "active" /\ grant[r].left > 0
  BY DEF Take, Usable
<1>2. /\ \A x \in Requests : grant'[x].state = grant[x].state /\ grant'[x].approved = grant[x].approved
      /\ \A x \in Requests \ {r} : grant'[x].left = grant[x].left /\ spent'[x] = spent[x]
      /\ grant'[r].left = grant[r].left - 1 /\ spent'[r] = spent[r] + 1
  BY <1>1 DEF IInv, TypeOK, RequestTypes
<1>3. spent[r] + 1 <= grant[r].approved
  BY <1>1, BudgetFacts DEF BudgetInv, SpentSound
<1>4. spent' \in [Requests -> 0..MaxUses]
  <2>1. spent[r] + 1 \in 0..MaxUses
    BY <1>3, BudgetFacts
  <2>. QED BY <1>1, <2>1, BudgetFacts
<1>5. decision'.at = "deciding" => decision'.uses <= req'[decision'.r].uses
  BY DEF BudgetInv
<1>6. ASSUME NEW x \in Requests PROVE LineClosed(x)' /\ SpentSound(x)'
  <2>1. LineClosed(x) /\ SpentSound(x) /\ LineSound(x)
    BY DEF BudgetInv, IInv, GrantsInv
  <2>2. LineClosed(x)' /\ req[x].line \subseteq Requests
    BY <2>1 DEF LineClosed
  <2>3. CASE grant[x].state = "none"
    <3>1. x # r /\ spent'[x] = spent[x] /\ grant'[x].state = "none"
      BY <1>1, <1>2, <2>3
    <3>. QED BY <2>1, <2>2, <2>3, <3>1 DEF SpentSound
  <2>4. ASSUME grant[x].state # "none", NEW s \in req[x].line
        PROVE  Total(spent', Segment(x, s)) + grant'[x].left <= grant[s].approved
    <3>1. Segment(x, s) \in SUBSET Requests /\ IsFiniteSet(Segment(x, s)) /\ s \in Requests
      BY <2>2, BudgetFacts
    <3>2. Total(spent, Segment(x, s)) + grant[x].left <= grant[s].approved
      BY <2>1, <2>4 DEF SpentSound
    <3>3. Total(spent, Segment(x, s)) \in Nat
      BY <3>1, BudgetFacts, TotalTyped
    <3>4. CASE x = r
      <4>1. r \in Segment(x, s)
        BY <2>1, <3>4 DEF Segment, LineSound
      <4>2. Total(spent', Segment(x, s)) = Total(spent, Segment(x, s)) + 1
        <5>1. /\ \A y \in Segment(x, s) \ {r} : spent'[y] = spent[y]
              /\ spent \in [Requests -> 0..MaxUses] /\ MaxUses \in Nat /\ spent'[r] = spent[r] + 1
          BY <1>2, <3>1, BudgetFacts
        <5>. QED BY ONLY <1>4, <3>1, <4>1, <5>1, TotalMore
      <4>3. grant[r].left \in Nat /\ grant[s].approved \in Nat
        BY <3>1, BudgetFacts
      <4>. QED BY <1>2, <3>2, <3>3, <3>4, <4>2, <4>3
    <3>5. CASE x # r
      <4>1. r \notin req[x].line
        BY <1>1, <2>1, <2>4, <3>5 DEF LineSound, IInv, GrantsInv, StateSound
      <4>2. \A g \in Segment(x, s) : spent[g] = spent'[g]
        BY <1>2, <3>1, <4>1 DEF Segment
      <4>3. Total(spent, Segment(x, s)) = Total(spent', Segment(x, s))
        <5>1. spent \in [Requests -> 0..MaxUses] /\ MaxUses \in Nat
          BY BudgetFacts
        <5>. DEFINE S == Segment(x, s)
        <5>2. S \in SUBSET Requests /\ IsFiniteSet(S) /\ \A g \in S : spent[g] = spent'[g]
          BY <3>1, <4>2
        <5>. HIDE DEF S
        <5>3. Units(spent, S) = Units(spent', S)
          BY ONLY <5>2 DEF Units
        <5>4. Total(spent, S) = Cardinality(Units(spent, S))
          BY ONLY <5>1, <5>2, TotalUnits
        <5>5. Total(spent', S) = Cardinality(Units(spent', S))
          BY ONLY <1>4, <5>1, <5>2, TotalUnits
        <5>. QED BY <5>3, <5>4, <5>5 DEF S
      <4>. QED BY <1>2, <3>2, <3>5, <4>3
    <3>. QED BY <3>4, <3>5
  <2>5. CASE grant[x].state # "none"
    <3>1. spent'[x] + grant'[x].left <= grant'[x].approved
      <4>1. spent[x] + grant[x].left <= grant[x].approved
        BY <2>1, <2>5 DEF SpentSound
      <4>. QED BY <1>2, <4>1, BudgetFacts
    <3>2. \A s : Segment(x, s)' = Segment(x, s)
      BY DEF Segment
    <3>. QED BY <1>2, <2>2, <2>4, <2>5, <3>1, <3>2 DEF SpentSound
  <2>. QED BY <2>2, <2>3, <2>5
<1>. QED BY <1>5, <1>6 DEF BudgetInv

\* A proposal takes over the line of its source.
LEMMA ProposeBudget == ASSUME IInv, BudgetInv, Propose PROVE BudgetInv'
<1>. DEFINE r == call.r
<1>1. /\ r \in Requests /\ req[r].state = "none" /\ grant[r].state = "none"
      /\ UNCHANGED <<grant, spent, decision>> /\ decision.at # "deciding"
  BY GrantsAssumption
  DEF Propose, Free, IInv, TypeOK, ThreadTypes, Calls, GrantsInv, StateSound, ThreadsSound, GrantsAssumption
<1>2. CASE UNCHANGED req
  BY <1>1, <1>2, BudgetStill
<1>3. ASSUME NEW s \in Setups \ {r}, Usable(s),
             req' = [req EXCEPT ![r] =
                 [state |-> "pending", fence |-> FALSE, source |-> s, timed |-> FALSE,
                  line |-> {r} \cup req[s].line, uses |-> grant[s].left]]
      PROVE  BudgetInv'
  <2>1. /\ s \in Requests /\ s # r /\ req[s].state # "none" /\ LineClosed(s)
    BY <1>3, GrantsAssumption
    DEF Usable, IInv, GrantsInv, StateSound, BudgetInv, GrantsAssumption
  <2>2. /\ req'[r].line = {r} \cup req[s].line /\ req'[r].state = "pending"
        /\ \A x \in Requests \ {r} : req'[x] = req[x]
    BY <1>1, <1>3 DEF IInv, TypeOK, RequestTypes
  <2>3. ASSUME NEW x \in Requests PROVE LineClosed(x)' /\ SpentSound(x)'
    <3>1. LineClosed(x) /\ SpentSound(x)
      BY DEF BudgetInv
    <3>2. CASE x = r
      <4>1. IsFiniteSet({r} \cup req[s].line)
        BY <2>1, FS_AddElement DEF LineClosed
      <4>2. \A g \in req[s].line : g \in Requests /\ g # r /\ req[g].state # "none"
                                   /\ req[g].line \subseteq req[s].line
        BY <1>1, <2>1 DEF LineClosed
      <4>3. LineClosed(x)'
        BY <2>2, <3>2, <4>1, <4>2, <1>1 DEF LineClosed
      <4>4. SpentSound(x)'
        BY <1>1, <3>1, <3>2 DEF SpentSound
      <4>. QED BY <4>3, <4>4
    <3>3. CASE x # r
      <4>1. \A g \in req[x].line : g \in Requests /\ g # r
        BY <1>1, <3>1, <3>3 DEF LineClosed
      <4>2. req'[x] = req[x] /\ \A g \in req[x].line : req'[g] = req[g]
        BY <2>2, <3>3, <4>1
      <4>3. LineClosed(x)'
        BY <3>1, <4>2 DEF LineClosed
      <4>4. \A t : Segment(x, t)' = Segment(x, t)
        BY <4>2 DEF Segment
      <4>5. SpentSound(x)'
        BY <1>1, <3>1, <4>2, <4>4 DEF SpentSound
      <4>. QED BY <4>3, <4>5
    <3>. QED BY <3>2, <3>3
  <2>. QED BY <1>1, <2>3 DEF BudgetInv
<1>. QED BY <1>2, <1>3 DEF Propose, Source

\* resume-login leaves lines of one request each.
LEMMA AuthenticateBudget == ASSUME IInv, BudgetInv, Authenticate PROVE BudgetInv'
<1>1. /\ decision'.at # "deciding"
      /\ \A x \in Requests : req'[x].line = {x}
      /\ \A x \in Requests : \/ grant'[x].state = "none" /\ spent'[x] = 0
                             \/ /\ x \notin Setups /\ grant'[x] = grant[x] /\ spent'[x] = spent[x]
                                /\ req'[x] = req[x]
  <2>1. decision'.at # "deciding"
    BY DEF Authenticate, Free
  <2>2. ASSUME NEW x \in Requests PROVE req'[x].line = {x}
    <3>1. req'[x] = Blank(x) \/ (req'[x] = req[x] /\ req[x].source = None)
      BY DEF Authenticate, ReplacementPending, IInv, GrantsInv, LineSound
    <3>2. req[x].source = None => req[x].line = {x}
      BY DEF IInv, GrantsInv, LineSound
    <3>. QED BY <3>1, <3>2 DEF Blank
  <2>3. ASSUME NEW x \in Requests
        PROVE  \/ grant'[x].state = "none" /\ spent'[x] = 0
               \/ /\ x \notin Setups /\ grant'[x] = grant[x] /\ spent'[x] = spent[x]
                  /\ req'[x] = req[x]
    BY DEF Authenticate, NoGrant
  <2>. QED BY <2>1, <2>2, <2>3
<1>2. spent' \in [Requests -> 0..MaxUses]
  <2>1. \A x \in Requests : spent'[x] \in 0..MaxUses
    BY <1>1, BudgetFacts
  <2>2. spent' = [x \in Requests |-> IF x \in Setups THEN 0 ELSE spent[x]]
    BY DEF Authenticate
  <2>. QED BY <2>1, <2>2
<1>3. ASSUME NEW x \in Requests PROVE LineClosed(x)' /\ SpentSound(x)'
  <2>1. LineClosed(x)'
    BY <1>1, FS_Singleton, ZenonT(30) DEF LineClosed
  <2>2. CASE grant'[x].state = "none" /\ spent'[x] = 0
    BY <2>1, <2>2 DEF SpentSound
  <2>3. CASE /\ x \notin Setups /\ grant'[x] = grant[x] /\ spent'[x] = spent[x]
             /\ req'[x] = req[x]
    <3>1. SpentSound(x)
      BY DEF BudgetInv
    <3>2. Segment(x, x)' = {x} /\ req[x].line = {x}
      BY <1>1, <2>3 DEF Segment
    <3>3. Total(spent', {x}) = spent[x]
      BY <1>2, <2>3, BudgetFacts, TotalOne
    <3>4. CASE grant[x].state = "none"
      BY <2>1, <2>3, <3>1, <3>4 DEF SpentSound
    <3>5. CASE grant[x].state # "none"
      <4>1. spent[x] + grant[x].left <= grant[x].approved
        BY <3>1, <3>5 DEF SpentSound
      <4>. QED BY <1>1, <2>1, <2>3, <3>2, <3>3, <3>5, <4>1 DEF SpentSound
    <3>. QED BY <3>4, <3>5
  <2>. QED BY <1>1, <2>1, <2>2, <2>3
<1>. QED BY <1>1, <1>3 DEF BudgetInv

\* The owner's number of uses becomes the budget of a grant; the uses that a replacement
\* carries over are those its source has left.
LEMMA IssueBudget ==
    ASSUME IInv, BudgetInv, NEW r \in Requests, decision.at = "deciding", decision.r = r,
           decision'.at # "deciding", spent' = spent,
           \A x \in Requests :
              /\ req'[x].line = req[x].line /\ (req[x].state # "none" => req'[x].state # "none")
              /\ x # r => /\ grant'[x].left = grant[x].left /\ grant'[x].approved = grant[x].approved
                          /\ grant'[x].state = "none" <=> grant[x].state = "none",
           grant'[r].state = "active", grant'[r].left = decision.uses,
           grant'[r].approved = decision.uses,
           req[r].source # None => Unchanged(r)
    PROVE  BudgetInv'
<1>1. /\ grant[r].state = "none" /\ req[r].state \in {"pending", "expired"} /\ spent[r] = 0
      /\ decision.uses \in 0..MaxUses /\ decision.uses <= req[r].uses
  BY DEF IInv, TypeOK, ThreadTypes, GrantsInv, ThreadsSound, BudgetInv, SpentSound
<1>2. \A x \in Requests : r \in req[x].line => x = r \/ grant[x].state = "none"
  BY <1>1 DEF IInv, GrantsInv, LineSound
<1>3. ASSUME NEW x \in Requests PROVE LineClosed(x)'
  <2>1. LineClosed(x)
    BY DEF BudgetInv
  <2>. QED BY <2>1 DEF LineClosed
<1>4. ASSUME NEW x \in Requests PROVE \A s : Segment(x, s)' = Segment(x, s)
  <2>1. req[x].line \subseteq Requests
    BY DEF BudgetInv, LineClosed
  <2>. QED BY <2>1 DEF Segment
<1>5. ASSUME NEW x \in Requests \ {r} PROVE SpentSound(x)'
  <2>1. SpentSound(x) /\ req[x].line \subseteq Requests
    BY DEF BudgetInv, LineClosed
  <2>2. grant[x].state # "none" => \A s \in req[x].line : grant'[s].approved = grant[s].approved
    BY <1>2, <2>1
  <2>. QED BY <1>4, <2>1, <2>2 DEF SpentSound
<1>6. ASSUME NEW s \in req[r].line
      PROVE  Total(spent, Segment(r, s)) + decision.uses <= grant'[s].approved
  <2>1. r \in req[r].line /\ r \in Segment(r, r) /\ r \in Segment(r, s)
    BY DEF IInv, GrantsInv, LineSound, Segment
  <2>2. CASE s = r
    <3>1. \A g \in req[r].line : r \in req[g].line => g = r
      <4>1. ASSUME NEW g \in req[r].line, g # r PROVE r \notin req[g].line
        <5>1. req[r].source # None /\ req[r].source \in Requests /\ g \in req[req[r].source].line
              /\ req[r].source # r
          BY <4>1, GrantsAssumption DEF IInv, GrantsInv, LineSound, GrantsAssumption
        <5>2. req[g].line \subseteq req[req[r].source].line
          BY <5>1 DEF BudgetInv, LineClosed
        <5>3. grant[req[r].source].state # "none"
          BY <5>1 DEF Unchanged, Source, Usable
        <5>. QED BY <1>2, <5>1, <5>2, <5>3
      <4>. QED BY <4>1
    <3>2. Segment(r, r) = {r}
      BY <2>1, <3>1 DEF Segment
    <3>3. Total(spent, {r}) = 0
      BY <1>1, BudgetFacts, TotalOne
    <3>. QED BY <1>1, <2>2, <3>2, <3>3
  <2>3. CASE s # r
    <3>. DEFINE from == req[r].source
    <3>1. from # None /\ from \in Requests /\ s \in req[from].line /\ from # r
          /\ req[r].line = {r} \cup req[from].line
      BY <2>3, GrantsAssumption DEF IInv, GrantsInv, LineSound, GrantsAssumption
    <3>2. grant[from].state = "active" /\ grant[from].left = req[r].uses
      BY <3>1 DEF Unchanged, Source, Usable
    <3>3. Total(spent, Segment(from, s)) + grant[from].left <= grant[s].approved
      BY <3>1, <3>2 DEF BudgetInv, SpentSound
    <3>4. s \in Requests /\ r \notin req[from].line
      BY <1>2, <3>1, <3>2 DEF BudgetInv, LineClosed
    <3>5. /\ Segment(from, s) \in SUBSET Requests /\ IsFiniteSet(Segment(from, s))
          /\ r \in Requests \ Segment(from, s)
      BY <3>1, <3>4, BudgetFacts DEF Segment
    <3>6. Segment(r, s) = Segment(from, s) \cup {r}
      BY <2>1, <3>1 DEF Segment
    <3>7. Total(spent, Segment(from, s) \cup {r}) = spent[r] + Total(spent, Segment(from, s))
      BY <3>5, BudgetFacts, TotalAdd
    <3>8. Total(spent, Segment(from, s)) \in Nat
      BY <3>5, BudgetFacts, TotalTyped
    <3>9. grant'[s].approved = grant[s].approved /\ grant[s].approved \in Nat /\ req[r].uses \in Nat
      BY <2>3, <3>2, <3>1, <3>4, BudgetFacts
    <3>. HIDE DEF from
    <3>. QED BY <1>1, <3>2, <3>3, <3>6, <3>7, <3>8, <3>9
  <2>. QED BY <2>2, <2>3
<1>7. SpentSound(r)'
  <2>1. spent'[r] + grant'[r].left <= grant'[r].approved
    BY <1>1
  <2>2. req'[r].line = req[r].line
    OBVIOUS
  <2>. QED BY <1>4, <1>6, <2>1, <2>2 DEF SpentSound
<1>. QED BY <1>3, <1>5, <1>7 DEF BudgetInv

\* Both ways to publish, of a first grant and of a replacement.
LEMMA PublishBudget == ASSUME IInv, BudgetInv, Publish PROVE BudgetInv'
<1>. DEFINE r == decision.r
            s == req[r].source
            new == [state |-> "active", left |-> decision.uses, approved |-> decision.uses]
<1>1. /\ r \in Requests /\ decision.at = "deciding" /\ spent' = spent /\ decision'.at # "deciding"
      /\ req[r].state # "none"
  BY DEF Publish, After, IInv, GrantsInv, ThreadsSound
<1>2. \/ /\ req' = [req EXCEPT ![r].state = "approved"] /\ s = None
         /\ grant' = [grant EXCEPT ![r] = new]
      \/ /\ req' = [req EXCEPT ![r].state = "approved", ![s].state = "replaced"]
         /\ grant' = [[grant EXCEPT ![s].state = "replaced"] EXCEPT ![r] = new]
         /\ Unchanged(r)
      \/ req' = [req EXCEPT ![r].state = "replacement-blocked"] /\ UNCHANGED grant
      \/ UNCHANGED <<req, grant>>
  BY DEF Publish, Replace, Issue, Settle
<1>3. s # None => s \in Requests \ {r} /\ req[s].state # "none"
  BY <1>1, GrantsAssumption DEF IInv, GrantsInv, LineSound, GrantsAssumption
<1>4. /\ grant \in [Requests -> [state : {"none", "active", "expired", "revoked", "replaced"},
                                 left : 0..MaxUses, approved : 0..MaxUses]]
      /\ req \in [Requests -> Proposals]
  BY DEF IInv, TypeOK, RequestTypes
<1>5. new.state = "active" /\ new.left = decision.uses /\ new.approved = decision.uses
  OBVIOUS
<1>. HIDE DEF r, s, new
<1>6. CASE /\ req' = [req EXCEPT ![r].state = "approved"] /\ s = None
           /\ grant' = [grant EXCEPT ![r] = new]
  <2>1. /\ \A x \in Requests :
              /\ req'[x].line = req[x].line /\ (req[x].state # "none" => req'[x].state # "none")
              /\ x # r => grant'[x] = grant[x]
        /\ grant'[r] = new
    <3>1. "approved" \in States
      BY DEF States
    <3>2. \A x \in Requests :
             /\ req'[x].line = req[x].line
             /\ req'[x].state = IF x = r THEN "approved" ELSE req[x].state
      BY <1>1, <1>6, <3>1, Settled
    <3>. QED BY <1>1, <1>4, <1>6, <3>2
  <2>. QED BY <1>1, <1>5, <1>6, <2>1, IssueBudget DEF r, s
<1>7. CASE /\ req' = [req EXCEPT ![r].state = "approved", ![s].state = "replaced"]
           /\ grant' = [[grant EXCEPT ![s].state = "replaced"] EXCEPT ![r] = new]
           /\ Unchanged(r)
  <2>0. s \in Requests \ {r} /\ grant[s].state = "active"
    BY <1>3, <1>7, GrantsAssumption DEF Unchanged, Source, Usable, s, GrantsAssumption
  <2>1. \A x \in Requests :
           /\ req'[x].line = req[x].line
           /\ req'[x].state = IF x = r THEN "approved"
                              ELSE IF x = s THEN "replaced" ELSE req[x].state
    BY <1>1, <1>7, <2>0, Replaced, ZenonT(30)
  <2>2. /\ grant'[r] = new
        /\ \A x \in Requests \ {r} : /\ grant'[x].left = grant[x].left
                                     /\ grant'[x].approved = grant[x].approved
                                     /\ grant'[x].state = "none" <=> grant[x].state = "none"
    <3>1. grant'[r] = new /\ \A x \in Requests \ {r, s} : grant'[x] = grant[x]
      BY <1>1, <1>4, <1>7, <2>0
    <3>2. grant'[s].left = grant[s].left /\ grant'[s].approved = grant[s].approved
          /\ grant'[s].state = "replaced"
      BY <1>1, <1>4, <1>7, <2>0
    <3>. QED BY <2>0, <3>1, <3>2
  <2>3. \A x \in Requests :
           /\ req'[x].line = req[x].line /\ (req[x].state # "none" => req'[x].state # "none")
           /\ x # r => /\ grant'[x].left = grant[x].left /\ grant'[x].approved = grant[x].approved
                       /\ grant'[x].state = "none" <=> grant[x].state = "none"
    BY <2>1, <2>2
  <2>4. /\ r \in Requests /\ decision.at = "deciding" /\ decision.r = r
        /\ decision'.at # "deciding" /\ spent' = spent
        /\ grant'[r].state = "active" /\ grant'[r].left = decision.uses
        /\ grant'[r].approved = decision.uses /\ Unchanged(r)
    BY <1>1, <1>5, <1>7, <2>2 DEF r
  <2>. QED BY ONLY IInv, BudgetInv, <2>3, <2>4, IssueBudget
<1>8. CASE req' = [req EXCEPT ![r].state = "replacement-blocked"] /\ UNCHANGED grant
  <2>1. "replacement-blocked" \in States
    BY DEF States
  <2>2. \A x \in Requests :
           /\ req'[x].line = req[x].line
           /\ req'[x].state = IF x = r THEN "replacement-blocked" ELSE req[x].state
    BY <1>1, <1>8, <2>1, Settled
  <2>. QED BY <1>1, <1>8, <2>2, BudgetStays
<1>9. CASE UNCHANGED <<req, grant>>
  BY <1>1, <1>9, BudgetStill
<1>. QED BY <1>2, <1>6, <1>7, <1>8, <1>9

\* What else is done with a request or its grant leaves lines and budgets as they are.
LEMMA RequestBudget ==
    ASSUME IInv, BudgetInv, NEW r \in Requests,
           \/ Request(r) \/ Decide(r) \/ ReviewExpires(r) \/ GrantExpires(r)
           \/ Fence(r) \/ Revoke(r) \/ Cancel(r) \/ Cancelled
    PROVE  BudgetInv'
<1>0. /\ grant \in [Requests -> [state : {"none", "active", "expired", "revoked", "replaced"},
                                 left : 0..MaxUses, approved : 0..MaxUses]]
      /\ req \in [Requests -> Proposals]
  BY DEF IInv, TypeOK, RequestTypes
<1>1. CASE Request(r)
  <2>1. \A x \in Requests : req'[x].line = req[x].line /\ (req[x].state # "none" => req'[x].state # "none")
    <3>1. PICK n \in 1..MaxUses, t \in BOOLEAN :
             req' = [req EXCEPT ![r].state = "pending", ![r].uses = n, ![r].timed = t]
      BY <1>1 DEF Request
    <3>. DEFINE it == [req[r] EXCEPT !.state = "pending", !.uses = n, !.timed = t]
    <3>2. req' = [req EXCEPT ![r] = it]
      BY ONLY <1>0, <3>1
    <3>3. it.line = req[r].line /\ it.state = "pending"
      BY ONLY <1>0 DEF Proposals
    <3>. HIDE DEF it
    <3>4. \A x \in Requests : req'[x] = IF x = r THEN it ELSE req[x]
      BY ONLY <1>0, <3>2
    <3>. QED BY <3>3, <3>4
  <2>2. UNCHANGED <<grant, spent, decision>> /\ decision.at # "deciding"
    BY <1>1 DEF Request, Free
  <2>. QED BY <2>1, <2>2, BudgetStays
<1>2. CASE Decide(r)
  <2>1. CASE UNCHANGED req
    <3>1. decision'.at = "deciding" => decision'.uses <= req'[decision'.r].uses
      BY <1>0, <1>2, <2>1 DEF Decide, After, Settle, Proposals
    <3>. QED BY <1>2, <2>1, <3>1, BudgetStays DEF Decide
  <2>2. ASSUME NEW state \in {"rejected", "replacement-blocked"}, Settle(r, state), After(r)
        PROVE  BudgetInv'
    <3>1. state \in States /\ state # "none"
      BY DEF States
    <3>2. \A x \in Requests : /\ req'[x].line = req[x].line
                              /\ req'[x].state = IF x = r THEN state ELSE req[x].state
      BY <2>2, <3>1, Settled DEF Settle
    <3>. QED BY <1>2, <2>2, <3>1, <3>2, BudgetStays DEF Decide, After
  <2>. QED BY <1>2, <2>1, <2>2 DEF Decide
<1>3. CASE ReviewExpires(r)
  <2>1. \A x \in Requests : /\ req'[x].line = req[x].line /\ req'[x].uses = req[x].uses
                            /\ req'[x].state = IF x = r THEN "expired" ELSE req[x].state
    BY <1>0, <1>3 DEF ReviewExpires, Settle, Proposals
  <2>2. UNCHANGED <<grant, spent, decision>>
    BY <1>3 DEF ReviewExpires
  <2>3. decision'.at = "deciding" => decision'.uses <= req'[decision'.r].uses
    BY <2>1, <2>2 DEF IInv, GrantsInv, ThreadsSound, BudgetInv
  <2>. QED BY <2>1, <2>2, <2>3, BudgetStays
<1>4. CASE GrantExpires(r) \/ Revoke(r)
  <2>1. UNCHANGED <<req, spent, decision>>
    BY <1>4 DEF GrantExpires, Revoke
  <2>2. \A x \in Requests : /\ grant'[x].left = grant[x].left /\ grant'[x].approved = grant[x].approved
                            /\ grant'[x].state = "none" <=> grant[x].state = "none"
    BY <1>0, <1>4 DEF GrantExpires, Revoke
  <2>3. decision'.at = "deciding" => decision'.uses <= req'[decision'.r].uses
    BY <2>1 DEF BudgetInv
  <2>. QED BY <2>1, <2>2, <2>3, BudgetStays
<1>5. CASE Fence(r) \/ Cancel(r)
  <2>1. \A x \in Requests : /\ req'[x].line = req[x].line /\ req'[x].uses = req[x].uses
                            /\ req'[x].state = req[x].state
    BY <1>0, <1>5 DEF Fence, Cancel, Proposals
  <2>2. UNCHANGED <<grant, spent, decision>>
    BY <1>5 DEF Fence, Cancel
  <2>3. decision'.at = "deciding" => decision'.uses <= req'[decision'.r].uses
    BY <2>1, <2>2 DEF IInv, GrantsInv, ThreadsSound, BudgetInv
  <2>. QED BY <2>1, <2>2, <2>3, BudgetStays
<1>6. CASE Cancelled
  <2>1. UNCHANGED <<grant, spent, decision>> /\ decision.at # "deciding"
    BY <1>6 DEF Cancelled, Free
  <2>2. CASE UNCHANGED req
    BY <2>1, <2>2, BudgetStill
  <2>3. CASE Settle(call.r, "cancelled") /\ req[call.r].state = "pending"
    <3>1. call.r \in Requests
      BY <1>6 DEF Cancelled, IInv, GrantsInv, ThreadsSound
    <3>2. \A x \in Requests : /\ req'[x].line = req[x].line
                              /\ req'[x].state = IF x = call.r THEN "cancelled" ELSE req[x].state
      BY <1>0, <2>3, <3>1 DEF Settle, Proposals
    <3>. QED BY <2>1, <3>2, BudgetStays
  <2>. QED BY <1>6, <2>2, <2>3 DEF Cancelled
<1>. QED BY <1>1, <1>2, <1>3, <1>4, <1>5, <1>6

\* Every step keeps the budgets.
LEMMA BudgetStep == ASSUME IInv, BudgetInv, [Next]_vars PROVE BudgetInv'
<1>. USE BudgetStill DEF asked, acted
<1>1. CASE UNCHANGED vars
  BY <1>1 DEF vars
<1>2. CASE \E r \in Requests :
              \/ Request(r) \/ Decide(r) \/ ReviewExpires(r) \/ GrantExpires(r)
              \/ Fence(r) \/ Revoke(r) \/ Cancel(r) \/ Cancelled
  BY ONLY <1>2, IInv, BudgetInv, RequestBudget
<1>3. CASE Cancelled
  <2>1. CASE Requests = {}
    <3>1. FALSE
      BY <1>3, <2>1 DEF Cancelled, IInv, GrantsInv, ThreadsSound
    <3>. QED BY <3>1
  <2>2. CASE Requests # {}
    BY ONLY <1>3, <2>2, IInv, BudgetInv, RequestBudget
  <2>. QED BY <2>1, <2>2
<1>4. CASE Propose \/ Publish \/ Authenticate
  BY ONLY <1>4, IInv, BudgetInv, ProposeBudget, PublishBudget, AuthenticateBudget
<1>5. CASE \E r \in Requests : CheckStartup(r)
  BY <1>5, TakeBudget DEF CheckStartup
<1>6. CASE CheckWrite
  <2>1. call.r \in Requests
    BY <1>6 DEF CheckWrite, IInv, ActionsInv, CallSound, Within
  <2>. QED BY <1>6, <2>1, TakeBudget DEF CheckWrite
<1>7. CASE \E r \in Requests :
              \/ Hold(r) \/ WindowRevokes(r) \/ SyncWindow(r) \/ ReleaseWindow(r) \/ CheckExecuting(r)
  BY <1>7 DEF Hold, WindowRevokes, SyncWindow, ReleaseWindow, CheckExecuting
<1>8. CASE SyncCall \/ Status \/ SyncDecision \/ ReleaseDecision \/ Answer \/ Send
  <2>1. CASE SyncCall \/ Status \/ Answer \/ Send
    BY <2>1 DEF SyncCall, Status, Answer, Send
  <2>2. CASE SyncDecision \/ ReleaseDecision
    <3>1. UNCHANGED <<req, grant, spent>>
      BY <2>2 DEF SyncDecision, ReleaseDecision
    <3>2. PICK at \in {"release", "idle"} : decision' = [decision EXCEPT !.at = at]
      BY <2>2 DEF SyncDecision, ReleaseDecision
    <3>3. decision'.at # "deciding"
      BY <3>2 DEF IInv, TypeOK, ThreadTypes
    <3>. QED BY <3>1, <3>3
  <2>. QED BY <1>8, <2>1, <2>2
<1>9. CASE \E a \in Attempts :
              \/ \E r \in Requests : Execute(r, a)
              \/ ExecuteConfirmed(a) \/ Confirm(a) \/ Deny(a) \/ TicketExpires(a) \/ RevokeAction(a)
              \/ CheckAction(a) \/ FinishAction(a) \/ Forward(a) \/ Reconcile(a)
  BY <1>9 DEF Execute, ExecuteConfirmed, Confirm, Deny, TicketExpires, RevokeAction, CheckAction,
              FinishAction, Forward, Reconcile
<1>10. CASE \/ Enter \/ Start \/ WorkerEnds \/ WorkerLost \/ FinishCall \/ ReleaseOutput \/ Failed
            \/ SessionFenced \/ CloseChannel
  BY <1>10 DEF Enter, Start, WorkerEnds, WorkerLost, FinishCall, ReleaseOutput, Failed, SessionFenced,
               CloseChannel
<1>. QED
  BY ONLY <1>1, <1>2, <1>3, <1>4, <1>5, <1>6, <1>7, <1>8, <1>9, <1>10, [Next]_vars DEF Next, Step

\* They hold before anything was proposed.
LEMMA BudgetStarts == Init => BudgetInv
<1>. SUFFICES ASSUME Init PROVE BudgetInv
  OBVIOUS
<1>1. ASSUME NEW x \in Requests PROVE LineClosed(x) /\ SpentSound(x)
  <2>1. req[x].line = {x} /\ grant[x].state = "none" /\ spent[x] = 0
    BY DEF Init, Blank, NoGrant
  <2>. QED BY <2>1, FS_Singleton DEF LineClosed, SpentSound
<1>. QED BY <1>1 DEF Init, BudgetInv

\* A line of grants never gives out more than was approved for any of them: the budget of
\* a replacement is what its source has left.
THEOREM BudgetSafety == Spec => []BudgetInv
<1>1. BudgetInv /\ IInv /\ [Next]_vars => BudgetInv'
  BY BudgetStep
<1>. QED BY <1>1, BudgetStarts, GrantsSafety, PTL DEF Spec

\* Broker.authorize() and _accept_replacement(): what was taken under a grant and its
\* replacements, with what may still be taken, is within what the owner approved.
THEOREM BudgetIsKept == Spec => []BudgetKept
<1>1. ASSUME IInv, BudgetInv PROVE BudgetKept
  <2>. SUFFICES ASSUME NEW r \in Requests, grant[r].state # "none", NEW s \in req[r].line
                PROVE  Total(spent, Segment(r, s)) + (IF Usable(r) THEN grant[r].left ELSE 0)
                          <= grant[s].approved
    BY Zenon DEF BudgetKept, Taken, Total, Segment
  <2>1. s \in Requests
    BY <1>1 DEF BudgetInv, LineClosed
  <2>2. Total(spent, Segment(r, s)) + grant[r].left <= grant[s].approved
    BY <1>1 DEF BudgetInv, SpentSound
  <2>3. Total(spent, Segment(r, s)) \in Nat
    BY <1>1, <2>1, BudgetFacts, TotalTyped
  <2>4. grant[r].left \in Nat /\ grant[s].approved \in Nat
    BY <1>1, <2>1, BudgetFacts
  <2>. QED BY <2>2, <2>3, <2>4
<1>. QED BY <1>1, BudgetSafety, GrantsSafety, PTL
================================================================================
