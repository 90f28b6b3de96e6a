--------------------------- MODULE RemoteXProofs ---------------------------
(***************************************************************************)
(* Proofs about the queue of RemoteX, its leases, and the tasks that it runs *)
(* over SSH: for any number of requesters, hosts, services and processes,   *)
(* and for any number of clients of a task.                                 *)
(*                                                                         *)
(* A line of waiters changes in only three ways (somebody joins at the end, *)
(* somebody leaves, an undone claim goes back to the front); the first      *)
(* lemmas say what each does to a line without duplicates.                  *)
(***************************************************************************)
EXTENDS LeasedQueue, TaskRunner, SequenceTheorems, TLAPS

(***************************************************************************)
(* The FIFO queue (VmQueue)                                                 *)
(***************************************************************************)

\* What RemoveAt of SequencesExt returns.
LEMMA RemoveAtFacts ==
    ASSUME NEW S, NEW s \in Seq(S), NEW k \in 1..Len(s)
    PROVE  /\ RemoveAt(s, k) \in Seq(S)
           /\ Len(RemoveAt(s, k)) = Len(s) - 1
           /\ \A i \in 1..(Len(s) - 1) :
                 RemoveAt(s, k)[i] = IF i < k THEN s[i] ELSE s[i + 1]
<1> DEFINE a == SubSeq(s, 1, k - 1)
           b == SubSeq(s, k + 1, Len(s))
<1>1. Len(s) \in Nat /\ k \in Nat
  BY LenProperties
<1>2. a \in Seq(S) /\ Len(a) = k - 1 /\ \A i \in 1..(k - 1) : a[i] = s[i]
  BY <1>1, SubSeqProperties
<1>3. b \in Seq(S) /\ Len(b) = Len(s) - k /\ \A i \in 1..(Len(s) - k) : b[i] = s[k + i]
  BY <1>1, SubSeqProperties
<1>4. RemoveAt(s, k) = a \o b
  BY DEF RemoveAt
<1> HIDE DEF a, b
<1>5. /\ a \o b \in Seq(S)
      /\ Len(a \o b) = Len(a) + Len(b)
      /\ \A i \in 1..(Len(a) + Len(b)) :
            (a \o b)[i] = IF i <= Len(a) THEN a[i] ELSE b[i - Len(a)]
  BY <1>2, <1>3, ConcatProperties
<1>6. QED
  BY <1>1, <1>2, <1>3, <1>4, <1>5

\* In a line without duplicates RemoveFirst removes the place of its argument.
LEMMA RemoveFirstIsRemoveAt ==
    ASSUME NEW S, NEW s \in Seq(S), Distinct(s), NEW k \in 1..Len(s)
    PROVE  RemoveFirst(s, s[k]) = RemoveAt(s, k)
<1> DEFINE I == { i \in 1..Len(s) : s[i] = s[k] }
<1>1. I = {k}
  BY LenProperties DEF Distinct
<1>2. Min(I) = k
  BY <1>1, LenProperties DEF Min
<1>3. SelectInSeq(s, LAMBDA v : v = s[k]) = k
  BY <1>1, <1>2 DEF SelectInSeq
<1>4. QED
  BY <1>3 DEF RemoveFirst

\* Somebody leaves a line: the others stay, in the same order.
LEMMA RemoveLine ==
    ASSUME NEW S, NEW s \in Seq(S), Distinct(s), NEW q
    PROVE  /\ RemoveFirst(s, q) \in Seq(S)
           /\ Distinct(RemoveFirst(s, q))
           /\ ToSet(RemoveFirst(s, q)) = ToSet(s) \ {q}
           /\ \A a, b : Before(RemoveFirst(s, q), a, b) => Before(s, a, b)
<1> DEFINE t == RemoveFirst(s, q)
<1>1. CASE q \notin ToSet(s)
  <2>1. t = s
    BY <1>1, LenProperties DEF RemoveFirst, ToSet
  <2>2. QED
    BY <1>1, <2>1
<1>2. CASE q \in ToSet(s)
  <2>1. PICK k \in 1..Len(s) : s[k] = q
    BY <1>2, LenProperties DEF ToSet
  <2>2. t = RemoveAt(s, k)
    BY <2>1, RemoveFirstIsRemoveAt
  <2> HIDE DEF t
  <2>3. /\ t \in Seq(S)
        /\ Len(t) = Len(s) - 1
        /\ \A i \in 1..(Len(s) - 1) : t[i] = IF i < k THEN s[i] ELSE s[i + 1]
    BY <2>2, RemoveAtFacts
  <2>4. DOMAIN s = 1..Len(s) /\ DOMAIN t = 1..Len(t) /\ Len(s) \in Nat
    BY <2>3, LenProperties
  <2>5. Distinct(t)
    <3> SUFFICES ASSUME NEW i \in DOMAIN t, NEW j \in DOMAIN t, t[i] = t[j]
                 PROVE  i = j
      BY DEF Distinct
    <3> DEFINE up(n) == IF n < k THEN n ELSE n + 1
    <3>1. up(i) \in DOMAIN s /\ up(j) \in DOMAIN s /\ s[up(i)] = s[up(j)]
      BY <2>3, <2>4
    <3>2. up(i) = up(j)
      BY <3>1 DEF Distinct
    <3>3. QED
      BY <3>2, <2>3, <2>4
  <2>6. ToSet(t) = ToSet(s) \ {q}
    <3>1. ASSUME NEW x \in ToSet(t) PROVE x \in ToSet(s) \ {q}
      <4>1. PICK i \in 1..Len(t) : t[i] = x
        BY <2>4 DEF ToSet
      <4> DEFINE up == IF i < k THEN i ELSE i + 1
      <4>2. up \in DOMAIN s /\ s[up] = x /\ up # k /\ k \in DOMAIN s
        BY <4>1, <2>3, <2>4
      <4>3. x # q
        BY <4>2, <2>1 DEF Distinct
      <4>4. QED
        BY <4>2, <4>3 DEF ToSet
    <3>2. ASSUME NEW x \in ToSet(s) \ {q} PROVE x \in ToSet(t)
      <4>1. PICK i \in 1..Len(s) : s[i] = x
        BY <2>4 DEF ToSet
      <4>2. CASE i < k
        BY <4>1, <4>2, <2>3, <2>4 DEF ToSet
      <4>3. CASE i > k
        <5>1. i - 1 \in 1..(Len(s) - 1) /\ t[i - 1] = s[i]
          BY <4>3, <2>3, <2>4
        <5>2. QED
          BY <4>1, <5>1, <2>3, <2>4 DEF ToSet
      <4>4. i # k
        BY <4>1, <2>1
      <4>5. QED
        BY <4>2, <4>3, <4>4, <2>4
    <3>3. QED
      BY <3>1, <3>2
  <2>7. ASSUME NEW a, NEW b, Before(t, a, b) PROVE Before(s, a, b)
    <3>1. PICK i \in DOMAIN t, j \in DOMAIN t : i < j /\ t[i] = a /\ t[j] = b
      BY <2>7 DEF Before
    <3> DEFINE up(n) == IF n < k THEN n ELSE n + 1
    <3>2. up(i) \in DOMAIN s /\ up(j) \in DOMAIN s /\ up(i) < up(j)
      BY <3>1, <2>3, <2>4
    <3>3. s[up(i)] = a /\ s[up(j)] = b
      BY <3>1, <2>3, <2>4
    <3>4. QED
      BY <3>2, <3>3 DEF Before
  <2>8. QED
    BY <2>3, <2>5, <2>6, <2>7 DEF t
<1>3. QED
  BY <1>1, <1>2

\* Somebody new joins at the end.
LEMMA AppendLine ==
    ASSUME NEW S, NEW s \in Seq(S), Distinct(s), NEW q \in S, q \notin ToSet(s)
    PROVE  /\ Append(s, q) \in Seq(S)
           /\ Distinct(Append(s, q))
           /\ ToSet(Append(s, q)) = ToSet(s) \cup {q}
           /\ \A a, b : Before(Append(s, q), a, b) => Before(s, a, b) \/ b = q
<1> DEFINE t == Append(s, q)
<1>1. /\ t \in Seq(S)
      /\ Len(t) = Len(s) + 1
      /\ \A i \in 1..Len(s) : t[i] = s[i]
      /\ t[Len(s) + 1] = q
  BY AppendProperties
<1> HIDE DEF t
<1>2. DOMAIN s = 1..Len(s) /\ DOMAIN t = 1..Len(t) /\ Len(s) \in Nat
  BY <1>1, LenProperties
<1>3. Distinct(t)
  BY <1>1, <1>2 DEF Distinct, ToSet
<1>4. ToSet(t) = ToSet(s) \cup {q}
  BY <1>1, <1>2 DEF ToSet
<1>5. \A a, b : Before(t, a, b) => Before(s, a, b) \/ b = q
  BY <1>1, <1>2 DEF Before
<1>6. QED
  BY <1>1, <1>3, <1>4, <1>5 DEF t

\* An undone claim goes back to the front.
LEMMA FrontLine ==
    ASSUME NEW S, NEW s \in Seq(S), Distinct(s), NEW q \in S, q \notin ToSet(s)
    PROVE  /\ <<q>> \o s \in Seq(S)
           /\ Distinct(<<q>> \o s)
           /\ ToSet(<<q>> \o s) = ToSet(s) \cup {q}
           /\ \A a, b : Before(<<q>> \o s, a, b) => Before(s, a, b) \/ a = q
<1> DEFINE t == <<q>> \o s
<1>1. /\ t \in Seq(S)
      /\ Len(t) = Len(s) + 1
      /\ t[1] = q
      /\ \A i \in 2..(Len(s) + 1) : t[i] = s[i - 1]
  <2>1. <<q>> \in Seq(S) /\ Len(<<q>>) = 1 /\ <<q>>[1] = q
    OBVIOUS
  <2>2. QED
    BY <2>1, ConcatProperties, LenProperties
<1> HIDE DEF t
<1>2. DOMAIN s = 1..Len(s) /\ DOMAIN t = 1..Len(t) /\ Len(s) \in Nat
  BY <1>1, LenProperties
<1>3. Distinct(t)
  <2> SUFFICES ASSUME NEW i \in DOMAIN t, NEW j \in DOMAIN t, t[i] = t[j]
               PROVE  i = j
    BY DEF Distinct
  <2>1. \A n \in DOMAIN t : n # 1 => n - 1 \in DOMAIN s /\ t[n] = s[n - 1] /\ t[n] # q
    BY <1>1, <1>2 DEF ToSet
  <2>2. CASE i # 1 /\ j # 1
    <3>1. i - 1 = j - 1
      BY <2>1, <2>2 DEF Distinct
    <3>2. QED
      BY <3>1, <1>2
  <2>3. CASE i = 1 \/ j = 1
    BY <2>1, <2>3, <1>1
  <2>4. QED
    BY <2>2, <2>3
<1>4. ToSet(t) = ToSet(s) \cup {q}
  <2>1. ASSUME NEW x \in ToSet(s) PROVE x \in ToSet(t)
    <3>1. PICK i \in 1..Len(s) : s[i] = x
      BY <1>2 DEF ToSet
    <3>2. i + 1 \in DOMAIN t /\ t[i + 1] = x
      BY <3>1, <1>1, <1>2
    <3>3. QED
      BY <3>2 DEF ToSet
  <2>2. q \in ToSet(t)
    BY <1>1, <1>2 DEF ToSet
  <2>3. ToSet(t) \subseteq ToSet(s) \cup {q}
    BY <1>1, <1>2 DEF ToSet
  <2>4. QED
    BY <2>1, <2>2, <2>3
<1>5. ASSUME NEW a, NEW b, Before(t, a, b), a # q PROVE Before(s, a, b)
  <2>1. PICK i \in DOMAIN t, j \in DOMAIN t : i < j /\ t[i] = a /\ t[j] = b
    BY <1>5 DEF Before
  <2>2. i - 1 \in DOMAIN s /\ j - 1 \in DOMAIN s /\ s[i - 1] = a /\ s[j - 1] = b
    BY <2>1, <1>1, <1>2, <1>5
  <2>3. QED
    BY <2>1, <2>2, <1>2 DEF Before
<1>6. QED
  BY <1>1, <1>3, <1>4, <1>5 DEF t

\* In a line without duplicates the order is strict, and whoever has somebody
\* ahead is not the first.
LEMMA BeforeFacts ==
    ASSUME NEW S, NEW s \in Seq(S), Distinct(s), NEW a, NEW b, Before(s, a, b)
    PROVE  a \in S /\ b \in S /\ b \in ToSet(s) /\ ~ Before(s, b, a) /\ s # <<>> /\ b # Head(s)
<1>1. DOMAIN s = 1..Len(s) /\ Len(s) \in Nat /\ \A i \in DOMAIN s : s[i] \in S
  BY LenProperties, ElementOfSeq
<1>2. PICK i \in DOMAIN s, j \in DOMAIN s : i < j /\ s[i] = a /\ s[j] = b
  BY DEF Before
<1>3. ~ Before(s, b, a)
  BY <1>1, <1>2 DEF Before, Distinct
<1>4. s # <<>> /\ 1 \in DOMAIN s /\ Head(s) = s[1]
  BY <1>1, <1>2
<1>5. b # Head(s)
  BY <1>1, <1>2, <1>4 DEF Distinct
<1>6. QED
  BY <1>1, <1>2, <1>3, <1>4, <1>5 DEF ToSet

-----------------------------------------------------------------------------
(* What a queue operation does to the resource it names: o becomes its owner *)
(* and l its line, and nothing else changes.                                 *)
Update(r, o, l) ==
    /\ o \in Requesters \cup {None}
    /\ l \in Seq(Requesters)
    /\ owner' = [owner EXCEPT ![r] = o]
    /\ waiters' = [waiters EXCEPT ![r] = l]
    /\ Distinct(l)
    /\ o \notin ToSet(l)
    /\ \/ o \in {owner[r], None}
       \/ owner[r] = None /\ ScopeBlockers(r, TRUE) = {}
    /\ \A a, b : Before(waiters[r], a, b) =>
          ~ Before(l, b, a) /\ (a \in ToSet(l) => o # b)

\* Ownership ends, or nothing happens: the line stays.
LEMMA SameLine ==
    ASSUME QueueTypeOK, StateLoadable, NEW r \in Resources,
           NEW o \in {owner[r], None},
           owner' = [owner EXCEPT ![r] = o], UNCHANGED waiters
    PROVE  Update(r, o, waiters[r])
<1>1. waiters[r] \in Seq(Requesters) /\ o \in Requesters \cup {None}
  BY DEF QueueTypeOK
<1>2. Distinct(waiters[r]) /\ owner[r] \notin ToSet(waiters[r])
  BY DEF StateLoadable, WaitersDistinct, OwnerNotWaiting, Queued
<1>3. None \notin ToSet(waiters[r])
  BY <1>1, LenProperties, ElementOfSeq, QueueAssumption DEF ToSet
<1>4. waiters' = [waiters EXCEPT ![r] = waiters[r]]
  BY DEF QueueTypeOK
<1>5. ASSUME NEW a, NEW b, Before(waiters[r], a, b)
      PROVE  ~ Before(waiters[r], b, a) /\ o # b
  BY <1>1, <1>2, <1>3, <1>5, BeforeFacts
<1>6. QED
  BY <1>1, <1>2, <1>3, <1>4, <1>5 DEF Update

\* Somebody leaves the line, to own the resource or for good.
LEMMA LeaveLine ==
    ASSUME QueueTypeOK, StateLoadable, NEW r \in Resources,
           NEW q \in Requesters, NEW o \in Requesters \cup {None},
           owner' = [owner EXCEPT ![r] = o],
           waiters' = WaitersWithout(r, q),
           \/ o \in {owner[r], None}
           \/ o = q /\ MayTake(r, q)
    PROVE  Update(r, o, RemoveFirst(waiters[r], q))
<1> DEFINE s == waiters[r]
           l == RemoveFirst(s, q)
<1>1. s \in Seq(Requesters)
  BY DEF QueueTypeOK
<1>2. Distinct(s) /\ owner[r] \notin ToSet(s)
  BY DEF StateLoadable, WaitersDistinct, OwnerNotWaiting, Queued
<1>3. None \notin ToSet(s)
  BY <1>1, LenProperties, ElementOfSeq, QueueAssumption DEF ToSet
<1>4. /\ l \in Seq(Requesters)
      /\ Distinct(l)
      /\ ToSet(l) = ToSet(s) \ {q}
      /\ \A a, b : Before(l, a, b) => Before(s, a, b)
  BY <1>1, <1>2, RemoveLine
<1>5. waiters' = [waiters EXCEPT ![r] = l]
  BY DEF WaitersWithout
<1> HIDE DEF l
<1>6. ASSUME NEW a, NEW b, Before(s, a, b)
      PROVE  ~ Before(l, b, a) /\ (a \in ToSet(l) => o # b)
  <2>1. b \in ToSet(s) /\ ~ Before(s, b, a) /\ s # <<>> /\ b # Head(s)
    BY <1>1, <1>2, <1>6, BeforeFacts
  <2>2. o # b
    BY <2>1, <1>2, <1>3 DEF MayTake
  <2>3. QED
    BY <2>1, <2>2, <1>4
<1>7. o \notin ToSet(l)
  BY <1>2, <1>3, <1>4
<1>8. \/ o \in {owner[r], None}
      \/ owner[r] = None /\ ScopeBlockers(r, TRUE) = {}
  BY DEF MayTake
<1>9. QED
  BY <1>4, <1>5, <1>6, <1>7, <1>8 DEF Update, l

\* Somebody joins the line.
LEMMA JoinLine ==
    ASSUME QueueTypeOK, StateLoadable, NEW r \in Resources,
           NEW q \in Requesters, owner[r] # q, Join(r, q)
    PROVE  \E o, l : Update(r, o, l)
<1>1. owner' = [owner EXCEPT ![r] = owner[r]]
  BY DEF Join, QueueTypeOK
<1>2. CASE q \in Queued(r)
  <2>1. Update(r, owner[r], waiters[r])
    BY <1>1, <1>2, SameLine DEF Join
  <2>2. QED
    BY <2>1
<1>3. CASE q \notin Queued(r)
  <2> DEFINE s == waiters[r]
             l == Append(s, q)
  <2>1. s \in Seq(Requesters) /\ owner[r] \in Requesters \cup {None}
    BY DEF QueueTypeOK
  <2>2. Distinct(s) /\ owner[r] \notin ToSet(s) /\ q \notin ToSet(s)
    BY <1>3 DEF StateLoadable, WaitersDistinct, OwnerNotWaiting, Queued
  <2>3. /\ l \in Seq(Requesters)
        /\ Distinct(l)
        /\ ToSet(l) = ToSet(s) \cup {q}
        /\ \A a, b : Before(l, a, b) => Before(s, a, b) \/ b = q
    BY <2>1, <2>2, AppendLine
  <2>4. waiters' = [waiters EXCEPT ![r] = l]
    BY <1>3 DEF Join
  <2> HIDE DEF l
  <2>5. ASSUME NEW a, NEW b, Before(s, a, b)
        PROVE  ~ Before(l, b, a) /\ owner[r] # b
    <3>1. a \in ToSet(s) /\ b \in ToSet(s) /\ ~ Before(s, b, a)
      BY <2>1, <2>2, <2>5, BeforeFacts DEF Before, ToSet
    <3>2. QED
      BY <3>1, <2>2, <2>3
  <2>6. Update(r, owner[r], l)
    BY <1>1, <2>1, <2>2, <2>3, <2>4, <2>5 DEF Update
  <2>7. QED
    BY <2>6
<1>4. QED
  BY <1>2, <1>3

\* Every queue operation is such an update of the resource it names.
LEMMA StepIsUpdate ==
    ASSUME QueueTypeOK, StateLoadable, NEW r \in Resources,
           NEW q \in Requesters, QueueStep(r, q)
    PROVE  \E o, l : Update(r, o, l)
<1>1. owner[r] \in Requesters \cup {None} /\ waiters[r] \in Seq(Requesters)
  BY DEF QueueTypeOK
<1>2. ASSUME UNCHANGED queueVars PROVE \E o, l : Update(r, o, l)
  <2>1. owner' = [owner EXCEPT ![r] = owner[r]]
    BY <1>2 DEF queueVars, QueueTypeOK
  <2>2. Update(r, owner[r], waiters[r])
    BY <1>2, <2>1, SameLine DEF queueVars
  <2>3. QED
    BY <2>2
<1>3. CASE Request(r, q)
  BY <1>2, <1>3, JoinLine DEF Request
<1>4. CASE Claim(r, q)
  <2>1. CASE MayTake(r, q)
    <3>1. Update(r, q, RemoveFirst(waiters[r], q))
      BY <1>4, <2>1, LeaveLine DEF Claim
    <3>2. QED
      BY <3>1
  <2>2. CASE ~ MayTake(r, q)
    BY <1>2, <1>4, <2>2, JoinLine DEF Claim
  <2>3. QED
    BY <2>1, <2>2
<1>5. CASE Release(r, q)
  <2>1. CASE owner[r] = q
    <3>1. Update(r, None, RemoveFirst(waiters[r], q))
      BY <1>5, <2>1, LeaveLine DEF Release
    <3>2. QED
      BY <3>1
  <2>2. CASE owner[r] # q
    BY <1>2, <1>5, <2>2 DEF Release
  <2>3. QED
    BY <2>1, <2>2
<1>6. CASE Cancel(r, q)
  <2>1. owner' = [owner EXCEPT ![r] = owner[r]]
    BY <1>6 DEF Cancel, QueueTypeOK
  <2>2. Update(r, owner[r], RemoveFirst(waiters[r], q))
    BY <1>1, <1>6, <2>1, LeaveLine DEF Cancel
  <2>3. QED
    BY <2>2
<1>7. CASE Vacate(r, q)
  <2>1. CASE owner[r] = q
    <3>1. Update(r, None, waiters[r])
      BY <1>7, <2>1, SameLine DEF Vacate
    <3>2. QED
      BY <3>1
  <2>2. CASE owner[r] # q
    BY <1>2, <1>7, <2>2 DEF Vacate, queueVars
  <2>3. QED
    BY <2>1, <2>2
<1>8. CASE Requeue(r, q)
  <2>1. CASE owner[r] = q
    <3> DEFINE s == waiters[r]
               l == <<q>> \o s
    <3>1. Distinct(s) /\ q \notin ToSet(s)
      BY <2>1 DEF StateLoadable, WaitersDistinct, OwnerNotWaiting, Queued
    <3>2. /\ l \in Seq(Requesters)
          /\ Distinct(l)
          /\ ToSet(l) = ToSet(s) \cup {q}
          /\ \A a, b : Before(l, a, b) => Before(s, a, b) \/ a = q
      BY <1>1, <3>1, FrontLine
    <3>3. owner' = [owner EXCEPT ![r] = None] /\ waiters' = [waiters EXCEPT ![r] = l]
      BY <1>8, <2>1 DEF Requeue
    <3> HIDE DEF l
    <3>4. None \notin ToSet(s) /\ None # q
      BY <1>1, LenProperties, ElementOfSeq, QueueAssumption DEF ToSet
    <3>5. ASSUME NEW a, NEW b, Before(s, a, b)
          PROVE  ~ Before(l, b, a) /\ None # b
      <4>1. b \in ToSet(s) /\ ~ Before(s, b, a)
        BY <1>1, <3>1, <3>5, BeforeFacts
      <4>2. QED
        BY <4>1, <3>1, <3>2, <3>4
    <3>6. Update(r, None, l)
      BY <3>2, <3>3, <3>4, <3>5 DEF Update
    <3>7. QED
      BY <3>6
  <2>2. CASE owner[r] # q
    BY <1>2, <1>8, <2>2 DEF Requeue
  <2>3. QED
    BY <2>1, <2>2
<1>9. QED
  BY <1>3, <1>4, <1>5, <1>6, <1>7, <1>8 DEF QueueStep

\* An update keeps the file loadable.
LEMMA UpdateKeepsLoadable ==
    ASSUME QueueTypeOK, StateLoadable, NEW r \in Resources, NEW o, NEW l, Update(r, o, l)
    PROVE  QueueTypeOK' /\ StateLoadable'
<1>1. QueueTypeOK'
  BY DEF QueueTypeOK, Update
<1>2. \A x \in Resources : /\ owner'[x] = IF x = r THEN o ELSE owner[x]
                           /\ waiters'[x] = IF x = r THEN l ELSE waiters[x]
  BY DEF QueueTypeOK, Update
<1>3. WaitersDistinct'
  BY <1>2 DEF StateLoadable, WaitersDistinct, Update
<1>4. OwnerNotWaiting'
  BY <1>2 DEF StateLoadable, OwnerNotWaiting, Queued, Update
<1>5. ScopesExclusive'
  <2> SUFFICES ASSUME NEW s \in Services
               PROVE  owner'[s] = None \/ owner'[Parent[s]] = None
    BY DEF ScopesExclusive
  <2>1. /\ s \in Resources /\ Parent[s] \in Resources /\ Parent[s] \notin Services
        /\ owner[s] = None \/ owner[Parent[s]] = None
    BY QueueAssumption DEF Resources, StateLoadable, ScopesExclusive
  <2>2. CASE o \in {owner[r], None}
    BY <1>2, <2>1, <2>2
  <2>3. CASE ScopeBlockers(r, TRUE) = {}
    <3>1. CASE r = s
      BY <1>2, <2>1, <2>3, <3>1 DEF ScopeBlockers
    <3>2. CASE r = Parent[s]
      BY <1>2, <2>1, <2>3, <3>2 DEF ScopeBlockers
    <3>3. CASE r # s /\ r # Parent[s]
      BY <1>2, <2>1, <3>3
    <3>4. QED
      BY <3>1, <3>2, <3>3
  <2>4. QED
    BY <2>2, <2>3 DEF Update
<1>6. QED
  BY <1>1, <1>3, <1>4, <1>5 DEF StateLoadable

-----------------------------------------------------------------------------
\* An empty file is loadable.
LEMMA QueueInitLoadable == QueueInit => QueueTypeOK /\ StateLoadable
BY QueueAssumption DEF QueueInit, QueueTypeOK, StateLoadable, WaitersDistinct, Distinct,
   OwnerNotWaiting, ScopesExclusive, Queued, ToSet, Resources

\* Every queue operation keeps the file loadable.
LEMMA QueueNextLoadable ==
    QueueTypeOK /\ StateLoadable /\ [QueueNext]_queueVars => QueueTypeOK' /\ StateLoadable'
<1> SUFFICES ASSUME QueueTypeOK, StateLoadable, [QueueNext]_queueVars
             PROVE  QueueTypeOK' /\ StateLoadable'
  OBVIOUS
<1>1. CASE QueueNext
  <2>1. PICK r \in Resources, q \in Requesters : QueueStep(r, q)
    BY <1>1 DEF QueueNext
  <2>2. PICK o, l : Update(r, o, l)
    BY <2>1, StepIsUpdate
  <2>3. QED
    BY <2>2, UpdateKeepsLoadable
<1>2. CASE UNCHANGED queueVars
  BY <1>2 DEF queueVars, QueueTypeOK, StateLoadable, WaitersDistinct, OwnerNotWaiting,
     ScopesExclusive, Queued
<1>3. QED
  BY <1>1, <1>2

\* The queue file always passes _load_state's own checks: no duplicate waiter,
\* no owner that waits, no host owned together with one of its services.
THEOREM QueueLoadable == QueueSpec => [](QueueTypeOK /\ StateLoadable)
<1>1. QED
  BY QueueInitLoadable, QueueNextLoadable, PTL DEF QueueSpec

\* First come, first served over the life of a line: nobody overtakes an
\* earlier waiter, through claims, cancellations, expiry or undone claims.
THEOREM QueueFIFO == QueueSpec => NoOvertaking
<1>1. QueueTypeOK /\ StateLoadable /\ [QueueNext]_queueVars
      => [\A r \in Resources : \A a, b \in Requesters :
             Ahead(r, a, b) => /\ ~ Ahead(r, b, a)'
                               /\ a \in Queued(r)' => owner'[r] # b]_queueVars
  <2> SUFFICES ASSUME QueueTypeOK, StateLoadable, QueueNext,
                      NEW x \in Resources, NEW a \in Requesters, NEW b \in Requesters,
                      Ahead(x, a, b)
               PROVE  ~ Ahead(x, b, a)' /\ (a \in Queued(x)' => owner'[x] # b)
    OBVIOUS
  <2>1. PICK r \in Resources, q \in Requesters : QueueStep(r, q)
    BY DEF QueueNext
  <2>2. PICK o, l : Update(r, o, l)
    BY <2>1, StepIsUpdate
  <2>3. CASE x = r
    <3>1. owner'[x] = o /\ waiters'[x] = l
      BY <2>2, <2>3 DEF Update, QueueTypeOK
    <3>2. QED
      BY <2>2, <2>3, <3>1 DEF Update, Ahead, Queued
  <2>4. CASE x # r
    <3>1. owner'[x] = owner[x] /\ waiters'[x] = waiters[x]
      BY <2>2, <2>4 DEF Update, QueueTypeOK
    <3>2. /\ waiters[x] \in Seq(Requesters) /\ Distinct(waiters[x])
          /\ owner[x] \notin ToSet(waiters[x])
      BY DEF QueueTypeOK, StateLoadable, WaitersDistinct, OwnerNotWaiting, Queued
    <3>3. b \in ToSet(waiters[x]) /\ ~ Before(waiters[x], b, a)
      BY <3>2, BeforeFacts DEF Ahead
    <3>4. QED
      BY <3>1, <3>2, <3>3 DEF Ahead
  <2>5. QED
    BY <2>3, <2>4
<1>2. QED
  BY <1>1, QueueLoadable, PTL DEF QueueSpec, NoOvertaking

\* No preemption: ownership always passes through "unowned".
THEOREM QueueNoPreemption == QueueSpec => NoPreemption
<1>1. QueueTypeOK /\ StateLoadable /\ [QueueNext]_queueVars
      => [\A r \in Resources :
             owner[r] # None => owner'[r] \in {owner[r], None}]_queueVars
  <2> SUFFICES ASSUME QueueTypeOK, StateLoadable, QueueNext,
                      NEW x \in Resources, owner[x] # None
               PROVE  owner'[x] \in {owner[x], None}
    OBVIOUS
  <2>1. PICK r \in Resources, q \in Requesters : QueueStep(r, q)
    BY DEF QueueNext
  <2>2. PICK o, l : Update(r, o, l)
    BY <2>1, StepIsUpdate
  <2>3. QED
    BY <2>2 DEF Update, QueueTypeOK
<1>2. QED
  BY <1>1, QueueLoadable, PTL DEF QueueSpec, NoPreemption

(***************************************************************************)
(* The leases over it (LeasedQueue)                                         *)
(***************************************************************************)

(***************************************************************************)
(* The tools implement the queue                                           *)
(***************************************************************************)
\* No section does anything to the queue file but one queue operation.
LEMMA SectionIsQueueStep ==
    ASSUME TypeOK, LockDiscipline, NEW p \in Procs, Section(p)
    PROVE  QueueNext \/ UNCHANGED queueVars
<1> USE DEF queueVars, QueueNext, QueueStep
<1>0. /\ pc[p] # "idle" => call[p].res \in Resources /\ call[p].req \in Requesters
      /\ \A r \in Resources : lease[r].by \in Requesters \cup {None}
  BY DEF TypeOK, LockDiscipline, Calls
<1>1. CASE Agree(p) BY <1>1 DEF Agree
<1>2. CASE Expire(p)
  <2>1. CASE lease[call[p].res].by = None \/ lease[call[p].res].live
    BY <1>2, <2>1 DEF Expire
  <2>2. CASE ~ (lease[call[p].res].by = None \/ lease[call[p].res].live)
    <3>1. Vacate(call[p].res, lease[call[p].res].by) /\ pc[p] = "expire"
      BY <1>2, <2>2 DEF Expire
    <3> QED BY <3>1, <2>2, <1>0
  <2> QED BY <2>1, <2>2
<1>3. CASE Stale(p)
  <2> DEFINE r == call[p].res
  <2>1. CASE lease[r].by = None \/ lease[r].live \/ owner[r] # lease[r].by
    BY <1>3, <2>1 DEF Stale
  <2>2. CASE ~ (lease[r].by = None \/ lease[r].live \/ owner[r] # lease[r].by)
    <3>1. Vacate(r, lease[r].by) /\ pc[p] = "stale"
      BY <1>3, <2>2 DEF Stale
    <3> QED BY <3>1, <2>2, <1>0
  <2> QED BY <2>1, <2>2
<1>4. CASE Pop(p) BY <1>4 DEF Pop
<1>5. CASE SetLease(p) BY <1>5 DEF SetLease
<1>6. CASE GrantFails(p) BY <1>6 DEF GrantFails
<1>7. CASE Rollback(p)
  <2>1. Requeue(call[p].res, call[p].req) /\ pc[p] = "rollback" BY <1>7 DEF Rollback
  <2> QED BY <2>1, <1>0
<1>8. CASE ClearLease(p) BY <1>8 DEF ClearLease
<1>9. CASE ClaimSection(p)
  <2>1. Claim(call[p].res, call[p].req) /\ pc[p] = "claim" BY <1>9 DEF ClaimSection
  <2> QED BY <2>1, <1>0
<1>10. CASE QueueSection(p)
  <2>1. /\ pc[p] = "queue"
        /\ \/ UNCHANGED <<owner, waiters>>
           \/ Request(call[p].res, call[p].req)
           \/ Cancel(call[p].res, call[p].req)
    BY <1>10 DEF QueueSection
  <2> QED BY <2>1, <1>0
<1>11. CASE Inspect(p) BY <1>11 DEF Inspect
<1>12. CASE ReleaseSection(p)
  <2>1. /\ pc[p] = "release"
        /\ UNCHANGED <<owner, waiters>> \/ Release(call[p].res, call[p].req)
    BY <1>12 DEF ReleaseSection
  <2> QED BY <2>1, <1>0
<1>13. CASE CheckOwner(p) BY <1>13 DEF CheckOwner
<1>14. CASE EndBody(p) BY <1>14 DEF EndBody
<1> QED
  BY <1>1, <1>2, <1>3, <1>4, <1>5, <1>6, <1>7, <1>8, <1>9, <1>10, <1>11, <1>12,
     <1>13, <1>14 DEF Section

\* Nor does any other step.
LEMMA StepIsQueueStep ==
    ASSUME TypeOK, LockDiscipline, [Next]_vars
    PROVE  [QueueNext]_queueVars
<1>1. CASE \E p \in Procs : Section(p) BY <1>1, SectionIsQueueStep
<1>2. CASE \E p \in Procs : Called(p) BY <1>2 DEF Called, Begin, queueVars
<1>3. CASE \E p \in Procs : Interrupt(p) BY <1>3 DEF Interrupt, queueVars
<1>4. CASE \E r \in Resources : Tick(r) BY <1>4 DEF Tick, queueVars
<1>5. CASE UNCHANGED vars BY <1>5 DEF vars, queueVars
<1> QED BY <1>1, <1>2, <1>3, <1>4, <1>5 DEF Next, QuietNext

(***************************************************************************)
(* Types and locks                                                         *)
(***************************************************************************)
Control ==
    /\ lease \in [Resources -> [by : Requesters \cup {None}, live : BOOLEAN]]
    /\ opLock \in [Resources -> Procs \cup {NoProc}]
    /\ leaseLock \in Procs \cup {NoProc}
    /\ pc \in [Procs -> Sections \cup {"idle"}]
    /\ call \in [Procs -> Calls \cup {NoCall}]
    /\ LockDiscipline

\* A call that ends leaves types and locks as they have to be.
LEMMA ReturnKeepsControl ==
    ASSUME Control, NEW p \in Procs, Return(p)
    PROVE  /\ opLock' \in [Resources -> Procs \cup {NoProc}]
           /\ pc' \in [Procs -> Sections \cup {"idle"}]
           /\ call' \in [Procs -> Calls \cup {NoCall}]
           /\ LockDiscipline'
<1>1. opLock' \in [Resources -> Procs \cup {NoProc}] /\ pc' \in [Procs -> Sections \cup {"idle"}]
  BY DEF Control, Return, Unlocked, Goto
<1>2. call' \in [Procs -> Calls \cup {NoCall}]
  BY DEF Control, Return
<1>3. ASSUME NEW x \in Procs
      PROVE  /\ pc'[x] # "idle" => call'[x] \in Calls
             /\ pc'[x] \in Guarded => opLock'[call'[x].res] = x
  <2>1. CASE x = p
    BY <2>1 DEF Control, Return, Goto, Guarded
  <2>2. CASE x # p
    <3>1. pc'[x] = pc[x] /\ call'[x] = call[x] BY <2>2 DEF Control, Return, Goto
    <3>2. pc[x] \in Guarded => pc[x] # "idle" BY DEF Guarded
    <3>3. pc[x] # "idle" => call[x].res \in Resources BY DEF Control, LockDiscipline, Calls
    <3> QED BY <2>2, <3>1, <3>2, <3>3 DEF Control, LockDiscipline, Return, Unlocked
  <2> QED BY <2>1, <2>2
<1> QED BY <1>1, <1>2, <1>3 DEF LockDiscipline
\* So does a call that goes on without touching its locks.
LEMMA GotoKeepsControl ==
    ASSUME Control, NEW p \in Procs, NEW s \in Sections, Goto(p, s),
           pc[p] # "idle", s \in Guarded => pc[p] \in Guarded,
           UNCHANGED <<call, opLock>>
    PROVE  /\ pc' \in [Procs -> Sections \cup {"idle"}]
           /\ LockDiscipline'
<1>1. pc' \in [Procs -> Sections \cup {"idle"}] BY DEF Control, Goto
<1>2. ASSUME NEW x \in Procs
      PROVE  /\ pc'[x] # "idle" => call'[x] \in Calls
             /\ pc'[x] \in Guarded => opLock'[call'[x].res] = x
  BY DEF Control, Goto, LockDiscipline
<1> QED BY <1>1, <1>2 DEF LockDiscipline

\* And a call that has dealt with an expired lease.
LEMMA ExpiredKeepsControl ==
    ASSUME Control, NEW p \in Procs, pc[p] \in {"expire", "pop"},
           NEW h \in Requesters \cup {None}, Expired(p, h)
    PROVE  /\ opLock' \in [Resources -> Procs \cup {NoProc}]
           /\ pc' \in [Procs -> Sections \cup {"idle"}]
           /\ call' \in [Procs -> Calls \cup {NoCall}]
           /\ LockDiscipline'
<1>1. CASE call[p].op \in {"status", "recover"}
  <2>1. Return(p) BY <1>1 DEF Expired
  <2> QED BY <2>1, ReturnKeepsControl
<1>2. CASE call[p].op \notin {"status", "recover"}
  <2> DEFINE s == AfterExpire(call[p].op)
             c == [call[p] EXCEPT !.active = h]
  <2>1. /\ pc' = [pc EXCEPT ![p] = s]
        /\ call' = [call EXCEPT ![p] = c]
        /\ opLock' = IF call[p].op \in Holding THEN opLock ELSE Unlocked(p)
    BY <1>2 DEF Expired, Goto
  <2>2. call[p] \in Calls /\ opLock[call[p].res] = p
    BY DEF Control, LockDiscipline, Guarded
  <2>3. c \in Calls /\ c.res = call[p].res /\ c.op = call[p].op
    BY <2>2 DEF Calls
  <2>4. s \in Sections /\ (s \in Guarded => call[p].op \in Holding)
    BY DEF AfterExpire, Sections, Guarded, Holding
  <2>5. opLock' \in [Resources -> Procs \cup {NoProc}]
    BY <2>1 DEF Control, Unlocked
  <2>6. pc' \in [Procs -> Sections \cup {"idle"}] /\ call' \in [Procs -> Calls \cup {NoCall}]
    <3> HIDE DEF s, c
    <3> QED BY <2>1, <2>3, <2>4 DEF Control
  <2>7. ASSUME NEW x \in Procs
        PROVE  /\ pc'[x] # "idle" => call'[x] \in Calls
               /\ pc'[x] \in Guarded => opLock'[call'[x].res] = x
    <3>1. CASE x = p
      <4> HIDE DEF s, c
      <4>1. pc'[x] = s /\ call'[x] = c BY <3>1, <2>1 DEF Control
      <4> QED BY <3>1, <4>1, <2>1, <2>2, <2>3, <2>4
    <3>2. CASE x # p
      <4> HIDE DEF s, c
      <4>1. pc'[x] = pc[x] /\ call'[x] = call[x] BY <3>2, <2>1 DEF Control
      <4>2. pc[x] \in Guarded => pc[x] # "idle" BY DEF Guarded
      <4>3. pc[x] # "idle" => call[x].res \in Resources
        BY DEF Control, LockDiscipline, Calls
      <4> QED BY <3>2, <4>1, <4>2, <4>3, <2>1 DEF Control, LockDiscipline, Unlocked
    <3> QED BY <3>1, <3>2
  <2> QED BY <2>5, <2>6, <2>7 DEF LockDiscipline
<1> QED BY <1>1, <1>2

\* Taking the free operation lock of r for a call.
LEMMA LockKeepsControl ==
    ASSUME Control, NEW p \in Procs, NEW s \in Sections, NEW c \in Calls,
           opLock[c.res] = NoProc, pc[p] \notin Guarded,
           opLock' = [opLock EXCEPT ![c.res] = p],
           call' = [call EXCEPT ![p] = c], Goto(p, s)
    PROVE  /\ opLock' \in [Resources -> Procs \cup {NoProc}]
           /\ pc' \in [Procs -> Sections \cup {"idle"}]
           /\ call' \in [Procs -> Calls \cup {NoCall}]
           /\ LockDiscipline'
<1>1. c.res \in Resources BY DEF Calls
<1>2. opLock' \in [Resources -> Procs \cup {NoProc}] BY DEF Control
<1>3. pc' \in [Procs -> Sections \cup {"idle"}] /\ call' \in [Procs -> Calls \cup {NoCall}]
  BY DEF Control, Goto
<1>4. ASSUME NEW x \in Procs
      PROVE  /\ pc'[x] # "idle" => call'[x] \in Calls
             /\ pc'[x] \in Guarded => opLock'[call'[x].res] = x
  <2>1. CASE x = p BY <2>1, <1>1 DEF Control, Goto
  <2>2. CASE x # p
    <3>1. pc'[x] = pc[x] /\ call'[x] = call[x] BY <2>2 DEF Control, Goto
    <3>2. pc[x] \in Guarded => pc[x] # "idle" BY DEF Guarded
    <3>3. pc[x] # "idle" => call[x].res \in Resources BY DEF Control, LockDiscipline, Calls
    <3> QED BY <2>2, <3>1, <3>2, <3>3, <1>1, ProcAssumption DEF Control, LockDiscipline
  <2> QED BY <2>1, <2>2
<1> QED BY <1>2, <1>3, <1>4 DEF LockDiscipline

\* No call runs and no lock is held at first.
LEMMA InitControl == Init => Control
  BY DEF Init, Control, NoLease, LockDiscipline, Guarded

\* Types and locks are kept by every step.
LEMMA StepKeepsControl ==
    ASSUME TypeOK, Control, [Next]_vars
    PROVE  Control'
<1> USE DEF Control
<1>0. \A p \in Procs : pc[p] # "idle" => /\ call[p] \in Calls
                                         /\ call[p].res \in Resources
                                         /\ call[p].req \in Requesters
  BY DEF LockDiscipline, Calls
<1>1. CASE \E p \in Procs : Called(p)
  <2>1. PICK p \in Procs, op \in Ops, r \in Resources, q \in Requesters : Begin(p, op, r, q)
    BY <1>1 DEF Called
  <2> DEFINE c == [op |-> op, res |-> r, req |-> q, active |-> None]
  <2>2. c \in Calls /\ FirstSection(op) \in Sections /\ c.res = r
    BY ProcAssumption DEF Calls, FirstSection, Sections
  <2>3. /\ opLock[c.res] = NoProc /\ pc[p] \notin Guarded
        /\ opLock' = [opLock EXCEPT ![c.res] = p]
        /\ call' = [call EXCEPT ![p] = c] /\ Goto(p, FirstSection(op))
    BY <2>1, <2>2 DEF Begin, Guarded
  <2>4. UNCHANGED <<lease, leaseLock>> BY <2>1 DEF Begin
  <2> HIDE DEF c
  <2> QED BY <2>2, <2>3, <2>4, LockKeepsControl
<1>2. ASSUME NEW p \in Procs, Section(p) PROVE Control'
  <2>1. CASE Agree(p)
    <3>1. UNCHANGED <<lease, leaseLock>> BY <2>1 DEF Agree
    <3>2. CASE Return(p) BY <3>1, <3>2, ReturnKeepsControl
    <3>3. CASE Goto(p, "expire") /\ UNCHANGED <<call, opLock>> /\ pc[p] = "agree"
      <4>1. "expire" \in Sections /\ pc[p] \in Guarded BY <3>3 DEF Sections, Guarded
      <4> QED BY <3>1, <3>3, <4>1, GotoKeepsControl
    <3> QED BY <2>1, <3>2, <3>3 DEF Agree
  <2>2. CASE Expire(p)
    <3>1. pc[p] = "expire" /\ UNCHANGED lease BY <2>2 DEF Expire
    <3>2. CASE Expired(p, lease[call[p].res].by) /\ UNCHANGED leaseLock
      BY <1>0, <3>1, <3>2, ExpiredKeepsControl
    <3>3. CASE leaseLock' = p /\ Goto(p, "pop") /\ UNCHANGED <<call, opLock>>
      <4>1. "pop" \in Sections /\ pc[p] \in Guarded BY <3>1 DEF Sections, Guarded
      <4> QED BY <3>1, <3>3, <4>1, GotoKeepsControl
    <3> QED BY <2>2, <3>2, <3>3 DEF Expire
  <2>3. CASE Stale(p)
    <3>1. pc[p] = "stale" /\ UNCHANGED lease BY <2>3 DEF Stale
    <3>2. CASE Return(p) /\ UNCHANGED leaseLock BY <3>1, <3>2, ReturnKeepsControl
    <3>3. CASE leaseLock' = p /\ Goto(p, "pop") /\ UNCHANGED <<call, opLock>>
      <4>1. "pop" \in Sections /\ pc[p] \in Guarded BY <3>1 DEF Sections, Guarded
      <4> QED BY <3>1, <3>3, <4>1, GotoKeepsControl
    <3> QED BY <2>3, <3>2, <3>3 DEF Stale
  <2>4. CASE Pop(p)
    <3>1. pc[p] = "pop" /\ Expired(p, None) /\ leaseLock' = NoProc BY <2>4 DEF Pop
    <3>2. lease' \in [Resources -> [by : Requesters \cup {None}, live : BOOLEAN]]
      BY <2>4 DEF Pop, NoLease
    <3> QED BY <3>1, <3>2, ExpiredKeepsControl
  <2>5. CASE SetLease(p)
    <3>1. Return(p) /\ UNCHANGED leaseLock BY <2>5 DEF SetLease
    <3>2. lease' \in [Resources -> [by : Requesters \cup {None}, live : BOOLEAN]]
      BY <2>5, <1>0 DEF SetLease
    <3> QED BY <3>1, <3>2, ReturnKeepsControl
  <2>6. CASE GrantFails(p)
    <3>1. "rollback" \in Sections /\ pc[p] \in Guarded
      BY <2>6 DEF Sections, Guarded, GrantFails
    <3> QED BY <2>6, <3>1, GotoKeepsControl DEF GrantFails
  <2>7. CASE Rollback(p) BY <2>7, ReturnKeepsControl DEF Rollback
  <2>8. CASE ClearLease(p)
    <3>1. Return(p) /\ UNCHANGED leaseLock BY <2>8 DEF ClearLease
    <3>2. lease' \in [Resources -> [by : Requesters \cup {None}, live : BOOLEAN]]
      BY <2>8 DEF ClearLease, NoLease
    <3> QED BY <3>1, <3>2, ReturnKeepsControl
  <2>9. CASE ClaimSection(p)
    <3>1. pc[p] = "claim" /\ UNCHANGED <<lease, leaseLock>> BY <2>9 DEF ClaimSection
    <3>2. CASE Return(p) BY <3>1, <3>2, ReturnKeepsControl
    <3>3. ASSUME NEW s \in {"grant", "lease"}, Goto(p, s), UNCHANGED <<call, opLock>>
          PROVE  Control'
      <4>1. s \in Sections /\ pc[p] \in Guarded BY <3>1 DEF Sections, Guarded
      <4> QED BY <3>1, <3>3, <4>1, GotoKeepsControl
    <3> QED BY <2>9, <3>2, <3>3 DEF ClaimSection
  <2>10. CASE QueueSection(p)
    <3>1. pc[p] = "queue" /\ UNCHANGED <<lease, leaseLock>> BY <2>10 DEF QueueSection
    <3>2. CASE Return(p) BY <3>1, <3>2, ReturnKeepsControl
    <3>3. CASE Goto(p, "inspect") /\ UNCHANGED <<call, opLock>>
      <4>1. "inspect" \in Sections \ Guarded BY DEF Sections, Guarded
      <4> QED BY <3>1, <3>3, <4>1, GotoKeepsControl
    <3> QED BY <2>10, <3>2, <3>3 DEF QueueSection
  <2>11. CASE Inspect(p)
    <3> DEFINE c == [call[p] EXCEPT !.op = "status"]
    <3>1. pc[p] = "inspect" BY <2>11 DEF Inspect
    <3>2. c \in Calls /\ c.res = call[p].res BY <1>0, <3>1 DEF Calls, AllOps
    <3>3. /\ opLock[c.res] = NoProc /\ pc[p] \notin Guarded
          /\ opLock' = [opLock EXCEPT ![c.res] = p]
          /\ call' = [call EXCEPT ![p] = c] /\ Goto(p, "expire")
          /\ UNCHANGED <<lease, leaseLock>>
      BY <2>11, <3>2 DEF Inspect, Guarded
    <3>4. "expire" \in Sections BY DEF Sections
    <3> HIDE DEF c
    <3> QED BY <3>2, <3>3, <3>4, LockKeepsControl
  <2>12. CASE ReleaseSection(p)
    <3>1. pc[p] = "release" /\ UNCHANGED <<lease, leaseLock>> BY <2>12 DEF ReleaseSection
    <3>2. CASE Return(p) BY <3>1, <3>2, ReturnKeepsControl
    <3>3. CASE Goto(p, "clear") /\ UNCHANGED <<call, opLock>>
      <4>1. "clear" \in Sections \ Guarded BY DEF Sections, Guarded
      <4> QED BY <3>1, <3>3, <4>1, GotoKeepsControl
    <3> QED BY <2>12, <3>2, <3>3 DEF ReleaseSection
  <2>13. CASE CheckOwner(p)
    <3>1. pc[p] = "own" /\ UNCHANGED <<lease, leaseLock>> BY <2>13 DEF CheckOwner
    <3>2. CASE Return(p) BY <3>1, <3>2, ReturnKeepsControl
    <3>3. ASSUME NEW s \in {"body", "lease"}, Goto(p, s), UNCHANGED <<call, opLock>>
          PROVE  Control'
      <4>1. s \in Sections /\ pc[p] \in Guarded BY <3>1 DEF Sections, Guarded
      <4> QED BY <3>1, <3>3, <4>1, GotoKeepsControl
    <3> QED BY <2>13, <3>2, <3>3 DEF CheckOwner
  <2>14. CASE EndBody(p) BY <2>14, ReturnKeepsControl DEF EndBody
  <2> QED
    BY <1>2, <2>1, <2>2, <2>3, <2>4, <2>5, <2>6, <2>7, <2>8, <2>9, <2>10, <2>11,
       <2>12, <2>13, <2>14 DEF Section
<1>3. CASE \E p \in Procs : Interrupt(p)
  BY <1>3, ReturnKeepsControl DEF Interrupt
<1>4. CASE \E r \in Resources : Tick(r)
  <2>1. PICK r \in Resources : Tick(r) BY <1>4
  <2>2. lease' \in [Resources -> [by : Requesters \cup {None}, live : BOOLEAN]]
    BY <2>1 DEF Tick
  <2> QED BY <2>1, <2>2 DEF Tick, LockDiscipline
<1>5. CASE UNCHANGED vars BY <1>5 DEF vars, LockDiscipline
<1> QED BY <1>1, <1>2, <1>3, <1>4, <1>5 DEF Next, QuietNext
(***************************************************************************)
(* Who changes an owner, and when                                          *)
(***************************************************************************)
Checked == {"body", "lease", "grant", "rollback"}

\* A step of p is about p's call only.
LEMMA OthersStay ==
    ASSUME Control, NEW p \in Procs, NEW x \in Procs, x # p,
           Called(p) \/ Section(p) \/ Interrupt(p)
    PROVE  pc'[x] = pc[x] /\ call'[x] = call[x]
<1> USE DEF Control
<1>1. ASSUME Return(p) PROVE pc'[x] = pc[x] /\ call'[x] = call[x]
  BY <1>1 DEF Return, Goto
<1>2. ASSUME NEW h, Expired(p, h) PROVE pc'[x] = pc[x] /\ call'[x] = call[x]
  BY <1>1, <1>2 DEF Expired, Goto
<1>3. ASSUME NEW s, Goto(p, s) PROVE pc'[x] = pc[x]
  BY <1>3 DEF Goto
<1>4. CASE Called(p) BY <1>3, <1>4 DEF Called, Begin
<1>5. CASE Interrupt(p) BY <1>1, <1>5 DEF Interrupt
<1>6. CASE Agree(p) \/ Stale(p) \/ SetLease(p) \/ GrantFails(p) \/ Rollback(p) \/ ClearLease(p)
  BY <1>1, <1>3, <1>6 DEF Agree, Stale, SetLease, GrantFails, Rollback, ClearLease
<1>7. CASE Expire(p) \/ Pop(p)
  BY <1>2, <1>3, <1>7 DEF Expire, Pop
<1>8. CASE ClaimSection(p) \/ QueueSection(p) \/ Inspect(p) \/ ReleaseSection(p) \/ CheckOwner(p) \/ EndBody(p)
  BY <1>1, <1>3, <1>8
     DEF ClaimSection, QueueSection, Inspect, ReleaseSection, CheckOwner, EndBody
<1> QED BY <1>4, <1>5, <1>6, <1>7, <1>8 DEF Section

\* The sections that change an owner, and what they know.
OwnerChangedBy(p, r) ==
    /\ call[p].res = r
    /\ \/ pc[p] \in {"expire", "stale"} /\ lease[r] = [by |-> owner[r], live |-> FALSE]
       \/ pc[p] = "claim" /\ owner[r] = None
       \/ pc[p] = "rollback" /\ owner[r] = call[p].req
       \/ pc[p] = "release" /\ owner[r] = call[p].req /\ opLock[r] = NoProc

\* A section changes an owner only as OwnerChangedBy says.
LEMMA OwnerChange ==
    ASSUME TypeOK, Control, NEW p \in Procs, Section(p),
           NEW r \in Resources, owner'[r] # owner[r]
    PROVE  OwnerChangedBy(p, r)
<1> USE DEF OwnerChangedBy
<1>0. owner \in [Resources -> Requesters \cup {None}] BY DEF TypeOK, QueueTypeOK
<1>1. CASE Expire(p)
  <2> DEFINE x == call[p].res
  <2>1. ~ (lease[x].by = None \/ lease[x].live) /\ Vacate(x, lease[x].by) /\ pc[p] = "expire"
    BY <1>1 DEF Expire
  <2>2. x = r /\ owner[r] = lease[r].by BY <1>0, <2>1 DEF Vacate
  <2>3. lease[r] \in [by : Requesters \cup {None}, live : BOOLEAN] BY DEF Control
  <2>4. lease[r] = [by |-> owner[r], live |-> FALSE] BY <2>1, <2>2, <2>3
  <2> QED BY <2>1, <2>2, <2>4
<1>2. CASE Stale(p)
  <2> DEFINE x == call[p].res
  <2>1. ~ (lease[x].by = None \/ lease[x].live) /\ Vacate(x, lease[x].by) /\ pc[p] = "stale"
    BY <1>2 DEF Stale
  <2>2. x = r /\ owner[r] = lease[r].by BY <1>0, <2>1 DEF Vacate
  <2>3. lease[r] \in [by : Requesters \cup {None}, live : BOOLEAN] BY DEF Control
  <2>4. lease[r] = [by |-> owner[r], live |-> FALSE] BY <2>1, <2>2, <2>3
  <2> QED BY <2>1, <2>2, <2>4
<1>3. CASE ClaimSection(p)
  <2>1. Claim(call[p].res, call[p].req) /\ pc[p] = "claim" BY <1>3 DEF ClaimSection
  <2> QED BY <1>0, <2>1 DEF Claim, MayTake, Join, queueVars
<1>4. CASE Rollback(p)
  <2>1. Requeue(call[p].res, call[p].req) /\ pc[p] = "rollback" BY <1>4 DEF Rollback
  <2> QED BY <1>0, <2>1 DEF Requeue, queueVars
<1>5. CASE ReleaseSection(p)
  <2>1. /\ Release(call[p].res, call[p].req) /\ pc[p] = "release"
        /\ opLock[call[p].res] = NoProc
    BY <1>5 DEF ReleaseSection, queueVars
  <2> QED BY <1>0, <2>1 DEF Release, queueVars
<1>6. CASE QueueSection(p)
  BY <1>6 DEF QueueSection, Request, Cancel, Join, queueVars
<1>7. CASE Agree(p) \/ Pop(p) \/ SetLease(p) \/ GrantFails(p) \/ ClearLease(p)
  BY <1>7 DEF Agree, Pop, SetLease, GrantFails, ClearLease
<1>8. CASE Inspect(p) \/ CheckOwner(p) \/ EndBody(p)
  BY <1>8 DEF Inspect, CheckOwner, EndBody
<1> QED BY <1>1, <1>2, <1>3, <1>4, <1>5, <1>6, <1>7, <1>8 DEF Section

\* A section that ends in a checked place has made the check.
LEMMA CheckIsMade ==
    ASSUME TypeOK, Control, CheckStaysTrue, NEW p \in Procs, Section(p),
           pc'[p] \in Checked
    PROVE  owner'[call'[p].res] = call'[p].req
<1> USE DEF Control
<1>0. owner \in [Resources -> Requesters \cup {None}] BY DEF TypeOK, QueueTypeOK
<1>1. ~ Return(p) BY DEF Return, Goto, Checked
<1>2. ASSUME NEW h, Expired(p, h) PROVE FALSE
  BY <1>1, <1>2 DEF Expired, Goto, AfterExpire, Checked
<1>3. ASSUME NEW s, Goto(p, s) PROVE s \in Checked
  BY <1>3 DEF Goto
<1>4. CASE GrantFails(p)
  BY <1>4 DEF GrantFails, CheckStaysTrue
<1>5. CASE ClaimSection(p)
  <2> DEFINE c == call[p]
  <2>1. /\ Claim(c.res, c.req) /\ UNCHANGED call /\ pc[p] = "claim"
        /\ MayTake(c.res, c.req) \/ owner[c.res] = c.req
    BY <1>1, <1>5 DEF ClaimSection
  <2>2. c.res \in Resources BY <2>1 DEF LockDiscipline, Calls
  <2> QED BY <1>0, <2>1, <2>2 DEF Claim, MayTake, queueVars
<1>6. CASE CheckOwner(p)
  BY <1>1, <1>6 DEF CheckOwner
<1>7. CASE Agree(p) \/ Stale(p) \/ SetLease(p) \/ Rollback(p) \/ ClearLease(p)
  BY <1>1, <1>3, <1>7 DEF Agree, Stale, SetLease, Rollback, ClearLease, Checked
<1>8. CASE Expire(p) \/ Pop(p)
  BY <1>2, <1>3, <1>8 DEF Expire, Pop, Checked
<1>9. CASE QueueSection(p) \/ Inspect(p) \/ ReleaseSection(p) \/ EndBody(p)
  BY <1>1, <1>3, <1>9 DEF QueueSection, Inspect, ReleaseSection, EndBody, Checked
<1> QED BY <1>4, <1>5, <1>6, <1>7, <1>8, <1>9 DEF Section
(***************************************************************************)
(* The inductive invariant                                                 *)
(***************************************************************************)
\* CheckStaysTrue is not inductive by itself: it needs to know that the sections
\* that change an owner hold, or find free, the lock a checked call holds.
LeasedInv == TypeOK /\ StateLoadable /\ LockDiscipline /\ CheckStaysTrue

\* The invariant knows the types and the locks.
LEMMA InvControl == LeasedInv => Control
  BY DEF LeasedInv, TypeOK, Control

\* The invariant holds at first.
LEMMA InitLeasedInv == Init => LeasedInv
  BY InitControl, QueueInitLoadable DEF Init, LeasedInv, TypeOK, Control, CheckStaysTrue

\* An ownership check survives the steps of the others.
LEMMA StepKeepsCheck ==
    ASSUME LeasedInv, Next
    PROVE  CheckStaysTrue'
<1> SUFFICES ASSUME NEW x \in Procs, pc'[x] \in Checked
             PROVE  owner'[call'[x].res] = call'[x].req
  BY DEF CheckStaysTrue, Checked
<1>0. Control /\ TypeOK /\ CheckStaysTrue BY InvControl DEF LeasedInv
<1>1. ASSUME pc[x] \in Checked
      PROVE  /\ call[x].res \in Resources /\ opLock[call[x].res] = x
             /\ owner[call[x].res] = call[x].req
  <2>1. pc[x] # "idle" /\ pc[x] \in Guarded BY <1>1 DEF Checked, Guarded
  <2> QED BY <1>0, <1>1, <2>1 DEF Control, LockDiscipline, Calls, CheckStaysTrue, Checked
<1>2. ASSUME NEW p \in Procs, Section(p) PROVE owner'[call'[x].res] = call'[x].req
  <2>1. CASE p = x BY <1>0, <1>2, <2>1, CheckIsMade
  <2>2. CASE p # x
    <3>1. pc'[x] = pc[x] /\ call'[x] = call[x] BY <1>0, <1>2, <2>2, OthersStay
    <3>2. ASSUME owner'[call[x].res] # owner[call[x].res] PROVE FALSE
      <4>1. OwnerChangedBy(p, call[x].res)
        BY <1>0, <1>1, <1>2, <3>1, <3>2, OwnerChange
      <4>2. opLock[call[x].res] \in {p, NoProc}
        BY <4>1, <1>0 DEF OwnerChangedBy, Control, LockDiscipline, Guarded
      <4> QED BY <1>1, <2>2, <3>1, <4>2, ProcAssumption
    <3> QED BY <1>1, <3>1, <3>2
  <2> QED BY <2>1, <2>2
<1>3. ASSUME NEW p \in Procs, Called(p) \/ Interrupt(p)
      PROVE owner'[call'[x].res] = call'[x].req
  <2>1. UNCHANGED owner BY <1>3 DEF Called, Begin, Interrupt
  <2>2. CASE p = x
    <3>1. pc'[p] \notin Checked
      BY <1>0, <1>3 DEF Control, Called, Begin, Interrupt, Return, Goto, FirstSection, Checked
    <3> QED BY <2>2, <3>1
  <2>3. CASE p # x
    <3>1. pc'[x] = pc[x] /\ call'[x] = call[x] BY <1>0, <1>3, <2>3, OthersStay
    <3> QED BY <1>1, <2>1, <3>1
  <2> QED BY <2>2, <2>3
<1>4. CASE \E r \in Resources : Tick(r) BY <1>1, <1>4 DEF Tick
<1> QED BY <1>2, <1>3, <1>4 DEF Next, QuietNext

\* Every step keeps the invariant and is a step of the queue, or none.
LEMMA StepKeepsLeasedInv ==
    LeasedInv /\ [Next]_vars => LeasedInv' /\ [QueueNext]_queueVars
<1> SUFFICES ASSUME LeasedInv, [Next]_vars
             PROVE  LeasedInv' /\ [QueueNext]_queueVars
  OBVIOUS
<1>0. Control /\ TypeOK /\ LockDiscipline /\ QueueTypeOK /\ StateLoadable
  BY InvControl DEF LeasedInv, TypeOK
<1>1. [QueueNext]_queueVars BY <1>0, StepIsQueueStep
<1>2. QueueTypeOK' /\ StateLoadable' BY <1>0, <1>1, QueueNextLoadable
<1>3. Control' BY <1>0, StepKeepsControl
<1>4. CheckStaysTrue'
  <2>1. CASE Next BY <2>1, StepKeepsCheck
  <2>2. CASE UNCHANGED vars BY <2>2 DEF LeasedInv, CheckStaysTrue, vars
  <2> QED BY <2>1, <2>2
<1> QED BY <1>1, <1>2, <1>3, <1>4 DEF LeasedInv, TypeOK, Control

\* An ownership check made under the operation lock stays true until the call
\* has acted on it, and the variables keep their types.
THEOREM LeasedChecks == Spec => [](TypeOK /\ CheckStaysTrue)
<1>1. LeasedInv => TypeOK /\ CheckStaysTrue BY DEF LeasedInv
<1> QED BY <1>1, InitLeasedInv, StepKeepsLeasedInv, PTL DEF Spec

\* The tools implement the queue: VmQueue's theorems hold of them, so no
\* interleaving and no death of a process makes the file unloadable, lets a
\* waiter overtake or preempts an owner.
THEOREM LeasedImplementsQueue == Spec => ImplementsQueue
<1>1. Init => QueueInit BY DEF Init
<1> QED BY <1>1, InitLeasedInv, StepKeepsLeasedInv, PTL DEF Spec, ImplementsQueue, QueueSpec

\* An owner loses its resource by its own release or rollback, or by its own
\* expired lease, and in no other way.
THEOREM LeasedOwnershipEnds == Spec => OwnershipEnds
<1>1. LeasedInv /\ [Next]_vars =>
        [\A r \in Resources :
            owner[r] # None /\ owner'[r] # owner[r] =>
              \/ lease[r] = [by |-> owner[r], live |-> FALSE]
              \/ \E p \in Procs : /\ pc[p] \in {"release", "rollback"}
                                  /\ call[p].res = r
                                  /\ call[p].req = owner[r]]_vars
  <2> SUFFICES ASSUME LeasedInv, Next, NEW r \in Resources,
                      owner[r] # None, owner'[r] # owner[r]
               PROVE  \/ lease[r] = [by |-> owner[r], live |-> FALSE]
                      \/ \E p \in Procs : /\ pc[p] \in {"release", "rollback"}
                                          /\ call[p].res = r
                                          /\ call[p].req = owner[r]
    OBVIOUS
  <2>0. Control /\ TypeOK BY InvControl DEF LeasedInv
  <2>1. PICK p \in Procs : Section(p)
    BY DEF Next, QuietNext, Called, Begin, Interrupt, Tick
  <2>2. OwnerChangedBy(p, r) BY <2>0, <2>1, OwnerChange
  <2> QED BY <2>2 DEF OwnerChangedBy
<1> QED BY <1>1, InitLeasedInv, StepKeepsLeasedInv, PTL DEF Spec, OwnershipEnds

\* Only the owner records a lease, so a live lease of the owner is never replaced
\* by somebody else's.
THEOREM LeasedNotStolen == Spec => LeaseNotStolen
<1>1. LeasedInv /\ [Next]_vars =>
        [\A r \in Resources :
            lease[r].live /\ owner[r] = lease[r].by =>
              lease'[r].by \in {lease[r].by, None}]_vars
  <2> SUFFICES ASSUME LeasedInv, Next, NEW r \in Resources, owner[r] = lease[r].by
               PROVE  lease'[r].by \in {lease[r].by, None}
    OBVIOUS
  <2>0. /\ lease \in [Resources -> [by : Requesters \cup {None}, live : BOOLEAN]]
        /\ CheckStaysTrue /\ LockDiscipline
    BY DEF LeasedInv, TypeOK
  <2>1. CASE lease' = lease
    BY <2>1
  <2>2. ASSUME NEW p \in Procs, Pop(p) \/ ClearLease(p) \/ SetLease(p)
        PROVE  lease'[r].by \in {lease[r].by, None}
    <3>1. CASE lease'[r] \in {lease[r], NoLease}
      BY <3>1 DEF NoLease
    <3>2. CASE Pop(p) \/ ClearLease(p)
      <4>1. call[p].res \in Resources
        BY <2>0, <3>2 DEF LockDiscipline, Calls, Pop, ClearLease
      <4>. QED BY <2>0, <3>1, <3>2, <4>1 DEF Pop, ClearLease
    <3>3. CASE SetLease(p)
      <4>1. owner[call[p].res] = call[p].req
        BY <2>0, <3>3 DEF SetLease, CheckStaysTrue
      <4>. QED BY <2>0, <3>3, <4>1 DEF SetLease
    <3>. QED BY <2>2, <3>2, <3>3
  <2>3. ASSUME NEW x \in Resources, Tick(x) PROVE lease'[r].by \in {lease[r].by, None}
    BY <2>0, <2>3 DEF Tick
  <2> QED
    BY <2>1, <2>2, <2>3 DEF Next, QuietNext, Called, Begin, Section, Interrupt, Agree, Expire, Stale,
       GrantFails, Rollback, ClaimSection, QueueSection, Inspect, ReleaseSection, CheckOwner, EndBody
<1> QED BY <1>1, InitLeasedInv, StepKeepsLeasedInv, PTL DEF Spec, LeaseNotStolen

(***************************************************************************)
(* The tools implement exclusive access                                    *)
(***************************************************************************)
Working(p, r) == pc[p] = "body" /\ call[p].res = r

\* At most one process works on a resource, and it works for its owner.
UsingOK ==
    /\ Using \in [Resources -> Requesters \cup {None}]
    /\ \A r \in Resources, p \in Procs :
          Working(p, r) => /\ Using[r] = call[p].req /\ owner[r] = call[p].req
                           /\ Using[r] \in Requesters
                           /\ opLock[r] = p
    /\ \A r \in Resources : (\A p \in Procs : ~ Working(p, r)) => Using[r] = None

\* At most one process works on a resource, for its owner, under its lock.
LEMMA UsingFacts == LeasedInv => UsingOK
<1> SUFFICES ASSUME LeasedInv PROVE UsingOK
  OBVIOUS
<1> USE DEF Working
<1>0. Control /\ CheckStaysTrue BY InvControl DEF LeasedInv
<1>1. ASSUME NEW r \in Resources, NEW p \in Procs, Working(p, r)
      PROVE  /\ opLock[r] = p /\ owner[r] = call[p].req /\ call[p].req \in Requesters
  BY <1>0, <1>1 DEF Control, LockDiscipline, Calls, CheckStaysTrue, Guarded
<1>2. ASSUME NEW r \in Resources, NEW p \in Procs, Working(p, r)
      PROVE  Using[r] = call[p].req
  <2>1. (CHOOSE x \in Procs : pc[x] = "body" /\ call[x].res = r) = p
    BY <1>1, <1>2
  <2> QED BY <1>2, <2>1 DEF Using
<1>3. \A r \in Resources : (\A p \in Procs : ~ Working(p, r)) => Using[r] = None
  BY DEF Using
<1>4. \A r \in Resources : Using[r] \in Requesters \cup {None}
  BY <1>1, <1>2, <1>3
<1>5. Using = [r \in Resources |-> Using[r]] BY DEF Using
<1>6. Using \in [Resources -> Requesters \cup {None}] BY <1>4, <1>5
<1> QED BY <1>1, <1>2, <1>3, <1>6 DEF UsingOK

\* A step of p changes what is in use only if p starts or ends its work.
LEMMA UsingUnchanged ==
    ASSUME UsingOK, UsingOK', NEW p \in Procs, pc[p] # "body", pc'[p] # "body",
           \A x \in Procs \ {p} : pc'[x] = pc[x] /\ call'[x] = call[x]
    PROVE  UNCHANGED Using
<1>1. \A x \in Procs, r \in Resources :
        /\ Working(x, r)' <=> Working(x, r)
        /\ Working(x, r) => call'[x] = call[x]
  BY DEF Working
<1>2. \A r \in Resources : Using'[r] = Using[r]
  BY <1>1 DEF UsingOK
<1> QED BY <1>2 DEF UsingOK

\* A process that leaves the body frees the resource in ExclusiveAccess.
LEMMA UsingEnds ==
    ASSUME UsingOK, UsingOK', NEW p \in Procs, NEW r \in Resources, Working(p, r),
           pc'[p] # "body",
           \A x \in Procs \ {p} : pc'[x] = pc[x] /\ call'[x] = call[x]
    PROVE  Access!Exit(r)
<1>1. \A x \in Procs, y \in Resources :
        /\ Working(x, y)' <=> x # p /\ Working(x, y)
        /\ Working(x, y) /\ x # p => call'[x] = call[x]
  BY DEF Working
<1>2. \A x \in Procs : Working(x, r) => x = p
  BY DEF UsingOK
<1>3. Using'[r] = None BY <1>1, <1>2 DEF UsingOK
<1>4. \A y \in Resources : y # r => Using'[y] = Using[y]
  <2> SUFFICES ASSUME NEW y \in Resources, y # r PROVE Using'[y] = Using[y]
    OBVIOUS
  <2>1. ~ Working(p, y) BY DEF Working
  <2>2. CASE \E x \in Procs : Working(x, y) BY <1>1, <2>1, <2>2 DEF UsingOK
  <2>3. CASE \A x \in Procs : ~ Working(x, y) BY <1>1, <2>3 DEF UsingOK
  <2> QED BY <2>2, <2>3
<1>5. Using[r] # None BY QueueAssumption DEF UsingOK
<1>6. Using' = [Using EXCEPT ![r] = None] BY <1>3, <1>4 DEF UsingOK
<1> QED BY <1>5, <1>6 DEF Access!Exit

\* A process that enters the body may do so in ExclusiveAccess: owners of
\* conflicting resources exclude each other.
LEMMA UsingStarts ==
    ASSUME UsingOK, UsingOK', ScopesExclusive, ScopesExclusive', UNCHANGED <<owner, opLock, call>>,
           NEW p \in Procs, NEW r \in Resources, pc[p] # "body", Working(p, r)',
           \A x \in Procs \ {p} : pc'[x] = pc[x]
    PROVE  \E q \in Requesters : Access!Enter(r, q)
<1>0. /\ Using'[r] = call[p].req /\ owner[r] = call[p].req
      /\ call[p].req \in Requesters /\ opLock[r] = p /\ owner[r] # None
  BY QueueAssumption DEF UsingOK, Working
<1>1. \A x \in Procs, y \in Resources :
        Working(x, y)' <=> (x = p /\ y = r) \/ Working(x, y)
  BY DEF Working
<1>2. \A x \in Procs : ~ Working(x, r)
  BY <1>0 DEF UsingOK, Working
<1>3. \A y \in Resources : y # r => Using'[y] = Using[y]
  <2> SUFFICES ASSUME NEW y \in Resources, y # r PROVE Using'[y] = Using[y]
    OBVIOUS
  <2>1. CASE \E x \in Procs : Working(x, y) BY <1>1, <2>1 DEF UsingOK
  <2>2. CASE \A x \in Procs : ~ Working(x, y) BY <1>1, <2>2 DEF UsingOK
  <2> QED BY <2>1, <2>2
<1>4. Using' = [Using EXCEPT ![r] = call[p].req] BY <1>0, <1>3 DEF UsingOK
<1>5. ASSUME NEW y \in Access!Conflicting(r) PROVE Using[y] = None
  <2>1. y \in Resources /\ (y = r \/ (owner[y] = None))
    BY <1>0, QueueAssumption DEF Access!Conflicting, ScopesExclusive, Resources
  <2>2. \A x \in Procs : ~ Working(x, y)
    BY <1>2, <2>1, QueueAssumption DEF UsingOK
  <2> QED BY <2>1, <2>2 DEF UsingOK
<1> QED BY <1>0, <1>4, <1>5 DEF Access!Enter
\* The body of an operation is left by EndBody and Interrupt only, and entered
\* by CheckOwner only.
LEMMA BodySections ==
    ASSUME Control, NEW p \in Procs, Section(p)
    PROVE  /\ pc[p] = "body" => pc'[p] = "idle"
           /\ pc[p] # "body" /\ pc'[p] = "body" => UNCHANGED <<owner, call, opLock>>
<1> USE DEF Control
<1>1. ASSUME Return(p) PROVE pc'[p] = "idle"
  BY <1>1 DEF Return, Goto
<1>2. ASSUME NEW h, Expired(p, h) PROVE pc'[p] # "body"
  BY <1>1, <1>2 DEF Expired, Goto, AfterExpire
<1>3. ASSUME NEW s, Goto(p, s) PROVE pc'[p] = s
  BY <1>3 DEF Goto
<1>4. CASE Agree(p) \/ Stale(p) \/ SetLease(p) \/ GrantFails(p) \/ Rollback(p) \/ ClearLease(p)
  BY <1>1, <1>3, <1>4 DEF Agree, Stale, SetLease, GrantFails, Rollback, ClearLease
<1>5. CASE Expire(p) \/ Pop(p)
  BY <1>2, <1>3, <1>5 DEF Expire, Pop
<1>6. CASE ClaimSection(p) \/ QueueSection(p) \/ Inspect(p) \/ ReleaseSection(p)
  BY <1>1, <1>3, <1>6 DEF ClaimSection, QueueSection, Inspect, ReleaseSection
<1>7. CASE CheckOwner(p) \/ EndBody(p)
  BY <1>1, <1>3, <1>7 DEF CheckOwner, EndBody
<1> QED BY <1>4, <1>5, <1>6, <1>7 DEF Section

\* Every step is a step of ExclusiveAccess, or none.
LEMMA StepIsAccess ==
    ASSUME LeasedInv, LeasedInv', [Next]_vars
    PROVE  [Access!AccessNext]_Using
<1>0. /\ Control /\ Control' /\ UsingOK /\ UsingOK'
      /\ ScopesExclusive /\ ScopesExclusive'
  <2>1. Control /\ UsingOK /\ ScopesExclusive
    BY InvControl, UsingFacts DEF LeasedInv, StateLoadable
  <2>2. Control' /\ UsingOK' BY InvControl, UsingFacts, PTL
  <2>3. ScopesExclusive' BY DEF LeasedInv, StateLoadable
  <2> QED BY <2>1, <2>2, <2>3
<1>1. ASSUME NEW p \in Procs, Called(p) \/ Section(p) \/ Interrupt(p)
      PROVE  [Access!AccessNext]_Using
  <2>1. \A x \in Procs \ {p} : pc'[x] = pc[x] /\ call'[x] = call[x]
    BY <1>0, <1>1, OthersStay
  <2>2. CASE pc[p] = "body"
    <3>1. pc'[p] # "body"
      BY <1>0, <1>1, <2>2, BodySections DEF Called, Begin, Interrupt, Return, Goto, Control
    <3>2. call[p].res \in Resources /\ Working(p, call[p].res)
      BY <1>0, <2>2 DEF Control, LockDiscipline, Calls, Working
    <3>3. Access!Exit(call[p].res) BY <1>0, <2>1, <3>1, <3>2, UsingEnds
    <3> QED BY <3>2, <3>3 DEF Access!AccessNext, Resources
  <2>3. CASE pc[p] # "body" /\ pc'[p] = "body"
    <3>1. Section(p)
      BY <1>0, <1>1, <2>3 DEF Called, Begin, Interrupt, Return, Goto, FirstSection, Control
    <3>2. UNCHANGED <<owner, call, opLock>> BY <1>0, <2>3, <3>1, BodySections
    <3>3. call[p].res \in Resources /\ Working(p, call[p].res)'
      BY <1>0, <2>3, <3>2 DEF Control, LockDiscipline, Calls, Working
    <3>4. \E q \in Requesters : Access!Enter(call[p].res, q)
      BY <1>0, <2>1, <2>3, <3>2, <3>3, UsingStarts
    <3> QED BY <3>3, <3>4 DEF Access!AccessNext, Resources
  <2>4. CASE pc[p] # "body" /\ pc'[p] # "body"
    BY <1>0, <2>1, <2>4, UsingUnchanged
  <2> QED BY <2>2, <2>3, <2>4
<1>2. CASE (\E r \in Resources : Tick(r)) \/ UNCHANGED vars
  <2>1. UNCHANGED <<pc, call>> BY <1>2 DEF Tick, vars
  <2> QED BY <2>1 DEF Using
<1> QED BY <1>1, <1>2 DEF Next, QuietNext

\* Work on a machine and its services is exclusive, for every number of
\* processes, whatever expires, is recovered or dies on the way.
THEOREM LeasedImplementsAccess == Spec => ImplementsAccess
<1>1. Init => Access!AccessInit
  BY DEF Init, Access!AccessInit, Using, Resources
<1>2. LeasedInv /\ LeasedInv' /\ [Next]_vars => [Access!AccessNext]_Using
  BY StepIsAccess
<1> QED
  BY <1>1, <1>2, InitLeasedInv, StepKeepsLeasedInv, PTL
     DEF Spec, ImplementsAccess, Access!AccessSpec

(***************************************************************************)
(* The tasks (TaskRunner)                                                   *)
(***************************************************************************)

(***************************************************************************)
(* The inductive invariant                                                 *)
(***************************************************************************)
\* Nothing is known of a task's processes from the files alone; these are the
\* facts that connect them:
\*  - while start() runs nobody else kills or removes, and there is no worker
\*    before Spawn;
\*  - once start() returned, worker.pid is there as long as the worker lives,
\*    so cancel() and collect() really see the worker;
\*  - a client that writes a result has sent the kill or found the worker dead;
\*  - only a worker whose run_process() returned reports a completed task, and it
\*    returns after its SSH process.
Connected ==
    /\ starter \in {"idle", "state", "spawn"} => worker = "none"
    /\ starter \in {"pid", "send", "ack", "poll", "started"} => worker # "none"
    /\ starter = "started" => files.pid \/ ~ Alive
    /\ starter \in {"send", "ack", "poll"} => files.pid
    /\ starter = "remove" => dying \/ ~ Alive
    /\ starter # "started" => \A c \in Clients : client[c] = "idle"
    /\ \A c \in Clients : client[c] \in {"result", "state"} => dying \/ ~ Alive
    /\ starter \in {"idle", "state", "spawn"} => files.result = "none"
    /\ worker \in {"none", "boot", "payload", "running", "queue", "script"}
         => files.result # "completed"
    /\ worker \in {"completing", "completed"} => script = "over"

TaskInv ==
    TaskTypeOK /\ Connected /\ CompletedIsOver /\ CleanupAfterExit /\ FailedStartStops

\* Before start() there are no files and no processes.
LEMMA TaskInvInit == TaskInit => TaskInv
<1> SUFFICES ASSUME TaskInit PROVE TaskInv
  OBVIOUS
<1>1. TaskTypeOK BY DEF TaskInit, TaskTypeOK, NoFiles, Outcomes
<1>2. Connected /\ CleanupAfterExit BY DEF TaskInit, Connected, NoFiles, Alive, CleanupAfterExit
<1>3. CompletedIsOver /\ FailedStartStops
  BY DEF TaskInit, CompletedIsOver, FailedStartStops, NoFiles
<1> QED BY <1>1, <1>2, <1>3 DEF TaskInv

\* start() and the end of a failed start.
LEMMA StartKeepsTaskInv == TaskInv /\ Start => TaskInv'
<1> SUFFICES ASSUME TaskInv, Start PROVE TaskInv'
  OBVIOUS
<1> USE DEF TaskInv, Connected, CompletedIsOver, CleanupAfterExit, FailedStartStops,
            StartGoto, Alive
<1>1. CASE WriteSpec
  <2>1. TaskTypeOK' BY <1>1 DEF WriteSpec, TaskTypeOK, Outcomes
  <2> QED BY <1>1, <2>1 DEF WriteSpec, TaskTypeOK
<1>2. CASE WriteStarting
  <2>1. TaskTypeOK' BY <1>2 DEF WriteStarting, TaskTypeOK, Outcomes
  <2> QED BY <1>2, <2>1 DEF WriteStarting, TaskTypeOK
<1>3. CASE Spawn
  <2>1. TaskTypeOK' BY <1>3 DEF Spawn, TaskTypeOK, Outcomes
  <2> QED BY <1>3, <2>1 DEF Spawn, TaskTypeOK
<1>4. CASE WritePid
  <2>1. TaskTypeOK' BY <1>4 DEF WritePid, TaskTypeOK, Outcomes
  <2> QED BY <1>4, <2>1 DEF WritePid, TaskTypeOK
<1>5. CASE SendPayload
  <2>1. TaskTypeOK' BY <1>5 DEF SendPayload, TaskTypeOK, Outcomes
  <2> QED BY <1>5, <2>1 DEF SendPayload, TaskTypeOK
<1>6. CASE ReadAck
  <2>1. TaskTypeOK' BY <1>6 DEF ReadAck, TaskTypeOK, Outcomes
  <2> QED BY <1>6, <2>1 DEF ReadAck, TaskTypeOK
<1>7. CASE PollWorker
  <2>1. TaskTypeOK' BY <1>7 DEF PollWorker, TaskTypeOK, Outcomes
  <2> QED BY <1>7, <2>1 DEF PollWorker, TaskTypeOK
<1>8. CASE StartFails
  <2>1. TaskTypeOK' BY <1>8 DEF StartFails, TaskTypeOK, Outcomes
  <2> QED BY <1>8, <2>1 DEF StartFails, TaskTypeOK
<1>9. CASE KillFailedStart
  <2>1. TaskTypeOK' BY <1>9 DEF KillFailedStart, TaskTypeOK, Outcomes
  <2> QED BY <1>9, <2>1 DEF KillFailedStart, TaskTypeOK
<1>10. CASE RemoveFailedStart
  <2>1. TaskTypeOK' BY <1>10 DEF RemoveFailedStart, TaskTypeOK, Outcomes, NoFiles
  <2> QED BY <1>10, <2>1 DEF RemoveFailedStart, TaskTypeOK, NoFiles
<1>11. CASE StarterDies
  <2>1. TaskTypeOK' BY <1>11 DEF StarterDies, TaskTypeOK, Outcomes
  <2> QED BY <1>11, <2>1 DEF StarterDies, TaskTypeOK
<1> QED
  BY <1>1, <1>2, <1>3, <1>4, <1>5, <1>6, <1>7, <1>8, <1>9, <1>10, <1>11 DEF Start

\* run() in the worker, its death, and the end of the SSH process.
LEMMA WorkKeepsTaskInv == TaskInv /\ (Work \/ WorkerDies \/ SshEnds) => TaskInv'
<1> SUFFICES ASSUME TaskInv, Work \/ WorkerDies \/ SshEnds PROVE TaskInv'
  OBVIOUS
<1> USE DEF TaskInv, Connected, CompletedIsOver, CleanupAfterExit, FailedStartStops,
            WorkGoto, Alive
<1>1. CASE Boot
  <2>1. TaskTypeOK' BY <1>1 DEF Boot, TaskTypeOK, Outcomes
  <2> QED BY <1>1, <2>1 DEF Boot, TaskTypeOK
<1>2. CASE ReadPayload
  <2>1. TaskTypeOK' BY <1>2 DEF ReadPayload, TaskTypeOK, Outcomes
  <2> QED BY <1>2, <2>1 DEF ReadPayload, TaskTypeOK
<1>3. CASE WriteRunning
  <2>1. TaskTypeOK' BY <1>3 DEF WriteRunning, TaskTypeOK, Outcomes
  <2> QED BY <1>3, <2>1 DEF WriteRunning, TaskTypeOK
<1>4. CASE EnterQueue
  <2>1. TaskTypeOK' BY <1>4 DEF EnterQueue, TaskTypeOK, Outcomes
  <2> QED BY <1>4, <2>1 DEF EnterQueue, TaskTypeOK
<1>5. CASE ScriptReturns
  <2>1. TaskTypeOK' BY <1>5 DEF ScriptReturns, TaskTypeOK, Outcomes
  <2> QED BY <1>5, <2>1 DEF ScriptReturns, TaskTypeOK
<1>10. CASE ScriptRaises
  <2>1. TaskTypeOK' BY <1>10 DEF ScriptRaises, TaskTypeOK, Outcomes
  <2> QED BY <1>10, <2>1 DEF ScriptRaises, TaskTypeOK
<1>11. CASE SshEnds
  <2>1. TaskTypeOK' BY <1>11 DEF SshEnds, TaskTypeOK, Outcomes
  <2> QED BY <1>11, <2>1 DEF SshEnds, TaskTypeOK
<1>6. CASE WriteResult
  <2>1. TaskTypeOK' BY <1>6 DEF WriteResult, TaskTypeOK, Outcomes, Outcome
  <2> QED BY <1>6, <2>1 DEF WriteResult, TaskTypeOK, Outcome
<1>7. CASE WriteFinished
  <2>1. TaskTypeOK' BY <1>7 DEF WriteFinished, TaskTypeOK, Outcomes, Outcome
  <2> QED BY <1>7, <2>1 DEF WriteFinished, TaskTypeOK, Outcome
<1>9. CASE WriteFails
  <2>1. TaskTypeOK' BY <1>9 DEF WriteFails, TaskTypeOK, Outcomes
  <2> QED BY <1>9, <2>1 DEF WriteFails, TaskTypeOK
<1>8. CASE WorkerDies
  <2>1. TaskTypeOK' BY <1>8 DEF WorkerDies, TaskTypeOK, Outcomes
  <2> QED BY <1>8, <2>1 DEF WorkerDies, TaskTypeOK
<1> QED
  BY <1>1, <1>2, <1>3, <1>4, <1>5, <1>6, <1>7, <1>8, <1>9, <1>10, <1>11
     DEF Work

\* cancel(), collect() and the death of a client.
LEMMA ClientKeepsTaskInv ==
    ASSUME TaskInv, NEW c \in Clients, CancelTask(c) \/ Collect(c) \/ ClientDies(c)
    PROVE  TaskInv'
<1> USE DEF TaskInv, Connected, CompletedIsOver, CleanupAfterExit, FailedStartStops,
            ClientGoto, Alive
<1>1. CASE BeginCancel(c)
  <2>1. TaskTypeOK' BY <1>1 DEF BeginCancel, TaskTypeOK, Outcomes
  <2> QED BY <1>1, <2>1 DEF BeginCancel, TaskTypeOK
<1>2. CASE CancelKill(c)
  <2>1. TaskTypeOK' BY <1>2 DEF CancelKill, TaskTypeOK, Outcomes
  <2> QED BY <1>2, <2>1 DEF CancelKill, TaskTypeOK
<1>3. CASE CancelResult(c)
  <2>1. TaskTypeOK' BY <1>3 DEF CancelResult, TaskTypeOK, Outcomes
  <2> QED BY <1>3, <2>1 DEF CancelResult, TaskTypeOK
<1>4. CASE CancelState(c)
  <2>1. TaskTypeOK' BY <1>4 DEF CancelState, TaskTypeOK, Outcomes
  <2> QED BY <1>4, <2>1 DEF CancelState, TaskTypeOK
<1>5. CASE BeginCollect(c)
  <2>1. TaskTypeOK' BY <1>5 DEF BeginCollect, TaskTypeOK, Outcomes
  <2> QED BY <1>5, <2>1 DEF BeginCollect, TaskTypeOK
<1>6. CASE AwaitExit(c)
  <2>1. TaskTypeOK' BY <1>6 DEF AwaitExit, TaskTypeOK, Outcomes
  <2> QED BY <1>6, <2>1 DEF AwaitExit, TaskTypeOK
<1>7. CASE RemoveDirectory(c)
  <2>1. TaskTypeOK' BY <1>7 DEF RemoveDirectory, TaskTypeOK, Outcomes, NoFiles
  <2> QED BY <1>7, <2>1 DEF RemoveDirectory, TaskTypeOK, NoFiles
<1>8. CASE ClientDies(c)
  <2>1. TaskTypeOK' BY <1>8 DEF ClientDies, TaskTypeOK, Outcomes
  <2> QED BY <1>8, <2>1 DEF ClientDies, TaskTypeOK
<1> QED
  BY <1>1, <1>2, <1>3, <1>4, <1>5, <1>6, <1>7, <1>8 DEF CancelTask, Collect

\* For any number of clients, and wherever starter, worker and clients die: cleanup waits
\* for the worker, a task that is reported completed has no SSH process left, and a failed
\* start leaves no worker that goes on.
THEOREM TaskSafety ==
    TaskSpec => [](TaskTypeOK /\ CompletedIsOver /\ CleanupAfterExit /\ FailedStartStops)
<1>1. TaskInv /\ [TaskNext]_taskVars => TaskInv'
  <2> SUFFICES ASSUME TaskInv, [TaskNext]_taskVars PROVE TaskInv'
    OBVIOUS
  <2>1. CASE TaskNext
    BY <2>1, StartKeepsTaskInv, WorkKeepsTaskInv, ClientKeepsTaskInv DEF TaskNext
  <2>2. CASE UNCHANGED taskVars
    BY <2>2 DEF taskVars, TaskInv, TaskTypeOK, Connected, CompletedIsOver, CleanupAfterExit,
                FailedStartStops, Alive
  <2> QED BY <2>1, <2>2
<1>2. TaskInv => TaskTypeOK /\ CompletedIsOver /\ CleanupAfterExit /\ FailedStartStops
  BY DEF TaskInv
<1> QED BY <1>1, <1>2, TaskInvInit, PTL DEF TaskSpec

\* Whoever is about to remove the directory in collect() knows that the worker has exited,
\* for any number of clients and wherever they die.
THEOREM CleanupWaits == TaskSpec => []CleanupAfterExit
  BY TaskSafety, PTL

\* A start that failed (no acknowledgement, or an error on the way) leaves no worker that
\* goes on with run().
THEOREM FailedStartIsSafe == TaskSpec => []FailedStartStops
  BY TaskSafety, PTL
=============================================================================
