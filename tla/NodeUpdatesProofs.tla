-------------------------- MODULE NodeUpdatesProofs --------------------------
(***************************************************************************)
(* Facts about the steps that the marznode clients share, and about the    *)
(* last update of a user in a sequence of updates.                         *)
(***************************************************************************)
EXTENDS NodeUpdates, FiniteSetTheorems, TLAPS

(***************************************************************************)
(* Typing.                                                                 *)
(***************************************************************************)

LEMMA HeadTail ==
  ASSUME NEW S, NEW s \in Seq(S), s # <<>>
  PROVE  Head(s) \in S /\ Tail(s) \in Seq(S) /\ Len(Tail(s)) = Len(s) - 1
  OBVIOUS

LEMMA ChangeType ==
  ASSUME UpdatesTypeOK, NEW u \in Users, NEW c \in Contents, Change(u, c)
  PROVE  UpdatesTypeOK'
  <1>1. [user |-> u, inbounds |-> c] \in Update
    BY DEF Update
  <1> QED
    BY <1>1 DEF UpdatesTypeOK, Change

LEMMA PutType ==
  ASSUME UpdatesTypeOK, Put
  PROVE  UpdatesTypeOK'
  <1>1. Head(putting) \in Update /\ Tail(putting) \in Seq(Update)
    BY HeadTail DEF UpdatesTypeOK, Put
  <1>2. CASE HasRoom
    <2>1. queue' = Append(queue, Head(putting)) /\ waiting' = waiting
      BY <1>2 DEF Put
    <2>2. queue' \in Seq(Update) /\ Len(queue') = Len(queue) + 1
      BY <1>1, <2>1 DEF UpdatesTypeOK
    <2>3. Len(queue') <= QueueSize
      BY <1>2, <2>2, UpdatesAssumption DEF HasRoom, UpdatesTypeOK
    <2> QED
      BY <1>1, <2>1, <2>2, <2>3 DEF UpdatesTypeOK, Put
  <1>3. CASE ~HasRoom
    <2>1. waiting' = Append(waiting, Head(putting)) /\ queue' = queue
      BY <1>3 DEF Put
    <2>2. waiting' \in Seq(Update)
      BY <1>1, <2>1 DEF UpdatesTypeOK
    <2> QED
      BY <1>1, <2>1, <2>2 DEF UpdatesTypeOK, Put
  <1> QED
    BY <1>2, <1>3

\* get() hands over an update and keeps the three sequences well typed.
LEMMA GetType ==
  ASSUME UpdatesTypeOK, Get
  PROVE  /\ Head(queue) \in Update
         /\ queue' \in Seq(Update) /\ Len(queue') <= QueueSize
         /\ putting' \in Seq(Update)
         /\ waiting' \in Seq(Update)
  <1>1. /\ Head(queue) \in Update
        /\ queue' \in Seq(Update) /\ Len(queue') <= QueueSize
    <2>1. QueueSize \in Nat
      BY UpdatesAssumption
    <2> QED
      BY HeadTail, <2>1 DEF UpdatesTypeOK, Get
  <1>2. CASE waiting = <<>>
    BY <1>1, <1>2 DEF UpdatesTypeOK, Get, Wake
  <1>3. CASE waiting # <<>>
    <2>1. Head(waiting) \in Update /\ Tail(waiting) \in Seq(Update)
      BY <1>3, HeadTail DEF UpdatesTypeOK
    <2>2. putting' = Append(putting, Head(waiting)) /\ waiting' = Tail(waiting)
      BY <1>3 DEF Get, Wake
    <2> QED
      BY <1>1, <2>1, <2>2 DEF UpdatesTypeOK
  <1> QED
    BY <1>1, <1>2, <1>3

\* Moving a _sync to another step keeps it well typed.
LEMMA GotoType ==
  ASSUME sync \in [Callers -> Sync], NEW c \in Callers,
         NEW step \in SyncSteps, Goto(c, step)
  PROVE  sync' \in [Callers -> Sync]
  BY DEF Goto, Sync

LEMMA NobodyType == Nobody \in [Users -> Contents]
  BY UpdatesAssumption DEF Nobody

LEMMA SyncStepType ==
  ASSUME UpdatesTypeOK, NEW c \in Callers,
         \/ Fetched(c) \/ Repopulate(c) \/ Refuse(c)
         \/ RestartBackend \/ BackendRestarted \/ AdminSynced
  PROVE  UpdatesTypeOK'
  <1>0. "admin" \in Callers
    BY DEF Callers
  <1>1. CASE Fetched(c)
    BY <1>1 DEF UpdatesTypeOK, Fetched, Snapshot, Sync, SyncSteps, pipeline
  <1>2. CASE Repopulate(c)
    <2>1. sync' \in [Callers -> Sync]
      BY <1>2, GotoType DEF UpdatesTypeOK, Repopulate, SyncSteps
    <2>2. sync[c].users \in [Users -> Contents]
      BY DEF UpdatesTypeOK, Sync
    <2> QED
      BY <1>2, <2>1, <2>2 DEF UpdatesTypeOK, Repopulate, pipeline
  <1>3. CASE Refuse(c)
    <2>1. sync' \in [Callers -> Sync]
      BY <1>3, GotoType DEF UpdatesTypeOK, Refuse, SyncSteps
    <2> QED
      BY <1>3, <2>1 DEF UpdatesTypeOK, Refuse, pipeline
  <1>4. CASE RestartBackend
    <2>1. sync' \in [Callers -> Sync]
      BY <1>0, <1>4, GotoType DEF UpdatesTypeOK, RestartBackend, SyncSteps
    <2> QED
      BY <1>4, <2>1 DEF UpdatesTypeOK, RestartBackend, pipeline
  <1>5. CASE BackendRestarted
    <2>1. sync' \in [Callers -> Sync]
      BY <1>0, <1>5, GotoType DEF UpdatesTypeOK, BackendRestarted, SyncSteps
    <2>2. node' \in [Users -> Contents]
      BY <1>5, NobodyType DEF UpdatesTypeOK, BackendRestarted
    <2> QED
      BY <1>5, <2>1, <2>2 DEF UpdatesTypeOK, BackendRestarted, pipeline
  <1>6. CASE AdminSynced
    <2>1. sync' \in [Callers -> Sync]
      BY <1>0, <1>6, GotoType DEF UpdatesTypeOK, AdminSynced, SyncSteps
    <2> QED
      BY <1>6, <2>1 DEF UpdatesTypeOK, AdminSynced, pipeline
  <1> QED
    BY <1>1, <1>2, <1>3, <1>4, <1>5, <1>6

LEMMA InterruptedType ==
  ASSUME sync \in [Callers -> Sync], Interrupted
  PROVE  sync' \in [Callers -> Sync]
  BY DEF Interrupted, Sync, SyncSteps

LEMMA FreshType == Fresh \in Sync
  BY NobodyType DEF Fresh, Sync, SyncSteps

LEMMA ResetType ==
  ASSUME UpdatesTypeOK, UpdatesReset
  PROVE  UpdatesTypeOK'
  <1>1. putting' \in Seq(Update) /\ waiting' \in Seq(Update)
    BY DEF UpdatesReset
  <1>2. queue' \in Seq(Update) /\ Len(queue') <= QueueSize
    BY UpdatesAssumption DEF UpdatesReset
  <1>3. sync' \in [Callers -> Sync]
    BY FreshType DEF UpdatesReset
  <1> QED
    BY <1>1, <1>2, <1>3 DEF UpdatesTypeOK, UpdatesReset

LEMMA UpdatesInitType ==
  ASSUME WorldInit, UpdatesInit
  PROVE  UpdatesTypeOK
  <1>1. putting \in Seq(Update) /\ waiting \in Seq(Update)
    BY DEF UpdatesInit
  <1>2. queue \in Seq(Update) /\ Len(queue) <= QueueSize
    BY UpdatesAssumption DEF UpdatesInit
  <1>3. sync \in [Callers -> Sync]
    BY FreshType DEF UpdatesInit
  <1> QED
    BY <1>1, <1>2, <1>3 DEF UpdatesTypeOK, WorldInit, UpdatesInit

(***************************************************************************)
(* Updates of one user in a sequence of updates: whether there are any,    *)
(* whether all of them and whether the last of them have given contents.   *)
(***************************************************************************)

In(s, u) == \E i \in DOMAIN s : s[i].user = u

AllAre(s, u, c) == \A i \in DOMAIN s : s[i].user = u => s[i].inbounds = c

LastIs(s, u, c) ==
    \A i \in DOMAIN s :
        s[i].user = u /\ (\A j \in DOMAIN s : j > i => s[j].user # u)
            => s[i].inbounds = c

LEMMA Appended ==
  ASSUME NEW s \in Seq(Update), NEW e \in Update, NEW u, NEW c
  PROVE  /\ In(Append(s, e), u) <=> (In(s, u) \/ e.user = u)
         /\ AllAre(Append(s, e), u, c) <=>
              (AllAre(s, u, c) /\ (e.user = u => e.inbounds = c))
         /\ (IF e.user = u THEN e.inbounds = c ELSE LastIs(s, u, c))
              => LastIs(Append(s, e), u, c)
  <1> DEFINE t == Append(s, e)
             n == Len(s)
  <1>1. /\ n \in Nat /\ DOMAIN s = 1 .. n /\ DOMAIN t = 1 .. (n + 1)
        /\ \A i \in 1 .. n : t[i] = s[i]
        /\ t[n + 1] = e
    OBVIOUS
  <1> HIDE DEF t, n
  <1>2. In(t, u) <=> (In(s, u) \/ e.user = u)
    BY <1>1 DEF In
  <1>3. AllAre(t, u, c) <=> (AllAre(s, u, c) /\ (e.user = u => e.inbounds = c))
    BY <1>1 DEF AllAre
  <1>4. ASSUME IF e.user = u THEN e.inbounds = c ELSE LastIs(s, u, c)
        PROVE  LastIs(t, u, c)
    BY <1>1, <1>4 DEF LastIs
  <1> QED
    BY <1>2, <1>3, <1>4 DEF t

LEMMA Headed ==
  ASSUME NEW s \in Seq(Update), s # <<>>, NEW u, NEW c
  PROVE  /\ In(s, u) <=> (Head(s).user = u \/ In(Tail(s), u))
         /\ AllAre(s, u, c) <=>
              ((Head(s).user = u => Head(s).inbounds = c) /\ AllAre(Tail(s), u, c))
         /\ LastIs(s, u, c) =>
              /\ LastIs(Tail(s), u, c)
              /\ Head(s).user = u /\ ~In(Tail(s), u) => Head(s).inbounds = c
  <1> DEFINE t == Tail(s)
             n == Len(s)
             h == Head(s)
  <1>1. /\ n \in Nat /\ n > 0 /\ DOMAIN s = 1 .. n /\ DOMAIN t = 1 .. (n - 1)
        /\ \A i \in 1 .. (n - 1) : t[i] = s[i + 1]
        /\ h = s[1]
    OBVIOUS
  <1> HIDE DEF t, n, h
  \* Every element is the head or in the tail.
  <1>a. \A i \in 1 .. n : s[i] = h \/ (\E j \in 1 .. (n - 1) : i = j + 1 /\ s[i] = t[j])
    <2> SUFFICES ASSUME NEW i \in 1 .. n, i # 1
                 PROVE  \E j \in 1 .. (n - 1) : i = j + 1 /\ s[i] = t[j]
      BY <1>1
    <2>1. i - 1 \in 1 .. (n - 1) /\ i = (i - 1) + 1
      BY <1>1
    <2> QED
      BY <1>1, <2>1
  <1>b. 1 \in 1 .. n /\ \A j \in 1 .. (n - 1) : j + 1 \in 1 .. n
    BY <1>1
  <1>2. In(s, u) <=> (h.user = u \/ In(t, u))
    BY <1>1, <1>a, <1>b DEF In
  <1>3. AllAre(s, u, c) <=> ((h.user = u => h.inbounds = c) /\ AllAre(t, u, c))
    BY <1>1, <1>a, <1>b DEF AllAre
  <1>4. ASSUME LastIs(s, u, c)
        PROVE  LastIs(t, u, c)
    <2> SUFFICES ASSUME NEW i \in 1 .. (n - 1), t[i].user = u,
                        \A j \in 1 .. (n - 1) : j > i => t[j].user # u
                 PROVE  t[i].inbounds = c
      BY <1>1 DEF LastIs
    <2>1. ASSUME NEW k \in 1 .. n, k > i + 1
          PROVE  s[k].user # u
      <3>1. k - 1 \in 1 .. (n - 1) /\ k - 1 > i /\ k = (k - 1) + 1
        BY <1>1, <2>1
      <3> QED
        BY <1>1, <3>1
    <2>2. i + 1 \in 1 .. n /\ s[i + 1] = t[i]
      BY <1>1
    <2> QED
      BY <1>1, <1>4, <2>1, <2>2 DEF LastIs
  <1>5. ASSUME LastIs(s, u, c), h.user = u, ~In(t, u)
        PROVE  h.inbounds = c
    <2>1. ASSUME NEW k \in 1 .. n, k > 1
          PROVE  s[k].user # u
      <3>1. k - 1 \in 1 .. (n - 1) /\ k = (k - 1) + 1
        BY <1>1, <2>1
      <3> QED
        BY <1>1, <1>5, <3>1 DEF In
    <2> QED
      BY <1>1, <1>b, <1>5, <2>1 DEF LastIs
  <1> QED
    BY <1>2, <1>3, <1>4, <1>5 DEF t, h

LEMMA Single ==
  ASSUME NEW e \in Update, NEW u, NEW c
  PROVE  /\ In(<<e>>, u) <=> e.user = u
         /\ AllAre(<<e>>, u, c) <=> (e.user = u => e.inbounds = c)
  BY DEF In, AllAre

LEMMA Empty ==
  ASSUME NEW u, NEW c
  PROVE  ~In(<<>>, u) /\ AllAre(<<>>, u, c) /\ LastIs(<<>>, u, c)
  BY DEF In, AllAre, LastIs

\* Has the user an update that is not in the queue yet?
Pending(u) == In(putting, u) \/ In(waiting, u)

LEMMA NotPending ==
  ASSUME UpdatesTypeOK, NEW u \in Users, PendingOf(u) < 1
  PROVE  ~Pending(u)
  <1> DEFINE P == {i \in DOMAIN putting : putting[i].user = u}
             W == {i \in DOMAIN waiting : waiting[i].user = u}
  <1>1. Len(putting) \in Nat /\ DOMAIN putting = 1 .. Len(putting)
    BY DEF UpdatesTypeOK
  <1>2. Len(waiting) \in Nat /\ DOMAIN waiting = 1 .. Len(waiting)
    BY DEF UpdatesTypeOK
  <1>3. IsFiniteSet(P) /\ IsFiniteSet(W)
    <2>1. IsFiniteSet(1 .. Len(putting)) /\ IsFiniteSet(1 .. Len(waiting))
      BY <1>1, <1>2, FS_Interval
    <2>2. P \subseteq 1 .. Len(putting) /\ W \subseteq 1 .. Len(waiting)
      BY <1>1, <1>2
    <2> QED
      BY <2>1, <2>2, FS_Subset
  <1>4. Cardinality(P) \in Nat /\ Cardinality(W) \in Nat
    BY <1>3, FS_CardinalityType
  <1>5. Cardinality(P) + Cardinality(W) < 1
    BY DEF PendingOf
  <1>6. Cardinality(P) = 0 /\ Cardinality(W) = 0
    BY <1>4, <1>5
  <1>7. P = {} /\ W = {}
    BY <1>3, <1>6, FS_EmptySet
  <1> QED
    BY <1>7 DEF Pending, In

\* get() wakes a waiting put() without losing or adding an update.
LEMMA GetPending ==
  ASSUME UpdatesTypeOK, Get, NEW u, NEW c
  PROVE  /\ Pending(u)' <=> Pending(u)
         /\ AllAre(putting, u, c) /\ AllAre(waiting, u, c) =>
              AllAre(putting, u, c)' /\ AllAre(waiting, u, c)'
  <1>1. CASE waiting = <<>>
    BY <1>1 DEF Get, Wake, Pending
  <1>2. CASE waiting # <<>>
    <2>1. /\ putting' = Append(putting, Head(waiting))
          /\ waiting' = Tail(waiting)
      BY <1>2 DEF Get, Wake
    <2>2. Head(waiting) \in Update
      BY <1>2, HeadTail DEF UpdatesTypeOK
    <2>3. putting \in Seq(Update) /\ waiting \in Seq(Update)
      BY DEF UpdatesTypeOK
    <2>4. /\ In(putting', u) <=> (In(putting, u) \/ Head(waiting).user = u)
          /\ AllAre(putting', u, c) <=>
               (AllAre(putting, u, c) /\ (Head(waiting).user = u => Head(waiting).inbounds = c))
      BY <2>1, <2>2, <2>3, Appended
    <2>5. /\ In(waiting, u) <=> (Head(waiting).user = u \/ In(waiting', u))
          /\ AllAre(waiting, u, c) <=>
               ((Head(waiting).user = u => Head(waiting).inbounds = c) /\ AllAre(waiting', u, c))
      BY <1>2, <2>1, <2>3, Headed
    <2> QED
      BY <2>4, <2>5 DEF Pending
  <1> QED
    BY <1>1, <1>2

=============================================================================
