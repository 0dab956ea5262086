------------------------- MODULE BillingRefinement -------------------------
(***************************************************************************)
(* What holds in particular deployments.                                   *)
(*                                                                         *)
(* Where no two sessions can race on an unlocked read, Billing implements  *)
(* InvoiceLifecycle.  There are two such deployments: a single session     *)
(* (one event loop, no admin request on a thread), and any number of       *)
(* sessions that only use operations that lock the row they work on.       *)
(*                                                                         *)
(* Where there is one event loop, with any number of threads beside it, a  *)
(* webhook is recorded and tried once.                                     *)
(***************************************************************************)
EXTENDS BillingProofs

Unlocked == {"webhook", "poll", "reap", "cancel"}

RaceFree ==
    \/ \A a, b \in Sessions : a = b
    \/ Ops \cap Unlocked = {}

OpsUsed == \A s \in Sessions : sess[s].op \in Ops \cup {"idle", "reply"}

\* An unlocked read is current until the session's own commit.
Fresh ==
    \A s \in Sessions :
        sess[s].op \in Unlocked /\ sess[s].inv # NoInvoice
            => row[sess[s].inv] = sess[s].seen

\* A session may take on the record r: it is in use and what it says is true.
Sound(r) ==
    /\ r.op \in Ops \cup {"idle", "reply"}
    /\ r.op \in Unlocked /\ r.inv # NoInvoice => row'[r.inv] = r.seen

LEMMA IdleSound == Sound(Idle)
  BY DEF Sound, Idle, Unlocked

LEMMA ProceedSound ==
  ASSUME NEW todo, NEW op \in Ops
  PROVE  Sound(Proceed(todo, op))
  BY DEF Sound, Proceed, Idle, Unlocked, NoInvoice

\* What Claim gives a session.
Claimed(i, op, rest) ==
    [Idle EXCEPT !.op = op, !.todo = rest, !.inv = i, !.seen = row[i],
                 !.base = quota[owner[i]],
                 !.cart = IF planOf[i] \in enabled THEN "valid" ELSE "invalid"]

LEMMA SoundStep ==
  ASSUME RaceFree, TypeOK, OpsUsed, Fresh, NEW s \in Sessions, NEW r, Sound(r),
         sess' = [sess EXCEPT ![s] = r]
  PROVE  OpsUsed' /\ Fresh'
  <1> USE DEF TypeOK
  <1>1. \A x \in Sessions : sess'[x] = IF x = s THEN r ELSE sess[x]
    OBVIOUS
  <1>2. OpsUsed'
    BY <1>1 DEF Sound, OpsUsed
  <1>3. CASE \A a, b \in Sessions : a = b
    <2>1. \A x \in Sessions : sess'[x] = r
      BY <1>1, <1>3
    <2> QED
      BY <1>2, <2>1 DEF Sound, Fresh
  <1>4. CASE Ops \cap Unlocked = {}
    BY <1>2, <1>4 DEF OpsUsed, Fresh, Unlocked
  <1> QED
    BY <1>2, <1>3, <1>4 DEF RaceFree

\* A commit from an unlocked read that is current makes nothing stale.
LEMMA CommitFresh ==
  ASSUME Fresh, NEW s \in Sessions, sess[s].op \in Unlocked,
         sess[s].inv # NoInvoice, NEW to, NEW type, CommitUnlocked(s, to, type)
  PROVE  stale' = stale
  BY DEF Fresh, CommitUnlocked

LEMMA LoopStepFresh ==
  ASSUME RaceFree, TypeOK, OpsUsed, Fresh, NEW l \in Loops, LoopStep(l)
  PROVE  OpsUsed' /\ Fresh' /\ stale' = stale
  <1> USE DEF TypeOK
  <1>1. l \in Sessions /\ sess[l] \in Session
    BY DEF Sessions
  <1>2. ASSUME NEW i \in Invoices, Checkout(l, i)
        PROVE  OpsUsed' /\ Fresh' /\ stale' = stale
    <2>1. Sound(sess[l]) /\ sess' = [sess EXCEPT ![l] = sess[l]]
      BY <1>1, <1>2 DEF Checkout, IsIdle, Sound, Unlocked
    <2> QED
      BY <1>1, <1>2, <2>1, SoundStep DEF Checkout
  <1>3. ASSUME NEW i \in Invoices, NEW n \in Notices, WebhookRead(l, i, n)
        PROVE  OpsUsed' /\ Fresh' /\ stale' = stale
    <2> DEFINE rec == [Idle EXCEPT
                 !.op = IF IsReplay(i, n) THEN "reply" ELSE "webhook",
                 !.inv = i, !.seen = row[i], !.notice = {n}]
    <2>1. sess' = [sess EXCEPT ![l] = rec] /\ row' = row /\ stale' = stale
      BY <1>3 DEF WebhookRead, db
    <2>2. /\ rec.op = IF IsReplay(i, n) THEN "reply" ELSE "webhook"
          /\ rec.inv = i /\ rec.seen = row[i]
      BY DEF Idle
    <2>3. Sound(rec)
      BY <1>3, <2>1, <2>2 DEF Sound, WebhookRead, Unlocked
    <2> HIDE DEF rec
    <2> QED
      BY <1>1, <2>1, <2>3, SoundStep
  <1>4. CASE WebhookCommit(l) \/ WebhookConflict(l) \/ WebhookReply(l)
    <2>1. Sound([sess[l] EXCEPT !.op = "reply"])
      BY <1>1 DEF Sound, Session, Unlocked
    <2>2. \/ sess' = [sess EXCEPT ![l] = [sess[l] EXCEPT !.op = "reply"]]
          \/ sess' = [sess EXCEPT ![l] = Idle]
      BY <1>4 DEF WebhookCommit, WebhookConflict, WebhookReply
    <2>3. stale' = stale
      BY <1>1, <1>4, CommitFresh DEF WebhookCommit, WebhookConflict,
                                     WebhookReply, Holding, Unlocked
    <2> QED
      BY <1>1, <2>1, <2>2, <2>3, SoundStep, IdleSound
  <1>5. ASSUME NEW op \in {"reap", "poll"}, NEW batch \in SUBSET Awaiting,
               BeginSweep(l, op, batch)
        PROVE  OpsUsed' /\ Fresh' /\ stale' = stale
    <2> PICK i \in batch : sess' = [sess EXCEPT ![l] =
                  [Idle EXCEPT !.op = op, !.inv = i, !.todo = batch \ {i},
                               !.seen = "awaiting_payment"]]
      BY <1>5 DEF BeginSweep
    <2> DEFINE rec == [Idle EXCEPT !.op = op, !.inv = i, !.todo = batch \ {i},
                                   !.seen = "awaiting_payment"]
    <2>1. rec.op = op /\ rec.inv = i /\ rec.seen = "awaiting_payment"
      BY DEF Idle
    <2>2. row' = row /\ stale' = stale /\ op \in Ops
      BY <1>5 DEF BeginSweep, db
    <2>3. Sound(rec)
      BY <2>1, <2>2 DEF Sound, Awaiting
    <2>4. sess' = [sess EXCEPT ![l] = rec]
      OBVIOUS
    <2> HIDE DEF rec
    <2> QED
      BY <1>1, <2>2, <2>3, <2>4, SoundStep
  <1>6. CASE SweepNext(l)
    <2> PICK i \in sess[l].todo :
          sess' = [sess EXCEPT ![l].inv = i, ![l].todo = @ \ {i},
                               ![l].seen = row[i]]
      BY <1>6 DEF SweepNext
    <2> DEFINE rec == [sess[l] EXCEPT !.inv = i, !.todo = @ \ {i},
                                      !.seen = row[i]]
    <2>1. sess' = [sess EXCEPT ![l] = rec]
      BY <1>1
    <2>2. rec.op = sess[l].op /\ rec.inv = i /\ rec.seen = row[i]
      BY <1>1 DEF Session
    <2>3. row' = row /\ stale' = stale
      BY <1>6 DEF SweepNext, db
    <2>4. Sound(rec)
      BY <1>1, <2>2, <2>3 DEF Sound, OpsUsed
    <2> HIDE DEF rec
    <2> QED
      BY <1>1, <2>1, <2>3, <2>4, SoundStep
  <1>7. ASSUME NEW op \in {"reap", "poll"}, NEW to, NEW type,
               SweepCommit(l, op, to, type) \/ SweepSkip(l, op, to)
        PROVE  OpsUsed' /\ Fresh' /\ stale' = stale
    <2>1. sess' = [sess EXCEPT ![l] = Proceed(sess[l].todo, sess[l].op)]
      BY <1>7 DEF SweepCommit, SweepSkip
    <2>2. sess[l].op = op /\ sess[l].inv # NoInvoice
      BY <1>7 DEF SweepCommit, SweepSkip, Holding
    <2>3. op \in Ops
      BY <1>1, <2>2 DEF OpsUsed
    <2>4. stale' = stale
      BY <1>1, <1>7, <2>2, CommitFresh DEF SweepCommit, SweepSkip, Unlocked
    <2> QED
      BY <1>1, <2>1, <2>2, <2>3, <2>4, SoundStep, ProceedSound
  <1>8. CASE StartApply(l)
    <2>1. Sound([Idle EXCEPT !.op = "apply", !.todo = FirstBatch(Paid)])
      BY <1>8 DEF Sound, StartApply, Idle, Unlocked
    <2> QED
      BY <1>1, <1>8, <2>1, SoundStep DEF StartApply
  <1>9. ASSUME NEW i, Claim(l, i, "apply", sess[l].todo \ {i}),
               "apply" \in Ops
        PROVE  OpsUsed' /\ Fresh' /\ stale' = stale
    <2> DEFINE rec == Claimed(i, "apply", sess[l].todo \ {i})
    <2>1. sess' = [sess EXCEPT ![l] = rec]
      BY <1>9 DEF Claim, Claimed
    <2>2. rec.op = "apply"
      BY DEF Claimed, Idle
    <2>3. Sound(rec)
      BY <1>9, <2>2 DEF Sound, Unlocked
    <2> HIDE DEF rec
    <2> QED
      BY <1>1, <1>9, <2>1, <2>3, SoundStep DEF Claim
  <1>10. CASE ApplyClaim(l) \/ ApplyCommit(l) \/ ApplySkip(l)
    <2>1. sess[l].op = "apply" /\ "apply" \in Ops
      BY <1>1, <1>10 DEF ApplyClaim, ApplyCommit, ApplySkip, Holding, OpsUsed
    <2>2. \/ \E i : Claim(l, i, "apply", sess[l].todo \ {i})
          \/ /\ \E todo : sess' = [sess EXCEPT ![l] = Proceed(todo, "apply")]
             /\ stale' = stale
      BY <1>10, <2>1 DEF ApplyClaim, ApplyCommit, ApplySkip
    <2> QED
      BY <1>1, <1>9, <2>1, <2>2, SoundStep, ProceedSound
  <1>11. CASE StartReap(l) \/ StartPoll(l)
    <2>1. FirstBatch(Awaiting \cap overdue) \in SUBSET Awaiting
      BY DEF FirstBatch
    <2>2. (Awaiting \cap Trc20) \ overdue \subseteq Awaiting
      OBVIOUS
    <2> HIDE DEF TypeOK
    <2> QED
      BY <1>5, <1>11, <2>1, <2>2 DEF StartReap, StartPoll
  <1>12. CASE ReapCommit(l) \/ ReapSkip(l) \/ PollCommit(l) \/ PollSkip(l)
    BY <1>7, <1>12 DEF ReapCommit, ReapSkip, PollCommit, PollSkip
  <1> HIDE DEF TypeOK
  <1> QED
    BY <1>2, <1>3, <1>4, <1>6, <1>8, <1>10, <1>11, <1>12 DEF LoopStep


LEMMA ThreadStepFresh ==
  ASSUME RaceFree, TypeOK, OpsUsed, Fresh, NEW t \in Threads, ThreadStep(t)
  PROVE  OpsUsed' /\ Fresh' /\ stale' = stale
  <1> USE DEF TypeOK
  <1>1. t \in Sessions /\ sess[t] \in Session
    BY DEF Sessions
  <1>2. ASSUME NEW i \in Invoices, ManualClaim(t, i)
        PROVE  OpsUsed' /\ Fresh' /\ stale' = stale
    <2> DEFINE rec == Claimed(i, "manual", {})
    <2>1. sess' = [sess EXCEPT ![t] = rec]
      BY <1>2 DEF ManualClaim, Claim, Claimed
    <2>2. rec.op = "manual"
      BY DEF Claimed, Idle
    <2>3. Sound(rec)
      BY <1>2, <2>2 DEF ManualClaim, Sound, Unlocked
    <2> HIDE DEF rec
    <2> QED
      BY <1>1, <1>2, <2>1, <2>3, SoundStep DEF ManualClaim, Claim
  <1>3. ASSUME NEW i \in Invoices, CancelRead(t, i)
        PROVE  OpsUsed' /\ Fresh' /\ stale' = stale
    <2> DEFINE rec == [Idle EXCEPT !.op = "cancel", !.inv = i, !.seen = row[i]]
    <2>1. sess' = [sess EXCEPT ![t] = rec] /\ row' = row /\ stale' = stale
      BY <1>3 DEF CancelRead, db
    <2>2. rec.op = "cancel" /\ rec.inv = i /\ rec.seen = row[i]
      BY DEF Idle
    <2>3. Sound(rec)
      BY <1>3, <2>1, <2>2 DEF CancelRead, Sound
    <2> HIDE DEF rec
    <2> QED
      BY <1>1, <2>1, <2>3, SoundStep
  <1>4. CASE ManualCommit(t) \/ ManualPaidOnly(t) \/ CancelCommit(t)
    <2>1. sess' = [sess EXCEPT ![t] = Idle]
      BY <1>4 DEF ManualCommit, ManualPaidOnly, CancelCommit
    <2>2. stale' = stale
      BY <1>1, <1>4, CommitFresh DEF ManualCommit, ManualPaidOnly,
                                     CancelCommit, Holding, Unlocked
    <2> QED
      BY <1>1, <2>1, <2>2, SoundStep, IdleSound
  <1> QED
    BY <1>2, <1>3, <1>4 DEF ThreadStep

LEMMA NextFresh ==
  ASSUME RaceFree, TypeOK, OpsUsed, Fresh, [Next]_vars
  PROVE  OpsUsed' /\ Fresh' /\ stale' = stale
  <1>1. ASSUME NEW l \in Loops, Crash(l)
        PROVE  OpsUsed' /\ Fresh' /\ stale' = stale
    <2>1. /\ row' = row /\ stale' = stale
          /\ \A x \in Sessions : sess'[x] \in {Idle, sess[x]}
      BY <1>1 DEF Crash, db
    <2>2. Idle.op = "idle"
      BY DEF Idle
    <2> QED
      BY <2>1, <2>2 DEF OpsUsed, Fresh, Unlocked
  <1>2. CASE \E p \in Plans : UpdatePlan(p)
    BY <1>2 DEF UpdatePlan, db, OpsUsed, Fresh
  <1>3. CASE \E i \in Invoices : WindowElapses(i)
    BY <1>3 DEF WindowElapses, db, OpsUsed, Fresh
  <1>4. CASE UNCHANGED vars
    BY <1>4 DEF vars, db, OpsUsed, Fresh
  <1> QED
    BY <1>1, <1>2, <1>3, <1>4, LoopStepFresh, ThreadStepFresh DEF Next

-----------------------------------------------------------------------------
(***************************************************************************)
(* The stronger invariant, and the step simulation.                        *)
(***************************************************************************)

RInv == IInv /\ OpsUsed /\ Fresh /\ NoStaleWrite

LEMMA RaceFreeInvariance ==
  ASSUME RaceFree
  PROVE  Spec => []RInv
  <1>1. Init => RInv
    BY InvariantInit DEF Init, RInv, OpsUsed, Fresh, NoStaleWrite, Idle
  <1>2. RInv /\ [Next]_vars => RInv'
    BY InvariantStep, NextFresh DEF RInv, IInv, NoStaleWrite
  <1> QED
    BY <1>1, <1>2, PTL DEF Spec

\* Every commit follows the diagram and grants at most once.
LEMMA StepSimulation ==
  RInv /\ RInv' /\ [Next]_vars => [Lifecycle!Next]_<<row, granted>>
  <1> SUFFICES ASSUME RInv, RInv', [Next]_vars
               PROVE  [Lifecycle!Next]_<<row, granted>>
    OBVIOUS
  <1> USE DEF RInv, IInv, TypeOK
  <1>1. Effect
    BY NextEffect
  <1>2. stale' = {}
    BY DEF NoStaleWrite
  <1>3. CASE UNCHANGED <<row, granted, stale>>
    BY <1>3
  <1>4. ASSUME NEW i \in Invoices, Opens(i)
        PROVE  Lifecycle!Next
    BY <1>4 DEF Opens, Lifecycle!Next, Lifecycle!Open
  <1>5. ASSUME NEW i \in Invoices, Moves(i)
        PROVE  Lifecycle!Next
    <2> PICK from \in InvoiceState, to \in {"paid", "expired", "cancelled"} :
          /\ IsAllowedTransition(from, to)
          /\ row' = [row EXCEPT ![i] = to]
          /\ stale' = IF row[i] = from THEN stale ELSE stale \cup {i}
      BY <1>5 DEF Moves
    <2>1. row[i] = from
      BY <1>2
    <2>2. to \in InvoiceState \ {"applied"}
      BY DEF InvoiceState
    <2>3. Lifecycle!Settle(i)
      BY <1>5, <2>1, <2>2
      DEF Moves, Lifecycle!Settle, Lifecycle!Hops, IsAllowedTransition,
            ALLOWED_TRANSITIONS, Lifecycle!IsAllowedTransition,
            Lifecycle!ALLOWED_TRANSITIONS, InvoiceState, Lifecycle!InvoiceState
    <2> QED
      BY <2>3 DEF Lifecycle!Next
  <1>6. ASSUME NEW i \in Invoices, Grants(i)
        PROVE  Lifecycle!Next
    <2>1. Lifecycle!Hops(row[i], "applied")
      BY <1>6 DEF Grants, Lifecycle!Hops, Lifecycle!IsAllowedTransition,
                  Lifecycle!ALLOWED_TRANSITIONS, Lifecycle!InvoiceState
    <2>2. Lifecycle!Apply(i)
      BY <1>6, <2>1 DEF Grants, Lifecycle!Apply
    <2> QED
      BY <2>2 DEF Lifecycle!Next
  <1> QED
    BY <1>1, <1>3, <1>4, <1>5, <1>6 DEF Effect, Repeats

\* Where sessions cannot race, no commit is based on a stale read.
THEOREM RaceFreeWritesAreFresh ==
  ASSUME RaceFree
  PROVE  Spec => []NoStaleWrite
  <1>1. RInv => NoStaleWrite
    BY DEF RInv
  <1> QED
    BY <1>1, RaceFreeInvariance, PTL

\* Where sessions cannot race, jobs, webhooks, admins and crashes together
\* implement the abstract life cycle: legal hops, and one grant in the very
\* commit that makes the invoice applied.
THEOREM Implements ==
  ASSUME RaceFree
  PROVE  Spec => ImplementsLifecycle
  <1>1. Init => Lifecycle!Init
    BY DEF Init, Lifecycle!Init
  <1> QED
    BY <1>1, StepSimulation, RaceFreeInvariance, PTL
    DEF Spec, ImplementsLifecycle, Lifecycle!Spec

-----------------------------------------------------------------------------
(***************************************************************************)
(* One event loop: a trade number is recorded once and tried once.         *)
(***************************************************************************)

OneLoop == \A k, l \in Loops : k = l

\* The events of the webhook, and those that change the state.
Noted(events) == {k \in DOMAIN events : events[k].type = "webhook_epay"}
Tries(events) == {k \in Changes(events) : events[k].type = "webhook_epay"}

NotedOnce(i) ==
    /\ IsFiniteSet(received[i])
    /\ Cardinality(Noted(log[i])) = Cardinality(received[i])
    /\ \A j, k \in Tries(log[i]) : j = k
    /\ row[i] = "none" => received[i] = {}
    /\ row[i] \in {"none", "awaiting_payment"} => Tries(log[i]) = {}

\* What the webhook holds is new, and so is the transition it will try.
NoticeIsNew(l) ==
    LET i == sess[l].inv IN
    /\ \E n : sess[l].notice = {n} /\ n \notin received[i]
    /\ sess[l].seen = "awaiting_payment" => Tries(log[i]) = {}

DedupInv ==
    /\ \A i \in Invoices : NotedOnce(i)
    /\ \A l \in Loops : Holding(l, "webhook") => NoticeIsNew(l)

LEMMA AppendNoted ==
  ASSUME NEW s \in Seq(Event), NEW e \in Event
  PROVE  /\ IsFiniteSet(Noted(s)) /\ Len(s) + 1 \notin Noted(s)
         /\ Noted(Append(s, e)) = IF e.type = "webhook_epay"
                                  THEN Noted(s) \cup {Len(s) + 1}
                                  ELSE Noted(s)
         /\ Tries(Append(s, e)) = IF e.type = "webhook_epay" /\ e.from # e.to
                                  THEN Tries(s) \cup {Len(s) + 1}
                                  ELSE Tries(s)
  <1> DEFINE t == Append(s, e)
  <1>1. /\ DOMAIN s = 1 .. Len(s) /\ Len(s) \in Nat
        /\ DOMAIN t = 1 .. Len(s) + 1
        /\ t[Len(s) + 1] = e
        /\ \A k \in 1 .. Len(s) : t[k] = s[k]
    BY AppendedEvents
  <1>2. /\ Changes(s) \subseteq 1 .. Len(s)
        /\ Changes(t) = IF e.from = e.to THEN Changes(s)
                        ELSE Changes(s) \cup {Len(s) + 1}
    BY ChangesOfAppend
  <1> HIDE DEF t
  <1>3. Noted(s) \subseteq 1 .. Len(s) /\ Len(s) + 1 \notin 1 .. Len(s)
    BY <1>1 DEF Noted
  <1>4. IsFiniteSet(Noted(s))
    <2>1. IsFiniteSet(1 .. Len(s))
      BY <1>1, FS_Interval
    <2> QED
      BY <1>3, <2>1, FS_Subset
  <1>5. Noted(t) = IF e.type = "webhook_epay"
                   THEN Noted(s) \cup {Len(s) + 1} ELSE Noted(s)
    BY <1>1 DEF Noted
  <1>6. Tries(t) = IF e.type = "webhook_epay" /\ e.from # e.to
                   THEN Tries(s) \cup {Len(s) + 1} ELSE Tries(s)
    BY <1>1, <1>2 DEF Tries
  <1> QED
    BY <1>3, <1>4, <1>5, <1>6 DEF t

\* What a step does to an invoice's log and receipts, as far as webhooks go.
KeepsNotices(j) ==
    /\ Noted(log'[j]) = Noted(log[j]) /\ Tries(log'[j]) = Tries(log[j])
    /\ received'[j] = received[j]
    /\ row'[j] = row[j] \/ row'[j] \notin {"none", "awaiting_payment"}

StartsLog(j) ==
    /\ row[j] = "none" /\ row'[j] # "none"
    /\ Noted(log'[j]) = {} /\ Tries(log'[j]) = {}
    /\ received'[j] = received[j]

NotesOne(j, l) ==
    /\ Holding(l, "webhook") /\ sess[l].inv = j /\ sess'[l].op = "reply"
    /\ received'[j] = received[j] \cup sess[l].notice
    /\ \E n : n \notin Noted(log[j]) /\ Noted(log'[j]) = Noted(log[j]) \cup {n}
    /\ \/ row'[j] = row[j] /\ Tries(log'[j]) = Tries(log[j])
       \/ /\ row'[j] = "paid" /\ IsAllowedTransition(sess[l].seen, "paid")
          /\ \E n : Tries(log'[j]) = Tries(log[j]) \cup {n}

NoticeStep(j) ==
    KeepsNotices(j) \/ StartsLog(j) \/ \E l \in Loops : NotesOne(j, l)

LEMMA AppendedNotice ==
  ASSUME TypeOK, NEW j \in Invoices, NEW type \in EventType,
         NEW from \in InvoiceState,
         NEW to \in {"paid", "expired", "cancelled"},
         log' = [log EXCEPT ![j] = Append(@, Ev(type, from, to))],
         NotesReceipt(j, type, from, to),
         \/ from = to /\ row' = row
         \/ IsAllowedTransition(from, to) /\ row' = [row EXCEPT ![j] = to]
  PROVE  NoticeStep(j)
  <1> DEFINE e == Ev(type, from, to)
  <1>1. e \in Event /\ e.type = type /\ e.from = from /\ e.to = to
    BY DEF Ev, Event, InvoiceState
  <1>2. log[j] \in Seq(Event) /\ log'[j] = Append(log[j], e)
    BY DEF TypeOK
  <1> HIDE DEF e
  <1>3. /\ Len(log[j]) + 1 \notin Noted(log[j])
        /\ Noted(log'[j]) = IF type = "webhook_epay"
                            THEN Noted(log[j]) \cup {Len(log[j]) + 1}
                            ELSE Noted(log[j])
        /\ Tries(log'[j]) = IF type = "webhook_epay" /\ from # to
                            THEN Tries(log[j]) \cup {Len(log[j]) + 1}
                            ELSE Tries(log[j])
    <2> DEFINE s == log[j]
    <2>1. s \in Seq(Event) /\ log'[j] = Append(s, e)
      BY <1>2
    <2> HIDE DEF s
    <2>2. /\ Len(s) + 1 \notin Noted(s)
          /\ Noted(Append(s, e)) = IF e.type = "webhook_epay"
                                   THEN Noted(s) \cup {Len(s) + 1}
                                   ELSE Noted(s)
          /\ Tries(Append(s, e)) = IF e.type = "webhook_epay" /\ e.from # e.to
                                   THEN Tries(s) \cup {Len(s) + 1}
                                   ELSE Tries(s)
      BY <1>1, <2>1, AppendNoted, Zenon
    <2> QED
      BY <1>1, <2>1, <2>2 DEF s
  <1>4. row'[j] = IF from = to THEN row[j] ELSE to
    BY DEF TypeOK, IsAllowedTransition, ALLOWED_TRANSITIONS
  <1>5. CASE type # "webhook_epay"
    BY <1>3, <1>4, <1>5 DEF NoticeStep, KeepsNotices, NotesReceipt
  <1>6. CASE type = "webhook_epay"
    <2> PICK l \in Loops :
          /\ Holding(l, "webhook")
          /\ sess[l].inv = j /\ sess[l].seen = from
          /\ received' = [received EXCEPT ![j] = @ \cup sess[l].notice]
          /\ sess'[l].op = "reply"
      BY <1>6 DEF NotesReceipt
    <2>1. to = "paid"
      BY <1>6 DEF NotesReceipt
    <2>2. received'[j] = received[j] \cup sess[l].notice
      BY DEF TypeOK
    <2>3. from # to => IsAllowedTransition(from, "paid")
      BY <2>1
    <2>4. NotesOne(j, l)
      BY <1>3, <1>4, <1>6, <2>1, <2>2, <2>3 DEF NotesOne
    <2> QED
      BY <2>4 DEF NoticeStep
  <1> QED
    BY <1>5, <1>6

LEMMA EffectOnNotices ==
  ASSUME TypeOK, Effect, NEW j \in Invoices
  PROVE  NoticeStep(j)
  <1>1. CASE UNCHANGED <<log, received, row>>
    BY <1>1 DEF NoticeStep, KeepsNotices
  <1>2. ASSUME NEW i \in Invoices, i # j,
               Opens(i) \/ Repeats(i) \/ Moves(i) \/ Grants(i)
        PROVE  NoticeStep(j)
    <2>1. Opens(i) => UNCHANGED <<log[j], received[j], row[j]>>
      BY <1>2 DEF Opens, TypeOK
    <2>2. ASSUME NEW type, NEW from, NEW to, NotesReceipt(i, type, from, to)
          PROVE  received'[j] = received[j]
      BY <1>2, <2>2 DEF NotesReceipt, TypeOK
    <2>3. Repeats(i) => UNCHANGED <<log[j], received[j], row[j]>>
      BY <1>2, <2>2 DEF Repeats, TypeOK
    <2>4. Moves(i) => UNCHANGED <<log[j], received[j], row[j]>>
      BY <1>2, <2>2 DEF Moves, TypeOK
    <2>5. Grants(i) => UNCHANGED <<log[j], received[j], row[j]>>
      BY <1>2 DEF Grants, TypeOK
    <2> QED
      BY <1>2, <2>1, <2>3, <2>4, <2>5 DEF NoticeStep, KeepsNotices
  <1>3. CASE Opens(j)
    <2> PICK to \in {"awaiting_payment", "failed"},
             type \in EventType \ {"webhook_epay"} :
          /\ row' = [row EXCEPT ![j] = to]
          /\ log' = [log EXCEPT ![j] =
                <<Ev("invoice_created", "created", "pending"),
                  Ev(type, "pending", to)>>]
      BY <1>3 DEF Opens
    <2> DEFINE d == Ev("invoice_created", "created", "pending")
               e == Ev(type, "pending", to)
    <2>1. d.type # "webhook_epay" /\ e.type # "webhook_epay"
      BY DEF Ev
    <2>2. log' = [log EXCEPT ![j] = <<d, e>>]
      OBVIOUS
    <2> HIDE DEF d, e
    <2>3. log'[j] = <<d, e>> /\ row'[j] = to /\ received'[j] = received[j]
      BY <1>3, <2>2 DEF TypeOK, Opens
    <2> DEFINE t == <<d, e>>
    <2>4. DOMAIN t = 1 .. 2 /\ t[1] = d /\ t[2] = e
      OBVIOUS
    <2> HIDE DEF t
    <2>5. Noted(t) = {} /\ Tries(t) = {}
      BY <2>1, <2>4 DEF Noted, Tries, Changes
    <2>6. Noted(log'[j]) = {} /\ Tries(log'[j]) = {}
      BY <2>3, <2>5 DEF t
    <2> QED
      BY <1>3, <2>3, <2>6 DEF NoticeStep, StartsLog, Opens
  <1>4. CASE Repeats(j)
    BY <1>4, AppendedNotice DEF Repeats, InvoiceState
  <1>5. CASE Moves(j)
    BY <1>5, AppendedNotice DEF Moves
  <1>6. CASE Grants(j)
    <2>1. /\ AppliedEvent \in Event /\ OverrideEvent \in Event
          /\ AppliedEvent.type # "webhook_epay"
          /\ OverrideEvent.type # "webhook_epay"
      BY EventsType DEF AppliedEvent, OverrideEvent, Ev
    <2>2. /\ row'[j] = "applied" /\ log[j] \in Seq(Event)
          /\ received' = received
          /\ log'[j] = Append(IF row[j] = "paid" THEN log[j]
                              ELSE Append(log[j], OverrideEvent),
                              AppliedEvent)
      BY <1>6 DEF Grants, TypeOK
    <2>3. CASE row[j] = "paid"
      BY <2>1, <2>2, <2>3, AppendNoted DEF NoticeStep, KeepsNotices
    <2>4. CASE row[j] # "paid"
      <3> DEFINE s == Append(log[j], OverrideEvent)
      <3>1. /\ s \in Seq(Event)
            /\ Noted(s) = Noted(log[j]) /\ Tries(s) = Tries(log[j])
        BY <2>1, <2>2, AppendNoted, AppendProperties
      <3>2. log'[j] = Append(s, AppliedEvent)
        BY <2>2, <2>4
      <3> HIDE DEF s
      <3> QED
        BY <2>1, <2>2, <3>1, <3>2, AppendNoted DEF NoticeStep, KeepsNotices
    <2> QED
      BY <2>3, <2>4
  <1> QED
    BY <1>1, <1>2, <1>3, <1>4, <1>5, <1>6 DEF Effect

LEMMA NotedOnceStep ==
  ASSUME TypeOK, WebhookReadHolds, DedupInv, NEW j \in Invoices, NoticeStep(j)
  PROVE  NotedOnce(j)'
  <1>1. NotedOnce(j) /\ IsFiniteSet(Noted(log[j]))
    BY AppendNoted, EventsType DEF DedupInv, TypeOK
  <1>2. CASE KeepsNotices(j)
    BY <1>1, <1>2 DEF KeepsNotices, NotedOnce
  <1>3. CASE StartsLog(j)
    BY <1>1, <1>3, FS_EmptySet DEF StartsLog, NotedOnce
  <1>4. ASSUME NEW l \in Loops, NotesOne(j, l)
        PROVE  NotedOnce(j)'
    <2>1. NoticeIsNew(l) /\ l \in Sessions
      BY <1>4 DEF DedupInv, NotesOne, Sessions
    <2> PICK n : sess[l].notice = {n} /\ n \notin received[j]
      BY <1>4, <2>1 DEF NoticeIsNew, NotesOne
    <2> PICK k : k \notin Noted(log[j]) /\ Noted(log'[j]) = Noted(log[j]) \cup {k}
      BY <1>4 DEF NotesOne
    <2>2. received'[j] = received[j] \cup {n}
      BY <1>4 DEF NotesOne
    <2>3. /\ IsFiniteSet(received'[j])
          /\ Cardinality(Noted(log'[j])) = Cardinality(received'[j])
      <3>1. /\ IsFiniteSet(received[j]) /\ IsFiniteSet(Noted(log[j]))
            /\ Cardinality(Noted(log[j])) = Cardinality(received[j])
        BY <1>1 DEF NotedOnce
      <3>2. /\ IsFiniteSet(received[j] \cup {n})
            /\ Cardinality(received[j] \cup {n})
                  = Cardinality(received[j]) + 1
        BY <3>1, FS_AddElement
      <3>3. Cardinality(Noted(log[j]) \cup {k}) = Cardinality(Noted(log[j])) + 1
        BY <3>1, FS_AddElement
      <3> QED
        BY <2>2, <3>1, <3>2, <3>3
    <2>4. /\ row[j] # "none"
          /\ sess[l].seen \notin {"none", "created", "pending", "failed"}
      BY <1>4, <2>1 DEF WebhookReadHolds, NotesOne
    <2>5. CASE row'[j] = row[j] /\ Tries(log'[j]) = Tries(log[j])
      BY <1>1, <2>3, <2>4, <2>5 DEF NotedOnce
    <2>6. CASE /\ row'[j] = "paid" /\ IsAllowedTransition(sess[l].seen, "paid")
               /\ \E m : Tries(log'[j]) = Tries(log[j]) \cup {m}
      <3>1. sess[l].seen = "awaiting_payment"
        BY <2>4, <2>6 DEF IsAllowedTransition, ALLOWED_TRANSITIONS
      <3>2. Tries(log[j]) = {}
        BY <1>4, <2>1, <3>1 DEF NoticeIsNew, NotesOne
      <3> QED
        BY <2>3, <2>6, <3>2 DEF NotedOnce
    <2> QED
      BY <1>4, <2>5, <2>6 DEF NotesOne
  <1> QED
    BY <1>2, <1>3, <1>4 DEF NoticeStep

LEMMA NoticeIsNewStep ==
  ASSUME OneLoop, TypeOK, DedupInv, SessionsChange,
         \A j \in Invoices : NoticeStep(j),
         NEW l \in Loops, Holding(l, "webhook")'
  PROVE  NoticeIsNew(l)'
  <1>1. l \in Sessions /\ sess'[l].op = "webhook"
    BY DEF Sessions, Holding
  <1>2. CASE sess'[l] = sess[l]
    <2>1. Holding(l, "webhook") /\ NoticeIsNew(l)
      BY <1>2 DEF Holding, DedupInv
    <2> DEFINE j == sess[l].inv
    <2>2. j \in Invoices
      BY <1>1, <2>1, HoldersKnowTheirInvoice DEF Holding, TypeOK, Session
    <2>3. ~(\E k \in Loops : NotesOne(j, k))
      BY <1>1 DEF OneLoop, NotesOne
    <2>4. KeepsNotices(j) \/ StartsLog(j)
      BY <2>2, <2>3 DEF NoticeStep
    <2>5. received'[j] = received[j]
          /\ (Tries(log[j]) = {} => Tries(log'[j]) = {})
      BY <2>4 DEF KeepsNotices, StartsLog
    <2> QED
      BY <1>2, <2>1, <2>5 DEF NoticeIsNew
  <1>3. CASE ReadsNotice(l)
    <2> DEFINE j == sess'[l].inv
    <2>1. /\ j \in Invoices /\ sess'[l].seen = row[j]
          /\ \E n : sess'[l].notice = {n} /\ n \notin received[j]
          /\ received' = received /\ log' = log
      BY <1>1, <1>3 DEF ReadsNotice, db
    <2>2. row[j] = "awaiting_payment" => Tries(log[j]) = {}
      BY <2>1 DEF DedupInv, NotedOnce
    <2> QED
      BY <2>1, <2>2 DEF NoticeIsNew
  <1>4. CASE LetsGo(l) \/ TakesLock(l) \/ DecidesNotice(l)
    <2>1. sess[l] \in Session
      BY <1>1 DEF TypeOK
    <2> QED
      BY <1>1, <1>4, <2>1
      DEF LetsGo, TakesLock, DecidesNotice, Holding, Session
  <1> QED
    BY <1>1, <1>2, <1>3, <1>4 DEF SessionsChange, SessionChange

\* With one event loop, however many threads race with it, a redelivered
\* trade number is recorded once, and only the first delivery can move the
\* invoice to paid.
THEOREM WebhookIsDeduplicated ==
  ASSUME OneLoop
  PROVE  Spec => []WebhookDeduplicated
  <1>1. Init => DedupInv
    <2> SUFFICES ASSUME Init PROVE DedupInv
      OBVIOUS
    <2>1. \A i \in Invoices : row[i] = "none" /\ log[i] = <<>>
                              /\ received[i] = {}
      BY DEF Init
    <2>2. Noted(<<>>) = {} /\ Tries(<<>>) = {}
      <3>1. DOMAIN <<>> = {}
        OBVIOUS
      <3> QED
        BY <3>1 DEF Noted, Tries, Changes
    <2>3. \A i \in Invoices : NotedOnce(i)
      BY <2>1, <2>2, FS_EmptySet DEF NotedOnce
    <2>4. \A l \in Loops : ~Holding(l, "webhook")
      BY DEF Init, Sessions, Holding, Idle
    <2> QED
      BY <2>3, <2>4 DEF DedupInv
  <1>2. IInv /\ SettledInv /\ DedupInv /\ [Next]_vars => DedupInv'
    <2> SUFFICES ASSUME IInv, SettledInv, DedupInv, [Next]_vars
                 PROVE  DedupInv'
      OBVIOUS
    <2>1. TypeOK /\ WebhookReadHolds /\ SessionsChange
      BY NextMemory DEF IInv, SettledInv
    <2>2. \A j \in Invoices : NoticeStep(j)
      BY NextEffect, EffectOnNotices DEF IInv
    <2>3. \A j \in Invoices : NotedOnce(j)'
      BY <2>1, <2>2, NotedOnceStep
    <2>4. \A l \in Loops : Holding(l, "webhook")' => NoticeIsNew(l)'
      BY <2>1, <2>2, NoticeIsNewStep
    <2> QED
      BY <2>3, <2>4 DEF DedupInv
  <1>3. DedupInv => WebhookDeduplicated
    BY DEF DedupInv, NotedOnce, Noted, Tries, WebhookDeduplicated, Count
  <1> QED
    BY <1>1, <1>2, <1>3, SettledInvariance, PTL DEF Spec

=============================================================================
