--------------------------- MODULE BillingProofs ---------------------------
(***************************************************************************)
(* Theorems of Billing, for any invoices, users, processes, threads,       *)
(* operations and bounds.                                                  *)
(***************************************************************************)
EXTENDS BillingProperties, SequenceTheorems, FiniteSetTheorems, TLAPS

(***************************************************************************)
(* Typing.                                                                 *)
(***************************************************************************)

LEMMA IdleType == Idle \in Session
  BY DEF Idle, Session, AllOps

LEMMA ProceedType ==
  ASSUME NEW op \in AllOps \cup {"idle", "reply"}, NEW todo \in SUBSET Invoices
  PROVE  Proceed(todo, op) \in Session
  BY IdleType DEF Proceed, Idle, Session

LEMMA InitTyped == Init => TypeOK
  <1> SUFFICES ASSUME Init PROVE TypeOK
    OBVIOUS
  <1>1. \A i \in Invoices : <<>> \in Seq(Event)
    OBVIOUS
  <1> QED
    BY IdleType, <1>1, BillingAssumption DEF Init, TypeOK, Sessions

\* A state the transition helper accepts is a state of the diagram.
LEMMA AcceptsType ==
  ASSUME NEW from, NEW to \in InvoiceState, Accepts(from, to)
  PROVE  from \in InvoiceState
  BY DEF Accepts, IsAllowedTransition, ALLOWED_TRANSITIONS, InvoiceState

LEMMA OverrideEventsType ==
  ASSUME NEW from \in InvoiceState
  PROVE  OverrideEvents(from) \in Seq(Event)
  <1>1. CASE from = "created"
    BY <1>1 DEF OverrideEvents, OverridePath, Ev, Event, EventType, InvoiceState
  <1>2. CASE from \in {"pending", "awaiting_payment"}
    BY <1>2 DEF OverrideEvents, OverridePath, Ev, Event, EventType, InvoiceState
  <1>3. CASE from \notin {"created", "pending", "awaiting_payment"}
    BY <1>3 DEF OverrideEvents, OverridePath, Ev, Event, EventType, InvoiceState
  <1> QED
    BY <1>1, <1>2, <1>3

LEMMA CommitUnlockedType ==
  ASSUME TypeOK, NEW s \in Sessions, NEW to \in InvoiceState,
         NEW type \in EventType, sess[s].inv # NoInvoice,
         Accepts(sess[s].seen, to), CommitUnlocked(s, to, type)
  PROVE  /\ row' \in [Invoices -> InvoiceState \cup {"none"}]
         /\ log' \in [Invoices -> Seq(Event)]
         /\ stale' \subseteq Invoices
  <1> DEFINE i == sess[s].inv
  <1>1. i \in Invoices
    BY DEF TypeOK, Session
  <1>2. Ev(type, sess[s].seen, to) \in Event
    BY AcceptsType DEF Ev, Event
  <1>3. Append(log[i], Ev(type, sess[s].seen, to)) \in Seq(Event)
    BY <1>1, <1>2 DEF TypeOK
  <1> QED
    BY <1>1, <1>3 DEF TypeOK, CommitUnlocked, RowIsFree

LEMMA CommitGrantType ==
  ASSUME TypeOK, NEW s \in Sessions, NEW prefix \in Seq(Event),
         sess[s].inv # NoInvoice, CommitGrant(s, prefix)
  PROVE  /\ row' \in [Invoices -> InvoiceState \cup {"none"}]
         /\ log' \in [Invoices -> Seq(Event)]
         /\ granted' \in [Invoices -> Nat]
         /\ quota' \in [Users -> Nat]
  <1> DEFINE i == sess[s].inv
             e == Ev("state_applied", "paid", "applied")
  <1>1. i \in Invoices /\ owner[i] \in Users /\ sess[s].base \in Nat
    BY BillingAssumption DEF TypeOK, Session
  <1>2. e \in Event
    BY DEF Ev, Event, EventType, InvoiceState
  <1>3. log[i] \o Append(prefix, e) \in Seq(Event)
    BY <1>1, <1>2 DEF TypeOK
  <1> HIDE DEF e
  <1>4. log' = [log EXCEPT ![i] = log[i] \o Append(prefix, e)]
    BY DEF CommitGrant, e
  <1>5. log' \in [Invoices -> Seq(Event)]
    BY <1>1, <1>3, <1>4 DEF TypeOK
  <1> QED
    BY <1>1, <1>5 DEF TypeOK, CommitGrant, ApplyGrantToUser, InvoiceState

LEMMA ClaimType ==
  ASSUME TypeOK, NEW s \in Sessions, NEW i \in Invoices,
         NEW op \in AllOps, NEW rest \in SUBSET Invoices, Claim(s, i, op, rest)
  PROVE  TypeOK'
  <1>1. [Idle EXCEPT !.op = op, !.todo = rest, !.inv = i, !.seen = row[i],
                     !.base = quota[owner[i]],
                     !.cart = IF planOf[i] \in enabled
                              THEN "valid" ELSE "invalid"]
          \in Session
    BY IdleType, BillingAssumption DEF Session, Idle, TypeOK
  <1> QED
    BY <1>1 DEF Claim, RowIsFree, TypeOK, db, env

LEMMA SweepStepType ==
  ASSUME TypeOK, NEW l \in Loops, NEW op \in {"reap", "poll"},
         NEW to \in InvoiceState, NEW type \in EventType,
         SweepCommit(l, op, to, type) \/ SweepSkip(l, op, to)
  PROVE  TypeOK'
  <1>1. l \in Sessions /\ sess[l] \in Session
    BY DEF TypeOK, Sessions
  <1>2. Proceed(sess[l].todo, sess[l].op) \in Session
    BY <1>1, ProceedType DEF Session
  <1>3. CASE SweepCommit(l, op, to, type)
    <2>1. /\ row' \in [Invoices -> InvoiceState \cup {"none"}]
          /\ log' \in [Invoices -> Seq(Event)]
          /\ stale' \subseteq Invoices
      BY <1>1, <1>3, CommitUnlockedType DEF SweepCommit, Holding
    <2> QED
      BY <1>2, <1>3, <2>1 DEF SweepCommit, TypeOK, env
  <1>4. CASE SweepSkip(l, op, to)
    BY <1>2, <1>4 DEF SweepSkip, TypeOK, db, env
  <1> QED
    BY <1>3, <1>4

LEMMA BeginSweepType ==
  ASSUME TypeOK, NEW l \in Loops, NEW op \in {"reap", "poll"},
         NEW batch \in SUBSET Invoices, BeginSweep(l, op, batch)
  PROVE  TypeOK'
  <1> PICK i \in batch : sess' = [sess EXCEPT ![l] =
                [Idle EXCEPT !.op = op, !.inv = i, !.todo = batch \ {i},
                             !.seen = "awaiting_payment"]]
    BY DEF BeginSweep
  <1>1. [Idle EXCEPT !.op = op, !.inv = i, !.todo = batch \ {i},
                     !.seen = "awaiting_payment"] \in Session
    BY DEF Session, Idle, AllOps, InvoiceState
  <1> QED
    BY <1>1 DEF BeginSweep, TypeOK, db, env

LEMMA LoopStepTyped ==
  ASSUME TypeOK, NEW l \in Loops, LoopStep(l)
  PROVE  TypeOK'
  <1>1. l \in Sessions /\ sess[l] \in Session
    BY DEF TypeOK, Sessions
  <1>2. ASSUME NEW i \in Invoices, Checkout(l, i)
        PROVE  TypeOK'
    <2>1. PICK to \in {"awaiting_payment", "failed"} :
             /\ row' = [row EXCEPT ![i] = to]
             /\ log' = [log EXCEPT ![i] =
                  <<Ev("invoice_created", "created", "pending"),
                    Ev(IF to = "failed" THEN "provider_submit_failed"
                                        ELSE "provider_submit_succeeded",
                       "pending", to)>>]
      BY <1>2 DEF Checkout
    <2> DEFINE e1 == Ev("invoice_created", "created", "pending")
               e2 == Ev(IF to = "failed" THEN "provider_submit_failed"
                                         ELSE "provider_submit_succeeded",
                        "pending", to)
    <2>2. e1 \in Event /\ e2 \in Event
      BY DEF Ev, Event, EventType, InvoiceState
    <2>3. <<e1, e2>> \in Seq(Event)
      BY <2>2
    <2> HIDE DEF e1, e2
    <2>4. log' = [log EXCEPT ![i] = <<e1, e2>>]
      BY <2>1 DEF e1, e2
    <2> QED
      BY <1>2, <2>1, <2>3, <2>4 DEF Checkout, TypeOK, env, InvoiceState
  <1>3. ASSUME NEW i \in Invoices, NEW n \in Notices, WebhookRead(l, i, n)
        PROVE  TypeOK'
    <2>1. [Idle EXCEPT !.op = IF IsReplay(i, n) THEN "reply" ELSE "webhook",
                       !.inv = i, !.seen = row[i], !.notice = {n}] \in Session
      BY DEF Session, Idle, AllOps, TypeOK
    <2> QED
      BY <1>3, <2>1 DEF WebhookRead, TypeOK, db, env
  <1>4. CASE WebhookCommit(l)
    <2>1. /\ row' \in [Invoices -> InvoiceState \cup {"none"}]
          /\ log' \in [Invoices -> Seq(Event)]
          /\ stale' \subseteq Invoices
      BY <1>1, <1>4, CommitUnlockedType
      DEF WebhookCommit, Holding, EventType, InvoiceState
    <2>2. received' \in [Invoices -> SUBSET Notices]
      BY <1>1, <1>4 DEF WebhookCommit, RecordWebhookSeen, Session, TypeOK
    <2>3. sess' \in [Sessions -> Session]
      BY <1>1, <1>4 DEF WebhookCommit, RecordWebhookSeen, Session, TypeOK
    <2> QED
      BY <1>4, <2>1, <2>2, <2>3 DEF WebhookCommit, TypeOK, env
  <1>5. CASE WebhookConflict(l)
    BY <1>1, <1>5 DEF WebhookConflict, Session, TypeOK, db, env
  <1>6. CASE WebhookReply(l)
    BY <1>1, <1>6, IdleType
    DEF WebhookReply, Holding, Session, TypeOK, db
  <1>7. CASE StartReap(l)
    BY <1>7, BeginSweepType DEF StartReap, FirstBatch, Awaiting
  <1>8. CASE StartPoll(l)
    BY <1>8, BeginSweepType DEF StartPoll, Awaiting
  <1>9. CASE SweepNext(l)
    <2> PICK i \in sess[l].todo :
          sess' = [sess EXCEPT ![l].inv = i, ![l].todo = @ \ {i},
                               ![l].seen = row[i]]
      BY <1>9 DEF SweepNext
    <2>1. i \in Invoices /\ row[i] \in InvoiceState \cup {"none"}
      BY <1>1 DEF Session, TypeOK
    <2>2. sess' \in [Sessions -> Session]
      BY <1>1, <2>1 DEF TypeOK, Session
    <2> QED
      BY <1>9, <2>2 DEF SweepNext, TypeOK, db, env
  <1>10. CASE ReapCommit(l) \/ ReapSkip(l)
    BY <1>10, SweepStepType DEF ReapCommit, ReapSkip, EventType, InvoiceState
  <1>11. CASE PollCommit(l) \/ PollSkip(l)
    BY <1>11, SweepStepType DEF PollCommit, PollSkip, EventType, InvoiceState
  <1>12. CASE StartApply(l)
    <2>1. [Idle EXCEPT !.op = "apply", !.todo = FirstBatch(Paid)] \in Session
      BY DEF Session, Idle, AllOps, FirstBatch, Paid
    <2> QED
      BY <1>12, <2>1 DEF StartApply, TypeOK, db, env
  <1>13. CASE ApplyClaim(l)
    <2> PICK i \in sess[l].todo :
          \/ Claim(l, i, "apply", sess[l].todo \ {i})
          \/ /\ sess' = [sess EXCEPT ![l] = Proceed(sess[l].todo \ {i}, @.op)]
             /\ UNCHANGED <<db, env, lock, stale>>
      BY <1>13 DEF ApplyClaim
    <2>1. i \in Invoices /\ sess[l].todo \ {i} \subseteq Invoices
      BY <1>1 DEF Session
    <2>2. CASE Claim(l, i, "apply", sess[l].todo \ {i})
      BY <1>1, <2>1, <2>2, ClaimType DEF AllOps
    <2>3. CASE /\ sess' = [sess EXCEPT ![l] = Proceed(sess[l].todo \ {i}, @.op)]
               /\ UNCHANGED <<db, env, lock, stale>>
      <3>1. Proceed(sess[l].todo \ {i}, sess[l].op) \in Session
        BY <1>1, <2>1, ProceedType DEF Session
      <3> QED
        BY <2>3, <3>1 DEF TypeOK, db, env
    <2> QED
      BY <2>2, <2>3
  <1>14. CASE ApplyCommit(l)
    <2>1. /\ row' \in [Invoices -> InvoiceState \cup {"none"}]
          /\ log' \in [Invoices -> Seq(Event)]
          /\ granted' \in [Invoices -> Nat]
          /\ quota' \in [Users -> Nat]
      <3>1. <<>> \in Seq(Event)
        OBVIOUS
      <3> QED
        BY <1>1, <1>14, <3>1, CommitGrantType DEF ApplyCommit, Holding
    <2>2. Proceed(sess[l].todo, sess[l].op) \in Session
      BY <1>1, ProceedType DEF Session
    <2> QED
      BY <1>1, <1>14, <2>1, <2>2 DEF ApplyCommit, Release, TypeOK, env
  <1>15. CASE ApplySkip(l)
    <2>1. Proceed(sess[l].todo, sess[l].op) \in Session
      BY <1>1, ProceedType DEF Session
    <2> QED
      BY <1>1, <1>15, <2>1 DEF ApplySkip, Release, TypeOK, db, env
  <1> QED
    BY <1>2, <1>3, <1>4, <1>5, <1>6, <1>7, <1>8, <1>9, <1>10, <1>11, <1>12,
       <1>13, <1>14, <1>15 DEF LoopStep

(***************************************************************************)
(* What a session that was let into its critical section has seen.         *)
(***************************************************************************)
SeenOK ==
    \A s \in Sessions :
        /\ Holding(s, "apply") => sess[s].seen = "paid"
        /\ Holding(s, "manual") =>
               sess[s].seen \in InvoiceState \ TERMINAL_STATES
        /\ Holding(s, "cancel") =>
               IsAllowedTransition(sess[s].seen, "cancelled")

LEMMA ThreadStepTyped ==
  ASSUME TypeOK, SeenOK, NEW t \in Threads, ThreadStep(t)
  PROVE  TypeOK'
  <1>1. t \in Sessions /\ sess[t] \in Session
    BY DEF TypeOK, Sessions
  <1>2. ASSUME NEW i \in Invoices, ManualClaim(t, i)
        PROVE  TypeOK'
    BY <1>1, <1>2, ClaimType DEF ManualClaim, AllOps
  <1>3. ASSUME NEW i \in Invoices, CancelRead(t, i)
        PROVE  TypeOK'
    <2>1. [Idle EXCEPT !.op = "cancel", !.inv = i, !.seen = row[i]] \in Session
      BY DEF Session, Idle, AllOps, TypeOK
    <2> QED
      BY <1>3, <2>1 DEF CancelRead, TypeOK, db, env
  <1>5. CASE ManualCommit(t)
    <2>1. OverrideEvents(sess[t].seen) \in Seq(Event)
      BY <1>1, <1>5, OverrideEventsType DEF SeenOK, ManualCommit
    <2>2. /\ row' \in [Invoices -> InvoiceState \cup {"none"}]
          /\ log' \in [Invoices -> Seq(Event)]
          /\ granted' \in [Invoices -> Nat]
          /\ quota' \in [Users -> Nat]
      BY <1>1, <1>5, <2>1, CommitGrantType DEF ManualCommit, Holding
    <2> QED
      BY <1>1, <1>5, <2>2, IdleType DEF ManualCommit, Release, TypeOK, env
  <1>6. CASE ManualPaidOnly(t)
    <2> DEFINE i == sess[t].inv
               over == OverrideEvents(sess[t].seen)
    <2>1. over \in Seq(Event)
      BY <1>1, <1>6, OverrideEventsType DEF SeenOK, ManualPaidOnly
    <2>2. i \in Invoices
      BY <1>1, <1>6 DEF ManualPaidOnly, Holding, Session
    <2>3. log[i] \o over \in Seq(Event)
      BY <2>1, <2>2 DEF TypeOK
    <2>4. log' = [log EXCEPT ![i] = log[i] \o over]
      BY <1>6 DEF ManualPaidOnly
    <2> HIDE DEF over
    <2>5. log' \in [Invoices -> Seq(Event)]
      BY <2>3, <2>4 DEF TypeOK
    <2> QED
      BY <1>1, <1>6, <2>2, <2>5, IdleType
      DEF ManualPaidOnly, Release, TypeOK, env, InvoiceState
  <1>7. CASE CancelCommit(t)
    <2>1. Accepts(sess[t].seen, "cancelled")
      BY <1>1, <1>7 DEF SeenOK, CancelCommit, Accepts
    <2>2. /\ row' \in [Invoices -> InvoiceState \cup {"none"}]
          /\ log' \in [Invoices -> Seq(Event)]
          /\ stale' \subseteq Invoices
      BY <1>1, <1>7, <2>1, CommitUnlockedType
      DEF CancelCommit, Holding, EventType, InvoiceState
    <2> QED
      BY <1>7, <2>2, IdleType DEF CancelCommit, TypeOK, env
  <1> QED
    BY <1>2, <1>3, <1>5, <1>6, <1>7 DEF ThreadStep

LEMMA NextTyped ==
  ASSUME TypeOK, SeenOK, [Next]_vars
  PROVE  TypeOK'
  <1>1. ASSUME NEW l \in Loops, Crash(l)
        PROVE  TypeOK'
    BY <1>1, IdleType DEF Crash, TypeOK, db, Sessions
  <1>2. ASSUME NEW p \in Plans, UpdatePlan(p)
        PROVE  TypeOK'
    BY <1>2 DEF UpdatePlan, TypeOK, db
  <1>3. ASSUME NEW i \in Invoices, WindowElapses(i)
        PROVE  TypeOK'
    BY <1>3 DEF WindowElapses, TypeOK, db
  <1>4. CASE UNCHANGED vars
    BY <1>4 DEF vars, db, env, TypeOK
  <1> QED
    BY <1>1, <1>2, <1>3, <1>4, LoopStepTyped, ThreadStepTyped DEF Next

-----------------------------------------------------------------------------
(***************************************************************************)
(* The row locks.                                                          *)
(***************************************************************************)

\* A session record outside the critical sections SeenOK speaks of.
Outside(rec) ==
    rec.inv = NoInvoice \/ rec.op \notin {"apply", "manual", "cancel"}

LEMMA OutsideRecords ==
  /\ Outside(Idle)
  /\ \A todo, op : Outside(Proceed(todo, op))
  BY DEF Outside, Proceed, Idle

(***************************************************************************)
(* A session that ends up outside, and touched only rows nobody else has   *)
(* locked, leaves what the others read under their locks current.          *)
(***************************************************************************)
LEMMA LockStep ==
  ASSUME TypeOK, SeenOK, LockedReadIsCurrent, NEW s \in Sessions, NEW rec,
         sess' = [sess EXCEPT ![s] = rec],
         \/ Outside(rec)
         \/ rec.op = "cancel" /\ IsAllowedTransition(rec.seen, "cancelled"),
         \A i \in Invoices :
            lock[i] \in {Free, s} \/ (row'[i] = row[i] /\ lock'[i] = lock[i])
  PROVE  LockedReadIsCurrent' /\ SeenOK'
  <1> SUFFICES ASSUME NEW x \in Sessions
               PROVE  /\ (Holding(x, "apply") \/ Holding(x, "manual") =>
                            /\ lock[sess[x].inv] = x
                            /\ row[sess[x].inv] = sess[x].seen)'
                      /\ (Holding(x, "apply") => sess[x].seen = "paid")'
                      /\ (Holding(x, "manual") =>
                            sess[x].seen \in InvoiceState \ TERMINAL_STATES)'
                      /\ (Holding(x, "cancel") =>
                            IsAllowedTransition(sess[x].seen, "cancelled"))'
    BY DEF LockedReadIsCurrent, SeenOK
  <1>1. CASE x = s
    BY <1>1 DEF Holding, Outside, TypeOK
  <1>2. CASE x # s
    <2>1. sess'[x] = sess[x]
      BY <1>2 DEF TypeOK
    <2>2. Free # x
      BY BillingAssumption DEF Sessions
    <2>3. Holding(x, "apply") \/ Holding(x, "manual") =>
             sess[x].inv \in Invoices
      BY DEF Holding, TypeOK, Session
    <2> QED
      BY <1>2, <2>1, <2>2, <2>3 DEF Holding, LockedReadIsCurrent, SeenOK
  <1> QED
    BY <1>1, <1>2

LEMMA ClaimLocked ==
  ASSUME TypeOK, SeenOK, LockedReadIsCurrent, NEW s \in Sessions,
         NEW i \in Invoices, NEW op \in {"apply", "manual"}, NEW rest,
         Claim(s, i, op, rest),
         op = "apply" => row[i] = "paid",
         op = "manual" => row[i] \in InvoiceState \ TERMINAL_STATES
  PROVE  LockedReadIsCurrent' /\ SeenOK'
  <1> DEFINE rec == [Idle EXCEPT !.op = op, !.todo = rest, !.inv = i,
                                 !.seen = row[i], !.base = quota[owner[i]],
                                 !.cart = IF planOf[i] \in enabled
                                          THEN "valid" ELSE "invalid"]
  <1>1. rec.op = op /\ rec.inv = i /\ rec.seen = row[i]
    BY DEF Idle
  <1>2. sess' = [sess EXCEPT ![s] = rec]
    BY DEF Claim, RowIsFree
  <1>3. /\ row' = row /\ lock' = [lock EXCEPT ![i] = s]
        /\ lock[i] = Free
    BY DEF Claim, RowIsFree, db
  <1> HIDE DEF rec
  <1> SUFFICES ASSUME NEW x \in Sessions
               PROVE  /\ (Holding(x, "apply") \/ Holding(x, "manual") =>
                            /\ lock[sess[x].inv] = x
                            /\ row[sess[x].inv] = sess[x].seen)'
                      /\ (Holding(x, "apply") => sess[x].seen = "paid")'
                      /\ (Holding(x, "manual") =>
                            sess[x].seen \in InvoiceState \ TERMINAL_STATES)'
                      /\ (Holding(x, "cancel") =>
                            IsAllowedTransition(sess[x].seen, "cancelled"))'
    BY DEF LockedReadIsCurrent, SeenOK
  <1>4. CASE x = s
    BY <1>1, <1>2, <1>3, <1>4 DEF Holding, TypeOK
  <1>5. CASE x # s
    <2>1. sess'[x] = sess[x]
      BY <1>2, <1>5 DEF TypeOK
    <2>2. Free # x
      BY BillingAssumption DEF Sessions
    <2>3. Holding(x, "apply") \/ Holding(x, "manual") =>
             sess[x].inv \in Invoices
      BY DEF Holding, TypeOK, Session
    <2> QED
      BY <1>3, <1>5, <2>1, <2>2, <2>3
      DEF Holding, LockedReadIsCurrent, SeenOK, TypeOK
  <1> QED
    BY <1>4, <1>5

LEMMA LoopStepLocked ==
  ASSUME TypeOK, SeenOK, LockedReadIsCurrent, NEW l \in Loops, LoopStep(l)
  PROVE  LockedReadIsCurrent' /\ SeenOK'
  <1> USE DEF TypeOK
  <1>1. l \in Sessions /\ sess[l] \in Session
    BY DEF Sessions
  <1>2. ASSUME NEW i \in Invoices, Checkout(l, i)
        PROVE  LockedReadIsCurrent' /\ SeenOK'
    <2>1. sess' = sess /\ lock' = lock /\ \A j \in Invoices : row[j] # "none" => row'[j] = row[j]
      BY <1>2 DEF Checkout, Exists
    <2>2. \A x \in Sessions : Holding(x, "apply") \/ Holding(x, "manual") =>
             sess[x].inv \in Invoices /\ sess[x].seen # "none"
      BY DEF Holding, Session, SeenOK, InvoiceState
    <2> QED
      BY <2>1, <2>2 DEF Holding, LockedReadIsCurrent, SeenOK
  <1>3. ASSUME NEW i \in Invoices, NEW n \in Notices, WebhookRead(l, i, n)
        PROVE  LockedReadIsCurrent' /\ SeenOK'
    <2> DEFINE rec == [Idle EXCEPT
                 !.op = IF IsReplay(i, n) THEN "reply" ELSE "webhook",
                 !.inv = i, !.seen = row[i], !.notice = {n}]
    <2>1. Outside(rec)
      BY DEF Outside, Idle
    <2>2. sess' = [sess EXCEPT ![l] = rec] /\ row' = row /\ lock' = lock
      BY <1>3 DEF WebhookRead, db
    <2> QED
      BY <1>1, <2>1, <2>2, LockStep
  <1>4. CASE WebhookCommit(l) \/ WebhookConflict(l) \/ WebhookReply(l)
    <2>1. Outside([sess[l] EXCEPT !.op = "reply"])
      BY <1>1 DEF Outside, Session
    <2>2. \A j \in Invoices :
             lock[j] \in {Free, l} \/ (row'[j] = row[j] /\ lock'[j] = lock[j])
      BY <1>4 DEF WebhookCommit, WebhookConflict, WebhookReply,
                  CommitUnlocked, RowIsFree, db
    <2>3. \/ sess' = [sess EXCEPT ![l] = [sess[l] EXCEPT !.op = "reply"]]
          \/ sess' = [sess EXCEPT ![l] = Idle]
      BY <1>4 DEF WebhookCommit, WebhookConflict, WebhookReply
    <2> QED
      BY <1>1, <2>1, <2>2, <2>3, LockStep, OutsideRecords
  <1>5. ASSUME NEW op \in {"reap", "poll"}, NEW batch, BeginSweep(l, op, batch)
        PROVE  LockedReadIsCurrent' /\ SeenOK'
    <2> PICK i \in batch : sess' = [sess EXCEPT ![l] =
                  [Idle EXCEPT !.op = op, !.inv = i, !.todo = batch \ {i},
                               !.seen = "awaiting_payment"]]
      BY <1>5 DEF BeginSweep
    <2>1. Outside([Idle EXCEPT !.op = op, !.inv = i, !.todo = batch \ {i},
                               !.seen = "awaiting_payment"])
      BY DEF Outside, Idle
    <2>2. row' = row /\ lock' = lock
      BY <1>5 DEF BeginSweep, db
    <2> QED
      BY <1>1, <2>1, <2>2, LockStep
  <1>6. CASE SweepNext(l)
    <2> PICK i \in sess[l].todo :
          sess' = [sess EXCEPT ![l].inv = i, ![l].todo = @ \ {i},
                               ![l].seen = row[i]]
      BY <1>6 DEF SweepNext
    <2> DEFINE rec == [sess[l] EXCEPT !.inv = i, !.todo = @ \ {i},
                                      !.seen = row[i]]
    <2>1. sess' = [sess EXCEPT ![l] = rec]
      BY <1>1
    <2>2. Outside(rec)
      BY <1>1, <1>6 DEF Outside, SweepNext, Session
    <2>3. row' = row /\ lock' = lock
      BY <1>6 DEF SweepNext, db
    <2> HIDE DEF rec
    <2> QED
      BY <1>1, <2>1, <2>2, <2>3, LockStep
  <1>7. ASSUME NEW op \in {"reap", "poll"}, NEW to, NEW type,
               SweepCommit(l, op, to, type) \/ SweepSkip(l, op, to)
        PROVE  LockedReadIsCurrent' /\ SeenOK'
    <2>1. \A j \in Invoices :
             lock[j] \in {Free, l} \/ (row'[j] = row[j] /\ lock'[j] = lock[j])
      BY <1>7 DEF SweepCommit, SweepSkip, CommitUnlocked, RowIsFree, db
    <2>2. sess' = [sess EXCEPT ![l] = Proceed(sess[l].todo, sess[l].op)]
      BY <1>7 DEF SweepCommit, SweepSkip
    <2> QED
      BY <1>1, <2>1, <2>2, LockStep, OutsideRecords
  <1>8. CASE StartApply(l)
    <2>1. Outside([Idle EXCEPT !.op = "apply", !.todo = FirstBatch(Paid)])
      BY DEF Outside, Idle
    <2> QED
      BY <1>1, <1>8, <2>1, LockStep DEF StartApply, db
  <1>9. CASE ApplyClaim(l)
    <2> PICK i \in sess[l].todo :
          \/ row[i] = "paid" /\ Claim(l, i, "apply", sess[l].todo \ {i})
          \/ /\ sess' = [sess EXCEPT ![l] = Proceed(sess[l].todo \ {i}, @.op)]
             /\ UNCHANGED <<db, env, lock, stale>>
      BY <1>9 DEF ApplyClaim, StillPaid
    <2>1. i \in Invoices
      BY <1>1 DEF Session
    <2>2. CASE row[i] = "paid" /\ Claim(l, i, "apply", sess[l].todo \ {i})
      BY <1>1, <2>1, <2>2, ClaimLocked
    <2>3. CASE /\ sess' = [sess EXCEPT ![l] = Proceed(sess[l].todo \ {i}, @.op)]
               /\ UNCHANGED <<db, env, lock, stale>>
      BY <1>1, <2>3, LockStep, OutsideRecords DEF db
    <2> QED
      BY <2>2, <2>3
  <1>10. CASE ApplyCommit(l) \/ ApplySkip(l)
    <2>1. lock[sess[l].inv] = l
      BY <1>1, <1>10 DEF ApplyCommit, ApplySkip, LockedReadIsCurrent
    <2>2. \A j \in Invoices :
             lock[j] \in {Free, l} \/ (row'[j] = row[j] /\ lock'[j] = lock[j])
      BY <1>10, <2>1 DEF ApplyCommit, ApplySkip, CommitGrant, Release, db
    <2>3. sess' = [sess EXCEPT ![l] = Proceed(sess[l].todo, sess[l].op)]
      BY <1>10 DEF ApplyCommit, ApplySkip
    <2> QED
      BY <1>1, <2>2, <2>3, LockStep, OutsideRecords
  <1> QED
    BY <1>2, <1>3, <1>4, <1>5, <1>6, <1>7, <1>8, <1>9, <1>10
    DEF LoopStep, StartReap, StartPoll, ReapCommit, ReapSkip, PollCommit,
        PollSkip

LEMMA ThreadStepLocked ==
  ASSUME TypeOK, SeenOK, LockedReadIsCurrent, NEW t \in Threads, ThreadStep(t)
  PROVE  LockedReadIsCurrent' /\ SeenOK'
  <1> USE DEF TypeOK
  <1>1. t \in Sessions /\ sess[t] \in Session
    BY DEF Sessions
  <1>2. ASSUME NEW i \in Invoices, ManualClaim(t, i)
        PROVE  LockedReadIsCurrent' /\ SeenOK'
    BY <1>1, <1>2, ClaimLocked DEF ManualClaim, Exists
  <1>3. ASSUME NEW i \in Invoices, CancelRead(t, i)
        PROVE  LockedReadIsCurrent' /\ SeenOK'
    <2> DEFINE rec == [Idle EXCEPT !.op = "cancel", !.inv = i, !.seen = row[i]]
    <2>1. rec.op = "cancel" /\ IsAllowedTransition(rec.seen, "cancelled")
      BY <1>3 DEF CancelRead, Idle
    <2>2. sess' = [sess EXCEPT ![t] = rec] /\ row' = row /\ lock' = lock
      BY <1>3 DEF CancelRead, db
    <2> HIDE DEF rec
    <2> QED
      BY <1>1, <2>1, <2>2, LockStep
  <1>4. CASE ManualCommit(t) \/ ManualPaidOnly(t)
    <2>1. lock[sess[t].inv] = t
      BY <1>1, <1>4 DEF ManualCommit, ManualPaidOnly, LockedReadIsCurrent
    <2>2. \A j \in Invoices :
             lock[j] \in {Free, t} \/ (row'[j] = row[j] /\ lock'[j] = lock[j])
      BY <1>4, <2>1 DEF ManualCommit, ManualPaidOnly, CommitGrant, Release
    <2>3. sess' = [sess EXCEPT ![t] = Idle]
      BY <1>4 DEF ManualCommit, ManualPaidOnly
    <2> QED
      BY <1>1, <2>2, <2>3, LockStep, OutsideRecords
  <1>5. CASE CancelCommit(t)
    <2>1. \A j \in Invoices :
             lock[j] \in {Free, t} \/ (row'[j] = row[j] /\ lock'[j] = lock[j])
      BY <1>5 DEF CancelCommit, CommitUnlocked, RowIsFree
    <2>2. sess' = [sess EXCEPT ![t] = Idle]
      BY <1>5 DEF CancelCommit
    <2> QED
      BY <1>1, <2>1, <2>2, LockStep, OutsideRecords
  <1> QED
    BY <1>2, <1>3, <1>4, <1>5 DEF ThreadStep

LEMMA NextLocked ==
  ASSUME TypeOK, SeenOK, LockedReadIsCurrent, [Next]_vars
  PROVE  LockedReadIsCurrent' /\ SeenOK'
  <1>1. ASSUME NEW l \in Loops, Crash(l)
        PROVE  LockedReadIsCurrent' /\ SeenOK'
    <2>1. /\ row' = row
          /\ \A x \in Sessions : sess'[x] = IF x \in OfProcess(l) THEN Idle
                                            ELSE sess[x]
          /\ \A i \in Invoices : lock'[i] = IF lock[i] \in OfProcess(l)
                                            THEN Free ELSE lock[i]
      BY <1>1 DEF Crash, db
    <2>2. Idle.inv = NoInvoice
      BY DEF Idle
    <2>3. \A x \in Sessions : Holding(x, "apply") \/ Holding(x, "manual") =>
             sess[x].inv \in Invoices
      BY DEF Holding, TypeOK, Session
    <2> QED
      BY <2>1, <2>2, <2>3 DEF Holding, LockedReadIsCurrent, SeenOK
  <1>2. ASSUME NEW p \in Plans, UpdatePlan(p)
        PROVE  LockedReadIsCurrent' /\ SeenOK'
    BY <1>2 DEF UpdatePlan, db, Holding, LockedReadIsCurrent, SeenOK
  <1>3. ASSUME NEW i \in Invoices, WindowElapses(i)
        PROVE  LockedReadIsCurrent' /\ SeenOK'
    BY <1>3 DEF WindowElapses, db, Holding, LockedReadIsCurrent, SeenOK
  <1>4. CASE UNCHANGED vars
    BY <1>4 DEF vars, db, Holding, LockedReadIsCurrent, SeenOK
  <1> QED
    BY <1>1, <1>2, <1>3, <1>4, LoopStepLocked, ThreadStepLocked DEF Next

-----------------------------------------------------------------------------
(***************************************************************************)
(* What one step can do to the rows and the grants.                        *)
(***************************************************************************)

\* Checkout commits created and pending only together with what follows.
NoHalfOpenRow == \A i \in Invoices : row[i] \notin {"created", "pending"}

(***************************************************************************)
(* The webhook's event and the receipt of its trade number are one commit, *)
(* made by the session that read the row in state `from'.                  *)
(***************************************************************************)
NotesReceipt(i, type, from, to) ==
    IF type = "webhook_epay"
    THEN /\ to = "paid"
         /\ \E l \in Loops :
               /\ Holding(l, "webhook")
               /\ sess[l].inv = i /\ sess[l].seen = from
               /\ received' = [received EXCEPT ![i] = @ \cup sess[l].notice]
               /\ sess'[l].op = "reply"
    ELSE UNCHANGED received

AppliedEvent == Ev("state_applied", "paid", "applied")
OverrideEvent == Ev("admin_manual:to_paid", "awaiting_payment", "paid")

Opens(i) ==
    /\ row[i] = "none"
    /\ \E to \in {"awaiting_payment", "failed"},
          type \in EventType \ {"webhook_epay"} :
          /\ row' = [row EXCEPT ![i] = to]
          /\ log' = [log EXCEPT ![i] =
                <<Ev("invoice_created", "created", "pending"),
                  Ev(type, "pending", to)>>]
    /\ UNCHANGED <<received, granted, quota, stale>>

Repeats(i) ==
    /\ \E to \in {"paid", "expired", "cancelled"}, type \in EventType :
          /\ log' = [log EXCEPT ![i] = Append(@, Ev(type, to, to))]
          /\ NotesReceipt(i, type, to, to)
    /\ UNCHANGED <<row, granted, quota, stale>>

Moves(i) ==
    /\ \E from \in InvoiceState, to \in {"paid", "expired", "cancelled"},
          type \in EventType :
          /\ IsAllowedTransition(from, to)
          /\ row' = [row EXCEPT ![i] = to]
          /\ stale' = IF row[i] = from THEN stale ELSE stale \cup {i}
          /\ log' = [log EXCEPT ![i] = Append(@, Ev(type, from, to))]
          /\ NotesReceipt(i, type, from, to)
    /\ UNCHANGED <<granted, quota>>

Grants(i) ==
    /\ row[i] \in {"awaiting_payment", "paid"}
    /\ row' = [row EXCEPT ![i] = "applied"]
    /\ granted' = [granted EXCEPT ![i] = @ + 1]
    /\ \E s \in Sessions :
          /\ Holding(s, "apply") \/ Holding(s, "manual")
          /\ sess[s].inv = i
          /\ quota' = [quota EXCEPT ![owner[i]] = sess[s].base + 1]
    /\ log' = [log EXCEPT ![i] =
          Append(IF row[i] = "paid" THEN @ ELSE Append(@, OverrideEvent),
                 AppliedEvent)]
    /\ UNCHANGED <<received, stale>>

Effect ==
    \/ UNCHANGED <<row, log, received, granted, quota, stale>>
    \/ \E i \in Invoices : Opens(i) \/ Repeats(i) \/ Moves(i) \/ Grants(i)

LEMMA UnlockedEffect ==
  ASSUME TypeOK, NEW s \in Sessions, NEW to \in {"paid", "expired", "cancelled"},
         NEW type \in EventType, sess[s].inv # NoInvoice,
         Accepts(sess[s].seen, to), CommitUnlocked(s, to, type),
         NotesReceipt(sess[s].inv, type, sess[s].seen, to),
         UNCHANGED <<granted, quota>>
  PROVE  Effect
  <1>1. sess[s].inv \in Invoices
    BY DEF TypeOK, Session
  <1>2. sess[s].seen \in InvoiceState
    BY AcceptsType DEF InvoiceState
  <1>3. CASE sess[s].seen = to
    <2>1. Repeats(sess[s].inv)
      BY <1>3 DEF CommitUnlocked, Repeats
    <2> QED
      BY <1>1, <2>1 DEF Effect
  <1>4. CASE sess[s].seen # to
    <2>1. Moves(sess[s].inv)
      BY <1>1, <1>2, <1>4 DEF Moves, CommitUnlocked, Accepts
    <2> QED
      BY <1>1, <2>1 DEF Effect
  <1> QED
    BY <1>3, <1>4

LEMMA LockedEffect ==
  ASSUME TypeOK, SeenOK, LockedReadIsCurrent, NoHalfOpenRow,
         NEW s \in Sessions, Holding(s, "apply") \/ Holding(s, "manual")
  PROVE  /\ sess[s].inv \in Invoices
         /\ row[sess[s].inv] = sess[s].seen
         /\ sess[s].seen \in {"awaiting_payment", "paid"}
  <1>1. sess[s].inv \in Invoices
    BY DEF Holding, TypeOK, Session
  <1> QED
    BY <1>1 DEF SeenOK, LockedReadIsCurrent, NoHalfOpenRow, InvoiceState,
                TERMINAL_STATES

LEMMA EventsType == AppliedEvent \in Event /\ OverrideEvent \in Event
  BY DEF AppliedEvent, OverrideEvent, Ev, Event, EventType, InvoiceState

LEMMA LoopStepEffect ==
  ASSUME TypeOK, SeenOK, LockedReadIsCurrent, NoHalfOpenRow,
         NEW l \in Loops, LoopStep(l)
  PROVE  Effect
  <1>1. l \in Sessions
    BY DEF Sessions
  <1>2. ASSUME NEW i \in Invoices, Checkout(l, i)
        PROVE  Effect
    <2> PICK to \in {"awaiting_payment", "failed"} :
          /\ row' = [row EXCEPT ![i] = to]
          /\ log' = [log EXCEPT ![i] =
                <<Ev("invoice_created", "created", "pending"),
                  Ev(IF to = "failed" THEN "provider_submit_failed"
                                      ELSE "provider_submit_succeeded",
                     "pending", to)>>]
      BY <1>2 DEF Checkout
    <2>1. Opens(i)
      BY <1>2 DEF Checkout, Opens, Exists, EventType
    <2> QED
      BY <2>1 DEF Effect
  <1>3. CASE \E i \in Invoices, n \in Notices : WebhookRead(l, i, n)
    BY <1>3 DEF WebhookRead, db, Effect
  <1>4. CASE WebhookCommit(l)
    <2>1. NotesReceipt(sess[l].inv, "webhook_epay", sess[l].seen, "paid")
      BY <1>1, <1>4
      DEF WebhookCommit, RecordWebhookSeen, NotesReceipt, TypeOK, Session
    <2> QED
      BY <1>1, <1>4, <2>1, UnlockedEffect DEF WebhookCommit, Holding, EventType
  <1>5. CASE WebhookConflict(l) \/ WebhookReply(l)
    BY <1>5 DEF WebhookConflict, WebhookReply, db, Effect
  <1>6. CASE StartReap(l) \/ StartPoll(l) \/ SweepNext(l)
    BY <1>6 DEF StartReap, StartPoll, BeginSweep, SweepNext, db, Effect
  <1>7. CASE ReapCommit(l)
    BY <1>1, <1>7, UnlockedEffect
    DEF ReapCommit, SweepCommit, Holding, NotesReceipt, EventType
  <1>8. CASE PollCommit(l)
    BY <1>1, <1>8, UnlockedEffect
    DEF PollCommit, SweepCommit, Holding, NotesReceipt, EventType
  <1>9. CASE ReapSkip(l) \/ PollSkip(l)
    BY <1>9 DEF ReapSkip, PollSkip, SweepSkip, db, Effect
  <1>10. CASE StartApply(l)
    BY <1>10 DEF StartApply, db, Effect
  <1>11. CASE ApplyClaim(l)
    BY <1>11 DEF ApplyClaim, Claim, db, Effect
  <1>12. CASE ApplyCommit(l)
    <2>1. Grants(sess[l].inv)
      <3>1. log[sess[l].inv] \in Seq(Event)
        BY <1>1, <1>12, LockedEffect DEF ApplyCommit, TypeOK
      <3>2. log[sess[l].inv] \o Append(<<>>, AppliedEvent)
              = Append(log[sess[l].inv], AppliedEvent)
        BY <3>1, EventsType
      <3>3. sess[l].seen = "paid"
        BY <1>1, <1>12 DEF ApplyCommit, SeenOK
      <3> QED
        BY <1>1, <1>12, <3>2, <3>3, LockedEffect
        DEF ApplyCommit, CommitGrant, ApplyGrantToUser, Grants, AppliedEvent
    <2> QED
      BY <1>1, <1>12, <2>1, LockedEffect DEF ApplyCommit, Effect
  <1>13. CASE ApplySkip(l)
    BY <1>13 DEF ApplySkip, db, Effect
  <1> QED
    BY <1>2, <1>3, <1>4, <1>5, <1>6, <1>7, <1>8, <1>9, <1>10, <1>11, <1>12,
       <1>13 DEF LoopStep

LEMMA AppendToShort ==
  ASSUME NEW S, NEW d \in S, NEW e \in S
  PROVE  /\ Append(<<>>, d) = <<d>>
         /\ Append(<<d>>, e) = <<d, e>>
  <1>1. /\ <<d>> \in Seq(S) /\ <<d, e>> \in Seq(S) /\ <<>> \in Seq(S)
        /\ Len(<<d>>) = 1 /\ Len(<<d, e>>) = 2 /\ Len(<<>>) = 0
    OBVIOUS
  <1>2. /\ Append(<<>>, d) \in Seq(S) /\ Len(Append(<<>>, d)) = 1
        /\ \A k \in 1 .. 1 : Append(<<>>, d)[k] = d
    BY <1>1
  <1>3. /\ Append(<<d>>, e) \in Seq(S) /\ Len(Append(<<d>>, e)) = 2
        /\ \A k \in 1 .. 2 : Append(<<d>>, e)[k] = IF k = 2 THEN e ELSE <<d>>[k]
    BY <1>1
  <1>4. \A k \in 1 .. 1 : Append(<<>>, d)[k] = <<d>>[k]
    BY <1>2
  <1>5. \A k \in 1 .. 2 : Append(<<d>>, e)[k] = <<d, e>>[k]
    BY <1>3
  <1>6. Append(<<>>, d) = <<d>>
    BY <1>1, <1>2, <1>4, SeqEqual
  <1>7. Append(<<d>>, e) = <<d, e>>
    <2> DEFINE a == Append(<<d>>, e)
               b == <<d, e>>
    <2>1. a \in Seq(S) /\ b \in Seq(S) /\ Len(a) = Len(b)
          /\ \A k \in 1 .. Len(a) : a[k] = b[k]
      BY <1>1, <1>3, <1>5
    <2> HIDE DEF a, b
    <2>2. a = b
      BY <2>1, SeqEqual
    <2> QED
      BY <2>2 DEF a, b
  <1> QED
    BY <1>6, <1>7

LEMMA ConcatOneOrTwo ==
  ASSUME NEW S, NEW s \in Seq(S), NEW d \in S, NEW e \in S
  PROVE  /\ s \o <<d>> = Append(s, d)
         /\ s \o <<d, e>> = Append(Append(s, d), e)
  <1>1. <<d>> \in Seq(S) /\ <<d, e>> \in Seq(S)
    OBVIOUS
  <1>2. Len(s) \in Nat
    OBVIOUS
  <1>3. /\ Append(s, d) \in Seq(S) /\ Len(Append(s, d)) = Len(s) + 1
        /\ \A k \in 1 .. Len(s) + 1 :
              Append(s, d)[k] = IF k = Len(s) + 1 THEN d ELSE s[k]
    OBVIOUS
  <1>4. /\ Append(Append(s, d), e) \in Seq(S)
        /\ Len(Append(Append(s, d), e)) = Len(s) + 2
        /\ \A k \in 1 .. Len(s) + 2 :
              Append(Append(s, d), e)[k] = IF k = Len(s) + 2 THEN e
                                           ELSE Append(s, d)[k]
    BY <1>3
  <1>5. /\ s \o <<d>> \in Seq(S) /\ Len(s \o <<d>>) = Len(s) + 1
        /\ \A k \in 1 .. Len(s) + 1 :
              (s \o <<d>>)[k] = IF k <= Len(s) THEN s[k] ELSE <<d>>[k - Len(s)]
    BY <1>1, <1>2, ConcatProperties
  <1>6. /\ s \o <<d, e>> \in Seq(S) /\ Len(s \o <<d, e>>) = Len(s) + 2
        /\ \A k \in 1 .. Len(s) + 2 :
              (s \o <<d, e>>)[k] = IF k <= Len(s) THEN s[k]
                                   ELSE <<d, e>>[k - Len(s)]
    BY <1>1, <1>2, ConcatProperties
  <1>7. \A k \in 1 .. Len(s) + 1 : (s \o <<d>>)[k] = Append(s, d)[k]
    BY <1>2, <1>3, <1>5
  <1>8. \A k \in 1 .. Len(s) + 2 :
           (s \o <<d, e>>)[k] = Append(Append(s, d), e)[k]
    BY <1>2, <1>3, <1>4, <1>6
  <1> QED
    BY <1>3, <1>4, <1>5, <1>6, <1>7, <1>8, SeqEqual

LEMMA OverrideEventsValue ==
  /\ OverrideEvents("paid") = <<>>
  /\ OverrideEvents("awaiting_payment") = <<OverrideEvent>>
  BY DEF OverrideEvents, OverridePath, OverrideEvent

LEMMA ThreadStepEffect ==
  ASSUME TypeOK, SeenOK, LockedReadIsCurrent, NoHalfOpenRow,
         NEW t \in Threads, ThreadStep(t)
  PROVE  Effect
  <1>1. t \in Sessions
    BY DEF Sessions
  <1>2. CASE \E i \in Invoices : ManualClaim(t, i) \/ CancelRead(t, i)
    BY <1>2 DEF ManualClaim, Claim, CancelRead, db, Effect
  <1>3. CASE ManualCommit(t)
    <2> DEFINE i == sess[t].inv
    <2>1. i \in Invoices /\ row[i] = sess[t].seen
          /\ row[i] \in {"awaiting_payment", "paid"}
      BY <1>1, <1>3, LockedEffect DEF ManualCommit
    <2>2. /\ log[i] \o Append(<<>>, AppliedEvent) = Append(log[i], AppliedEvent)
          /\ log[i] \o Append(<<OverrideEvent>>, AppliedEvent)
                = Append(Append(log[i], OverrideEvent), AppliedEvent)
      <3>1. log[i] \in Seq(Event)
        BY <2>1 DEF TypeOK
      <3>2. /\ Append(<<>>, AppliedEvent) = <<AppliedEvent>>
            /\ Append(<<OverrideEvent>>, AppliedEvent)
                  = <<OverrideEvent, AppliedEvent>>
        BY EventsType, AppendToShort
      <3>3. log[i] \o <<AppliedEvent>> = Append(log[i], AppliedEvent)
        BY <3>1, EventsType, ConcatOneOrTwo
      <3>4. log[i] \o <<OverrideEvent, AppliedEvent>>
              = Append(Append(log[i], OverrideEvent), AppliedEvent)
        <4>1. \A s \in Seq(Event), d, e \in Event :
                 s \o <<d, e>> = Append(Append(s, d), e)
          BY ConcatOneOrTwo
        <4> QED
          BY <3>1, <4>1, EventsType
      <3> QED
        BY <3>2, <3>3, <3>4
    <2>3. log' = [log EXCEPT ![i] =
             @ \o Append(OverrideEvents(row[i]), AppliedEvent)]
      BY <1>3, <2>1 DEF ManualCommit, CommitGrant, AppliedEvent
    <2>4. log' = [log EXCEPT ![i] =
             Append(IF row[i] = "paid" THEN @ ELSE Append(@, OverrideEvent),
                    AppliedEvent)]
      BY <2>1, <2>2, <2>3, OverrideEventsValue
    <2>5. Grants(i)
      BY <1>1, <1>3, <2>1, <2>4
      DEF ManualCommit, CommitGrant, ApplyGrantToUser, Grants
    <2> QED
      BY <2>1, <2>5 DEF Effect
  <1>4. CASE ManualPaidOnly(t)
    <2> DEFINE i == sess[t].inv
    <2>1. i \in Invoices /\ row[i] = sess[t].seen
          /\ row[i] \in {"awaiting_payment", "paid"}
      BY <1>1, <1>4, LockedEffect DEF ManualPaidOnly
    <2>2. /\ row' = [row EXCEPT ![i] = "paid"]
          /\ log' = [log EXCEPT ![i] = @ \o OverrideEvents(row[i])]
          /\ UNCHANGED <<received, granted, quota, stale>>
      BY <1>4, <2>1 DEF ManualPaidOnly
    <2>3. log[i] \in Seq(Event)
      BY <2>1 DEF TypeOK
    <2>4. CASE row[i] = "paid"
      <3>1. log[i] \o OverrideEvents("paid") = log[i]
        BY <2>3, OverrideEventsValue
      <3> QED
        BY <2>1, <2>2, <2>4, <3>1 DEF Effect, TypeOK
    <2>5. CASE row[i] = "awaiting_payment"
      <3>1. log[i] \o OverrideEvents("awaiting_payment")
              = Append(log[i], OverrideEvent)
        BY <2>3, OverrideEventsValue, EventsType, ConcatOneOrTwo
      <3>2. log' = [log EXCEPT ![i] = Append(@, OverrideEvent)]
        BY <2>2, <2>5, <3>1
      <3>3. IsAllowedTransition("awaiting_payment", "paid")
        BY DEF IsAllowedTransition, ALLOWED_TRANSITIONS
      <3>4. NotesReceipt(i, "admin_manual:to_paid", "awaiting_payment",
                         "paid")
        BY <2>2 DEF NotesReceipt
      <3>5. Moves(i)
        BY <2>2, <2>5, <3>2, <3>3, <3>4
        DEF Moves, OverrideEvent, InvoiceState, EventType
      <3> QED
        BY <2>1, <3>5 DEF Effect
    <2> QED
      BY <2>1, <2>4, <2>5
  <1>5. CASE CancelCommit(t)
    <2>1. Accepts(sess[t].seen, "cancelled")
      BY <1>1, <1>5 DEF SeenOK, CancelCommit, Accepts
    <2> QED
      BY <1>1, <1>5, <2>1, UnlockedEffect
      DEF CancelCommit, Holding, NotesReceipt, EventType
  <1> QED
    BY <1>2, <1>3, <1>4, <1>5 DEF ThreadStep

LEMMA NextEffect ==
  ASSUME TypeOK, SeenOK, LockedReadIsCurrent, NoHalfOpenRow, [Next]_vars
  PROVE  Effect
  <1>1. CASE \E l \in Loops : Crash(l)
    BY <1>1 DEF Crash, db, Effect
  <1>2. CASE \E p \in Plans : UpdatePlan(p)
    BY <1>2 DEF UpdatePlan, db, Effect
  <1>3. CASE \E i \in Invoices : WindowElapses(i)
    BY <1>3 DEF WindowElapses, db, Effect
  <1>4. CASE UNCHANGED vars
    BY <1>4 DEF vars, db, Effect
  <1> QED
    BY <1>1, <1>2, <1>3, <1>4, LoopStepEffect, ThreadStepEffect DEF Next

-----------------------------------------------------------------------------
(***************************************************************************)
(* The inductive invariant and the safety theorems.                        *)
(***************************************************************************)

IInv == TypeOK /\ SeenOK /\ LockedReadIsCurrent /\ NoHalfOpenRow /\ GrantedOnce

LEMMA GrantedOnceStep ==
  ASSUME TypeOK, GrantedOnce, Effect
  PROVE  GrantedOnce'
  <1> USE DEF TypeOK
  <1> SUFFICES ASSUME NEW j \in Invoices, j \notin stale'
               PROVE  granted'[j] = IF row'[j] = "applied" THEN 1 ELSE 0
    BY DEF GrantedOnce, Trustworthy
  <1>1. CASE UNCHANGED <<row, granted, stale>>
    BY <1>1 DEF GrantedOnce, Trustworthy
  <1>2. ASSUME NEW i \in Invoices, Opens(i)
        PROVE  granted'[j] = IF row'[j] = "applied" THEN 1 ELSE 0
    BY <1>2 DEF Opens, GrantedOnce, Trustworthy
  <1>3. ASSUME NEW i \in Invoices, Moves(i)
        PROVE  granted'[j] = IF row'[j] = "applied" THEN 1 ELSE 0
    <2> PICK from \in InvoiceState, to \in {"paid", "expired", "cancelled"} :
          /\ IsAllowedTransition(from, to)
          /\ row' = [row EXCEPT ![i] = to]
          /\ stale' = IF row[i] = from THEN stale ELSE stale \cup {i}
      BY <1>3 DEF Moves
    <2>1. from # "applied"
      BY DEF IsAllowedTransition, ALLOWED_TRANSITIONS
    <2>2. j \notin stale /\ (j = i => row[i] = from)
      OBVIOUS
    <2> QED
      BY <1>3, <2>1, <2>2 DEF Moves, GrantedOnce, Trustworthy
  <1>4. ASSUME NEW i \in Invoices, Grants(i)
        PROVE  granted'[j] = IF row'[j] = "applied" THEN 1 ELSE 0
    BY <1>4 DEF Grants, GrantedOnce, Trustworthy
  <1> QED
    BY <1>1, <1>2, <1>3, <1>4 DEF Effect, Repeats

LEMMA NoHalfOpenRowStep ==
  ASSUME TypeOK, NoHalfOpenRow, Effect
  PROVE  NoHalfOpenRow'
  BY DEF TypeOK, NoHalfOpenRow, Effect, Opens, Repeats, Moves, Grants

LEMMA InvariantInit == Init => IInv
  <1> SUFFICES ASSUME Init PROVE IInv
    OBVIOUS
  <1>1. TypeOK
    BY InitTyped
  <1>2. SeenOK /\ LockedReadIsCurrent
    BY DEF Init, SeenOK, LockedReadIsCurrent, Holding, Idle
  <1>3. NoHalfOpenRow /\ GrantedOnce
    BY DEF Init, NoHalfOpenRow, GrantedOnce, Trustworthy
  <1> QED
    BY <1>1, <1>2, <1>3 DEF IInv

LEMMA InvariantStep == IInv /\ [Next]_vars => IInv'
  <1> SUFFICES ASSUME IInv, [Next]_vars PROVE IInv'
    OBVIOUS
  <1>1. TypeOK'
    BY NextTyped DEF IInv
  <1>2. LockedReadIsCurrent' /\ SeenOK'
    BY NextLocked DEF IInv
  <1>3. Effect
    BY NextEffect DEF IInv
  <1>4. GrantedOnce' /\ NoHalfOpenRow'
    BY <1>3, GrantedOnceStep, NoHalfOpenRowStep DEF IInv
  <1> QED
    BY <1>1, <1>2, <1>4 DEF IInv

LEMMA Invariance == Spec => []IInv
  BY InvariantInit, InvariantStep, PTL DEF Spec

\* Every variable keeps its type.
THEOREM TypeCorrect == Spec => []TypeOK
  <1>1. IInv => TypeOK
    BY DEF IInv
  <1> QED
    BY <1>1, Invariance, PTL

\* Reads under the row lock stay current until the commit, with any number
\* of panel processes, admin requests and crashes.
THEOREM LockedReads == Spec => []LockedReadIsCurrent
  <1>1. IInv => LockedReadIsCurrent
    BY DEF IInv
  <1> QED
    BY <1>1, Invariance, PTL

\* No grant is made twice, and none is missing from an applied invoice, as
\* long as no stale read overwrote the invoice.
THEOREM GrantsAreMadeOnce == Spec => []GrantedOnce
  <1>1. IInv => GrantedOnce
    BY DEF IInv
  <1> QED
    BY <1>1, Invariance, PTL

LEMMA LifecycleSteps ==
  ASSUME TypeOK, Effect
  PROVE  \A i \in Invoices \ stale' : LifecycleStep(i)
  <1> USE DEF TypeOK
  <1> SUFFICES ASSUME NEW j \in Invoices, j \notin stale' PROVE LifecycleStep(j)
    OBVIOUS
  <1>1. CASE row'[j] = row[j] /\ granted'[j] = granted[j]
    BY <1>1 DEF LifecycleStep
  <1>2. ASSUME NEW i \in Invoices, Opens(i)
        PROVE  LifecycleStep(j)
    BY <1>2 DEF Opens, LifecycleStep
  <1>3. ASSUME NEW i \in Invoices, Repeats(i)
        PROVE  LifecycleStep(j)
    BY <1>3 DEF Repeats, LifecycleStep
  <1>4. ASSUME NEW i \in Invoices, Moves(i)
        PROVE  LifecycleStep(j)
    <2> PICK from \in InvoiceState, to \in {"paid", "expired", "cancelled"} :
          /\ IsAllowedTransition(from, to)
          /\ row' = [row EXCEPT ![i] = to]
          /\ stale' = IF row[i] = from THEN stale ELSE stale \cup {i}
          /\ granted' = granted
      BY <1>4 DEF Moves
    <2>1. CASE j # i
      BY <1>1, <2>1
    <2>2. CASE j = i
      <3>1. row[j] = from /\ row'[j] = to /\ granted'[j] = granted[j]
        BY <2>2
      <3>2. Lifecycle!Hops(from, to)
        BY DEF Lifecycle!Hops, IsAllowedTransition, ALLOWED_TRANSITIONS,
               Lifecycle!IsAllowedTransition, Lifecycle!ALLOWED_TRANSITIONS
      <3> QED
        BY <3>1, <3>2 DEF LifecycleStep
    <2> QED
      BY <2>1, <2>2
  <1>5. ASSUME NEW i \in Invoices, Grants(i)
        PROVE  LifecycleStep(j)
    <2>1. CASE j # i
      BY <1>1, <1>5, <2>1 DEF Grants
    <2>2. CASE j = i
      <3>1. /\ row[j] \in {"awaiting_payment", "paid"}
            /\ row'[j] = "applied" /\ granted'[j] = granted[j] + 1
        BY <1>5, <2>2 DEF Grants
      <3>2. Lifecycle!Hops(row[j], "applied")
        BY <3>1 DEF Lifecycle!Hops, Lifecycle!IsAllowedTransition,
                    Lifecycle!ALLOWED_TRANSITIONS, Lifecycle!InvoiceState
      <3> QED
        BY <3>1, <3>2 DEF LifecycleStep
    <2> QED
      BY <2>1, <2>2
  <1>6. CASE UNCHANGED <<row, granted>>
    BY <1>1, <1>6
  <1> QED
    BY <1>2, <1>3, <1>4, <1>5, <1>6 DEF Effect

\* With any number of processes and admins racing on unlocked reads, only the
\* invoices a stale read has overwritten leave the life cycle.
THEOREM LifecycleIsFollowed == Spec => OnlyStaleReadsStray
  <1>1. IInv /\ [Next]_vars => [\A i \in Invoices \ stale' : LifecycleStep(i)]_vars
    BY NextEffect, LifecycleSteps DEF IInv
  <1> QED
    BY <1>1, Invariance, PTL DEF Spec, OnlyStaleReadsStray

-----------------------------------------------------------------------------
(***************************************************************************)
(* What one step can do to the sessions' memory and to the answers.        *)
(***************************************************************************)

LetsGo(x) ==
    \/ sess'[x].inv = NoInvoice
    \/ sess'[x].op \notin {"webhook", "reply", "apply", "manual"}

TakesLock(x) ==
    /\ sess'[x].op \in {"apply", "manual"}
    /\ sess'[x].inv \in Invoices
    /\ sess'[x].base = quota[owner[sess'[x].inv]]
    /\ UNCHANGED <<db, stale>>

ReadsNotice(x) ==
    LET r == sess'[x] IN
    /\ r.inv \in Invoices
    /\ r.seen = row[r.inv] /\ r.seen \notin {"none", "failed"}
    /\ \E n \in Notices :
          /\ r.notice = {n}
          /\ r.op = IF n \in received[r.inv] THEN "reply" ELSE "webhook"
    /\ UNCHANGED <<db, stale>>

DecidesNotice(x) ==
    /\ Holding(x, "webhook")
    /\ sess'[x] = [sess[x] EXCEPT !.op = "reply"]
    /\ \/ sess[x].notice \subseteq received'[sess[x].inv]
       \/ ~Accepts(sess[x].seen, "paid") /\ UNCHANGED <<db, stale>>

SessionChange(x) ==
    \/ sess'[x] = sess[x]
    \/ LetsGo(x) \/ TakesLock(x) \/ ReadsNotice(x) \/ DecidesNotice(x)

SessionsChange == \A x \in Sessions : SessionChange(x)

AnswersChange ==
    \/ UNCHANGED answered
    \/ \E s \in Sessions :
          /\ Holding(s, "reply")
          /\ answered' = [answered EXCEPT ![sess[s].inv] = @ \cup sess[s].notice]
          /\ UNCHANGED <<db, stale>>

LEMMA OneSessionChanges ==
  ASSUME TypeOK, NEW s \in Sessions, NEW rec, sess' = [sess EXCEPT ![s] = rec],
         SessionChange(s)
  PROVE  SessionsChange
  <1>1. \A x \in Sessions : x # s => sess'[x] = sess[x]
    BY DEF TypeOK
  <1> QED
    BY <1>1 DEF SessionsChange, SessionChange

LEMMA IdleLetsGo ==
  ASSUME TypeOK, NEW s \in Sessions, NEW rec, Outside(rec),
         rec.op \notin {"webhook", "reply"} \/ rec.inv = NoInvoice,
         sess' = [sess EXCEPT ![s] = rec]
  PROVE  SessionsChange
  <1>1. sess'[s] = rec
    BY DEF TypeOK
  <1>2. LetsGo(s)
    BY <1>1 DEF LetsGo, Outside
  <1> QED
    BY <1>2, OneSessionChanges DEF SessionChange

LEMMA ProceedLetsGo ==
  /\ Idle.inv = NoInvoice
  /\ \A todo, op : Proceed(todo, op).inv = NoInvoice
  BY DEF Proceed, Idle

LEMMA ClaimTakesLock ==
  ASSUME TypeOK, NEW s \in Sessions, NEW i \in Invoices,
         NEW op \in {"apply", "manual"}, NEW rest, Claim(s, i, op, rest)
  PROVE  SessionsChange
  <1> DEFINE rec == [Idle EXCEPT !.op = op, !.todo = rest, !.inv = i,
                                 !.seen = row[i], !.base = quota[owner[i]],
                                 !.cart = IF planOf[i] \in enabled
                                          THEN "valid" ELSE "invalid"]
  <1>1. rec.op = op /\ rec.inv = i /\ rec.base = quota[owner[i]]
    BY DEF Idle
  <1>2. sess' = [sess EXCEPT ![s] = rec] /\ UNCHANGED <<db, stale>>
    BY DEF Claim
  <1> HIDE DEF rec
  <1>3. sess'[s] = rec
    BY <1>2 DEF TypeOK
  <1>4. TakesLock(s)
    BY <1>1, <1>2, <1>3 DEF TakesLock
  <1> QED
    BY <1>2, <1>4, OneSessionChanges DEF SessionChange

LEMMA LoopStepMemory ==
  ASSUME TypeOK, NEW l \in Loops, LoopStep(l)
  PROVE  SessionsChange /\ AnswersChange
  <1>1. l \in Sessions /\ sess[l] \in Session
    BY DEF TypeOK, Sessions
  <1>2. CASE \E i \in Invoices : Checkout(l, i)
    BY <1>2 DEF Checkout, env, SessionsChange, SessionChange, AnswersChange
  <1>3. ASSUME NEW i \in Invoices, NEW n \in Notices, WebhookRead(l, i, n)
        PROVE  SessionsChange /\ AnswersChange
    <2> DEFINE rec == [Idle EXCEPT
                 !.op = IF IsReplay(i, n) THEN "reply" ELSE "webhook",
                 !.inv = i, !.seen = row[i], !.notice = {n}]
    <2>1. /\ rec.op = IF n \in received[i] THEN "reply" ELSE "webhook"
          /\ rec.inv = i /\ rec.seen = row[i] /\ rec.notice = {n}
      BY DEF Idle, IsReplay
    <2>2. /\ sess' = [sess EXCEPT ![l] = rec]
          /\ row[i] \notin {"none", "failed"}
          /\ UNCHANGED <<db, stale, answered>>
      BY <1>3 DEF WebhookRead, env
    <2> HIDE DEF rec
    <2>3. sess'[l] = rec
      BY <1>1, <2>2 DEF TypeOK
    <2>4. ReadsNotice(l)
      BY <2>1, <2>2, <2>3 DEF ReadsNotice
    <2> QED
      BY <1>1, <2>2, <2>4, OneSessionChanges DEF SessionChange, AnswersChange
  <1>4. CASE WebhookCommit(l) \/ WebhookConflict(l)
    <2>1. sess' = [sess EXCEPT ![l] = [sess[l] EXCEPT !.op = "reply"]]
      BY <1>4 DEF WebhookCommit, WebhookConflict
    <2>2. sess'[l] = [sess[l] EXCEPT !.op = "reply"]
      BY <1>1, <2>1 DEF TypeOK
    <2>3. \/ sess[l].notice \subseteq received'[sess[l].inv]
          \/ ~Accepts(sess[l].seen, "paid") /\ UNCHANGED <<db, stale>>
      BY <1>1, <1>4
      DEF WebhookCommit, WebhookConflict, RecordWebhookSeen, Holding, TypeOK,
          Session
    <2>4. DecidesNotice(l)
      BY <1>4, <2>2, <2>3 DEF DecidesNotice, WebhookCommit, WebhookConflict
    <2> QED
      BY <1>1, <1>4, <2>1, <2>4, OneSessionChanges
      DEF SessionChange, AnswersChange, WebhookCommit, WebhookConflict, env
  <1>5. CASE WebhookReply(l)
    <2>1. sess' = [sess EXCEPT ![l] = Idle]
      BY <1>5 DEF WebhookReply
    <2> QED
      BY <1>1, <1>5, <2>1, IdleLetsGo, OutsideRecords, ProceedLetsGo
      DEF WebhookReply, AnswersChange
  <1>6. ASSUME NEW op \in {"reap", "poll"}, NEW batch, BeginSweep(l, op, batch)
        PROVE  SessionsChange /\ AnswersChange
    <2> PICK i \in batch : sess' = [sess EXCEPT ![l] =
                  [Idle EXCEPT !.op = op, !.inv = i, !.todo = batch \ {i},
                               !.seen = "awaiting_payment"]]
      BY <1>6 DEF BeginSweep
    <2> DEFINE rec == [Idle EXCEPT !.op = op, !.inv = i, !.todo = batch \ {i},
                                   !.seen = "awaiting_payment"]
    <2>1. Outside(rec) /\ rec.op = op
      BY DEF Outside, Idle
    <2>2. sess' = [sess EXCEPT ![l] = rec] /\ UNCHANGED answered
      BY <1>6 DEF BeginSweep, env
    <2> HIDE DEF rec
    <2> QED
      BY <1>1, <2>1, <2>2, IdleLetsGo DEF AnswersChange
  <1>7. CASE SweepNext(l)
    <2> PICK i \in sess[l].todo :
          sess' = [sess EXCEPT ![l].inv = i, ![l].todo = @ \ {i},
                               ![l].seen = row[i]]
      BY <1>7 DEF SweepNext
    <2> DEFINE rec == [sess[l] EXCEPT !.inv = i, !.todo = @ \ {i},
                                      !.seen = row[i]]
    <2>1. sess' = [sess EXCEPT ![l] = rec]
      BY <1>1 DEF TypeOK
    <2>2. Outside(rec) /\ rec.op \in {"reap", "poll"}
      BY <1>1, <1>7 DEF Outside, SweepNext, Session
    <2>3. UNCHANGED answered
      BY <1>7 DEF SweepNext, env
    <2> HIDE DEF rec
    <2> QED
      BY <1>1, <2>1, <2>2, <2>3, IdleLetsGo DEF AnswersChange
  <1>8. ASSUME NEW op, NEW to, NEW type,
               SweepCommit(l, op, to, type) \/ SweepSkip(l, op, to)
        PROVE  SessionsChange /\ AnswersChange
    <2>1. /\ sess' = [sess EXCEPT ![l] = Proceed(sess[l].todo, sess[l].op)]
          /\ UNCHANGED answered
      BY <1>8 DEF SweepCommit, SweepSkip, env
    <2> QED
      BY <1>1, <2>1, IdleLetsGo, OutsideRecords, ProceedLetsGo
      DEF AnswersChange
  <1>9. CASE StartApply(l)
    <2> DEFINE rec == [Idle EXCEPT !.op = "apply", !.todo = FirstBatch(Paid)]
    <2>1. Outside(rec) /\ rec.op = "apply"
      BY DEF Outside, Idle
    <2>2. sess' = [sess EXCEPT ![l] = rec] /\ UNCHANGED answered
      BY <1>9 DEF StartApply, env
    <2> HIDE DEF rec
    <2> QED
      BY <1>1, <2>1, <2>2, IdleLetsGo DEF AnswersChange
  <1>10. CASE ApplyClaim(l)
    <2> PICK i \in sess[l].todo :
          \/ Claim(l, i, "apply", sess[l].todo \ {i})
          \/ sess' = [sess EXCEPT ![l] = Proceed(sess[l].todo \ {i}, @.op)]
      BY <1>10 DEF ApplyClaim
    <2>1. i \in Invoices /\ UNCHANGED answered
      BY <1>1, <1>10 DEF ApplyClaim, Claim, env, Session
    <2>2. CASE Claim(l, i, "apply", sess[l].todo \ {i})
      BY <1>1, <2>1, <2>2, ClaimTakesLock DEF AnswersChange
    <2>3. CASE sess' = [sess EXCEPT ![l] = Proceed(sess[l].todo \ {i}, @.op)]
      BY <1>1, <2>1, <2>3, IdleLetsGo, OutsideRecords, ProceedLetsGo
      DEF AnswersChange
    <2> QED
      BY <2>2, <2>3
  <1>11. CASE ApplyCommit(l) \/ ApplySkip(l)
    <2>1. /\ sess' = [sess EXCEPT ![l] = Proceed(sess[l].todo, sess[l].op)]
          /\ UNCHANGED answered
      BY <1>11 DEF ApplyCommit, ApplySkip, env
    <2> QED
      BY <1>1, <2>1, IdleLetsGo, OutsideRecords, ProceedLetsGo
      DEF AnswersChange
  <1>12. CASE StartReap(l) \/ StartPoll(l)
    BY <1>6, <1>12 DEF StartReap, StartPoll
  <1>13. CASE ReapCommit(l) \/ ReapSkip(l) \/ PollCommit(l) \/ PollSkip(l)
    BY <1>8, <1>13 DEF ReapCommit, ReapSkip, PollCommit, PollSkip
  <1> QED
    BY <1>2, <1>3, <1>4, <1>5, <1>7, <1>9, <1>10, <1>11, <1>12, <1>13
    DEF LoopStep

LEMMA ThreadStepMemory ==
  ASSUME TypeOK, NEW t \in Threads, ThreadStep(t)
  PROVE  SessionsChange /\ AnswersChange
  <1>1. t \in Sessions
    BY DEF Sessions
  <1>2. ASSUME NEW i \in Invoices, ManualClaim(t, i)
        PROVE  SessionsChange /\ AnswersChange
    BY <1>1, <1>2, ClaimTakesLock DEF ManualClaim, Claim, AnswersChange, env
  <1>3. ASSUME NEW i \in Invoices, CancelRead(t, i)
        PROVE  SessionsChange /\ AnswersChange
    <2> DEFINE rec == [Idle EXCEPT !.op = "cancel", !.inv = i, !.seen = row[i]]
    <2>1. sess' = [sess EXCEPT ![t] = rec] /\ UNCHANGED answered
      BY <1>3 DEF CancelRead, env
    <2>2. rec.op = "cancel"
      BY DEF Idle
    <2> HIDE DEF rec
    <2>3. sess'[t] = rec
      BY <1>1, <2>1 DEF TypeOK
    <2>4. LetsGo(t)
      BY <2>2, <2>3 DEF LetsGo
    <2> QED
      BY <1>1, <2>1, <2>4, OneSessionChanges DEF SessionChange, AnswersChange
  <1>4. CASE ManualCommit(t) \/ ManualPaidOnly(t) \/ CancelCommit(t)
    <2>1. sess' = [sess EXCEPT ![t] = Idle] /\ UNCHANGED answered
      BY <1>4 DEF ManualCommit, ManualPaidOnly, CancelCommit, env
    <2> QED
      BY <1>1, <2>1, IdleLetsGo, OutsideRecords, ProceedLetsGo
      DEF AnswersChange
  <1> QED
    BY <1>2, <1>3, <1>4 DEF ThreadStep

LEMMA NextMemory ==
  ASSUME TypeOK, [Next]_vars
  PROVE  SessionsChange /\ AnswersChange
  <1>1. ASSUME NEW l \in Loops, Crash(l)
        PROVE  SessionsChange /\ AnswersChange
    BY <1>1, ProceedLetsGo
    DEF Crash, SessionsChange, SessionChange, LetsGo, AnswersChange
  <1>2. CASE \E p \in Plans : UpdatePlan(p)
    BY <1>2 DEF UpdatePlan, SessionsChange, SessionChange, AnswersChange
  <1>3. CASE \E i \in Invoices : WindowElapses(i)
    BY <1>3 DEF WindowElapses, SessionsChange, SessionChange, AnswersChange
  <1>4. CASE UNCHANGED vars
    BY <1>4 DEF vars, env, SessionsChange, SessionChange, AnswersChange
  <1> QED
    BY <1>1, <1>2, <1>3, <1>4, LoopStepMemory, ThreadStepMemory DEF Next

-----------------------------------------------------------------------------
(***************************************************************************)
(* What the vendor was told is settled.                                    *)
(***************************************************************************)

ReceivedIsPaid ==
    \A i \in Trustworthy : received[i] # {} => row[i] \in {"paid", "applied"}

\* What a webhook read is where its invoice still is, or was on its way.
WebhookReadHolds ==
    \A s \in Sessions : Holding(s, "webhook") =>
        LET i == sess[s].inv IN
        /\ row[i] # "none"
        /\ sess[s].seen \notin {"none", "created", "pending", "failed"}
        /\ i \in Trustworthy =>
              /\ sess[s].seen \in TERMINAL_STATES => row[i] = sess[s].seen
              /\ sess[s].seen = "paid" => row[i] \in {"paid", "applied"}

IsSettled(i, n) == n \in received[i] \/ row[i] \in TERMINAL_STATES

ReplyIsDue ==
    \A s \in Sessions : Holding(s, "reply") /\ sess[s].inv \in Trustworthy =>
        \A n \in sess[s].notice : IsSettled(sess[s].inv, n)

AnswerIsDue ==
    \A i \in Trustworthy : \A n \in answered[i] : IsSettled(i, n)

SettledInv == ReceivedIsPaid /\ WebhookReadHolds /\ ReplyIsDue /\ AnswerIsDue

\* What a step cannot take back, on any row and on a trustworthy one.
Forward(j) ==
    /\ received[j] \subseteq received'[j]
    /\ row[j] # "none" => row'[j] # "none"
    /\ j \notin stale' =>
          /\ j \notin stale
          /\ row[j] \in TERMINAL_STATES => row'[j] = row[j]
          /\ row[j] \in {"paid", "applied"} => row'[j] \in {"paid", "applied"}

LEMMA NoticeKept ==
  ASSUME TypeOK, NEW i \in Invoices, NEW j \in Invoices, NEW type, NEW from,
         NEW to, NotesReceipt(i, type, from, to)
  PROVE  received[j] \subseteq received'[j]
  BY DEF NotesReceipt, TypeOK

LEMMA RowsGoForward ==
  ASSUME TypeOK, Effect, NEW j \in Invoices
  PROVE  Forward(j)
  <1> USE DEF TypeOK, TERMINAL_STATES
  <1>1. CASE UNCHANGED <<row, log, received, granted, quota, stale>>
    BY <1>1 DEF Forward
  <1>2. ASSUME NEW i \in Invoices, Opens(i)
        PROVE  Forward(j)
    BY <1>2 DEF Opens, Forward
  <1>3. ASSUME NEW i \in Invoices, Repeats(i)
        PROVE  Forward(j)
    BY <1>3, NoticeKept DEF Repeats, Forward
  <1>4. ASSUME NEW i \in Invoices, Moves(i)
        PROVE  Forward(j)
    <2> PICK from \in InvoiceState, to \in {"paid", "expired", "cancelled"},
             type \in EventType :
          /\ IsAllowedTransition(from, to)
          /\ row' = [row EXCEPT ![i] = to]
          /\ stale' = IF row[i] = from THEN stale ELSE stale \cup {i}
          /\ NotesReceipt(i, type, from, to)
      BY <1>4 DEF Moves
    <2>1. received[j] \subseteq received'[j]
      BY NoticeKept
    <2>2. from \notin TERMINAL_STATES /\ (from = "paid" => to = "applied")
      BY DEF IsAllowedTransition, ALLOWED_TRANSITIONS
    <2>3. j \notin stale' => j \notin stale /\ (j = i => row[i] = from)
      OBVIOUS
    <2> QED
      BY <2>1, <2>2, <2>3 DEF Forward
  <1>5. ASSUME NEW i \in Invoices, Grants(i)
        PROVE  Forward(j)
    BY <1>5 DEF Grants, Forward
  <1> QED
    BY <1>1, <1>2, <1>3, <1>4, <1>5 DEF Effect

LEMMA ReceivedIsPaidStep ==
  ASSUME TypeOK, ReceivedIsPaid, WebhookReadHolds, Effect
  PROVE  ReceivedIsPaid'
  <1> USE DEF TypeOK
  <1> SUFFICES ASSUME NEW j \in Invoices, j \notin stale', received'[j] # {}
               PROVE  row'[j] \in {"paid", "applied"}
    BY DEF ReceivedIsPaid, Trustworthy
  <1>1. Forward(j) /\ j \notin stale
    BY RowsGoForward DEF Forward
  <1>2. CASE received[j] # {}
    BY <1>1, <1>2 DEF ReceivedIsPaid, Trustworthy, Forward
  <1>3. CASE received[j] = {}
    <2>0. received' # received
      BY <1>3
    <2>1. \E i \in Invoices, from, to \in InvoiceState, type \in EventType :
             /\ NotesReceipt(i, type, from, to)
             /\ \/ from = to /\ UNCHANGED <<row, stale>>
                \/ row' = [row EXCEPT ![i] = to]
      <3>1. PICK i \in Invoices : Repeats(i) \/ Moves(i)
        BY <2>0 DEF Effect, Opens, Grants
      <3>2. {"paid", "expired", "cancelled"} \subseteq InvoiceState
        BY DEF InvoiceState
      <3> HIDE DEF TypeOK
      <3> QED
        BY <3>1, <3>2 DEF Repeats, Moves
    <2> PICK i \in Invoices, from \in InvoiceState, to \in InvoiceState,
             type \in EventType :
             /\ NotesReceipt(i, type, from, to)
             /\ \/ from = to /\ UNCHANGED <<row, stale>>
                \/ row' = [row EXCEPT ![i] = to]
      BY <2>1
    <2>2. PICK l \in Loops :
             /\ to = "paid"
             /\ Holding(l, "webhook") /\ sess[l].inv = i /\ sess[l].seen = from
             /\ received' = [received EXCEPT ![i] = @ \cup sess[l].notice]
      BY <2>0 DEF NotesReceipt
    <2>3. j = i
      BY <1>3, <2>2
    <2>4. l \in Sessions
      BY DEF Sessions
    <2> QED
      BY <1>1, <2>2, <2>3, <2>4 DEF WebhookReadHolds, Trustworthy
  <1> QED
    BY <1>2, <1>3

LEMMA HoldersKnowTheirInvoice ==
  ASSUME TypeOK, NEW s \in Sessions, NEW op, Holding(s, op)
  PROVE  sess[s].inv \in Invoices /\ sess[s] \in Session
  BY DEF Holding, TypeOK, Session

LEMMA WebhookReadStep ==
  ASSUME TypeOK, TypeOK', NoHalfOpenRow, WebhookReadHolds, Effect,
         SessionsChange
  PROVE  WebhookReadHolds'
  <1> SUFFICES ASSUME NEW s \in Sessions, Holding(s, "webhook")'
               PROVE  LET i == sess'[s].inv IN
                      /\ row'[i] # "none"
                      /\ sess'[s].seen \notin {"none", "created", "pending",
                                               "failed"}
                      /\ i \in Trustworthy' =>
                            /\ sess'[s].seen \in TERMINAL_STATES
                                  => row'[i] = sess'[s].seen
                            /\ sess'[s].seen = "paid"
                                  => row'[i] \in {"paid", "applied"}
    BY DEF WebhookReadHolds
  <1>1. sess'[s].op = "webhook" /\ sess'[s].inv # NoInvoice
    BY DEF Holding
  <1>2. CASE sess'[s] = sess[s]
    <2>1. Holding(s, "webhook") /\ sess[s].inv \in Invoices
      BY <1>1, <1>2, HoldersKnowTheirInvoice DEF Holding
    <2> QED
      BY <1>2, <2>1, RowsGoForward DEF WebhookReadHolds, Forward, Trustworthy
  <1>3. CASE ReadsNotice(s)
    BY <1>3 DEF ReadsNotice, NoHalfOpenRow, db, Trustworthy
  <1>4. ~(LetsGo(s) \/ TakesLock(s))
    BY <1>1 DEF LetsGo, TakesLock
  <1>5. ~DecidesNotice(s)
    BY <1>1 DEF DecidesNotice, TypeOK, Session
  <1> QED
    BY <1>2, <1>3, <1>4, <1>5 DEF SessionsChange, SessionChange

LEMMA SettledStaysSettled ==
  ASSUME TypeOK, Effect, NEW j \in Invoices, NEW n, j \notin stale',
         IsSettled(j, n)
  PROVE  IsSettled(j, n)'
  BY RowsGoForward DEF Forward, IsSettled

LEMMA ReplyIsDueStep ==
  ASSUME TypeOK, TypeOK', SettledInv, Effect, SessionsChange
  PROVE  ReplyIsDue'
  <1> SUFFICES ASSUME NEW s \in Sessions, NEW i \in Invoices,
                      sess'[s].op = "reply", sess'[s].inv = i, i \notin stale',
                      i # NoInvoice, NEW n \in sess'[s].notice
               PROVE  IsSettled(i, n)'
    BY DEF ReplyIsDue, Trustworthy, Holding
  <1>1. i \notin stale /\ Forward(i)
    BY RowsGoForward DEF Forward
  <1>2. CASE sess'[s] = sess[s]
    <2>1. IsSettled(i, n)
      BY <1>1, <1>2 DEF SettledInv, ReplyIsDue, Holding, Trustworthy
    <2> QED
      BY <2>1, SettledStaysSettled
  <1>3. CASE ReadsNotice(s)
    BY <1>3 DEF ReadsNotice, IsSettled, db
  <1>4. CASE DecidesNotice(s)
    <2>1. /\ Holding(s, "webhook")
          /\ sess[s].inv = i /\ n \in sess[s].notice
      BY <1>4 DEF DecidesNotice, TypeOK, Session
    <2>2. CASE sess[s].notice \subseteq received'[i]
      BY <2>1, <2>2 DEF IsSettled
    <2>3. CASE ~Accepts(sess[s].seen, "paid") /\ UNCHANGED <<db, stale>>
      <3>1. /\ sess[s].seen \in InvoiceState \cup {"none"}
            /\ sess[s].seen \notin {"none", "created", "pending", "failed"}
            /\ sess[s].seen \in TERMINAL_STATES => row[i] = sess[s].seen
        BY <1>1, <2>1
        DEF SettledInv, WebhookReadHolds, TypeOK, Session, Trustworthy
      <3>2. sess[s].seen \in TERMINAL_STATES
        BY <2>3, <3>1
        DEF InvoiceState, TERMINAL_STATES, Accepts, IsAllowedTransition,
            ALLOWED_TRANSITIONS
      <3> QED
        BY <2>3, <3>1, <3>2 DEF IsSettled, db
    <2> QED
      BY <1>4, <2>1, <2>2, <2>3 DEF DecidesNotice
  <1>5. ~(LetsGo(s) \/ TakesLock(s))
    BY DEF LetsGo, TakesLock
  <1> QED
    BY <1>2, <1>3, <1>4, <1>5 DEF SessionsChange, SessionChange

LEMMA AnswerIsDueStep ==
  ASSUME TypeOK, SettledInv, Effect, AnswersChange
  PROVE  AnswerIsDue'
  <1> SUFFICES ASSUME NEW j \in Invoices, j \notin stale', NEW n \in answered'[j]
               PROVE  IsSettled(j, n)'
    BY DEF AnswerIsDue, Trustworthy
  <1>1. j \notin stale
    BY RowsGoForward DEF Forward
  <1>2. CASE n \in answered[j]
    BY <1>1, <1>2, SettledStaysSettled DEF SettledInv, AnswerIsDue, Trustworthy
  <1>3. CASE n \notin answered[j]
    <2>1. PICK s \in Sessions :
             /\ Holding(s, "reply")
             /\ answered' = [answered EXCEPT ![sess[s].inv] =
                                                 @ \cup sess[s].notice]
      BY <1>3 DEF AnswersChange
    <2>2. sess[s].inv = j /\ n \in sess[s].notice
      BY <1>3, <2>1 DEF TypeOK
    <2>3. IsSettled(j, n)
      BY <1>1, <2>1, <2>2 DEF SettledInv, ReplyIsDue, Trustworthy
    <2> QED
      BY <2>3, SettledStaysSettled
  <1> QED
    BY <1>2, <1>3

LEMMA SettledInvariance == Spec => [](IInv /\ SettledInv)
  <1>1. Init => SettledInv
    BY DEF Init, SettledInv, ReceivedIsPaid, WebhookReadHolds, ReplyIsDue,
           AnswerIsDue, Trustworthy, Holding, Idle
  <1>2. IInv /\ SettledInv /\ [Next]_vars => SettledInv'
    <2> SUFFICES ASSUME IInv, SettledInv, [Next]_vars
                 PROVE  SettledInv'
      OBVIOUS
    <2>1. TypeOK' /\ Effect /\ SessionsChange /\ AnswersChange
      BY InvariantStep, NextEffect, NextMemory DEF IInv
    <2> QED
      BY <2>1, ReceivedIsPaidStep, WebhookReadStep, ReplyIsDueStep,
         AnswerIsDueStep DEF IInv, SettledInv
  <1> QED
    BY <1>1, <1>2, InvariantInit, InvariantStep, PTL DEF Spec

\* "success" is only ever answered for a payment on record whose invoice is
\* on its way to the grant, or for an invoice that was closed before, with
\* any number of processes, deliveries and crashes in between.
THEOREM AnswersAreSettled == Spec => []AnsweredIsSettled
  <1>1. SettledInv => AnsweredIsSettled
    BY DEF SettledInv, ReceivedIsPaid, AnswerIsDue, AnsweredIsSettled,
           IsSettled
  <1> QED
    BY <1>1, SettledInvariance, PTL

-----------------------------------------------------------------------------
(***************************************************************************)
(* The payment events tell the invoice's story.                            *)
(***************************************************************************)

LEMMA AppendedEvents ==
  ASSUME NEW S, NEW s \in Seq(S), NEW e \in S
  PROVE  /\ DOMAIN s = 1 .. Len(s) /\ Len(s) \in Nat
         /\ DOMAIN Append(s, e) = 1 .. Len(s) + 1
         /\ Append(s, e)[Len(s) + 1] = e
         /\ \A k \in 1 .. Len(s) : Append(s, e)[k] = s[k]
  OBVIOUS

LEMMA ChangesOfAppend ==
  ASSUME NEW s \in Seq(Event), NEW e \in Event
  PROVE  /\ Changes(s) \subseteq 1 .. Len(s)
         /\ Changes(Append(s, e)) = IF e.from = e.to THEN Changes(s)
                                    ELSE Changes(s) \cup {Len(s) + 1}
  <1> DEFINE t == Append(s, e)
  <1>1. /\ DOMAIN s = 1 .. Len(s) /\ Len(s) \in Nat
        /\ DOMAIN t = 1 .. Len(s) + 1
        /\ t[Len(s) + 1] = e
        /\ \A k \in 1 .. Len(s) : t[k] = s[k]
    BY AppendedEvents
  <1> HIDE DEF t
  <1>2. Changes(t) = IF e.from = e.to THEN Changes(s)
                     ELSE Changes(s) \cup {Len(s) + 1}
    BY <1>1 DEF Changes
  <1> QED
    BY <1>1, <1>2 DEF Changes, t

LEMMA HistoryRepeats ==
  ASSUME NEW s \in Seq(Event), NEW e \in Event, NEW st, e.from = e.to,
         IsHistory(s, st)
  PROVE  IsHistory(Append(s, e), st)
  <1> DEFINE t == Append(s, e)
  <1>1. Changes(t) = Changes(s) /\ Changes(s) \subseteq 1 .. Len(s)
    BY ChangesOfAppend
  <1>2. \A k \in Changes(s) : t[k] = s[k]
    BY <1>1, AppendedEvents
  <1> HIDE DEF t
  <1>3. IsHistory(t, st)
    BY <1>1, <1>2 DEF IsHistory
  <1> QED
    BY <1>3 DEF t

LEMMA HistoryGoesOn ==
  ASSUME NEW s \in Seq(Event), NEW e \in Event, e.from # "none",
         IsAllowedTransition(e.from, e.to), IsHistory(s, e.from)
  PROVE  IsHistory(Append(s, e), e.to)
  <1> DEFINE t == Append(s, e)
             n == Len(s) + 1
             C == Changes(s)
  <1>1. e.from # e.to /\ e.to # "none"
    BY DEF IsAllowedTransition, ALLOWED_TRANSITIONS
  <1>2. Changes(t) = C \cup {n} /\ C \subseteq 1 .. Len(s) /\ Len(s) \in Nat
    BY <1>1, ChangesOfAppend
  <1>3. t[n] = e /\ \A k \in C : t[k] = s[k]
    BY <1>2, AppendedEvents
  <1>4. C # {} /\ \A k \in C : k \in Nat /\ k < n
    BY <1>2 DEF IsHistory
  <1> HIDE DEF t, n
  <1>5. Changes(t) # {}
    BY <1>2
  <1>6. \A k \in Changes(t) :
           /\ IsAllowedTransition(t[k].from, t[k].to)
           /\ (\A j \in Changes(t) : k <= j) => t[k].from = "created"
           /\ (\A j \in Changes(t) : j <= k) => t[k].to = e.to
    <2> SUFFICES ASSUME NEW k \in Changes(t)
                 PROVE  /\ IsAllowedTransition(t[k].from, t[k].to)
                        /\ (\A j \in Changes(t) : k <= j)
                              => t[k].from = "created"
                        /\ (\A j \in Changes(t) : j <= k) => t[k].to = e.to
      OBVIOUS
    <2>1. n \in Nat
      BY <1>2 DEF n
    <2>2. CASE k = n
      <3>1. ~(\A j \in Changes(t) : k <= j)
        BY <1>2, <1>4, <2>1, <2>2
      <3> QED
        BY <1>3, <2>2, <3>1
    <2>3. CASE k \in C
      <3>1. n \in Changes(t) /\ k \in Nat /\ k < n
        BY <1>2, <1>4, <2>3
      <3>4. ~(n <= k)
        BY <2>1, <3>1
      <3>5. ~(\A j \in Changes(t) : j <= k)
        BY <3>1, <3>4
      <3>2. (\A j \in Changes(t) : k <= j) => (\A j \in C : k <= j)
        BY <1>2
      <3> QED
        BY <1>3, <2>3, <3>2, <3>5 DEF IsHistory
    <2> QED
      BY <1>2, <2>2, <2>3
  <1>7. ASSUME NEW j \in Changes(t), NEW k \in Changes(t), j < k,
               ~(\E m \in Changes(t) : j < m /\ m < k)
        PROVE  t[k].from = t[j].to
    <2>1. n \in Nat /\ j \in C
      BY <1>2, <1>4, <1>7 DEF n
    <2>2. ~(\E m \in C : j < m /\ m < k)
      BY <1>2, <1>7
    <2>3. CASE k = n
      <3>1. \A m \in C : m <= j
        BY <1>4, <2>1, <2>2, <2>3
      <3> QED
        BY <1>3, <2>1, <2>3, <3>1 DEF IsHistory
    <2>4. CASE k \in C
      BY <1>3, <1>7, <2>1, <2>2, <2>4 DEF IsHistory
    <2> QED
      BY <1>2, <2>3, <2>4
  <1>8. IsHistory(t, e.to)
    BY <1>1, <1>5, <1>6, <1>7 DEF IsHistory
  <1> QED
    BY <1>8 DEF t

LEMMA HistoryOpens ==
  ASSUME NEW d \in Event, NEW e \in Event, d.from = "created",
         d.to = e.from, IsAllowedTransition(d.from, d.to),
         IsAllowedTransition(e.from, e.to)
  PROVE  IsHistory(<<d, e>>, e.to)
  <1> DEFINE t == <<d, e>>
  <1>1. DOMAIN t = 1 .. 2 /\ t[1] = d /\ t[2] = e
    OBVIOUS
  <1> HIDE DEF t
  <1>2. d.from # d.to /\ e.from # e.to /\ e.to # "none"
    BY DEF IsAllowedTransition, ALLOWED_TRANSITIONS
  <1>3. Changes(t) = {1, 2}
    BY <1>1, <1>2 DEF Changes
  <1>4. IsHistory(t, e.to)
    BY <1>1, <1>2, <1>3 DEF IsHistory
  <1> QED
    BY <1>4 DEF t

LEMMA AuditChainStep ==
  ASSUME TypeOK, AuditChain, Effect
  PROVE  AuditChain'
  <1> SUFFICES ASSUME NEW j \in Invoices, j \notin stale'
               PROVE  IsHistory(log'[j], row'[j])
    BY DEF AuditChain, Trustworthy
  <1>1. j \notin stale
    BY RowsGoForward DEF Forward
  <1>2. IsHistory(log[j], row[j]) /\ log[j] \in Seq(Event)
    BY <1>1 DEF AuditChain, Trustworthy, TypeOK
  <1>3. CASE log'[j] = log[j] /\ row'[j] = row[j]
    BY <1>2, <1>3
  <1>4. CASE Opens(j)
    <2> PICK to \in {"awaiting_payment", "failed"},
             type \in EventType \ {"webhook_epay"} :
          /\ row' = [row EXCEPT ![j] = to]
          /\ log' = [log EXCEPT ![j] =
                <<Ev("invoice_created", "created", "pending"),
                  Ev(type, "pending", to)>>]
      BY <1>4 DEF Opens
    <2> DEFINE d == Ev("invoice_created", "created", "pending")
               e == Ev(type, "pending", to)
    <2>1. d \in Event /\ e \in Event /\ d.from = "created" /\ d.to = "pending"
          /\ e.from = "pending" /\ e.to = to
      BY DEF Ev, Event, EventType, InvoiceState
    <2>2. IsAllowedTransition("created", "pending")
          /\ IsAllowedTransition("pending", to)
      BY DEF IsAllowedTransition, ALLOWED_TRANSITIONS
    <2>3. log' = [log EXCEPT ![j] = <<d, e>>]
      OBVIOUS
    <2> HIDE DEF d, e
    <2>4. log'[j] = <<d, e>> /\ row'[j] = to
      BY <2>3 DEF TypeOK
    <2> QED
      BY <2>1, <2>2, <2>4, HistoryOpens
  <1>5. CASE Repeats(j)
    <2> PICK to \in {"paid", "expired", "cancelled"}, type \in EventType :
          log' = [log EXCEPT ![j] = Append(@, Ev(type, to, to))]
      BY <1>5 DEF Repeats
    <2>1. Ev(type, to, to) \in Event /\ Ev(type, to, to).from
             = Ev(type, to, to).to
      BY DEF Ev, Event, InvoiceState
    <2>2. log'[j] = Append(log[j], Ev(type, to, to)) /\ row'[j] = row[j]
      BY <1>5 DEF TypeOK, Repeats
    <2> QED
      BY <1>2, <2>1, <2>2, HistoryRepeats
  <1>6. CASE Moves(j)
    <2> PICK from \in InvoiceState, to \in {"paid", "expired", "cancelled"},
             type \in EventType :
          /\ IsAllowedTransition(from, to)
          /\ row' = [row EXCEPT ![j] = to]
          /\ stale' = IF row[j] = from THEN stale ELSE stale \cup {j}
          /\ log' = [log EXCEPT ![j] = Append(@, Ev(type, from, to))]
      BY <1>6 DEF Moves
    <2> DEFINE e == Ev(type, from, to)
    <2>1. e \in Event /\ e.from = from /\ e.to = to /\ from # "none"
      BY DEF Ev, Event, InvoiceState
    <2>2. row[j] = from
      OBVIOUS
    <2>3. log'[j] = Append(log[j], e) /\ row'[j] = to
      BY DEF TypeOK
    <2> HIDE DEF e
    <2> QED
      BY <1>2, <2>1, <2>2, <2>3, HistoryGoesOn
  <1>7. CASE Grants(j)
    <2>1. /\ AppliedEvent \in Event /\ OverrideEvent \in Event
          /\ AppliedEvent.from = "paid" /\ AppliedEvent.to = "applied"
          /\ OverrideEvent.from = "awaiting_payment"
          /\ OverrideEvent.to = "paid"
          /\ IsAllowedTransition("paid", "applied")
          /\ IsAllowedTransition("awaiting_payment", "paid")
      BY EventsType DEF AppliedEvent, OverrideEvent, Ev, IsAllowedTransition,
                        ALLOWED_TRANSITIONS
    <2>2. /\ row[j] \in {"awaiting_payment", "paid"} /\ row'[j] = "applied"
          /\ log'[j] = Append(IF row[j] = "paid" THEN log[j]
                              ELSE Append(log[j], OverrideEvent),
                              AppliedEvent)
      BY <1>7 DEF Grants, TypeOK
    <2>3. CASE row[j] = "paid"
      BY <1>2, <2>1, <2>2, <2>3, HistoryGoesOn
    <2>4. CASE row[j] = "awaiting_payment"
      <3> DEFINE s == Append(log[j], OverrideEvent)
      <3>1. s \in Seq(Event) /\ IsHistory(s, "paid")
        BY <1>2, <2>1, <2>4, HistoryGoesOn
      <3>2. log'[j] = Append(s, AppliedEvent)
        BY <2>2, <2>4
      <3> HIDE DEF s
      <3> QED
        BY <2>1, <2>2, <3>1, <3>2, HistoryGoesOn
    <2> QED
      BY <2>2, <2>3, <2>4
  <1>8. \/ log'[j] = log[j] /\ row'[j] = row[j]
        \/ Opens(j) \/ Repeats(j) \/ Moves(j) \/ Grants(j)
    <2>1. \A i \in Invoices \ {j} :
             Opens(i) \/ Repeats(i) \/ Moves(i) \/ Grants(i)
                => log'[j] = log[j] /\ row'[j] = row[j]
      <3> SUFFICES ASSUME NEW i \in Invoices \ {j}
                   PROVE  Opens(i) \/ Repeats(i) \/ Moves(i) \/ Grants(i)
                             => log'[j] = log[j] /\ row'[j] = row[j]
        OBVIOUS
      <3>1. Opens(i) => log'[j] = log[j] /\ row'[j] = row[j]
        BY DEF Opens, TypeOK
      <3>2. Repeats(i) => log'[j] = log[j] /\ row'[j] = row[j]
        BY DEF Repeats, TypeOK
      <3>3. Moves(i) => log'[j] = log[j] /\ row'[j] = row[j]
        BY DEF Moves, TypeOK
      <3>4. Grants(i) => log'[j] = log[j] /\ row'[j] = row[j]
        BY DEF Grants, TypeOK
      <3> QED
        BY <3>1, <3>2, <3>3, <3>4
    <2>2. UNCHANGED <<row, log, received, granted, quota, stale>>
             => log'[j] = log[j] /\ row'[j] = row[j]
      OBVIOUS
    <2> QED
      BY <2>1, <2>2 DEF Effect
  <1> QED
    BY <1>3, <1>4, <1>5, <1>6, <1>7, <1>8

\* The event log replays to the state of every invoice no stale read
\* overwrote, whoever moved it: a complete, legal and connected story.
THEOREM EventsTellTheStory == Spec => []AuditChain
  <1>1. Init => AuditChain
    <2> SUFFICES ASSUME Init, NEW i \in Invoices
                 PROVE  IsHistory(log[i], row[i])
      BY DEF AuditChain, Trustworthy
    <2>1. row[i] = "none" /\ log[i] = <<>>
      BY DEF Init
    <2>2. Changes(<<>>) = {}
      <3>1. DOMAIN <<>> = {}
        OBVIOUS
      <3> QED
        BY <3>1 DEF Changes
    <2> QED
      BY <2>1, <2>2 DEF IsHistory
  <1>2. IInv /\ AuditChain /\ [Next]_vars => AuditChain'
    BY NextEffect, AuditChainStep DEF IInv
  <1> QED
    BY <1>1, <1>2, Invariance, PTL DEF Spec

-----------------------------------------------------------------------------
(***************************************************************************)
(* The quota and the grants.                                               *)
(***************************************************************************)

Locked(s) == Holding(s, "apply") \/ Holding(s, "manual")

GrantsAreFinite == \A u \in Users : IsFiniteSet(GrantsTo(u))

\* The quota a session will add to was backed by grants when it was read.
BasesAreBacked ==
    \A s \in Sessions, u \in Users : Locked(s) /\ owner[sess[s].inv] = u =>
        sess[s].base <= Cardinality(GrantsTo(u))

QuotaInv == GrantsAreFinite /\ QuotaNeverExceedsGrants /\ BasesAreBacked

LEMMA LockedType ==
  ASSUME TypeOK, NEW s \in Sessions, Locked(s)
  PROVE  /\ sess[s].inv \in Invoices /\ owner[sess[s].inv] \in Users
         /\ sess[s].base \in Nat
  BY BillingAssumption DEF TypeOK, Session, Locked, Holding

\* A session under a lock had it before, or takes it in this step.
LEMMA LockedBefore ==
  ASSUME TypeOK, SessionsChange, NEW s \in Sessions, Locked(s)'
  PROVE  \/ Locked(s) /\ sess'[s] = sess[s]
         \/ TakesLock(s)
  <1>1. CASE sess'[s] = sess[s]
    BY <1>1 DEF Locked, Holding
  <1>2. CASE LetsGo(s)
    BY <1>2 DEF LetsGo, Locked, Holding
  <1>3. CASE ReadsNotice(s)
    <2>1. sess'[s].op \in {"reply", "webhook"}
      BY <1>3 DEF ReadsNotice
    <2> QED
      BY <2>1 DEF Locked, Holding
  <1>4. CASE DecidesNotice(s)
    <2>1. sess'[s].op = "reply"
      BY <1>4 DEF DecidesNotice, TypeOK, Session
    <2> QED
      BY <2>1 DEF Locked, Holding
  <1> QED
    BY <1>1, <1>2, <1>3, <1>4 DEF SessionsChange, SessionChange

LEMMA GrantCounted ==
  ASSUME TypeOK, NEW i \in Invoices, granted' = [granted EXCEPT ![i] = @ + 1],
         NEW u \in Users, IsFiniteSet(GrantsTo(u))
  PROVE  /\ IsFiniteSet(GrantsTo(u)')
         /\ Cardinality(GrantsTo(u)') =
               IF owner[i] = u THEN Cardinality(GrantsTo(u)) + 1
                               ELSE Cardinality(GrantsTo(u))
  <1> DEFINE g == <<i, granted[i] + 1>>
  <1>1. \A j \in Invoices : granted[j] \in Nat
    BY DEF TypeOK
  <1>2. \A j \in Invoices : granted'[j] = IF j = i THEN granted[i] + 1
                                                   ELSE granted[j]
    BY DEF TypeOK
  <1>3. CASE owner[i] # u
    <2>1. \A j \in OwnedBy(u) : granted'[j] = granted[j]
      BY <1>2, <1>3 DEF OwnedBy
    <2>2. GrantsTo(u)' = GrantsTo(u)
      BY <2>1 DEF GrantsTo, OwnedBy
    <2> QED
      BY <1>3, <2>2
  <1>4. CASE owner[i] = u
    <2>1. 1 .. granted'[i] = (1 .. granted[i]) \cup {granted[i] + 1}
      BY <1>1, <1>2
    <2>2. \A x : x \in GrantsTo(u) <=>
                    \E j \in OwnedBy(u) : \E k \in 1 .. granted[j] :
                       x = <<j, k>>
      BY DEF GrantsTo
    <2>3. \A x : x \in GrantsTo(u)' <=>
                    \E j \in OwnedBy(u) : \E k \in 1 .. granted'[j] :
                       x = <<j, k>>
      BY DEF GrantsTo, OwnedBy
    <2>4. i \in OwnedBy(u) /\ OwnedBy(u) \subseteq Invoices
      BY <1>4 DEF OwnedBy
    <2>5. GrantsTo(u)' = GrantsTo(u) \cup {g}
      BY <1>2, <2>1, <2>2, <2>3, <2>4
    <2>6. g \notin GrantsTo(u)
      BY <1>1, <2>2, <2>4
    <2> HIDE DEF g
    <2> QED
      BY <1>4, <2>5, <2>6, FS_AddElement
  <1> QED
    BY <1>3, <1>4

LEMMA GrantsKept ==
  ASSUME granted' = granted, NEW u
  PROVE  GrantsTo(u)' = GrantsTo(u)
  BY DEF GrantsTo, OwnedBy

\* A step grants nothing, or grants one invoice by the session that holds it.
LEMMA EffectOnGrants ==
  ASSUME TypeOK, Effect
  PROVE  \/ UNCHANGED <<granted, quota>>
         \/ \E i \in Invoices : Grants(i)
  BY DEF Effect, Opens, Repeats, Moves

LEMMA QuotaStep ==
  ASSUME TypeOK, TypeOK', QuotaInv, Effect, SessionsChange
  PROVE  QuotaInv'
  <1>1. \A u \in Users : IsFiniteSet(GrantsTo(u))
                         /\ Cardinality(GrantsTo(u)) \in Nat
    BY FS_CardinalityType DEF QuotaInv, GrantsAreFinite
  <1>2. CASE UNCHANGED <<granted, quota>>
    <2>1. \A u : GrantsTo(u)' = GrantsTo(u)
      BY <1>2, GrantsKept
    <2>2. GrantsAreFinite' /\ QuotaNeverExceedsGrants'
      BY <1>2, <2>1 DEF QuotaInv, GrantsAreFinite, QuotaNeverExceedsGrants
    <2>3. ASSUME NEW s \in Sessions, NEW u \in Users, Locked(s)',
                 owner[sess'[s].inv] = u
          PROVE  sess'[s].base <= Cardinality(GrantsTo(u)')
      <3>1. CASE Locked(s) /\ sess'[s] = sess[s]
        BY <2>1, <2>3, <3>1 DEF QuotaInv, BasesAreBacked
      <3>2. CASE TakesLock(s)
        <4>1. sess'[s].base = quota[u]
          BY <2>3, <3>2 DEF TakesLock
        <4> QED
          BY <2>1, <4>1 DEF QuotaInv, QuotaNeverExceedsGrants
      <3> QED
        BY <2>3, <3>1, <3>2, LockedBefore
    <2> QED
      BY <2>2, <2>3 DEF QuotaInv, BasesAreBacked
  <1>3. ASSUME NEW i \in Invoices, Grants(i)
        PROVE  QuotaInv'
    <2>1. \A u \in Users :
             /\ IsFiniteSet(GrantsTo(u)')
             /\ Cardinality(GrantsTo(u)') =
                   IF owner[i] = u THEN Cardinality(GrantsTo(u)) + 1
                                   ELSE Cardinality(GrantsTo(u))
      BY <1>1, <1>3, GrantCounted DEF Grants
    <2> PICK s \in Sessions :
          /\ Locked(s) /\ sess[s].inv = i
          /\ quota' = [quota EXCEPT ![owner[i]] = sess[s].base + 1]
      BY <1>3 DEF Grants, Locked
    <2>2. /\ sess[s].base \in Nat /\ owner[i] \in Users
          /\ sess[s].base <= Cardinality(GrantsTo(owner[i]))
      BY LockedType DEF QuotaInv, BasesAreBacked
    <2>3. \A u \in Users : quota'[u] = IF u = owner[i] THEN sess[s].base + 1
                                                       ELSE quota[u]
      BY DEF TypeOK
    <2>4. GrantsAreFinite' /\ QuotaNeverExceedsGrants'
      BY <1>1, <2>1, <2>2, <2>3
      DEF QuotaInv, GrantsAreFinite, QuotaNeverExceedsGrants
    <2>5. ASSUME NEW x \in Sessions, NEW u \in Users, Locked(x)',
                 owner[sess'[x].inv] = u
          PROVE  sess'[x].base <= Cardinality(GrantsTo(u)')
      <3>1. ~TakesLock(x)
        BY <1>3 DEF TakesLock, db, Grants, TypeOK
      <3>2. Locked(x) /\ sess'[x] = sess[x]
        BY <2>5, <3>1, LockedBefore
      <3>3. /\ sess[x].base \in Nat
            /\ sess[x].base <= Cardinality(GrantsTo(u))
        BY <2>5, <3>2, LockedType DEF QuotaInv, BasesAreBacked
      <3> QED
        BY <1>1, <2>1, <3>2, <3>3
    <2> QED
      BY <2>4, <2>5 DEF QuotaInv, BasesAreBacked
  <1> QED
    BY <1>2, <1>3, EffectOnGrants

LEMMA NothingGranted ==
  ASSUME Init, NEW u
  PROVE  IsFiniteSet(GrantsTo(u)) /\ Cardinality(GrantsTo(u)) = 0
  <1>1. GrantsTo(u) = {}
    <2>1. \A i \in OwnedBy(u) : 1 .. granted[i] = {}
      BY DEF Init, OwnedBy
    <2> QED
      BY <2>1 DEF GrantsTo
  <1> QED
    BY <1>1, FS_EmptySet

LEMMA NobodyLocked ==
  ASSUME Init, NEW s \in Sessions
  PROVE  ~Locked(s)
  BY DEF Init, Locked, Holding, Idle

\* Two grants to one user may overwrite each other's limit, but whatever the
\* sessions do the limit never exceeds what was granted.
THEOREM NoGrantIsInvented == Spec => []QuotaNeverExceedsGrants
  <1>1. Init => QuotaInv
    <2> SUFFICES ASSUME Init PROVE QuotaInv
      OBVIOUS
    <2>1. \A u \in Users : quota[u] = 0
      BY DEF Init
    <2> QED
      BY <2>1, NothingGranted, NobodyLocked
      DEF QuotaInv, GrantsAreFinite, QuotaNeverExceedsGrants, BasesAreBacked
  <1>2. IInv /\ QuotaInv /\ [Next]_vars => QuotaInv'
    BY InvariantStep, NextEffect, NextMemory, QuotaStep DEF IInv
  <1>3. QuotaInv => QuotaNeverExceedsGrants
    BY DEF QuotaInv
  <1> QED
    BY <1>1, <1>2, <1>3, Invariance, PTL DEF Spec

\* The row lock of an invoice guards the limit of a user without another.
BasesAreCurrent ==
    \A s \in Sessions : Locked(s) => sess[s].base = quota[owner[sess[s].inv]]

ExactInv == GrantsAreFinite /\ QuotaIsSumOfGrants /\ BasesAreCurrent

\* No two sessions can hold invoices of one user.
QuotaIsGuarded ==
    \/ \A i, j \in Invoices : owner[i] = owner[j] => i = j
    \/ \A a, b \in Sessions : a = b

LEMMA ExactStep ==
  ASSUME QuotaIsGuarded,
         IInv, IInv', ExactInv, Effect, SessionsChange
  PROVE  ExactInv'
  <1>1. TypeOK /\ TypeOK' /\ LockedReadIsCurrent' /\ SeenOK'
    BY DEF IInv
  <1>2. \A u \in Users : IsFiniteSet(GrantsTo(u))
                         /\ Cardinality(GrantsTo(u)) \in Nat
    BY FS_CardinalityType DEF ExactInv, GrantsAreFinite
  <1>3. CASE UNCHANGED <<granted, quota>>
    <2>1. \A u : GrantsTo(u)' = GrantsTo(u)
      BY <1>3, GrantsKept
    <2>2. GrantsAreFinite' /\ QuotaIsSumOfGrants'
      BY <1>3, <2>1 DEF ExactInv, GrantsAreFinite, QuotaIsSumOfGrants
    <2>3. ASSUME NEW s \in Sessions, Locked(s)'
          PROVE  sess'[s].base = quota'[owner[sess'[s].inv]]
      BY <1>1, <1>3, <2>3, LockedBefore
        DEF ExactInv, BasesAreCurrent, TakesLock
    <2> QED
      BY <2>2, <2>3 DEF ExactInv, BasesAreCurrent
  <1>4. ASSUME NEW i \in Invoices, Grants(i)
        PROVE  ExactInv'
    <2>1. \A u \in Users :
             /\ IsFiniteSet(GrantsTo(u)')
             /\ Cardinality(GrantsTo(u)') =
                   IF owner[i] = u THEN Cardinality(GrantsTo(u)) + 1
                                   ELSE Cardinality(GrantsTo(u))
      BY <1>1, <1>2, <1>4, GrantCounted DEF Grants
    <2> PICK s \in Sessions :
          /\ Locked(s) /\ sess[s].inv = i
          /\ quota' = [quota EXCEPT ![owner[i]] = sess[s].base + 1]
      BY <1>4 DEF Grants, Locked
    <2>2. owner[i] \in Users /\ sess[s].base = quota[owner[i]]
      BY <1>1, LockedType DEF ExactInv, BasesAreCurrent
    <2>3. \A u \in Users : quota'[u] = IF u = owner[i] THEN quota[u] + 1
                                                       ELSE quota[u]
      BY <1>1, <2>2 DEF TypeOK
    <2>4. GrantsAreFinite' /\ QuotaIsSumOfGrants'
      BY <2>1, <2>3 DEF ExactInv, GrantsAreFinite, QuotaIsSumOfGrants
    <2>5. ASSUME NEW x \in Sessions, Locked(x)'
          PROVE  sess'[x].base = quota'[owner[sess'[x].inv]]
      <3>1. row[i] # "applied" /\ row'[i] = "applied"
        BY <1>1, <1>4 DEF Grants, TypeOK
      <3>2. ~TakesLock(x)
        BY <3>1 DEF TakesLock, db
      <3>3. Locked(x) /\ sess'[x] = sess[x]
        BY <1>1, <2>5, <3>2, LockedBefore
      <3>4. sess[x].inv \in Invoices /\ owner[sess[x].inv] \in Users
        BY <1>1, <3>3, LockedType
      <3>5. row'[sess'[x].inv] = sess'[x].seen /\ sess'[x].seen # "applied"
        BY <1>1, <2>5 DEF LockedReadIsCurrent, SeenOK, Locked, TERMINAL_STATES
      <3>6. sess[x].inv # i
        BY <3>1, <3>3, <3>5
      <3>7. owner[sess[x].inv] # owner[i]
        BY <3>4, <3>6 DEF QuotaIsGuarded
      <3> QED
        BY <2>3, <3>3, <3>4, <3>7 DEF ExactInv, BasesAreCurrent
    <2> QED
      BY <2>4, <2>5 DEF ExactInv, BasesAreCurrent
  <1> QED
    BY <1>1, <1>3, <1>4, EffectOnGrants

\* A user with at most one invoice, as in the run that checks it, never loses
\* a grant: the lock on the invoice also guards the user's row.  Nor does any
\* user where all grants are made by one session.
THEOREM NoGrantIsLost ==
  ASSUME QuotaIsGuarded
  PROVE  Spec => []QuotaIsSumOfGrants
  <1>1. Init => ExactInv
    <2> SUFFICES ASSUME Init PROVE ExactInv
      OBVIOUS
    <2>1. \A u \in Users : quota[u] = 0
      BY DEF Init
    <2> QED
      BY <2>1, NothingGranted, NobodyLocked
      DEF ExactInv, GrantsAreFinite, QuotaIsSumOfGrants, BasesAreCurrent
  <1>2. IInv /\ ExactInv /\ [Next]_vars => ExactInv'
    BY InvariantStep, NextEffect, NextMemory, ExactStep DEF IInv
  <1>3. ExactInv => QuotaIsSumOfGrants
    BY DEF ExactInv
  <1> QED
    BY <1>1, <1>2, <1>3, Invariance, PTL DEF Spec

=============================================================================
