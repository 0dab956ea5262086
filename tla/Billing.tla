------------------------------ MODULE Billing ------------------------------
(***************************************************************************)
(* The sessions that move invoices: checkout, the EPay webhook, the TRC20  *)
(* poller, the reaper and the applier on a panel's event loop, and the     *)
(* admin endpoints apply_manual and cancel on its worker threads, over one *)
(* PostgreSQL database at READ COMMITTED.                                  *)
(*                                                                         *)
(* An event loop runs one handler or job at a time, since none of them     *)
(* awaits between its first row read and its commit; a worker thread runs  *)
(* alongside.  What a session does between two statements of its own is    *)
(* therefore split in two steps: the one that READS the row into the       *)
(* session and the one that flushes and COMMITS what it computed.          *)
(*                                                                         *)
(* apply_manual and the applier read with SELECT ... FOR UPDATE and hold   *)
(* the row lock to the commit.  All other sessions read without a lock and *)
(* update by primary key: their flush waits for the lock, then overwrites  *)
(* whatever the row has become.  `stale' remembers where that happened.    *)
(***************************************************************************)
EXTENDS InvoiceStates, Naturals, Sequences, FiniteSets

CONSTANTS
    Invoices,    \* invoice ids, allocated in increasing order
    Trc20,       \* the invoices opened on TRC20, the others are EPay's
    Users, Plans,
    owner,       \* [Invoices -> Users]
    planOf,      \* [Invoices -> Plans], the plan of the invoice's lines
    Loops,       \* event loops, one per running panel process
    Threads,     \* worker threads running admin requests
    home,        \* [Threads -> Loops], the process a thread belongs to
    Notices,     \* EPay trade numbers, the provider_event_id of a webhook
    Free,        \* the owner of a row lock nobody holds
    Ops,         \* the operations in use
    BatchLimit,  \* _BATCH_LIMIT, invoices per scheduler tick
    MaxCrashes   \* bound on the process crashes explored

AllOps == {"checkout", "webhook", "poll", "reap", "apply",
           "manual", "cancel", "update_plan"}

ASSUME BillingAssumption ==
    /\ Invoices \subseteq Nat \ {0}
    /\ IsFiniteSet(Invoices)
    /\ Trc20 \subseteq Invoices
    /\ owner \in [Invoices -> Users]
    /\ planOf \in [Invoices -> Plans]
    /\ Loops \cap Threads = {}
    /\ Free \notin Loops \cup Threads
    /\ home \in [Threads -> Loops]
    /\ Ops \subseteq AllOps
    /\ BatchLimit \in Nat \ {0}
    /\ MaxCrashes \in Nat

VARIABLES
    row,         \* [Invoices -> committed state, "none" before the insert]
    log,         \* [Invoices -> the state events of billing_payment_events]
    received,    \* [Invoices -> trade numbers with a webhook_received event]
    granted,     \* [Invoices -> how often its grant was committed]
    quota,       \* [Users -> data_limit, in grants]
    enabled,     \* the plans on sale
    overdue,     \* the invoices whose expires_at has passed
    lock,        \* [Invoices -> the session holding its row lock, or Free]
    sess,        \* [Sessions -> what the session has in memory]
    answered,    \* [Invoices -> trade numbers answered "success"]
    stale,       \* invoices overwritten by a commit based on a stale read
    crashes

db == <<row, log, received, granted, quota>>
env == <<enabled, overdue, answered, crashes>>
vars == <<db, env, lock, sess, stale>>

Sessions == Loops \cup Threads
NoInvoice == 0

EventType == {"invoice_created", "provider_submit_succeeded",
              "provider_submit_failed", "webhook_epay", "state_paid",
              "reaper_expired", "admin_manual:to_pending",
              "admin_manual:to_paid", "state_applied", "admin_cancel"}

Event == [type : EventType, from : InvoiceState, to : InvoiceState]

\* Mutant of Ev: from_state is left unset.
EvWithoutFrom(type, from, to) == [type |-> type, from |-> "none", to |-> to]
Ev(type, from, to) == [type |-> type, from |-> from, to |-> to]

(***************************************************************************)
(* What a session has in memory: the operation, the rest of its batch, the *)
(* invoice it read with the state it saw, the user's quota it read, whether*)
(* the grant can be computed, and the trade number of the webhook.         *)
(***************************************************************************)
Session == [op : AllOps \cup {"idle", "reply"}, todo : SUBSET Invoices,
            inv : Invoices \cup {NoInvoice}, seen : InvoiceState \cup {"none"},
            base : Nat, cart : {"valid", "invalid"}, notice : SUBSET Notices]

Idle == [op |-> "idle", todo |-> {}, inv |-> NoInvoice, seen |-> "none",
         base |-> 0, cart |-> "invalid", notice |-> {}]

IsIdle(s) == sess[s].op = "idle"
Holding(s, op) == sess[s].op = op /\ sess[s].inv # NoInvoice
Exists(i) == row[i] # "none"
IsLowest(i, S) == i \in S /\ \A j \in S : i <= j
\* Mutant of RowIsFree: nobody waits for a row lock.
IgnoreLock(i) == TRUE
RowIsFree(i) == lock[i] = Free

\* ORDER BY id LIMIT _BATCH_LIMIT.
FirstBatch(S) == {i \in S : Cardinality({j \in S : j < i}) < BatchLimit}

\* A session done with one invoice goes on with the rest of its batch.
Proceed(todo, op) ==
    IF todo = {} THEN Idle ELSE [Idle EXCEPT !.op = op, !.todo = todo]

-----------------------------------------------------------------------------
(* Commits.                                                                *)

(***************************************************************************)
(* A session that read without a lock commits transition(seen -> to).  The *)
(* flush waits while another session holds the row: it updates the row or, *)
(* when the session saw `to' already, only inserts a noop_same_state event *)
(* (here: an event with from = to), whose foreign key refers to the row.   *)
(***************************************************************************)
CommitUnlocked(s, to, type) ==
    LET i == sess[s].inv
        noop == sess[s].seen = to
    IN
    /\ RowIsFree(i)
    /\ row' = IF noop THEN row ELSE [row EXCEPT ![i] = to]
    /\ log' = [log EXCEPT ![i] = Append(@, Ev(type, sess[s].seen, to))]
    /\ stale' = IF noop \/ row[i] = sess[s].seen THEN stale ELSE stale \cup {i}

\* Mutants of ApplyGrantToUser: the limit is not written; it is replaced by
\* the plan's instead of added to.
DropGrant(u, base) == UNCHANGED quota
ReplaceLimit(u, base) == quota' = [quota EXCEPT ![u] = 1]
\* data_limit is written from the value read.
ApplyGrantToUser(u, base) == quota' = [quota EXCEPT ![u] = base + 1]

(***************************************************************************)
(* apply_invoice_grant under the row lock: quota, grant and state_applied  *)
(* land in one commit.                                                     *)
(***************************************************************************)
CommitGrant(s, prefix) ==
    LET i == sess[s].inv IN
    /\ ApplyGrantToUser(owner[i], sess[s].base)
    /\ granted' = [granted EXCEPT ![i] = @ + 1]
    /\ row' = [row EXCEPT ![i] = "applied"]
    /\ log' = [log EXCEPT ![i] =
                  @ \o Append(prefix, Ev("state_applied", "paid", "applied"))]

-----------------------------------------------------------------------------
(* Checkout.                                                               *)

(***************************************************************************)
(* One transaction from the insert to the commit: created and pending are  *)
(* never visible to others.  The provider accepts the order or raises.     *)
(***************************************************************************)
Checkout(l, i) ==
    /\ "checkout" \in Ops /\ IsIdle(l)
    /\ ~Exists(i) /\ \A j \in Invoices : j < i => Exists(j)
    /\ planOf[i] \in enabled
    /\ \E to \in {"awaiting_payment", "failed"} :
          /\ row' = [row EXCEPT ![i] = to]
          /\ log' = [log EXCEPT ![i] =
                <<Ev("invoice_created", "created", "pending"),
                  Ev(IF to = "failed" THEN "provider_submit_failed"
                                      ELSE "provider_submit_succeeded",
                     "pending", to)>>]
    /\ UNCHANGED <<received, granted, quota, env, lock, sess, stale>>

-----------------------------------------------------------------------------
(* EPay webhook.                                                           *)

\* Mutant of IsReplay: every delivery is taken for a new one.
NeverReplayed(i, n) == FALSE
\* record_webhook_seen: was this trade number recorded before?
IsReplay(i, n) == n \in received[i]

\* Mutant of RecordWebhookSeen: the webhook_received event is not written.
ForgetNotice(i, notice) == UNCHANGED received
RecordWebhookSeen(i, notice) ==
    received' = [received EXCEPT ![i] = @ \cup notice]

(***************************************************************************)
(* A verified TRADE_SUCCESS delivery.  Deliveries the handler rejects      *)
(* (unknown or disabled channel, caller not allowed, bad signature) change *)
(* nothing.  A replay is only answered.                                    *)
(***************************************************************************)
WebhookRead(l, i, n) ==
    /\ "webhook" \in Ops /\ IsIdle(l)
    /\ i \notin Trc20 /\ row[i] \notin {"none", "failed"}
    /\ sess' = [sess EXCEPT ![l] =
          [Idle EXCEPT !.op = IF IsReplay(i, n) THEN "reply" ELSE "webhook",
                       !.inv = i, !.seen = row[i], !.notice = {n}]]
    /\ UNCHANGED <<db, env, lock, stale>>

\* The dedup event and the transition to paid are one commit.
WebhookCommit(l) ==
    LET s == sess[l] IN
    /\ Holding(l, "webhook") /\ Accepts(s.seen, "paid")
    /\ CommitUnlocked(l, "paid", "webhook_epay")
    /\ RecordWebhookSeen(s.inv, s.notice)
    /\ sess' = [sess EXCEPT ![l].op = "reply"]
    /\ UNCHANGED <<granted, quota, env, lock>>

\* InvoiceStateError: the rollback also discards the dedup event.
WebhookConflict(l) ==
    /\ Holding(l, "webhook") /\ ~Accepts(sess[l].seen, "paid")
    /\ sess' = [sess EXCEPT ![l].op = "reply"]
    /\ UNCHANGED <<db, env, lock, stale>>

\* "success" reaches the vendor, which stops retrying this trade number.
WebhookReply(l) ==
    LET s == sess[l] IN
    /\ Holding(l, "reply")
    /\ answered' = [answered EXCEPT ![s.inv] = @ \cup s.notice]
    /\ sess' = [sess EXCEPT ![l] = Idle]
    /\ UNCHANGED <<db, enabled, overdue, crashes, lock, stale>>

-----------------------------------------------------------------------------
(* Reaper and TRC20 poller: sweeps over awaiting_payment invoices.         *)

(***************************************************************************)
(* The batch query loads the rows, so the first invoice is worked on with  *)
(* the state of the query; a commit or rollback expires the others, which  *)
(* are read again when their turn comes.                                   *)
(***************************************************************************)
BeginSweep(l, op, batch) ==
    /\ op \in Ops /\ IsIdle(l)
    /\ \E i \in batch :
          /\ IsLowest(i, batch)
          /\ sess' = [sess EXCEPT ![l] =
                [Idle EXCEPT !.op = op, !.inv = i, !.todo = batch \ {i},
                             !.seen = "awaiting_payment"]]
    /\ UNCHANGED <<db, env, lock, stale>>

Awaiting == {i \in Invoices : row[i] = "awaiting_payment"}

\* Mutant of StartReap: TRC20 invoices are not reaped.
ReapEPayOnly(l) ==
    BeginSweep(l, "reap", FirstBatch((Awaiting \cap overdue) \ Trc20))
StartReap(l) == BeginSweep(l, "reap", FirstBatch(Awaiting \cap overdue))

\* The invoices a confirmed transfer matches; the others are passed over.
StartPoll(l) ==
    \E matched \in SUBSET ((Awaiting \cap Trc20) \ overdue) :
        BeginSweep(l, "poll", matched)

SweepNext(l) ==
    /\ sess[l].op \in {"reap", "poll"} /\ sess[l].inv = NoInvoice
    /\ \E i \in sess[l].todo :
          /\ IsLowest(i, sess[l].todo)
          /\ sess' = [sess EXCEPT ![l].inv = i, ![l].todo = @ \ {i},
                                  ![l].seen = row[i]]
    /\ UNCHANGED <<db, env, lock, stale>>

SweepCommit(l, op, to, type) ==
    /\ Holding(l, op) /\ Accepts(sess[l].seen, to)
    /\ CommitUnlocked(l, to, type)
    /\ sess' = [sess EXCEPT ![l] = Proceed(@.todo, @.op)]
    /\ UNCHANGED <<received, granted, quota, env, lock>>

SweepSkip(l, op, to) ==
    /\ Holding(l, op) /\ ~Accepts(sess[l].seen, to)
    /\ sess' = [sess EXCEPT ![l] = Proceed(@.todo, @.op)]
    /\ UNCHANGED <<db, env, lock, stale>>

ReapCommit(l) == SweepCommit(l, "reap", "expired", "reaper_expired")
ReapSkip(l) == SweepSkip(l, "reap", "expired")
PollCommit(l) == SweepCommit(l, "poll", "paid", "state_paid")
PollSkip(l) == SweepSkip(l, "poll", "paid")

-----------------------------------------------------------------------------
(* Applier.                                                                *)

\* Mutant of Paid: invoices past their window are no candidates.
PaidInTime == {i \in Invoices : row[i] = "paid"} \ overdue
Paid == {i \in Invoices : row[i] = "paid"}

StartApply(l) ==
    /\ "apply" \in Ops /\ IsIdle(l)
    /\ Paid # {}
    /\ sess' = [sess EXCEPT ![l] = [Idle EXCEPT !.op = "apply",
                                                !.todo = FirstBatch(Paid)]]
    /\ UNCHANGED <<db, env, lock, stale>>

(***************************************************************************)
(* What a session has once it holds the row lock: the locked row, the user *)
(* row (read without a lock) and whether the cart's plan is still on sale. *)
(***************************************************************************)
Claim(s, i, op, rest) ==
    /\ RowIsFree(i)
    /\ lock' = [lock EXCEPT ![i] = s]
    /\ sess' = [sess EXCEPT ![s] =
          [Idle EXCEPT !.op = op, !.todo = rest, !.inv = i, !.seen = row[i],
                       !.base = quota[owner[i]],
                       !.cart = IF planOf[i] \in enabled
                              THEN "valid" ELSE "invalid"]]
    /\ UNCHANGED <<db, env, stale>>

\* Mutant of StillPaid: the candidate query is trusted under the lock.
TrustCandidate(i) == TRUE
StillPaid(i) == row[i] = "paid"

\* SELECT ... WHERE state = 'paid' FOR UPDATE SKIP LOCKED on the next id.
ApplyClaim(l) ==
    /\ sess[l].op = "apply" /\ sess[l].inv = NoInvoice
    /\ \E i \in sess[l].todo :
          /\ IsLowest(i, sess[l].todo)
          /\ \/ /\ StillPaid(i)
                /\ Claim(l, i, "apply", sess[l].todo \ {i})
             \/ /\ ~RowIsFree(i) \/ ~StillPaid(i)
                /\ sess' = [sess EXCEPT ![l] = Proceed(sess[l].todo \ {i}, @.op)]
                /\ UNCHANGED <<db, env, lock, stale>>

Release(s) == lock' = [lock EXCEPT ![sess[s].inv] = Free]

ApplyCommit(l) ==
    /\ Holding(l, "apply") /\ sess[l].cart = "valid"
    /\ CommitGrant(l, <<>>)
    /\ Release(l)
    /\ sess' = [sess EXCEPT ![l] = Proceed(@.todo, @.op)]
    /\ UNCHANGED <<received, env, stale>>

\* ApplierSkip: rolled back, the invoice stays paid.
ApplySkip(l) ==
    /\ Holding(l, "apply") /\ sess[l].cart = "invalid"
    /\ Release(l)
    /\ sess' = [sess EXCEPT ![l] = Proceed(@.todo, @.op)]
    /\ UNCHANGED <<db, env, stale>>

-----------------------------------------------------------------------------
(* Admin endpoints, on worker threads.                                     *)

\* SELECT ... FOR UPDATE waits for the lock; a terminal invoice is refused.
ManualClaim(t, i) ==
    /\ "manual" \in Ops /\ IsIdle(t)
    /\ Exists(i) /\ row[i] \notin TERMINAL_STATES
    /\ Claim(t, i, "manual", {})

OverrideEvents(from) ==
    LET path == OverridePath(from) IN
    [k \in 1 .. Len(path) - 1 |->
        Ev(IF path[k + 1] = "paid" THEN "admin_manual:to_paid"
                                   ELSE "admin_manual:to_pending",
           path[k], path[k + 1])]

\* The override and the grant in one commit.
ManualCommit(t) ==
    /\ Holding(t, "manual") /\ sess[t].cart = "valid"
    /\ CommitGrant(t, OverrideEvents(sess[t].seen))
    /\ Release(t)
    /\ sess' = [sess EXCEPT ![t] = Idle]
    /\ UNCHANGED <<received, env, stale>>

\* Mutant of ManualPaidOnly: the user's row is not part of the savepoint.
ManualPaidKeepsGrant(t) ==
    LET i == sess[t].inv IN
    /\ Holding(t, "manual") /\ sess[t].cart = "invalid"
    /\ row' = [row EXCEPT ![i] = "paid"]
    /\ log' = [log EXCEPT ![i] = @ \o OverrideEvents(sess[t].seen)]
    /\ ApplyGrantToUser(owner[i], sess[t].base)
    /\ Release(t)
    /\ sess' = [sess EXCEPT ![t] = Idle]
    /\ UNCHANGED <<received, granted, env, stale>>
\* The savepoint is rolled back, the override to paid is committed.
ManualPaidOnly(t) ==
    LET i == sess[t].inv IN
    /\ Holding(t, "manual") /\ sess[t].cart = "invalid"
    /\ row' = [row EXCEPT ![i] = "paid"]
    /\ log' = [log EXCEPT ![i] = @ \o OverrideEvents(sess[t].seen)]
    /\ Release(t)
    /\ sess' = [sess EXCEPT ![t] = Idle]
    /\ UNCHANGED <<received, granted, quota, env, stale>>

\* Refused (409) when terminal or paid.
CancelRead(t, i) ==
    /\ "cancel" \in Ops /\ IsIdle(t)
    /\ Exists(i) /\ IsAllowedTransition(row[i], "cancelled")
    /\ sess' = [sess EXCEPT ![t] =
          [Idle EXCEPT !.op = "cancel", !.inv = i, !.seen = row[i]]]
    /\ UNCHANGED <<db, env, lock, stale>>

CancelCommit(t) ==
    /\ Holding(t, "cancel")
    /\ CommitUnlocked(t, "cancelled", "admin_cancel")
    /\ sess' = [sess EXCEPT ![t] = Idle]
    /\ UNCHANGED <<received, granted, quota, env, lock>>

\* update_plan with {"enabled": ...}.
UpdatePlan(p) ==
    /\ "update_plan" \in Ops
    /\ enabled' = IF p \in enabled THEN enabled \ {p} ELSE enabled \cup {p}
    /\ UNCHANGED <<db, overdue, answered, crashes, lock, sess, stale>>

-----------------------------------------------------------------------------
(* The environment.                                                        *)

\* expires_at passes.
WindowElapses(i) ==
    /\ row[i] = "awaiting_payment" /\ i \notin overdue
    /\ overdue' = overdue \cup {i}
    /\ UNCHANGED <<db, enabled, answered, crashes, lock, sess, stale>>

(***************************************************************************)
(* The process dies: its open transactions are rolled back, their locks    *)
(* are released, an answer not yet sent is lost.                           *)
(***************************************************************************)
OfProcess(l) == {l} \cup {t \in Threads : home[t] = l}

Crash(l) ==
    /\ crashes < MaxCrashes
    /\ crashes' = crashes + 1
    /\ sess' = [s \in Sessions |-> IF s \in OfProcess(l) THEN Idle ELSE sess[s]]
    /\ lock' = [i \in Invoices |->
                   IF lock[i] \in OfProcess(l) THEN Free ELSE lock[i]]
    /\ UNCHANGED <<db, enabled, overdue, answered, stale>>

-----------------------------------------------------------------------------

Init ==
    /\ row = [i \in Invoices |-> "none"]
    /\ log = [i \in Invoices |-> <<>>]
    /\ received = [i \in Invoices |-> {}]
    /\ granted = [i \in Invoices |-> 0]
    /\ quota = [u \in Users |-> 0]
    /\ enabled = Plans
    /\ overdue = {}
    /\ lock = [i \in Invoices |-> Free]
    /\ sess = [s \in Sessions |-> Idle]
    /\ answered = [i \in Invoices |-> {}]
    /\ stale = {}
    /\ crashes = 0

LoopStep(l) ==
    \/ \E i \in Invoices : Checkout(l, i)
    \/ \E i \in Invoices, n \in Notices : WebhookRead(l, i, n)
    \/ WebhookCommit(l) \/ WebhookConflict(l) \/ WebhookReply(l)
    \/ StartReap(l) \/ StartPoll(l) \/ SweepNext(l)
    \/ ReapCommit(l) \/ ReapSkip(l) \/ PollCommit(l) \/ PollSkip(l)
    \/ StartApply(l) \/ ApplyClaim(l) \/ ApplyCommit(l) \/ ApplySkip(l)

ThreadStep(t) ==
    \/ \E i \in Invoices : ManualClaim(t, i) \/ CancelRead(t, i)
    \/ ManualCommit(t) \/ ManualPaidOnly(t) \/ CancelCommit(t)

Next ==
    \/ \E l \in Loops : LoopStep(l) \/ Crash(l)
    \/ \E t \in Threads : ThreadStep(t)
    \/ \E p \in Plans : UpdatePlan(p)
    \/ \E i \in Invoices : WindowElapses(i)

Spec == Init /\ [][Next]_vars

(***************************************************************************)
(* APScheduler fires every job again and again and the loop runs what it   *)
(* has started; a request accepted by a thread runs to its commit.  A tick *)
(* competes for the loop with the other jobs and with requests, so its     *)
(* start is only enabled now and then: strong fairness.  Nothing makes a   *)
(* customer, a vendor or an admin act, or the window elapse.               *)
(***************************************************************************)
LoopProgress(l) ==
    \/ WebhookCommit(l) \/ WebhookConflict(l) \/ WebhookReply(l)
    \/ SweepNext(l) \/ ReapCommit(l) \/ ReapSkip(l) \/ PollCommit(l)
    \/ PollSkip(l) \/ ApplyClaim(l) \/ ApplyCommit(l) \/ ApplySkip(l)

ThreadProgress(t) == ManualCommit(t) \/ ManualPaidOnly(t) \/ CancelCommit(t)

Fairness ==
    /\ \A l \in Loops : /\ WF_vars(LoopProgress(l))
                        /\ SF_vars(StartReap(l))
                        /\ SF_vars(StartApply(l))
    /\ \A t \in Threads : WF_vars(ThreadProgress(t))

FairSpec == Spec /\ Fairness

-----------------------------------------------------------------------------
(* Types.                                                                  *)

TypeOK ==
    /\ row \in [Invoices -> InvoiceState \cup {"none"}]
    /\ log \in [Invoices -> Seq(Event)]
    /\ received \in [Invoices -> SUBSET Notices]
    /\ granted \in [Invoices -> Nat]
    /\ quota \in [Users -> Nat]
    /\ enabled \subseteq Plans
    /\ overdue \subseteq Invoices
    /\ lock \in [Invoices -> Sessions \cup {Free}]
    /\ sess \in [Sessions -> Session]
    /\ answered \in [Invoices -> SUBSET Notices]
    /\ stale \subseteq Invoices
    /\ crashes \in Nat

=============================================================================
