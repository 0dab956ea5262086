------------------------- MODULE BillingProperties -------------------------
(***************************************************************************)
(* What the billing layer is meant to guarantee, stated over Billing.      *)
(***************************************************************************)
EXTENDS Billing

Lifecycle == INSTANCE InvoiceLifecycle WITH state <- row

Trustworthy == Invoices \ stale
OwnedBy(u) == {i \in Invoices : owner[i] = u}
Count(i, type) == Cardinality({k \in DOMAIN log[i] : log[i][k].type = type})

\* The positions of the events that change the state; the other events are
\* of the type noop_same_state.
Changes(events) == {k \in DOMAIN events : events[k].from # events[k].to}

\* The grants made to a user: the k-th grant of each of the user's invoices.
GrantsTo(u) == UNION {{<<i, k>> : k \in 1 .. granted[i]} : i \in OwnedBy(u)}

-----------------------------------------------------------------------------
(* Safety.                                                                 *)

\* What a session read under FOR UPDATE (apply_manual, the applier) is what
\* the row still holds when it commits, whatever the others do meanwhile.
LockedReadIsCurrent ==
    \A s \in Sessions : Holding(s, "apply") \/ Holding(s, "manual") =>
        /\ lock[sess[s].inv] = s
        /\ row[sess[s].inv] = sess[s].seen

\* The grant, which is not idempotent, is made exactly once for an applied
\* invoice and never for another, across ticks, admins, retries and crashes,
\* unless a commit based on a stale read has overwritten the invoice.
GrantedOnce ==
    \A i \in Trustworthy : granted[i] = IF row[i] = "applied" THEN 1 ELSE 0

\* Events that lead from the insert to `state', change by change.
IsHistory(events, state) ==
    LET C == Changes(events) IN
    /\ C = {} <=> state = "none"
    /\ \A k \in C :
          /\ IsAllowedTransition(events[k].from, events[k].to)
          /\ (\A j \in C : k <= j) => events[k].from = "created"
          /\ (\A j \in C : j <= k) => events[k].to = state
    /\ \A j, k \in C :
          j < k /\ ~(\E m \in C : j < m /\ m < k)
              => events[k].from = events[j].to

\* The payment events of an invoice tell its whole story: they start where
\* the insert starts, each change begins where the one before ended, each is
\* legal and the last one ends in the state of the row.
AuditChain == \A i \in Trustworthy : IsHistory(log[i], row[i])

\* The vendor is told to stop retrying only when the payment is on record
\* (recorded, and the invoice on its way to the grant) or the invoice was
\* closed before; a crash between commit and answer does not break this.
AnsweredIsSettled ==
    \A i \in Trustworthy : \A n \in answered[i] :
        IF n \in received[i] THEN row[i] \in {"paid", "applied"}
                             ELSE row[i] \in TERMINAL_STATES

\* However often the vendor delivers a trade number, it is recorded once and
\* attempts one transition, which at most the first of them makes.
WebhookDeduplicated ==
    \A i \in Invoices :
        /\ Count(i, "webhook_epay") = Cardinality(received[i])
        /\ \A j, k \in Changes(log[i]) :
              log[i][j].type = "webhook_epay" /\ log[i][k].type = "webhook_epay"
                  => j = k

\* A user's data_limit is what the grants made to the user add up to.
QuotaIsSumOfGrants ==
    \A u \in Users : quota[u] = Cardinality(GrantsTo(u))

\* A lost update may cost a user a grant, but nothing invents one.
QuotaNeverExceedsGrants ==
    \A u \in Users : quota[u] <= Cardinality(GrantsTo(u))

\* No commit is ever based on a stale read (BillingRefinement says when).
NoStaleWrite == stale = {}

\* What one step of the life cycle is for one invoice.
LifecycleStep(i) ==
    \/ row'[i] = row[i] /\ granted'[i] = granted[i]
    \/ /\ row[i] = "none" /\ row'[i] \in {"awaiting_payment", "failed"}
       /\ granted'[i] = granted[i]
    \/ /\ Lifecycle!Hops(row[i], row'[i]) /\ row'[i] # "applied"
       /\ granted'[i] = granted[i]
    \/ /\ Lifecycle!Hops(row[i], row'[i]) /\ row'[i] = "applied"
       /\ granted'[i] = granted[i] + 1

\* Whatever the interleaving of jobs, webhooks and admins, an invoice follows
\* the life cycle and is granted in the commit that makes it applied, as long
\* as no stale read overwrites it; so a terminal invoice never moves again.
OnlyStaleReadsStray == [][\A i \in Invoices \ stale' : LifecycleStep(i)]_vars

\* The sessions implement the life cycle of every invoice.
ImplementsLifecycle == Lifecycle!Spec

-----------------------------------------------------------------------------
(* Liveness.                                                               *)

\* A paid invoice whose plan stays on sale is applied, whatever other
\* invoices wait for, after a crash too.
PaidIsApplied ==
    \A i \in Invoices :
        <>[](planOf[i] \in enabled) => (row[i] = "paid" ~> row[i] = "applied")

\* An invoice past its payment window does not stay open.
OverdueIsClosed ==
    \A i \in Invoices : i \in overdue ~> row[i] # "awaiting_payment"

-----------------------------------------------------------------------------
(* What docstrings and comments say without exception.                     *)

\* states.py: terminal states have no way out; re-runs do not double-grant.
NeverGrantedTwice == \A i \in Invoices : granted[i] <= 1

=============================================================================
