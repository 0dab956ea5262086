--------------------------- MODULE InvoiceStates ---------------------------
(***************************************************************************)
(* The invoice state diagram of ops/billing/states.py as constant-level    *)
(* operators: the states, the allowed transitions and what the transition  *)
(* helper decides from the state its caller has in memory.                 *)
(***************************************************************************)

InvoiceState == {"created", "pending", "awaiting_payment", "paid",
                 "applied", "expired", "cancelled", "failed"}

ALLOWED_TRANSITIONS ==
    {<<"created", "pending">>, <<"created", "cancelled">>,
     <<"pending", "awaiting_payment">>, <<"pending", "failed">>,
     <<"pending", "cancelled">>, <<"pending", "paid">>,
     <<"awaiting_payment", "paid">>, <<"awaiting_payment", "expired">>,
     <<"awaiting_payment", "cancelled">>,
     <<"paid", "applied">>}

\* Mutant of TERMINAL_STATES: an applied invoice counts as open.
AppliedNotTerminal == {"expired", "cancelled", "failed"}
TERMINAL_STATES == {"applied", "expired", "cancelled", "failed"}

\* Mutant of Accepts: the check is missing.
AcceptAnything(from, to) == TRUE

IsAllowedTransition(from, to) == <<from, to>> \in ALLOWED_TRANSITIONS

(***************************************************************************)
(* The helper accepts a transition when it is a no-op (same state) or      *)
(* allowed; otherwise it raises InvoiceStateError before any side effect.  *)
(***************************************************************************)
Accepts(from, to) == from = to \/ IsAllowedTransition(from, to)

\* Mutant of OverridePath: every open invoice is taken for a pending one.
OverrideAssumesPending(from) ==
    IF from \in {"pending", "awaiting_payment"} THEN <<"pending", "paid">>
                                                ELSE <<from>>

(***************************************************************************)
(* The hops the admin override makes before it attempts the grant:         *)
(* created -> pending -> paid, pending -> paid, awaiting_payment -> paid,  *)
(* none when the invoice is paid already.                                  *)
(***************************************************************************)
OverridePath(from) ==
    CASE from = "created" -> <<"created", "pending", "paid">>
      [] from \in {"pending", "awaiting_payment"} -> <<from, "paid">>
      [] OTHER -> <<from>>

=============================================================================
