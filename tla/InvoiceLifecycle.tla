-------------------------- MODULE InvoiceLifecycle --------------------------
(***************************************************************************)
(* What the billing layer promises about one invoice, with no sessions, no *)
(* locks and no stale reads: the state follows the diagram (one database   *)
(* commit may make several hops of it), and the user's grant is made once, *)
(* in the very commit that makes the invoice `applied'.                    *)
(***************************************************************************)
EXTENDS InvoiceStates, Naturals

CONSTANT Invoices  \* the ids of the invoices

VARIABLES
    state,         \* [Invoices -> InvoiceState \cup {"none"}]
    granted        \* [Invoices -> Nat], how often the grant was made

Hops(from, to) ==
    \/ IsAllowedTransition(from, to)
    \/ \E mid \in InvoiceState :
          IsAllowedTransition(from, mid) /\ IsAllowedTransition(mid, to)

Init ==
    /\ state = [i \in Invoices |-> "none"]
    /\ granted = [i \in Invoices |-> 0]

Open(i) ==
    /\ state[i] = "none"
    /\ \E to \in {"awaiting_payment", "failed"} :
          state' = [state EXCEPT ![i] = to]
    /\ UNCHANGED granted

Settle(i) ==
    /\ \E to \in InvoiceState \ {"applied"} :
          Hops(state[i], to) /\ state' = [state EXCEPT ![i] = to]
    /\ UNCHANGED granted

Apply(i) ==
    /\ Hops(state[i], "applied")
    /\ state' = [state EXCEPT ![i] = "applied"]
    /\ granted' = [granted EXCEPT ![i] = @ + 1]

Next == \E i \in Invoices : Open(i) \/ Settle(i) \/ Apply(i)

Spec == Init /\ [][Next]_<<state, granted>>

=============================================================================
