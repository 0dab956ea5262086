----------------------------- MODULE MCBilling -----------------------------
(***************************************************************************)
(* Values for the constants of Billing.  Users and plans are numbers, so   *)
(* that invoices can be given one of their own or share one.               *)
(***************************************************************************)
EXTENDS BillingProperties

OwnUser == [i \in Invoices |-> i]
SameUser == [i \in Invoices |-> 1]
OwnPlan == [i \in Invoices |-> i]
SamePlan == [i \in Invoices |-> 1]
OneHome == [t \in Threads |-> CHOOSE l \in Loops : TRUE]

=============================================================================
