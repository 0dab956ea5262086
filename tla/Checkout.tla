------------------------------- MODULE Checkout -------------------------------
(***************************************************************************)
(* The checkout page (routes/_dashboard/billing.purchase.lazy.tsx and      *)
(* modules/billing/admin-checkout): a sudo admin picks a user, fills a     *)
(* cart and pays, which makes the server write an invoice.  The plans and  *)
(* channels on sale are read by queries of their own and go stale.         *)
(* Prices, names and the dropdown of found users are left out.             *)
(***************************************************************************)
EXTENDS Integers, FiniteSets

CONSTANTS
    Users,
    Fixed,        \* plans sold once per invoice
    Flexible,     \* plans sold by the gigabyte or by the day
    Channels,     \* EPay channels, a higher number has a higher priority
    MaxQuantity,  \* bound: units of one line
    MaxPurchases, \* bound: carts
    MaxWrites,    \* bound: changes of what is on sale
    MaxInvoices   \* bound: invoices

VARIABLES ui, net, db

vars == <<ui, net, db>>

Plans == Fixed \cup Flexible
Nobody == 0
TRC20 == 0
NoChannel == -1
EmptyCart == [plan \in Plans |-> 0]
Empty(cart) == cart = EmptyCart

---------------------------------------------------------------------------
(* What is on screen *)

\* Channels are listed by priority and the first is selected.
FirstChannel(channels) ==
    IF channels = {} THEN NoChannel ELSE CHOOSE c \in channels : \A d \in channels : d <= c

PickerShown(u) == u.here /\ u.readable /\ u.user # Nobody /\ ~Empty(u.cart)

\* The picker takes its selection from the channels known as it appears; a change of
\* the channels does not touch it.
CheckoutPaymentPicker(was, u) ==
    IF PickerShown(u) /\ ~PickerShown(was)
    THEN [u EXCEPT !.selected = FirstChannel(u.channels),
                   !.tab = IF u.channels = {} THEN "trc20" ELSE "epay"]
    ELSE u

Render(u) == ui' = CheckoutPaymentPicker(ui, u)

BillingCheckoutPage(plans, channels, purchase) ==
    [ here |-> TRUE, readable |-> TRUE, user |-> Nobody, cart |-> EmptyCart, plans |-> plans,
      channels |-> channels, selected |-> NoChannel, tab |-> "epay", pending |-> FALSE,
      purchase |-> purchase ] \* how many carts there were

Usable == ui.here /\ ui.readable

---------------------------------------------------------------------------
(* The admin *)

\* Editing the text away from the name of the picked user unpicks the user.
UserSelector ==
    /\ Usable
    /\ \E user \in Users \cup {Nobody} : user # ui.user /\ Render([ui EXCEPT !.user = user])
    /\ UNCHANGED <<net, db>>

\* The card of a plan in the cart is disabled.
AddFixedPlan(plan) ==
    /\ Usable /\ plan \in Fixed \cap ui.plans /\ ui.cart[plan] = 0
    /\ Render([ui EXCEPT !.cart[plan] = 1])
    /\ UNCHANGED <<net, db>>

\* The calculator clamps the quantity at 1; lines of one plan are merged.
AddFlexibleLine(plan) ==
    /\ Usable /\ plan \in Flexible \cap ui.plans
    /\ \E quantity \in 1..(MaxQuantity - ui.cart[plan]) :
          Render([ui EXCEPT !.cart[plan] = @ + quantity])
    /\ UNCHANGED <<net, db>>

\* The summary lists the lines whose plan is still on sale.
RemoveLine(plan) ==
    /\ Usable /\ plan \in ui.plans /\ ui.cart[plan] > 0
    /\ Render([ui EXCEPT !.cart[plan] = 0])
    /\ UNCHANGED <<net, db>>

SelectEpay(channel) ==
    /\ PickerShown(ui) /\ ui.tab = "epay" /\ channel \in ui.channels \ {ui.selected}
    /\ ui' = [ui EXCEPT !.selected = channel]
    /\ UNCHANGED <<net, db>>

SelectTab ==
    /\ PickerShown(ui) /\ (ui.tab = "trc20" => ui.channels # {})
    /\ ui' = [ui EXCEPT !.tab = IF @ = "trc20" THEN "epay" ELSE "trc20"]
    /\ UNCHANGED <<net, db>>

\* Mutant of OnPay: the buttons stay enabled while a checkout is pending.
PayAgain ==
    /\ PickerShown(ui) /\ ui.purchase <= MaxPurchases
    /\ ui.tab = "epay" => ui.selected # NoChannel
    /\ net' = net \cup {[ purchase |-> ui.purchase, user |-> ui.user, lines |-> ui.cart,
                          channel |-> IF ui.tab = "trc20" THEN TRC20 ELSE ui.selected,
                          invoiced |-> FALSE ]}
    /\ ui' = [ui EXCEPT !.pending = TRUE]
    /\ UNCHANGED db

\* Both buttons are disabled while a checkout is pending.
OnPay ==
    /\ PickerShown(ui) /\ ~ui.pending /\ ui.purchase <= MaxPurchases
    /\ ui.tab = "epay" => ui.selected # NoChannel
    /\ net' = net \cup {[ purchase |-> ui.purchase, user |-> ui.user, lines |-> ui.cart,
                          channel |-> IF ui.tab = "trc20" THEN TRC20 ELSE ui.selected,
                          invoiced |-> FALSE ]}
    /\ ui' = [ui EXCEPT !.pending = TRUE]
    /\ UNCHANGED db

\* Leaving the page forgets the cart but not the request.
Leave == ui.here /\ ui' = [ui EXCEPT !.here = FALSE] /\ UNCHANGED <<net, db>>
Return ==
    /\ ~ui.here /\ ui.purchase < MaxPurchases
    /\ ui' = BillingCheckoutPage(ui.plans, ui.channels, ui.purchase + 1)
    /\ UNCHANGED <<net, db>>

---------------------------------------------------------------------------
(* Answers *)

Mine(r) == ui.here /\ r.purchase = ui.purchase

\* The cart is emptied, with what was added meanwhile; a TRC20 invoice leads to the
\* list of invoices from wherever the tab is by then.
PayAnswered(r) ==
    /\ r.invoiced
    /\ net' = net \ {r}
    /\ ui' = LET paid == IF Mine(r)
                         THEN [ui EXCEPT !.cart = EmptyCart, !.pending = FALSE, !.purchase = @ + 1]
                         ELSE ui
             IN  IF r.channel = TRC20 THEN [paid EXCEPT !.here = FALSE] ELSE paid
    /\ UNCHANGED db

\* The server refused, or the answer was lost: the cart stays.
PayFails(r) ==
    /\ net' = net \ {r}
    /\ ui' = IF Mine(r) THEN [ui EXCEPT !.pending = FALSE] ELSE ui
    /\ db' = [db EXCEPT !.unanswered = IF r.invoiced THEN @ \cup {r.purchase} ELSE @]

UserPlansRead ==
    /\ ui.here
    /\ Render([ui EXCEPT !.readable = TRUE, !.plans = db.plans])
    /\ UNCHANGED <<net, db>>
UserChannelsRead ==
    /\ ui.here
    /\ Render([ui EXCEPT !.readable = TRUE, !.channels = db.channels])
    /\ UNCHANGED <<net, db>>

\* A failed refresh hides the page behind an error; its state stays.
ReadFails == ui.here /\ ui' = [ui EXCEPT !.readable = FALSE] /\ UNCHANGED <<net, db>>

---------------------------------------------------------------------------
(* The server *)

Valid(r) ==
    /\ {plan \in Plans : r.lines[plan] > 0} \subseteq db.plans
    /\ r.channel \in db.channels \cup {TRC20}

Checkout(r) ==
    /\ ~r.invoiced /\ Valid(r) /\ Cardinality(db.invoices) < MaxInvoices
    /\ db' = [db EXCEPT !.invoices = @ \cup
                {[n |-> Cardinality(@), purchase |-> r.purchase]}]
    /\ net' = (net \ {r}) \cup {[r EXCEPT !.invoiced = TRUE]}
    /\ UNCHANGED ui

\* Plans and channels are put on and off sale.
OthersWrite ==
    /\ db.writes < MaxWrites
    /\ \/ \E plan \in Plans :
             db' = [db EXCEPT !.writes = @ + 1,
                              !.plans = IF plan \in @ THEN @ \ {plan} ELSE @ \cup {plan}]
       \/ \E channel \in Channels :
             db' = [db EXCEPT !.writes = @ + 1,
                              !.channels = IF channel \in @ THEN @ \ {channel} ELSE @ \cup {channel}]
    /\ UNCHANGED <<ui, net>>

Init ==
    /\ db \in {[ plans |-> Plans, channels |-> channels, invoices |-> {}, unanswered |-> {},
                 writes |-> 0 ] : channels \in SUBSET Channels}
    /\ ui = BillingCheckoutPage(db.plans, db.channels, 1)
    /\ net = {}

Next ==
    \/ UserSelector \/ SelectTab \/ OnPay \/ Leave \/ Return
    \/ \E plan \in Plans : AddFixedPlan(plan) \/ AddFlexibleLine(plan) \/ RemoveLine(plan)
    \/ \E channel \in Channels : SelectEpay(channel)
    \/ \E r \in net : PayAnswered(r) \/ PayFails(r) \/ Checkout(r)
    \/ UserPlansRead \/ UserChannelsRead \/ ReadFails \/ OthersWrite

Spec == Init /\ [][Next]_vars

---------------------------------------------------------------------------
\* Two invoices of one cart come only from an answer that was lost: clicks during a
\* checkout, a page that is left and opened again, and late answers make none.
ChargedOnce ==
    \A i, j \in db.invoices :
        (i # j /\ i.purchase = j.purchase) => i.purchase \in db.unanswered
=============================================================================
