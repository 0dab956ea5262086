---------------------------- MODULE BillingDialogs ----------------------------
(***************************************************************************)
(* The dialogs of modules/billing/components: the table of plans or of     *)
(* payment channels with its one form dialog, and the table of invoices    *)
(* with its one detail dialog.  A dialog stays mounted while it is closed, *)
(* so what it holds survives until it is filled again.                     *)
(*                                                                         *)
(* Values are told apart by where they come from: a row as it was clicked, *)
(* typed in the n-th opening of the dialog, or blank.                      *)
(***************************************************************************)
EXTENDS Integers, FiniteSets

CONSTANTS
    Rows,        \* plans, channels or invoices
    MaxOpenings, \* bound: openings of the dialog
    MaxSent      \* bound: requests under way

VARIABLES ui, net, db

vars == <<ui, net, db>>

NoRow == 0
Blank == [from |-> "blank", of |-> NoRow]
OfRow(row) == [from |-> "row", of |-> row]
Typed(opening) == [from |-> "typed", of |-> opening]

---------------------------------------------------------------------------
(* The dialog *)

EmptyForm == [value |-> Blank, secret |-> Blank]

\* Only a row as a whole is filled in; a secret never is.
FilledForm(row) == IF row = NoRow THEN EmptyForm ELSE [EmptyForm EXCEPT !.value = OfRow(row)]

\* The effect that runs when `open' or the row changes, and as the dialog is mounted.
Fill(u) == IF u.open /\ u.kind # "invoice" THEN [u EXCEPT !.form = FilledForm(u.row)] ELSE u

Table(kind) ==
    [ kind |-> kind, open |-> FALSE, row |-> NoRow, opening |-> 0, form |-> EmptyForm,
      pending |-> FALSE, readable |-> TRUE,
      shown |-> "nothing" ] \* the invoice in the detail dialog

Dialog(row) == Fill([ui EXCEPT !.open = TRUE, !.row = row, !.opening = @ + 1, !.shown = "nothing"])

CanOpen == ui.readable /\ ~ui.open /\ ui.opening < MaxOpenings
InDialog == ui.readable /\ ui.open

OpenCreate ==
    /\ CanOpen /\ ui.kind # "invoice"
    /\ ui' = Dialog(NoRow)
    /\ UNCHANGED <<net, db>>

\* The row is kept as it was read when the pencil was clicked.
OpenEdit(row) ==
    /\ CanOpen /\ ui.kind # "invoice"
    /\ ui' = Dialog(row)
    /\ UNCHANGED <<net, db>>

OpenDetail(row) ==
    /\ CanOpen /\ ui.kind = "invoice"
    /\ ui' = Dialog(row)
    /\ UNCHANGED <<net, db>>

\* Codes and kinds of existing rows are locked.  The note of an invoice is the `value';
\* its box is there for invoices that are not settled.
Type ==
    /\ InDialog /\ (ui.kind = "invoice" => ui.shown = "unsettled")
    /\ ui' = [ui EXCEPT !.form.value = Typed(ui.opening)]
    /\ UNCHANGED <<net, db>>

TypeSecret ==
    /\ InDialog /\ ui.kind = "channel"
    /\ ui' = [ui EXCEPT !.form.secret = Typed(ui.opening)]
    /\ UNCHANGED <<net, db>>

\* The cancel button, the escape key, or a click beside the dialog.
Close == InDialog /\ ui' = [ui EXCEPT !.open = FALSE] /\ UNCHANGED <<net, db>>

Send(request) ==
    /\ Cardinality(net) < MaxSent
    /\ net' = net \cup {request}
    /\ ui' = [ui EXCEPT !.pending = TRUE]
    /\ UNCHANGED db

Request == [row |-> ui.row, value |-> ui.form.value, secret |-> ui.form.secret, opening |-> ui.opening,
            mine |-> TRUE] \* sent by the dialog that is mounted now

PlanSubmit ==
    /\ InDialog /\ ui.kind = "plan" /\ ~ui.pending
    /\ ui.form.value # Blank
    /\ Send(Request)

\* A new channel needs a secret; a blank one is left out of an update.
ChannelSubmit ==
    /\ InDialog /\ ui.kind = "channel" /\ ~ui.pending
    /\ ui.form.value # Blank /\ (ui.row = NoRow => ui.form.secret # Blank)
    /\ Send(Request)

\* Both actions of an invoice need a note.
InvoiceAction ==
    /\ InDialog /\ ui.kind = "invoice" /\ ~ui.pending
    /\ ui.shown = "unsettled" /\ ui.form.value # Blank
    /\ Send(Request)

---------------------------------------------------------------------------
(* Answers and reads *)

\* Whichever dialog is open by then is closed.
SubmitAnswered(r) ==
    /\ r \in net
    /\ net' = net \ {r}
    /\ ui' = [ui EXCEPT !.open = FALSE, !.pending = @ /\ ~r.mine,
                        !.form.value = IF ui.kind = "invoice" THEN Blank ELSE @]
    /\ db' = [db EXCEPT !.settled = IF ui.kind = "invoice" THEN @ \cup {r.row} ELSE @]

\* The dialog stays as it is.
SubmitFails(r) ==
    /\ r \in net
    /\ net' = net \ {r}
    /\ ui' = [ui EXCEPT !.pending = @ /\ ~r.mine]
    /\ UNCHANGED db

InvoiceRead ==
    /\ InDialog /\ ui.kind = "invoice"
    /\ ui' = [ui EXCEPT !.shown = IF ui.row \in db.settled THEN "settled" ELSE "unsettled"]
    /\ UNCHANGED <<net, db>>

\* A failed refresh of plans or channels shows an error instead of table and dialog;
\* after the next one they are mounted anew, and the dialog is filled again if it was open.
RowsReadFails ==
    /\ ui.readable /\ ui.kind # "invoice"
    /\ ui' = [ui EXCEPT !.readable = FALSE, !.pending = FALSE, !.form = EmptyForm]
    /\ net' = {[r EXCEPT !.mine = FALSE] : r \in net}
    /\ UNCHANGED db
RowsRead ==
    /\ ~ui.readable
    /\ ui' = Fill([ui EXCEPT !.readable = TRUE])
    /\ UNCHANGED <<net, db>>

\* The customer pays, or a task of the panel acts.
OthersSettle ==
    /\ \E row \in Rows \ db.settled : db' = [db EXCEPT !.settled = @ \cup {row}]
    /\ UNCHANGED <<ui, net>>

Init ==
    /\ ui \in {Table(kind) : kind \in {"plan", "channel", "invoice"}}
    /\ net = {}
    /\ db = [settled |-> {}]

Next ==
    \/ OpenCreate \/ Type \/ TypeSecret \/ Close
    \/ \E row \in Rows : OpenEdit(row) \/ OpenDetail(row)
    \/ PlanSubmit \/ ChannelSubmit \/ InvoiceAction
    \/ \E r \in net : SubmitAnswered(r) \/ SubmitFails(r)
    \/ InvoiceRead \/ RowsReadFails \/ RowsRead \/ OthersSettle

---------------------------------------------------------------------------
\* What a form sends for a row comes from that row or was typed since the dialog was
\* opened for it, and so was the secret: nothing is left over from an earlier opening,
\* whenever the answer of an earlier save or of a refresh arrives.
NothingLeftOver ==
    ui.kind # "invoice" =>
        \A r \in net :
            /\ r.value \in {OfRow(r.row), Typed(r.opening)}
            /\ r.secret \in {Blank, Typed(r.opening)}
=============================================================================
