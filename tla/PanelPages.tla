------------------------------ MODULE PanelPages ------------------------------
(***************************************************************************)
(* The pages of the admin panel that keep a state of their own.  One of    *)
(* them is open; its module says what the admin, the answers and the       *)
(* server do to it.  Moving between pages is in Panel.                     *)
(***************************************************************************)
EXTENDS Integers, FiniteSets

CONSTANTS
    Ids, Sizes, Keywords, Kinds, MaxAsked,         \* EntityTables
    Stored, QuickPlans, Limits, Dates, Metric, Zones, \* UserForm
    Users, Fixed, Flexible, Channels,              \* Checkout
    MaxQuantity, MaxPurchases, MaxInvoices,
    Rows, MaxOpenings, MaxSent,                    \* BillingDialogs
    Documents, MaxSaves, MaxLogs, MaxLines, MaxRetries, \* NodeSettings
    MaxWrites                                      \* bound: writes of others

\* A gigabyte has bytes, and what is stored of a user are numbers of bytes and hours.
ASSUME FormAssumption ==
    /\ Metric \in Nat \ {0}
    /\ \A plan \in QuickPlans : plan.gb \in Nat
    /\ \A user \in Stored :
          {user.limit, user.date, user.deadline, user.duration} \subseteq Nat

\* Rows are numbered, and a page has room for one.
ASSUME TableAssumption ==
    Ids \subseteq Nat /\ IsFiniteSet(Ids) /\ Sizes \subseteq Nat \ {0}

VARIABLES
    open, \* the page
    ui,   \* its state
    net,  \* its requests under way
    db    \* what it shows of the server

vars == <<open, ui, net, db>>

Tables == INSTANCE EntityTables
Form == INSTANCE UserForm
Sale == INSTANCE Checkout
Dialogs == INSTANCE BillingDialogs
Settings == INSTANCE NodeSettings

Init ==
    \/ open = "tables" /\ Tables!Init
    \/ open = "user form" /\ Form!Init /\ net = {} /\ db = {}
    \/ open = "checkout" /\ Sale!Init
    \/ open = "billing dialogs" /\ Dialogs!Init
    \/ open = "node settings" /\ Settings!Init

Next ==
    /\ UNCHANGED open
    /\ \/ open = "tables" /\ Tables!Next
       \/ open = "user form" /\ Form!Next /\ UNCHANGED <<net, db>>
       \/ open = "checkout" /\ Sale!Next
       \/ open = "billing dialogs" /\ Dialogs!Next
       \/ open = "node settings" /\ Settings!Next

Spec == Init /\ [][Next]_vars

---------------------------------------------------------------------------
\* A table that waits for nothing shows the rows the server has for the page, the
\* search, the filter and the parent it is set to, and what is ticked in the services of a
\* user is what the user has, unless a tick was set or others wrote since.
TablesShowServer == open = "tables" => Tables!TablesShowServer

\* The user a form sends is the quick plan that was clicked, or the stored user but for
\* what was touched; a plan or channel form sends nothing of another row, nor a secret
\* typed for one.
SentAsMeant ==
    /\ open = "user form" => Form!SentAsMeant
    /\ open = "billing dialogs" => Dialogs!NothingLeftOver

\* Two invoices of one cart come only from an answer that was lost.
ChargedOnce == open = "checkout" => Sale!ChargedOnce

\* The config a node is given parses in the format it is sent with, and is not blank
\* once the config of the node was read.
SavedConfigParses == open = "node settings" => Settings!SavedConfigParses
=============================================================================
