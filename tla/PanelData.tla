------------------------------ MODULE PanelData ------------------------------
(***************************************************************************)
(* What the admin panel (dashboard/src) asks the server for and what it    *)
(* makes the server do: one definition per query or mutation hook.         *)
(*                                                                         *)
(* A query is an entry of the cache of @tanstack/react-query.  Its key is  *)
(* a sequence; the numbers and filters a table puts into its key are       *)
(* replaced by one name per use, and "u", "s", "n", ... stand for the      *)
(* entity a dialog is about.  `reads' names the rows it shows.             *)
(*                                                                         *)
(* A mutation writes rows on the server (`also' are rows changed in        *)
(* passing) and, when its answer arrives, invalidates every cache entry    *)
(* whose key has one of `drops' as prefix.                                 *)
(* Formatting of requests, answers and notifications is left out.          *)
(***************************************************************************)
EXTENDS Sequences, SequencesExt

Query(key, reads) ==
    [ key |-> key, reads |-> reads,
      polls |-> FALSE,     \* refetchInterval
      lasting |-> FALSE,   \* staleTime: an answer need not be asked for again at the next mount
      given |-> FALSE,     \* initialData: the entry holds data before the first answer
      sudoOnly |-> FALSE ] \* the server answers 403 to other admins, and polling ends

Polled(q) == [q EXCEPT !.polls = TRUE]
Lasting(q) == [q EXCEPT !.lasting = TRUE]
Given(q) == [q EXCEPT !.given = TRUE]
SudoOnly(q) == [q EXCEPT !.sudoOnly = TRUE]

\* What a loader of the router fetched: kept with the route, invalidated by nothing.
Loader(name, reads) == Query(<<"loader", name>>, reads)

Mutation(name, writes, drops) ==
    [name |-> name, writes |-> writes, also |-> {}, drops |-> drops]
InPassing(rows, m) == [m EXCEPT !.also = rows]

Drops(m, q) == \E key \in m.drops : IsPrefix(key, q.key)
Changes(m, q) == (m.writes \cup m.also) \cap q.reads # {}

---------------------------------------------------------------------------
(* Users *)

UsersQuery(use) == Query(<<"users", use>>, {"users"})
UserQuery == Query(<<"users", "u">>, {"users"})
UsersStatsQuery == Query(<<"stats", "users">>, {"users"})
UserNodesUsageQuery == Polled(Query(<<"users", "u", "usage">>, {"usage"}))
UserServicesQuery == Query(<<"users", "u", "services">>, {"users", "services"})
IpLimitQuery == Query(<<"users-iplimit", "u">>, {"iplimit"})
IpLimitAuditQuery == Query(<<"users-iplimit-audit", "u">>, {"iplimit"})

UsersCreation == Mutation("create user", {"users"}, {<<"users">>})
UsersUpdate == Mutation("update user", {"users"}, {<<"users">>})
UsersDeletion == Mutation("delete user", {"users"}, {<<"users">>})
UserUsageReset == Mutation("reset usage", {"users"}, {<<"users">>})
UserSubscriptionRevoke == Mutation("revoke subscription", {"users"}, {<<"users">>})
UserStatusEnable == Mutation("enable or disable user", {"users"}, {<<"users">>, <<"users", "u">>})
IpLimitOverride ==
    Mutation("override ip limit", {"iplimit"}, {<<"users-iplimit", "u">>, <<"users-iplimit-audit", "u">>})
\* Lifting the ban enables the user again.
IpLimitDisableClear ==
    InPassing({"users"},
        Mutation("lift ip limit", {"iplimit"}, {<<"users-iplimit", "u">>, <<"users-iplimit-audit", "u">>}))

---------------------------------------------------------------------------
(* Services, inbounds and hosts *)

ServicesQuery(use) == Query(<<"services", use>>, {"services"})
ServiceLoader == Loader("service", {"services"})
ServiceUsersQuery == Query(<<"services", "s", "users">>, {"services", "users"})
SelectableServiceInboundsQuery == Query(<<"services", "s", "inbounds">>, {"services", "inbounds"})

ServicesCreation == Mutation("create service", {"services"}, {<<"services">>})
ServicesUpdate == Mutation("update service", {"services"}, {<<"services">>})
\* Users lose the service with it.
ServicesDeletion == InPassing({"users"}, Mutation("delete service", {"services"}, {<<"services">>}))

InboundsQuery(use) == Query(<<"inbounds", use>>, {"inbounds"})
InboundLoader == Loader("inbound", {"inbounds"})
HostsQuery(use) == Query(<<"inbounds", "i", "hosts", use>>, {"hosts"})
HostLoader == Loader("host", {"hosts"})

\* Mutant of HostsUpdate: it refreshes a key no query has.
HostsUpdateByOwnKey == Mutation("update host", {"hosts"}, {<<"hosts">>})

HostsCreation == Mutation("create host", {"hosts"}, {<<"inbounds">>})
HostsUpdate == Mutation("update host", {"hosts"}, {<<"inbounds">>})
HostsDeletion == Mutation("delete host", {"hosts"}, {<<"inbounds">>})

---------------------------------------------------------------------------
(* Admins, nodes and settings *)

AdminsQuery(use) == Query(<<"admins", use>>, {"admins"})
AdminQuery == Query(<<"admins", "a">>, {"admins"})

AdminsCreation == Mutation("create admin", {"admins"}, {<<"admins">>})
AdminsUpdate == Mutation("update admin", {"admins"}, {<<"admins">>})
AdminsDeletion == InPassing({"users"}, Mutation("delete admin", {"admins"}, {<<"admins">>}))
\* Both write users, and refresh what is shown of admins.
EnableAdminUsers ==
    InPassing({"users"}, Mutation("enable users of admin", {}, {<<"admins">>, <<"admins", "a">>}))
DisableAdminUsers ==
    InPassing({"users"}, Mutation("disable users of admin", {}, {<<"admins">>, <<"admins", "a">>}))

NodesQuery(use) == Query(<<"nodes", use>>, {"nodes"})
NodeLoader == Loader("node", {"nodes"})
NodesUsageQuery == Polled(Query(<<"nodes", "n", "usage">>, {"usage"}))
NodeBackendStatsQuery == Polled(Query(<<"nodes", "n", "xray", "stats">>, {"running"}))
NodesSettingsQuery == Given(Query(<<"nodes", "n", "xray", "config">>, {"config"}))
CertificateQuery == Query(<<"nodes", "settings">>, {"certificate"})

NodesCreation == Mutation("create node", {"nodes"}, {<<"nodes">>})
NodesUpdate == Mutation("update node", {"nodes"}, {<<"nodes">>})
NodesDeletion == Mutation("delete node", {"nodes"}, {<<"nodes">>})
\* A new config restarts the backend.
NodesSettingsUpdate == Mutation("update config", {"config", "running"}, {<<"nodes">>})
\* Probes that change nothing.
SniSuggest == Mutation("suggest sni", {}, {})
RealityAudit == Mutation("audit reality", {}, {})

SubscriptionSettingsQuery == Given(Query(<<"system", "settings", "subscription">>, {"settings"}))
SubscriptionSettingsUpdate ==
    Mutation("update subscription settings", {"settings"}, {<<"system", "settings", "subscription">>})

TotalTrafficQuery == Polled(Query(<<"system", "stats", "traffic">>, {"usage"}))

---------------------------------------------------------------------------
(* Operations *)

\* Polls until it is answered 401 or 403.
HealthExtendedQuery == SudoOnly(Polled(Query(<<"aegis-health-extended">>, {"health"})))

AuditEventsQuery(use) == SudoOnly(Lasting(Query(<<"audit-events-list", use>>, {"audit"})))

---------------------------------------------------------------------------
(* Billing *)

AdminPlansQuery == Query(<<"billing-plans-admin">>, {"plans"})
AdminChannelsQuery == Query(<<"billing-channels-admin">>, {"channels"})
AdminInvoicesQuery(use) == Query(<<"billing-invoices-admin", "list", use>>, {"invoices"})
AdminInvoiceQuery == Query(<<"billing-invoices-admin", "detail">>, {"invoices"})
InvoiceEventsQuery == Query(<<"billing-invoices-admin", "events">>, {"invoices"})

PlanCreation == Mutation("create plan", {"plans"}, {<<"billing-plans-admin">>})
PlanUpdate == Mutation("update plan", {"plans"}, {<<"billing-plans-admin">>})
ChannelCreation == Mutation("create channel", {"channels"}, {<<"billing-channels-admin">>})
ChannelUpdate == Mutation("update channel", {"channels"}, {<<"billing-channels-admin">>})
InvoiceActions == \* apply_manual and cancel; the first changes the user as well
    { InPassing({"users"}, Mutation("apply invoice", {"invoices"}, {<<"billing-invoices-admin">>})),
      Mutation("cancel invoice", {"invoices"}, {<<"billing-invoices-admin">>}) }

\* The checkout page has entries of its own for the plans and channels on sale.
UserPlansQuery == Query(<<"billing-plans-checkout">>, {"plans"})
UserChannelsQuery == Query(<<"billing-channels-checkout">>, {"channels"})
UserSelectorQuery == Lasting(Query(<<"billing-user-selector-search">>, {"users"}))
Checkout == Mutation("checkout", {"invoices"}, {<<"billing-invoices-admin">>})
=============================================================================
