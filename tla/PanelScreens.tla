---------------------------- MODULE PanelScreens ----------------------------
(***************************************************************************)
(* What the admin panel shows where.  A place is a page, the dialog open   *)
(* over it and the tab open in the dialog.  Each component of the source   *)
(* is the set of queries it mounts, of mutations it may submit and of      *)
(* links it offers; a page or a dialog joins those of its components.      *)
(* Layout, wording, sorting and purely visual state are left out.          *)
(***************************************************************************)
EXTENDS PanelData

Page(section) == <<section, "", "">>
Dialog(section, dialog) == <<section, dialog, "">>
Tab(section, dialog, tab) == <<section, dialog, tab>>
Login == Page("login")

\* The submitting dialog stays open.
Stay == <<>>

Shows(queries) == [mounts |-> queries, does |-> {}, leads |-> {}]
Submits(mutations, next) == [mounts |-> {}, does |-> mutations \X {next}, leads |-> {}]
Leads(places) == [mounts |-> {}, does |-> {}, leads |-> places]
Nothing == Shows({})

\* The part of the screen two components make together.
p ++ q ==
    [ mounts |-> p.mounts \cup q.mounts,
      does |-> p.does \cup q.does,
      leads |-> p.leads \cup q.leads ]

---------------------------------------------------------------------------
(* Shared components *)

\* The tables of libs/entity-table start with initialData.
EntityTable(query) == Shows({Given(query)})
SelectableEntityTable(query) == Shows({Given(query)})
DoubleEntityTable(query) == Shows({Given(query)})
SidebarEntityTable(query) == Shows({Given(query)})

\* A form or confirmation submits and closes at once, not waiting for the answer;
\* closing it leads to the list.
useMutationDialog(mutation, section) ==
    Submits({mutation}, Page(section)) ++ Leads({Page(section)})
DeleteConfirmation(mutation, section) ==
    Submits({mutation}, Page(section)) ++ Leads({Page(section)})
SettingsDialog(section) == Leads({Page(section)})

\* Opened from a row of a list, or its head.
RowDialogs(section, dialogs) == Leads({Dialog(section, d) : d \in dialogs})
CreateDialog(section) == Leads({Dialog(section, "create")})

---------------------------------------------------------------------------
(* Frame *)

sidebarItems ==
    { Page(s) : s \in { "home", "users", "services", "nodes", "hosts", "billing/purchase",
                        "billing/plans", "billing/channels", "billing/invoices", "admins",
                        "health", "reality", "audit", "settings" } }
sidebarItemsNonSudoAdmin == {Page("home"), Page("users")}

\* Pages and creation dialogs the command palette finds, and whether only for sudo admins.
commandItems ==
    { <<Page("users"), FALSE>>, <<Page("services"), TRUE>>, <<Page("nodes"), TRUE>>,
      <<Page("hosts"), TRUE>>, <<Page("admins"), TRUE>>, <<Page("settings"), TRUE>>,
      <<Dialog("users", "create"), FALSE>>, <<Dialog("services", "create"), TRUE>>,
      <<Dialog("nodes", "create"), TRUE>>, <<Dialog("admins", "create"), TRUE>> }
CommandItems(sudo) == Leads({c[1] : c \in {d \in commandItems : ~d[2] \/ sudo}})

NavGroup(sudo) == Leads(IF sudo THEN sidebarItems ELSE sidebarItemsNonSudoAdmin)
\* The palette, and the button that logs out.
Topbar(sudo) == CommandItems(sudo) ++ Leads({Login})
PanelShell(sudo) == NavGroup(sudo) ++ Topbar(sudo) ++ Leads({Page("home")})

---------------------------------------------------------------------------
(* Home *)

\* Offered to every admin.
RecentActivity == Shows({AuditEventsQuery("home")}) ++ Leads({Page("audit")})
QuickLinks == Leads({Page("users"), Page("nodes"), Page("audit"), Page("reality")})
OperatorHomePage ==
    Shows({UsersStatsQuery, TotalTrafficQuery, HealthExtendedQuery}) ++ RecentActivity ++ QuickLinks

---------------------------------------------------------------------------
(* Users *)

UsersKPIRow == Shows({UsersStatsQuery})
UsersNoServiceAlert == Shows({ServicesQuery("alert")}) ++ Leads({Page("services")})
\* Only sudo admins get the columns with the filter by admin.
UsersColumns(sudo) == IF sudo THEN Shows({AdminsQuery("filter")}) ELSE Nothing
UsersTable(sudo) ==
    EntityTable(UsersQuery("table")) ++ UsersColumns(sudo)
        ++ RowDialogs("users", {"u", "u/edit", "u/delete"}) ++ CreateDialog("users")
UsersPage(sudo) ==
    UsersKPIRow ++ UsersNoServiceAlert ++ UsersTable(sudo) ++ CreateDialog("users")

\* Services offered in the forms of users and admins; without any, a link to the services.
ServicesField == Shows({ServicesQuery("field")}) ++ Leads({Page("services")})
UsersCreate == useMutationDialog(UsersCreation, "users") ++ ServicesField
UserProvider == Shows({UserQuery})
UsersEdit == useMutationDialog(UsersUpdate, "users") ++ ServicesField ++ UserProvider
UsersDelete == DeleteConfirmation(UsersDeletion, "users") ++ UserProvider

UserStatusEnableButton == Submits({UserStatusEnable}, Stay)
UserInfoTable == UserStatusEnableButton ++ Submits({UserUsageReset}, Stay)
\* Applying the ticked services updates the user.
UserServicesTable == SelectableEntityTable(UserServicesQuery) ++ Submits({UsersUpdate}, Stay)
SubscriptionActions == Submits({UserSubscriptionRevoke}, Stay)
UserNodesUsageWidget == Shows({UserNodesUsageQuery})
RuntimeState == Submits({IpLimitDisableClear}, Stay)
OverrideForm == Submits({IpLimitOverride}, Stay)
UserIpLimitSection == Shows({IpLimitQuery, IpLimitAuditQuery}) ++ RuntimeState ++ OverrideForm

UsersSettingsTabs(sudo) ==
    {"info", "services", "subscription", "nodes-usage"} \cup (IF sudo THEN {"iplimit"} ELSE {})
UsersSettingsDialog(sudo) ==
    SettingsDialog("users") ++ UserProvider
        ++ Leads({Tab("users", "u", t) : t \in UsersSettingsTabs(sudo)})
UsersSettingsTab(tab) ==
    CASE tab = "info" -> UserInfoTable
      [] tab = "services" -> UserServicesTable
      [] tab = "subscription" -> SubscriptionActions
      [] tab = "nodes-usage" -> UserNodesUsageWidget
      [] tab = "iplimit" -> UserIpLimitSection

---------------------------------------------------------------------------
(* Services *)

ServicesKPIRow == Shows({ServicesQuery("kpi")})
ServicesTable ==
    EntityTable(ServicesQuery("table")) ++ RowDialogs("services", {"s", "s/edit", "s/delete"}) ++ CreateDialog("services")
ServicesPage == ServicesKPIRow ++ ServicesTable ++ CreateDialog("services")

InboundsField == Shows({InboundsQuery("field")})
ServiceCreate == useMutationDialog(ServicesCreation, "services") ++ InboundsField
ServiceProvider == Shows({ServiceLoader})
ServiceEdit == useMutationDialog(ServicesUpdate, "services") ++ InboundsField ++ ServiceProvider
ServicesDelete == DeleteConfirmation(ServicesDeletion, "services") ++ ServiceProvider

\* Applying the ticked inbounds updates the service.
ServiceInboundsTable ==
    SelectableEntityTable(SelectableServiceInboundsQuery) ++ Submits({ServicesUpdate}, Stay)
ServicesUsersTable == DoubleEntityTable(ServiceUsersQuery)
ServiceSettingsDialog ==
    SettingsDialog("services") ++ ServiceProvider
        ++ Leads({Tab("services", "s", "inbounds"), Tab("services", "s", "users")})
ServiceSettingsTab(tab) == IF tab = "inbounds" THEN ServiceInboundsTable ELSE ServicesUsersTable

---------------------------------------------------------------------------
(* Hosts *)

HostsKPIRow == Shows({HostsQuery("kpi")})
InboundHostsTable ==
    Shows({InboundsQuery("sidebar")}) ++ SidebarEntityTable(HostsQuery("table"))
        ++ RowDialogs("hosts", {"h", "h/edit", "h/delete"}) ++ Leads({Dialog("hosts", "i/create")})
HostsPage == HostsKPIRow ++ InboundHostsTable

HostsMutationDialog(mutation) == Submits({mutation}, Page("hosts")) ++ Leads({Page("hosts")})
HostCreate == HostsMutationDialog(HostsCreation) ++ Shows({InboundLoader})
HostProvider == Shows({HostLoader})
HostEdit == HostsMutationDialog(HostsUpdate) ++ HostProvider
HostDelete == DeleteConfirmation(HostsDeletion, "hosts") ++ HostProvider
HostSettingsDialog == SettingsDialog("hosts") ++ HostProvider

---------------------------------------------------------------------------
(* Nodes *)

\* A row opens its node; its buttons edit and delete it.
NodesRows == RowDialogs("nodes", {"n", "n/edit", "n/delete"})
NodesPage == Shows({NodesQuery("page")}) ++ NodesRows ++ CreateDialog("nodes")

\* The form also opens the SNI probe.
SniSuggestDialog == Submits({SniSuggest}, Stay)
NodesCreate == useMutationDialog(NodesCreation, "nodes") ++ SniSuggestDialog
NodesProvider == Shows({NodeLoader})
NodesEdit == useMutationDialog(NodesUpdate, "nodes") ++ SniSuggestDialog ++ NodesProvider
NodesDelete == DeleteConfirmation(NodesDeletion, "nodes") ++ NodesProvider

NodeConfigEditor == Shows({NodesSettingsQuery}) ++ Submits({NodesSettingsUpdate}, Stay)
NodeBackendSetting == Shows({NodeBackendStatsQuery}) ++ NodeConfigEditor
NodesUsageWidget == Shows({NodesUsageQuery})
NodesSettingsDialog ==
    SettingsDialog("nodes") ++ NodesProvider
        ++ Leads({Tab("nodes", "n", "config"), Tab("nodes", "n", "info")})
NodesSettingsTab(tab) == IF tab = "config" THEN NodeBackendSetting ELSE NodesUsageWidget

---------------------------------------------------------------------------
(* Admins *)

AdminsKPIRow == Shows({AdminsQuery("kpi")})
AdminsTable ==
    EntityTable(AdminsQuery("table")) ++ RowDialogs("admins", {"a", "a/edit", "a/delete"}) ++ CreateDialog("admins")
AdminsPage == AdminsKPIRow ++ AdminsTable ++ CreateDialog("admins")

AdminCreate == useMutationDialog(AdminsCreation, "admins") ++ ServicesField
AdminProvider == Shows({AdminQuery})
AdminEdit == useMutationDialog(AdminsUpdate, "admins") ++ ServicesField ++ AdminProvider
AdminsDelete == DeleteConfirmation(AdminsDeletion, "admins") ++ AdminProvider
AdminInfoTable == Submits({EnableAdminUsers, DisableAdminUsers}, Stay)
AdminsSettingsDialog == SettingsDialog("admins") ++ AdminProvider ++ AdminInfoTable

---------------------------------------------------------------------------
(* Operations and settings *)

HealthPage == Shows({HealthExtendedQuery})
RealityPage == Submits({RealityAudit}, Stay)
AuditKPIRow == Shows({AuditEventsQuery("kpi")})
AuditEventsTable == Shows({AuditEventsQuery("table")})
AuditPage == AuditKPIRow ++ AuditEventsTable
CertificateWidget == Shows({CertificateQuery})
SubscriptionSettingsWidget ==
    Shows({SubscriptionSettingsQuery}) ++ Submits({SubscriptionSettingsUpdate}, Stay)
SettingsPage == SubscriptionSettingsWidget ++ CertificateWidget

---------------------------------------------------------------------------
(* Billing *)

\* The plan and channel dialogs are part of their tables, not places of their own.
PlanFormDialog == Submits({PlanCreation, PlanUpdate}, Stay)
PlansTable == Shows({AdminPlansQuery}) ++ PlanFormDialog
ChannelFormDialog == Submits({ChannelCreation, ChannelUpdate}, Stay)
ChannelsTable == Shows({AdminChannelsQuery}) ++ ChannelFormDialog
BillingPlansPage == PlansTable
BillingChannelsPage == ChannelsTable

InvoicesKPIRow == Shows({AdminInvoicesQuery("kpi")})
InvoiceDetailDialog ==
    Shows({AdminInvoiceQuery, InvoiceEventsQuery}) ++ Submits(InvoiceActions, Stay)
        ++ Leads({Page("billing/invoices")})
InvoicesTable ==
    Shows({AdminInvoicesQuery("table")}) ++ Leads({Dialog("billing/invoices", "detail")})
BillingInvoicesPage == InvoicesKPIRow ++ InvoicesTable

UserSelector == Shows({UserSelectorQuery})
PlansGrid == Shows({UserPlansQuery})
CheckoutPaymentPicker == Shows({UserChannelsQuery}) ++ Submits({Checkout}, Page("billing/invoices"))
BillingCheckoutPage == UserSelector ++ PlansGrid ++ CheckoutPaymentPicker

---------------------------------------------------------------------------
(* Places *)

\* Each page, dialog or tab with what it is made of.
SectionParts(sudo) ==
    { <<Page("home"), OperatorHomePage>>,
      <<Page("users"), UsersPage(sudo)>>,
      <<Page("services"), ServicesPage>>,
      <<Page("hosts"), HostsPage>>,
      <<Page("nodes"), NodesPage>>,
      <<Page("admins"), AdminsPage>>,
      <<Page("health"), HealthPage>>,
      <<Page("reality"), RealityPage>>,
      <<Page("audit"), AuditPage>>,
      <<Page("settings"), SettingsPage>>,
      <<Page("billing/plans"), BillingPlansPage>>,
      <<Page("billing/channels"), BillingChannelsPage>>,
      <<Page("billing/invoices"), BillingInvoicesPage>>,
      <<Page("billing/purchase"), BillingCheckoutPage>>,
      <<Login, Nothing>> }

DialogParts(sudo) ==
    { <<Dialog("users", "create"), UsersCreate>>,
      <<Dialog("users", "u"), UsersSettingsDialog(sudo)>>,
      <<Dialog("users", "u/edit"), UsersEdit>>,
      <<Dialog("users", "u/delete"), UsersDelete>>,
      <<Dialog("services", "create"), ServiceCreate>>,
      <<Dialog("services", "s"), ServiceSettingsDialog>>,
      <<Dialog("services", "s/edit"), ServiceEdit>>,
      <<Dialog("services", "s/delete"), ServicesDelete>>,
      <<Dialog("hosts", "i/create"), HostCreate>>,
      <<Dialog("hosts", "h"), HostSettingsDialog>>,
      <<Dialog("hosts", "h/edit"), HostEdit>>,
      <<Dialog("hosts", "h/delete"), HostDelete>>,
      <<Dialog("nodes", "create"), NodesCreate>>,
      <<Dialog("nodes", "n"), NodesSettingsDialog>>,
      <<Dialog("nodes", "n/edit"), NodesEdit>>,
      <<Dialog("nodes", "n/delete"), NodesDelete>>,
      <<Dialog("admins", "create"), AdminCreate>>,
      <<Dialog("admins", "a"), AdminsSettingsDialog>>,
      <<Dialog("admins", "a/edit"), AdminEdit>>,
      <<Dialog("admins", "a/delete"), AdminsDelete>>,
      <<Dialog("billing/invoices", "detail"), InvoiceDetailDialog>> }

TabParts(sudo) ==
    {<<Tab("users", "u", t), UsersSettingsTab(t)>> : t \in UsersSettingsTabs(sudo)}
    \cup {<<Tab("services", "s", t), ServiceSettingsTab(t)>> : t \in {"inbounds", "users"}}
    \cup {<<Tab("nodes", "n", t), NodesSettingsTab(t)>> : t \in {"config", "info"}}

Screens(sudo) == SectionParts(sudo) \cup DialogParts(sudo) \cup TabParts(sudo)
SudoScreens == Screens(TRUE)
OtherScreens == Screens(FALSE)

Places == {s[1] : s \in SudoScreens}

\* The section stays mounted under its dialogs, the dialog under its tabs.
SectionOf(place) == Page(place[1])
DialogOf(place) == Dialog(place[1], place[2])

\* Sections whose route is a SudoRoute, and the places inside.
InSudoRoute(place) == place[1] \notin {"home", "users", "login"}
SudoPlaces == {p \in Places : InSudoRoute(p)}

\* A place shows its section, its dialog and its tab.
Layers(place) == {SectionOf(place), DialogOf(place), place}
PartsAt(sudo, place) ==
    {s[2] : s \in {t \in IF sudo THEN SudoScreens ELSE OtherScreens : t[1] \in Layers(place)}}
Does(sudo, place) == UNION {p.does : p \in PartsAt(sudo, place)}
Links(sudo, place) ==
    UNION {p.leads : p \in PartsAt(sudo, place)}
        \cup (IF place = Login THEN {} ELSE PanelShell(sudo).leads)

\* Which layer mounts which query.
Mounting(screens) == UNION {{<<s[1], q>> : q \in s[2].mounts} : s \in screens}
SudoMounts == Mounting(SudoScreens)
OtherMounts == Mounting(OtherScreens)
Mounts(sudo, layers, q) ==
    \E l \in layers : <<l, q>> \in IF sudo THEN SudoMounts ELSE OtherMounts
=============================================================================
