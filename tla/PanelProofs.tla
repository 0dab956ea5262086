------------------------------ MODULE PanelProofs ------------------------------
(***************************************************************************)
(* The session of the admin panel is safe, its pages show what the panel   *)
(* reported as done, and its state is well typed, for every set of         *)
(* accounts and every bound.                                               *)
(*                                                                         *)
(* The session rests on nothing of the map of the site.  That own writes   *)
(* are shown rests on one fact of it (SiteIsSound): whatever a mutation    *)
(* writes, it invalidates the entries of the same kind that show it.  It   *)
(* is proved hook by hook, component by component and place by place, so a *)
(* new component needs a line here, and a hook with the wrong key fails.   *)
(***************************************************************************)
EXTENDS Panel, SequenceTheorems, TLAPS

---------------------------------------------------------------------------
(* The session *)

\* What the session keeps to, whatever the pages are.  Only with the third part does
\* a check that looks at is-sudo say something about the token, and only with the
\* fourth does it meet no page without one.
SessionInv ==
    /\ token \in Admins \cup {Nobody}
    /\ checks \in Nat /\ logins \subseteq Admins
    /\ token # Nobody => (isSudo <=> token \in SudoAdmins)
    /\ place # Login => token # Nobody
    /\ (InSudoRoute(place) /\ checks = 0) => token \in SudoAdmins

IInv == watched = Unwatched => SessionInv

\* The login page is no page for sudo admins.
LEMMA LoginIsOpen == ~InSudoRoute(Login) /\ ~InSudoRoute(Page("home"))
  BY DEF InSudoRoute, Login, Page

LEMMA InitInv == Init => IInv
  BY LoginIsOpen, PanelAssumption DEF Init, IInv, SessionInv

\* No step changes what a behaviour is about.
LEMMA WatchedStays == [Next]_vars => watched' = watched
<1> SUFFICES ASSUME [Next]_vars PROVE watched' = watched
  OBVIOUS
<1>1. CASE CacheNext
  <2>1. CASE Visit \/ ServerReads \/ Answered \/ ServerRefuses \/ FetchFails
    BY <2>1 DEF Visit, ServerReads, Answered, ServerRefuses, FetchFails
  <2>2. CASE Poll \/ Refocus \/ Refresh \/ Reload \/ Collect \/ Submit \/ OthersWrite
    BY <2>2 DEF Poll, Refocus, Refresh, Reload, Collect, Submit, OthersWrite
  <2>3. CASE \E s \in sent : Commit(s) \/ Acknowledged(s) \/ MutationFails(s)
    BY <2>3 DEF Commit, Acknowledged, MutationFails
  <2>4. QED
    BY <1>1, <2>1, <2>2, <2>3 DEF CacheNext
<1>2. CASE SessionNext
  BY <1>2 DEF SessionNext
<1>3. CASE UNCHANGED vars
  BY <1>3 DEF vars
<1>4. QED
  BY <1>1, <1>2, <1>3 DEF Next

\* Every step of the session keeps SessionInv.
LEMMA SessionStep == SessionInv /\ SessionNext => SessionInv'
<1> SUFFICES ASSUME SessionInv, SessionNext PROVE SessionInv'
  OBVIOUS
<1> USE LoginIsOpen, PanelAssumption DEF SessionInv
<1>1. ASSUME NEW p \in Places, NEW confirmed \in BOOLEAN, Follow(p, confirmed)
      PROVE  SessionInv'
  <2> DEFINE enters == InSudoRoute(p) /\ p[1] # place[1]
             pending == IF enters THEN checks + 1 ELSE checks
  <2>1. Arrive(p, token, confirmed, pending) /\ UNCHANGED <<isSudo, logins>>
    BY <1>1 DEF Follow
  <2>2. ~enters /\ InSudoRoute(p) => InSudoRoute(place)
    BY DEF InSudoRoute
  <2>3. QED
    BY <2>1, <2>2 DEF Arrive
<1>2. ASSUME NEW p \in Places, NEW confirmed \in BOOLEAN, Load(p, confirmed)
      PROVE  SessionInv'
  BY <1>2 DEF Load
<1>3. ASSUME NEW confirmed \in BOOLEAN, CheckAnswered(confirmed)
      PROVE  SessionInv'
  BY <1>3 DEF CheckAnswered
<1>4. ASSUME NEW a \in Admins, SignIn(a) \/ SignInFails(a)
      PROVE  SessionInv'
  BY <1>4 DEF SignIn, SignInFails
<1>5. ASSUME NEW a \in Admins, NEW confirmed \in BOOLEAN, SignedIn(a, confirmed)
      PROVE  SessionInv'
  <2>1. isSudo' = (a \in SudoAdmins)
    BY <1>5 DEF SignedIn
  <2>2. isSudo' <=> a \in SudoAdmins
    BY <2>1, Zenon
  <2>3. a \in logins /\ logins' = logins \ {a} /\ Arrive(Page("home"), a, confirmed, checks)
    BY <1>5 DEF SignedIn
  <2>4. QED
    BY <2>2, <2>3 DEF Arrive
<1>6. QED
  BY <1>1, <1>2, <1>3, <1>4, <1>5 DEF SessionNext

LEMMA NextInv == IInv /\ [Next]_vars => IInv'
<1> SUFFICES ASSUME IInv, [Next]_vars, watched' = Unwatched PROVE SessionInv'
  BY DEF IInv
<1>1. watched = Unwatched /\ SessionInv
  BY WatchedStays DEF IInv
<1>2. CASE SessionNext
  BY <1>1, <1>2, SessionStep
<1>3. CASE UNCHANGED vars
  BY <1>1, <1>3 DEF vars, session, SessionInv
<1>4. QED
  BY <1>1, <1>2, <1>3 DEF Next, CacheNext

\* Once the check of a sudo page is over, the page belongs to a sudo admin, whatever
\* the late answers of other checks and sign-ins have done meanwhile.
THEOREM SudoPagesAreGuarded == Spec => []SudoPagesForSudo
<1>1. IInv => SudoPagesForSudo
  BY DEF IInv, SessionInv, SudoPagesForSudo, SudoPlaces
<1>2. QED
  BY <1>1, InitInv, NextInv, PTL DEF Spec
---------------------------------------------------------------------------
(* Keys *)

IsKey(key) == Len(key) > 0 /\ \E S : key \in Seq(S)

IsQuery(q) ==
    /\ {"key", "reads"} \subseteq DOMAIN q /\ IsKey(q.key)
    /\ "iplimit" \in q.reads => q.key \in {<<"users-iplimit", "u">>, <<"users-iplimit-audit", "u">>}
    /\ "settings" \in q.reads => q.key = <<"system", "settings", "subscription">>

IsMutation(m) ==
    /\ {"writes", "drops"} \subseteq DOMAIN m
    /\ \A q : (IsQuery(q) /\ \E r \in m.writes \cap q.reads : q.key[1] \in OwnKey[r]) => Drops(m, q)

LEMMA TuplesAreKeys ==
    ASSUME NEW a, NEW b, NEW c, NEW d
    PROVE  IsKey(<<a>>) /\ IsKey(<<a, b>>) /\ IsKey(<<a, b, c>>) /\ IsKey(<<a, b, c, d>>)
<1>1. <<a>> \in Seq({a}) /\ Len(<<a>>) > 0
  OBVIOUS
<1>2. <<a, b>> \in Seq({a, b}) /\ Len(<<a, b>>) > 0
  OBVIOUS
<1>3. <<a, b, c>> \in Seq({a, b, c}) /\ Len(<<a, b, c>>) > 0
  OBVIOUS
<1>4. <<a, b, c, d>> \in Seq({a, b, c, d}) /\ Len(<<a, b, c, d>>) > 0
  OBVIOUS
<1> QED BY <1>1, <1>2, <1>3, <1>4, Zenon DEF IsKey

LEMMA FirstIsPrefix ==
    ASSUME NEW key, IsKey(key) PROVE IsPrefix(<<key[1]>>, key)
<1>1. PICK S : key \in Seq(S) /\ Len(key) > 0
  BY DEF IsKey
<1>2. key[1] \in S
  BY <1>1
<1>3. SubSeq(key, 1, 1) \in Seq(S) /\ Len(SubSeq(key, 1, 1)) = 1 /\ SubSeq(key, 1, 1)[1] = key[1]
  <2>1. \A i \in 1 .. 1 : SubSeq(key,1,1)[i] = key[1+i-1]
    BY <1>1, <1>2, SubSeqProperties
  <2> QED BY <1>2, <2>1, SubSeqProperties
<1>4. <<key[1]>> \in Seq(S) /\ Len(<<key[1]>>) = 1 /\ <<key[1]>>[1] = key[1]
  BY <1>2
<1>5. SubSeq(<<key[1]>>, 1, 1) = <<key[1]>>
  BY <1>4, SubSeqFull
<1>6. SubSeq(key, 1, 1) = <<key[1]>>
  <2> DEFINE s1 == SubSeq(key, 1, 1)
             s2 == <<key[1]>>
  <2>1. Len(s1) = Len(s2) /\ s1 \in Seq(S) /\ s2 \in Seq(S) /\ Len(s1) = 1 /\ s1[1] = s2[1]
    BY <1>3, <1>4
  <2> HIDE DEF s1, s2
  <2>2. \A i \in 1 .. Len(s1) : s1[i] = s2[i]
    BY <2>1
  <2>3. s1 = s2
    BY <2>1, <2>2, SeqEqual
  <2> QED BY <2>3 DEF s1, s2
<1> QED BY <1>1, <1>4, <1>5, <1>6 DEF IsPrefix

LEMMA SelfPrefix ==
    ASSUME NEW key, IsKey(key) PROVE IsPrefix(key, key)
<1>1. PICK S : key \in Seq(S) /\ Len(key) > 0
  BY DEF IsKey
<1> QED BY <1>1, LenProperties DEF IsPrefix

LEMMA PlainQuery ==
    ASSUME NEW key, IsKey(key), NEW reads, "iplimit" \notin reads, "settings" \notin reads
    PROVE  IsQuery(Query(key, reads))
  BY DEF IsQuery, Query

LEMMA FlaggedQuery ==
    ASSUME NEW q, IsQuery(q)
    PROVE  IsQuery(Polled(q)) /\ IsQuery(Lasting(q)) /\ IsQuery(Given(q)) /\ IsQuery(SudoOnly(q))
  BY DEF IsQuery, Polled, Lasting, Given, SudoOnly

\* A mutation shows its own writes if it drops every key they are kept under.
LEMMA PlainMutation ==
    ASSUME NEW name, NEW writes, NEW drops,
           \A r \in writes : \A k \in OwnKey[r] : <<k>> \in drops
    PROVE  IsMutation(Mutation(name, writes, drops))
<1> DEFINE m == Mutation(name, writes, drops)
<1>1. m.writes = writes /\ m.drops = drops /\ DOMAIN m = {"name", "writes", "also", "drops"}
  BY DEF Mutation
<1> HIDE DEF m
<1>2. ASSUME NEW q, IsQuery(q), NEW r \in writes \cap q.reads, q.key[1] \in OwnKey[r]
      PROVE  Drops(m, q)
  <2>1. <<q.key[1]>> \in m.drops
    BY <1>1, <1>2
  <2>2. IsPrefix(<<q.key[1]>>, q.key)
    BY <1>2, FirstIsPrefix DEF IsQuery
  <2>3. QED
    BY <2>1, <2>2 DEF Drops
<1>3. IsMutation(m)
  BY <1>1, <1>2 DEF IsMutation
<1>4. QED
  BY <1>3 DEF m

LEMMA PassingMutation ==
    ASSUME NEW m, IsMutation(m), NEW rows PROVE IsMutation(InPassing(rows, m))
  BY DEF IsMutation, InPassing, Drops

LEMMA RowKeys ==
    /\ OwnKey["users"] = {"users"} /\ OwnKey["services"] = {"services"}
    /\ OwnKey["hosts"] = {"inbounds"} /\ OwnKey["admins"] = {"admins"}
    /\ OwnKey["nodes"] = {"nodes"} /\ OwnKey["config"] = {"nodes"} /\ OwnKey["running"] = {"nodes"}
    /\ OwnKey["plans"] = {"billing-plans-admin"} /\ OwnKey["channels"] = {"billing-channels-admin"}
    /\ OwnKey["invoices"] = {"billing-invoices-admin"}
  BY DEF OwnKey

---------------------------------------------------------------------------
(* What the panel asks for *)

LEMMA UsersQueries ==
    ASSUME NEW use
    PROVE  IsQuery(UsersQuery(use)) /\ IsQuery(UserQuery) /\ IsQuery(UsersStatsQuery)
           /\ IsQuery(UserServicesQuery) /\ IsQuery(UserNodesUsageQuery)
<1>1. IsQuery(UsersQuery(use)) /\ IsQuery(UserQuery) /\ IsQuery(UsersStatsQuery)
      /\ IsQuery(UserServicesQuery)
  BY PlainQuery, TuplesAreKeys DEF UsersQuery, UserQuery, UsersStatsQuery, UserServicesQuery
<1>2. IsQuery(UserNodesUsageQuery)
  BY PlainQuery, FlaggedQuery, TuplesAreKeys DEF UserNodesUsageQuery
<1>3. QED
  BY <1>1, <1>2

LEMMA ServicesQueries ==
    ASSUME NEW use
    PROVE  IsQuery(ServicesQuery(use)) /\ IsQuery(ServiceLoader)
           /\ IsQuery(ServiceUsersQuery) /\ IsQuery(SelectableServiceInboundsQuery)
           /\ IsQuery(InboundsQuery(use)) /\ IsQuery(InboundLoader)
           /\ IsQuery(HostsQuery(use)) /\ IsQuery(HostLoader)
<1>1. IsQuery(ServicesQuery(use)) /\ IsQuery(ServiceLoader) /\ IsQuery(ServiceUsersQuery)
      /\ IsQuery(SelectableServiceInboundsQuery) /\ IsQuery(InboundsQuery(use))
      /\ IsQuery(InboundLoader) /\ IsQuery(HostsQuery(use)) /\ IsQuery(HostLoader)
  BY PlainQuery, TuplesAreKeys DEF ServicesQuery, ServiceLoader, ServiceUsersQuery
     , SelectableServiceInboundsQuery, InboundsQuery, InboundLoader, HostsQuery, HostLoader
     , Loader
<1>2. QED
  BY <1>1

LEMMA NodesQueries ==
    ASSUME NEW use
    PROVE  IsQuery(AdminsQuery(use)) /\ IsQuery(AdminQuery) /\ IsQuery(NodesQuery(use))
           /\ IsQuery(NodeLoader) /\ IsQuery(CertificateQuery) /\ IsQuery(NodesUsageQuery)
           /\ IsQuery(NodeBackendStatsQuery) /\ IsQuery(NodesSettingsQuery)
           /\ IsQuery(TotalTrafficQuery) /\ IsQuery(HealthExtendedQuery)
           /\ IsQuery(AuditEventsQuery(use))
<1>1. IsQuery(AdminsQuery(use)) /\ IsQuery(AdminQuery) /\ IsQuery(NodesQuery(use))
      /\ IsQuery(NodeLoader) /\ IsQuery(CertificateQuery)
  BY PlainQuery, TuplesAreKeys DEF AdminsQuery, AdminQuery, NodesQuery, NodeLoader
     , CertificateQuery, Loader
<1>2. IsQuery(NodesUsageQuery) /\ IsQuery(NodeBackendStatsQuery)
      /\ IsQuery(NodesSettingsQuery) /\ IsQuery(TotalTrafficQuery)
      /\ IsQuery(HealthExtendedQuery) /\ IsQuery(AuditEventsQuery(use))
  BY PlainQuery, FlaggedQuery, TuplesAreKeys DEF NodesUsageQuery, NodeBackendStatsQuery
     , NodesSettingsQuery, TotalTrafficQuery, HealthExtendedQuery, AuditEventsQuery
<1>3. QED
  BY <1>1, <1>2

LEMMA BillingQueries ==
    ASSUME NEW use
    PROVE  IsQuery(AdminPlansQuery) /\ IsQuery(AdminChannelsQuery)
           /\ IsQuery(AdminInvoicesQuery(use)) /\ IsQuery(AdminInvoiceQuery)
           /\ IsQuery(InvoiceEventsQuery) /\ IsQuery(UserPlansQuery)
           /\ IsQuery(UserChannelsQuery) /\ IsQuery(UserSelectorQuery)
<1>1. IsQuery(AdminPlansQuery) /\ IsQuery(AdminChannelsQuery)
      /\ IsQuery(AdminInvoicesQuery(use)) /\ IsQuery(AdminInvoiceQuery)
      /\ IsQuery(InvoiceEventsQuery) /\ IsQuery(UserPlansQuery)
      /\ IsQuery(UserChannelsQuery)
  BY PlainQuery, TuplesAreKeys DEF AdminPlansQuery, AdminChannelsQuery, AdminInvoicesQuery
     , AdminInvoiceQuery, InvoiceEventsQuery, UserPlansQuery, UserChannelsQuery
<1>2. IsQuery(UserSelectorQuery)
  BY PlainQuery, FlaggedQuery, TuplesAreKeys DEF UserSelectorQuery
<1>3. QED
  BY <1>1, <1>2

LEMMA SpecialQueries ==
    IsQuery(IpLimitQuery) /\ IsQuery(IpLimitAuditQuery) /\ IsQuery(SubscriptionSettingsQuery)
<1>1. IsQuery(IpLimitQuery) /\ IsQuery(IpLimitAuditQuery)
  BY TuplesAreKeys DEF IpLimitQuery, IpLimitAuditQuery, IsQuery, Query
<1>2. IsQuery(Query(<<"system", "settings", "subscription">>, {"settings"}))
  BY TuplesAreKeys DEF IsQuery, Query
<1>3. QED
  BY <1>1, <1>2, FlaggedQuery DEF SubscriptionSettingsQuery

---------------------------------------------------------------------------
(* What the panel makes the server do *)

LEMMA UsersMutations ==
    IsMutation(UsersCreation) /\ IsMutation(UsersUpdate) /\ IsMutation(UsersDeletion)
       /\ IsMutation(UserUsageReset) /\ IsMutation(UserSubscriptionRevoke)
       /\ IsMutation(UserStatusEnable)
<1>1. IsMutation(UsersCreation) /\ IsMutation(UsersUpdate) /\ IsMutation(UsersDeletion)
      /\ IsMutation(UserUsageReset) /\ IsMutation(UserSubscriptionRevoke)
      /\ IsMutation(UserStatusEnable)
  BY PlainMutation, RowKeys DEF UsersCreation, UsersUpdate, UsersDeletion, UserUsageReset
     , UserSubscriptionRevoke, UserStatusEnable
<1>2. QED
  BY <1>1

LEMMA ServicesMutations ==
    IsMutation(ServicesCreation) /\ IsMutation(ServicesUpdate)
       /\ IsMutation(HostsCreation) /\ IsMutation(HostsUpdate)
       /\ IsMutation(HostsDeletion) /\ IsMutation(ServicesDeletion)
<1>1. IsMutation(ServicesCreation) /\ IsMutation(ServicesUpdate)
      /\ IsMutation(HostsCreation) /\ IsMutation(HostsUpdate) /\ IsMutation(HostsDeletion)
  BY PlainMutation, RowKeys DEF ServicesCreation, ServicesUpdate, HostsCreation, HostsUpdate
     , HostsDeletion
<1>2. IsMutation(ServicesDeletion)
  BY PlainMutation, PassingMutation, RowKeys DEF ServicesDeletion
<1>3. QED
  BY <1>1, <1>2

LEMMA NodesMutations ==
    IsMutation(AdminsCreation) /\ IsMutation(AdminsUpdate) /\ IsMutation(NodesCreation)
       /\ IsMutation(NodesUpdate) /\ IsMutation(NodesDeletion)
       /\ IsMutation(NodesSettingsUpdate) /\ IsMutation(AdminsDeletion)
       /\ IsMutation(EnableAdminUsers) /\ IsMutation(DisableAdminUsers)
       /\ IsMutation(SniSuggest) /\ IsMutation(RealityAudit)
<1>1. IsMutation(AdminsCreation) /\ IsMutation(AdminsUpdate) /\ IsMutation(NodesCreation)
      /\ IsMutation(NodesUpdate) /\ IsMutation(NodesDeletion)
      /\ IsMutation(NodesSettingsUpdate)
  BY PlainMutation, RowKeys DEF AdminsCreation, AdminsUpdate, NodesCreation, NodesUpdate
     , NodesDeletion, NodesSettingsUpdate
<1>2. IsMutation(AdminsDeletion)
  BY PlainMutation, PassingMutation, RowKeys DEF AdminsDeletion
<1>3. IsMutation(EnableAdminUsers) /\ IsMutation(DisableAdminUsers)
      /\ IsMutation(SniSuggest) /\ IsMutation(RealityAudit)
  BY PlainMutation, PassingMutation DEF EnableAdminUsers, DisableAdminUsers, SniSuggest
     , RealityAudit
<1>4. QED
  BY <1>1, <1>2, <1>3

LEMMA BillingMutations ==
    IsMutation(PlanCreation) /\ IsMutation(PlanUpdate) /\ IsMutation(ChannelCreation)
       /\ IsMutation(ChannelUpdate) /\ IsMutation(Checkout)
       /\ \A m \in InvoiceActions : IsMutation(m)
<1>1. IsMutation(PlanCreation) /\ IsMutation(PlanUpdate) /\ IsMutation(ChannelCreation)
      /\ IsMutation(ChannelUpdate) /\ IsMutation(Checkout)
  BY PlainMutation, RowKeys DEF PlanCreation, PlanUpdate, ChannelCreation, ChannelUpdate
     , Checkout
<1>2. \A m \in InvoiceActions : IsMutation(m)
  <2>1. IsMutation(Mutation("apply invoice", {"invoices"}, {<<"billing-invoices-admin">>}))
    BY PlainMutation, RowKeys
  <2>2. IsMutation(Mutation("cancel invoice", {"invoices"}, {<<"billing-invoices-admin">>}))
    BY PlainMutation, RowKeys
  <2>3. QED
    BY <2>1, <2>2, PassingMutation DEF InvoiceActions
<1>3. QED
  BY <1>1, <1>2

\* These two refresh exactly the entries that show their rows.
LEMMA SpecialMutations ==
    IsMutation(IpLimitOverride) /\ IsMutation(IpLimitDisableClear) /\ IsMutation(SubscriptionSettingsUpdate)
<1>1. IsMutation(IpLimitOverride)
  BY SelfPrefix, TuplesAreKeys DEF IpLimitOverride, IsMutation, Mutation, IsQuery, Drops, OwnKey
<1>2. IsMutation(Mutation("lift ip limit", {"iplimit"}, IpLimitOverride.drops))
  BY <1>1 DEF IpLimitOverride, Mutation, IsMutation, Drops
<1>3. IsMutation(IpLimitDisableClear)
  BY <1>2, PassingMutation DEF IpLimitDisableClear, IpLimitOverride, Mutation
<1>4. IsMutation(SubscriptionSettingsUpdate)
  BY SelfPrefix, TuplesAreKeys DEF SubscriptionSettingsUpdate, IsMutation, Mutation, IsQuery, Drops, OwnKey
<1>5. QED
  BY <1>1, <1>3, <1>4

---------------------------------------------------------------------------
(* The screens *)

\* What a component mounts and submits is as above, and it leads to a place there is.
Sound(part) ==
    /\ \A q \in part.mounts : IsQuery(q)
    /\ \A d \in part.does : IsMutation(d[1]) /\ d[2] \in Places \cup {Stay}

LEMMA SoundShows ==
    /\ \A q : IsQuery(q) => Sound(Shows({q}))
    /\ \A q, r : IsQuery(q) /\ IsQuery(r) => Sound(Shows({q, r}))
    /\ \A q, r, s : IsQuery(q) /\ IsQuery(r) /\ IsQuery(s) => Sound(Shows({q, r, s}))
  BY DEF Sound, Shows

LEMMA SoundTables ==
    ASSUME NEW q, IsQuery(q)
    PROVE  /\ Sound(EntityTable(q)) /\ Sound(SelectableEntityTable(q))
           /\ Sound(DoubleEntityTable(q)) /\ Sound(SidebarEntityTable(q))
  BY SoundShows, FlaggedQuery
     DEF EntityTable, SelectableEntityTable, DoubleEntityTable, SidebarEntityTable

LEMMA SoundSubmits ==
    ASSUME NEW mutations, \A m \in mutations : IsMutation(m), NEW next \in Places \cup {Stay}
    PROVE  Sound(Submits(mutations, next))
  BY DEF Sound, Submits

\* A dialog that stays open.
LEMMA SoundButtons ==
    /\ \A m : IsMutation(m) => Sound(Submits({m}, Stay))
    /\ \A m, n : IsMutation(m) /\ IsMutation(n) => Sound(Submits({m, n}, Stay))
<1> DEFINE Good(set) == \A m \in set : IsMutation(m)
<1>1. \A set : Good(set) => Sound(Submits(set, Stay))
  BY SoundSubmits
<1>2. QED
  BY <1>1

LEMMA SoundLinks ==
    /\ \A places : Sound(Leads(places))
    /\ \A section, dialogs : Sound(RowDialogs(section, dialogs))
    /\ \A section : Sound(CreateDialog(section)) /\ Sound(SettingsDialog(section))
    /\ Sound(Nothing)
  BY SoundShows DEF Sound, Leads, Shows, Nothing, RowDialogs, CreateDialog, SettingsDialog

LEMMA SoundJoin ==
    ASSUME NEW p, NEW q, Sound(p), Sound(q) PROVE Sound(p ++ q)
  BY DEF Sound, ++

\* Where forms and confirmations lead.
LEMMA Lists ==
    /\ Login \in Places /\ Page("home") \in Places /\ Page("users") \in Places
    /\ Page("services") \in Places /\ Page("hosts") \in Places /\ Page("nodes") \in Places
    /\ Page("admins") \in Places /\ Page("billing/invoices") \in Places
<1>1. \A s \in SectionParts(TRUE) : s[1] \in Places
  BY DEF Places, SudoScreens, Screens
<1>2. QED
  BY <1>1 DEF SectionParts

LEMMA SoundForms ==
    ASSUME NEW m, IsMutation(m), NEW section, Page(section) \in Places
    PROVE  Sound(useMutationDialog(m, section)) /\ Sound(DeleteConfirmation(m, section))
  BY SoundSubmits, SoundLinks, SoundJoin DEF useMutationDialog, DeleteConfirmation

LEMMA HomeParts ==
    Sound(OperatorHomePage)
<1>1. Sound(OperatorHomePage)
  BY UsersQueries, NodesQueries, SoundShows, SoundLinks, SoundJoin
     DEF OperatorHomePage, RecentActivity, QuickLinks
<1>2. QED
  BY <1>1

LEMMA UsersParts ==
    ASSUME NEW sudo \in BOOLEAN
    PROVE  Sound(ServicesField) /\ Sound(UserProvider) /\ Sound(UsersPage(sudo))
           /\ Sound(UsersCreate) /\ Sound(UsersEdit) /\ Sound(UsersDelete)
           /\ Sound(UsersSettingsDialog(sudo)) /\ Sound(UserInfoTable)
           /\ Sound(UserServicesTable) /\ Sound(SubscriptionActions)
           /\ Sound(UserNodesUsageWidget) /\ Sound(UserIpLimitSection)
<1>1. Sound(ServicesField)
  BY ServicesQueries, SoundShows, SoundLinks, SoundJoin
     DEF ServicesField
<1>2. Sound(UserProvider)
  BY UsersQueries, SoundShows
     DEF UserProvider
<1>3. Sound(UsersPage(sudo))
  BY UsersQueries, ServicesQueries, NodesQueries, SoundShows, SoundTables, SoundLinks
     , SoundJoin
     DEF UsersPage, UsersKPIRow, UsersNoServiceAlert, UsersTable, UsersColumns
<1>4. Sound(UsersCreate)
  BY <1>1, UsersMutations, Lists, SoundForms, SoundJoin
     DEF UsersCreate
<1>5. Sound(UsersEdit)
  BY <1>1, <1>2, UsersMutations, Lists, SoundForms, SoundJoin
     DEF UsersEdit
<1>6. Sound(UsersDelete)
  BY <1>2, UsersMutations, Lists, SoundForms, SoundJoin
     DEF UsersDelete
<1>7. Sound(UsersSettingsDialog(sudo))
  BY <1>2, SoundLinks, SoundJoin
     DEF UsersSettingsDialog
<1>8. Sound(UserInfoTable)
  BY UsersMutations, SoundButtons, SoundJoin
     DEF UserInfoTable, UserStatusEnableButton
<1>9. Sound(UserServicesTable)
  BY UsersQueries, UsersMutations, SoundTables, SoundButtons, SoundJoin
     DEF UserServicesTable
<1>10. Sound(SubscriptionActions)
  BY UsersMutations, SoundButtons
     DEF SubscriptionActions
<1>11. Sound(UserNodesUsageWidget)
  BY UsersQueries, SoundShows
     DEF UserNodesUsageWidget
<1>12. Sound(UserIpLimitSection)
  BY SpecialQueries, SpecialMutations, SoundShows, SoundButtons, SoundJoin
     DEF UserIpLimitSection, RuntimeState, OverrideForm
<1>13. QED
  BY <1>1, <1>2, <1>3, <1>4, <1>5, <1>6, <1>7, <1>8, <1>9, <1>10, <1>11, <1>12

LEMMA ServicesParts ==
    Sound(InboundsField) /\ Sound(ServiceProvider) /\ Sound(ServicesPage)
    /\ Sound(ServiceCreate) /\ Sound(ServiceEdit) /\ Sound(ServicesDelete)
    /\ Sound(ServiceSettingsDialog) /\ Sound(ServiceInboundsTable)
    /\ Sound(ServicesUsersTable)
<1>1. Sound(InboundsField)
  BY ServicesQueries, SoundShows
     DEF InboundsField
<1>2. Sound(ServiceProvider)
  BY ServicesQueries, SoundShows
     DEF ServiceProvider
<1>3. Sound(ServicesPage)
  BY ServicesQueries, SoundShows, SoundTables, SoundLinks, SoundJoin
     DEF ServicesPage, ServicesKPIRow, ServicesTable
<1>4. Sound(ServiceCreate)
  BY <1>1, ServicesMutations, Lists, SoundForms, SoundJoin
     DEF ServiceCreate
<1>5. Sound(ServiceEdit)
  BY <1>1, <1>2, ServicesMutations, Lists, SoundForms, SoundJoin
     DEF ServiceEdit
<1>6. Sound(ServicesDelete)
  BY <1>2, ServicesMutations, Lists, SoundForms, SoundJoin
     DEF ServicesDelete
<1>7. Sound(ServiceSettingsDialog)
  BY <1>2, SoundLinks, SoundJoin
     DEF ServiceSettingsDialog
<1>8. Sound(ServiceInboundsTable)
  BY ServicesQueries, ServicesMutations, SoundTables, SoundButtons, SoundJoin
     DEF ServiceInboundsTable
<1>9. Sound(ServicesUsersTable)
  BY ServicesQueries, SoundTables
     DEF ServicesUsersTable
<1>10. QED
  BY <1>1, <1>2, <1>3, <1>4, <1>5, <1>6, <1>7, <1>8, <1>9

LEMMA HostsParts ==
    Sound(HostProvider) /\ Sound(HostsPage) /\ Sound(HostCreate) /\ Sound(HostEdit)
    /\ Sound(HostDelete) /\ Sound(HostSettingsDialog)
<1>1. Sound(HostProvider)
  BY ServicesQueries, SoundShows
     DEF HostProvider
<1>2. Sound(HostsPage)
  BY ServicesQueries, SoundShows, SoundTables, SoundLinks, SoundJoin
     DEF HostsPage, HostsKPIRow, InboundHostsTable
<1>3. Sound(HostCreate)
  BY ServicesQueries, ServicesMutations, Lists, SoundShows, SoundSubmits, SoundLinks
     , SoundJoin
     DEF HostCreate, HostsMutationDialog
<1>4. Sound(HostEdit)
  BY <1>1, ServicesMutations, Lists, SoundSubmits, SoundLinks, SoundJoin
     DEF HostEdit, HostsMutationDialog
<1>5. Sound(HostDelete)
  BY <1>1, ServicesMutations, Lists, SoundForms, SoundJoin
     DEF HostDelete
<1>6. Sound(HostSettingsDialog)
  BY <1>1, SoundLinks, SoundJoin
     DEF HostSettingsDialog
<1>7. QED
  BY <1>1, <1>2, <1>3, <1>4, <1>5, <1>6

LEMMA NodesParts ==
    Sound(SniSuggestDialog) /\ Sound(NodesProvider) /\ Sound(NodesPage)
    /\ Sound(NodesCreate) /\ Sound(NodesEdit) /\ Sound(NodesDelete)
    /\ Sound(NodesSettingsDialog) /\ Sound(NodeBackendSetting) /\ Sound(NodesUsageWidget)
<1>1. Sound(SniSuggestDialog)
  BY NodesMutations, SoundButtons
     DEF SniSuggestDialog
<1>2. Sound(NodesProvider)
  BY NodesQueries, SoundShows
     DEF NodesProvider
<1>3. Sound(NodesPage)
  BY NodesQueries, SoundShows, SoundLinks, SoundJoin
     DEF NodesPage, NodesRows
<1>4. Sound(NodesCreate)
  BY <1>1, NodesMutations, Lists, SoundForms, SoundJoin
     DEF NodesCreate
<1>5. Sound(NodesEdit)
  BY <1>1, <1>2, NodesMutations, Lists, SoundForms, SoundJoin
     DEF NodesEdit
<1>6. Sound(NodesDelete)
  BY <1>2, NodesMutations, Lists, SoundForms, SoundJoin
     DEF NodesDelete
<1>7. Sound(NodesSettingsDialog)
  BY <1>2, SoundLinks, SoundJoin
     DEF NodesSettingsDialog
<1>8. Sound(NodeBackendSetting)
  BY NodesQueries, NodesMutations, SoundShows, SoundButtons, SoundJoin
     DEF NodeBackendSetting, NodeConfigEditor
<1>9. Sound(NodesUsageWidget)
  BY NodesQueries, SoundShows
     DEF NodesUsageWidget
<1>10. QED
  BY <1>1, <1>2, <1>3, <1>4, <1>5, <1>6, <1>7, <1>8, <1>9

LEMMA AdminsParts ==
    Sound(AdminProvider) /\ Sound(AdminsPage) /\ Sound(AdminCreate) /\ Sound(AdminEdit)
    /\ Sound(AdminsDelete) /\ Sound(AdminsSettingsDialog)
<1>1. Sound(AdminProvider)
  BY NodesQueries, SoundShows
     DEF AdminProvider
<1>2. Sound(AdminsPage)
  BY NodesQueries, SoundShows, SoundTables, SoundLinks, SoundJoin
     DEF AdminsPage, AdminsKPIRow, AdminsTable
<1>3. Sound(AdminCreate)
  BY NodesMutations, UsersParts, Lists, SoundForms, SoundJoin
     DEF AdminCreate
<1>4. Sound(AdminEdit)
  BY <1>1, NodesMutations, UsersParts, Lists, SoundForms, SoundJoin
     DEF AdminEdit
<1>5. Sound(AdminsDelete)
  BY <1>1, NodesMutations, Lists, SoundForms, SoundJoin
     DEF AdminsDelete
<1>6. Sound(AdminsSettingsDialog)
  BY <1>1, NodesMutations, SoundButtons, SoundLinks, SoundJoin
     DEF AdminsSettingsDialog, AdminInfoTable
<1>7. QED
  BY <1>1, <1>2, <1>3, <1>4, <1>5, <1>6

LEMMA OperationsParts ==
    Sound(HealthPage) /\ Sound(RealityPage) /\ Sound(AuditPage) /\ Sound(SettingsPage)
<1>1. Sound(HealthPage)
  BY NodesQueries, SoundShows
     DEF HealthPage
<1>2. Sound(RealityPage)
  BY NodesMutations, SoundButtons
     DEF RealityPage
<1>3. Sound(AuditPage)
  BY NodesQueries, SoundShows, SoundJoin
     DEF AuditPage, AuditKPIRow, AuditEventsTable
<1>4. Sound(SettingsPage)
  BY NodesQueries, SpecialQueries, SpecialMutations, SoundShows, SoundButtons, SoundJoin
     DEF SettingsPage, SubscriptionSettingsWidget, CertificateWidget
<1>5. QED
  BY <1>1, <1>2, <1>3, <1>4

LEMMA BillingParts ==
    Sound(BillingPlansPage) /\ Sound(BillingChannelsPage) /\ Sound(InvoiceDetailDialog)
    /\ Sound(BillingInvoicesPage) /\ Sound(BillingCheckoutPage)
<1>1. Sound(BillingPlansPage)
  BY BillingQueries, BillingMutations, SoundShows, SoundButtons, SoundJoin
     DEF BillingPlansPage, PlansTable, PlanFormDialog
<1>2. Sound(BillingChannelsPage)
  BY BillingQueries, BillingMutations, SoundShows, SoundButtons, SoundJoin
     DEF BillingChannelsPage, ChannelsTable, ChannelFormDialog
<1>3. Sound(InvoiceDetailDialog)
  BY BillingQueries, BillingMutations, SoundShows, SoundSubmits, SoundLinks, SoundJoin
     DEF InvoiceDetailDialog
<1>4. Sound(BillingInvoicesPage)
  BY BillingQueries, SoundShows, SoundLinks, SoundJoin
     DEF BillingInvoicesPage, InvoicesKPIRow, InvoicesTable
<1>5. Sound(BillingCheckoutPage)
  BY BillingQueries, BillingMutations, Lists, SoundShows, SoundSubmits, SoundJoin
     DEF BillingCheckoutPage, UserSelector, PlansGrid, CheckoutPaymentPicker
<1>6. QED
  BY <1>1, <1>2, <1>3, <1>4, <1>5

LEMMA ScreensAreSound ==
    ASSUME NEW sudo \in BOOLEAN PROVE \A s \in Screens(sudo) : Sound(s[2])
<1>1. \A s \in SectionParts(sudo) : Sound(s[2])
  BY HomeParts, UsersParts, ServicesParts, HostsParts, NodesParts, AdminsParts, OperationsParts,
     BillingParts, SoundLinks
     DEF SectionParts
<1>2. \A s \in DialogParts(sudo) : Sound(s[2])
  BY UsersParts, ServicesParts, HostsParts, NodesParts, AdminsParts, BillingParts
     DEF DialogParts
<1>3. \A s \in TabParts(sudo) : Sound(s[2])
  <2>1. ASSUME NEW t \in UsersSettingsTabs(sudo) PROVE Sound(UsersSettingsTab(t))
    BY UsersParts DEF UsersSettingsTabs, UsersSettingsTab
  <2>2. ASSUME NEW t PROVE Sound(ServiceSettingsTab(t)) /\ Sound(NodesSettingsTab(t))
    BY ServicesParts, NodesParts DEF ServiceSettingsTab, NodesSettingsTab
  <2>3. QED
    BY <2>1, <2>2 DEF TabParts
<1>4. QED
  BY <1>1, <1>2, <1>3 DEF Screens

LEMMA SiteIsSound ==
    /\ \A q \in Queries : IsQuery(q)
    /\ \A sudo \in BOOLEAN : \A at : \A d \in Does(sudo, at) :
           IsMutation(d[1]) /\ d[2] \in Places \cup {Stay}
<1>1. \A s \in SudoScreens \cup OtherScreens : Sound(s[2])
  BY ScreensAreSound DEF SudoScreens, OtherScreens
<1>2. \A q \in Queries : IsQuery(q)
  <2>1. ASSUME NEW m \in SudoMounts PROVE IsQuery(m[2])
    <3>1. PICK s \in SudoScreens : m \in {<<s[1], q>> : q \in s[2].mounts}
      BY DEF SudoMounts, Mounting
    <3>2. PICK q \in s[2].mounts : m = <<s[1], q>>
      BY <3>1
    <3>3. QED
      BY <1>1, <3>2 DEF Sound
  <2>2. QED
    BY <2>1 DEF Queries
<1>3. ASSUME NEW sudo \in BOOLEAN, NEW at, NEW d \in Does(sudo, at)
      PROVE  IsMutation(d[1]) /\ d[2] \in Places \cup {Stay}
  <2>1. \A p \in PartsAt(sudo, at) : Sound(p)
    BY <1>1 DEF PartsAt
  <2>2. PICK p \in PartsAt(sudo, at) : d \in p.does
    BY DEF Does
  <2>3. QED
    BY <2>1, <2>2 DEF Sound
<1>4. QED
  BY <1>2, <1>3

---------------------------------------------------------------------------
(* The watched entry *)

\* An entry that is not flagged shows what the panel was told of up to a, and an
\* answer on its way brings as much.
Fresh(e, a) ==
    /\ (~e.flagged /\ e.seen >= 0) => e.seen >= a
    /\ e.phase = "read" => e.got >= a

\* A fetch that is at phase p and has read g.
FetchAt(e, p, g) == [e EXCEPT !.phase = p, !.got = g]

LEMMA FetchStaysFresh ==
    ASSUME NEW e \in Entries, NEW p \in {"idle", "asked", "read"}, NEW g \in -1..MaxWrites,
           NEW a \in Nat, Fresh(e, a), p = "read" => g >= a
    PROVE  FetchAt(e, p, g) \in Entries /\ Fresh(FetchAt(e, p, g), a)
<1> DEFINE h == [e EXCEPT !.phase = p]
           f == [h EXCEPT !.got = g]
<1>1. h \in Entries /\ h.phase = p /\ h.seen = e.seen /\ (h.flagged <=> e.flagged)
  BY DEF Entries
<1> HIDE DEF h
<1>2. f \in Entries /\ f.phase = h.phase /\ f.got = g /\ f.seen = h.seen /\ (f.flagged <=> h.flagged)
  BY <1>1 DEF Entries
<1>3. f = FetchAt(e, p, g)
  BY DEF FetchAt, h
<1> HIDE DEF f
<1>4. QED
  BY <1>1, <1>2, <1>3 DEF Fresh

\* Neither a mount nor a refresh makes an entry claim more than it has.
LEMMA EntryOperators ==
    ASSUME NEW e \in Entries, NEW a \in Nat, Fresh(e, a)
    PROVE  /\ Fetch(e) \in Entries /\ Fresh(Fetch(e), a)
           /\ Refetch(e) \in Entries /\ Fresh(Refetch(e), a)
           /\ \A f \in OnMount(e) : f \in Entries /\ Fresh(f, a)
           /\ Empty \in Entries /\ Fresh(Empty, a)
<1>1. Fetch(e) \in Entries /\ Fresh(Fetch(e), a)
  BY DEF Fetch, Entries, Fresh
<1>2. Refetch(e) \in Entries /\ Fresh(Refetch(e), a)
  <2>1. FetchAt(e, "asked", -1) \in Entries /\ Fresh(FetchAt(e, "asked", -1), a)
    BY FetchStaysFresh, PanelAssumption
  <2>2. Refetch(e) \in {e, FetchAt(e, "asked", -1)}
    BY DEF Refetch, FetchAt
  <2>3. QED
    BY <2>1, <2>2
<1>3. \A f \in OnMount(e) : f \in {e, Fetch(e)}
  BY DEF OnMount
<1>4. Empty \in Entries /\ Fresh(Empty, a)
  BY PanelAssumption DEF Empty, Entries, Fresh
<1>5. QED
  BY <1>1, <1>2, <1>3, <1>4

\* What the panel was told of is on the server, and a mutation it has to show
\* will invalidate the entry.
CacheInv ==
    /\ TypeOK
    /\ Fresh(entry, acked) /\ acked <= version
    /\ \A s \in sent : s.at <= version /\ (s.owed => s.drops)

LEMMA InitCache == Init => CacheInv
<1> SUFFICES ASSUME Init PROVE CacheInv
  OBVIOUS
<1>1. Empty \in Entries /\ Fresh(Empty, 0)
  BY PanelAssumption DEF Empty, Entries, Fresh
<1>2. near \subseteq Places /\ place \in Places
  BY Lists DEF Init, Near
<1>3. token \in Admins \cup {Nobody} /\ isSudo \in BOOLEAN
  BY PanelAssumption DEF Init
<1>4. QED
  BY <1>1, <1>2, <1>3, PanelAssumption DEF Init, CacheInv, TypeOK

\* A step that changes no more than the entry, the place and the failures.
LEMMA EntryStep ==
    ASSUME CacheInv, UNCHANGED <<watched, near, session, version, sent, acked>>,
           place' \in Places, fails' \in 0..MaxFails, entry' \in Entries, Fresh(entry', acked)
    PROVE  CacheInv'
  BY DEF CacheInv, TypeOK, session

LEMMA ShowStep ==
    ASSUME CacheInv, NEW p, NEW q \in Places, Show(p, q)
    PROVE  place' \in Places /\ entry' \in Entries /\ Fresh(entry', acked)
<1>1. entry \in Entries /\ acked \in Nat /\ Fresh(entry, acked)
  BY PanelAssumption DEF CacheInv, TypeOK
<1>2. QED
  BY <1>1, EntryOperators DEF Show

\* Each step of the cache keeps CacheInv.
LEMMA CacheStep == CacheInv /\ CacheNext => CacheInv'
<1> SUFFICES ASSUME CacheInv, CacheNext PROVE CacheInv'
  OBVIOUS
<1>1. entry \in Entries /\ acked \in Nat /\ Fresh(entry, acked) /\ fails \in 0..MaxFails
  BY PanelAssumption DEF CacheInv, TypeOK
<1>2. version \in 0..MaxWrites /\ acked \in 0..MaxWrites /\ acked <= version
  BY DEF CacheInv, TypeOK
<1>3. sent \subseteq Requests /\ \A s \in sent : s.at <= version /\ (s.owed => s.drops)
  BY DEF CacheInv, TypeOK
<1>4. place \in Places /\ near \subseteq Places /\ isSudo \in BOOLEAN /\ watched \in Queries
  BY DEF CacheInv, TypeOK, CacheNext
<1>5. CASE Visit
  BY <1>1, <1>4, <1>5, ShowStep, EntryStep DEF Visit
<1>6. CASE ServerReads
  <2>1. entry' \in Entries /\ Fresh(entry', acked)
    <3>1. entry' = FetchAt(entry, "read", version)
      BY <1>6 DEF ServerReads, FetchAt
    <3>2. QED
      BY <1>1, <1>2, <3>1, FetchStaysFresh, PanelAssumption
  <2>2. QED
    BY <1>1, <1>4, <1>6, <2>1, EntryStep DEF ServerReads
<1>7. CASE Answered
  <2>1. entry' \in Entries /\ Fresh(entry', acked)
    <3>1. entry.got \in -1..MaxWrites /\ entry.got >= acked
      BY <1>1, <1>7 DEF Answered, Entries, Fresh
    <3>2. entry' = [seen |-> entry.got, flagged |-> FALSE, phase |-> "idle", got |-> -1, barred |-> FALSE]
      BY <1>7 DEF Answered, Empty
    <3>3. QED
      BY <3>1, <3>2, PanelAssumption DEF Entries, Fresh
  <2>2. QED
    BY <1>1, <1>4, <1>7, <2>1, EntryStep DEF Answered
<1>8. CASE ServerRefuses
  <2>1. entry' \in Entries /\ Fresh(entry', acked)
    BY <1>1, <1>2, <1>8 DEF ServerRefuses, Entries, Fresh
  <2>2. QED
    BY <1>1, <1>4, <1>8, <2>1, EntryStep DEF ServerRefuses
<1>9. CASE FetchFails
  <2>1. entry' \in Entries /\ Fresh(entry', acked)
    <3>1. entry' = FetchAt(entry, "idle", -1)
      BY <1>9 DEF FetchFails, FetchAt
    <3>2. QED
      BY <1>1, <3>1, FetchStaysFresh, PanelAssumption
  <2>2. fails' \in 0..MaxFails
    BY <1>1, <1>9, PanelAssumption DEF FetchFails
  <2>3. QED
    BY <1>4, <1>9, <2>1, <2>2, EntryStep DEF FetchFails
<1>10. CASE Poll \/ Refocus \/ Refresh \/ Collect
  <2>1. entry' \in Entries /\ Fresh(entry', acked)
    BY <1>1, <1>10, EntryOperators DEF Poll, Refocus, Refresh, Collect
  <2>2. QED
    BY <1>1, <1>4, <1>10, <2>1, EntryStep DEF Poll, Refocus, Refresh, Collect
<1>11. CASE Reload
  <2>1. Empty \in Entries /\ Fresh(Empty, acked)
    BY <1>1, EntryOperators
  <2>2. entry' \in Entries /\ Fresh(entry', acked)
    BY <1>1, <1>11, <2>1, EntryOperators DEF Reload
  <2>3. ASSUME NEW t \in sent'
        PROVE  t \in Requests /\ t.at <= version /\ (t.owed => t.drops)
    <3>1. PICK s \in sent : t = [s EXCEPT !.drops = FALSE, !.owed = FALSE]
      BY <1>11, <2>3 DEF Reload
    <3>2. QED
      BY <1>3, <3>1 DEF Requests
  <2>4. QED
    BY <1>11, <2>2, <2>3 DEF Reload, CacheInv, TypeOK, session
<1>12. CASE Submit
  <2>1. PICK n \in 1..MaxSent, d \in Does(isSudo, place) :
            /\ sent' = sent \cup
                 {[n |-> n, changes |-> Changes(d[1], watched), drops |-> Drops(d[1], watched),
                   owed |-> HasToShow(d[1]), at |-> -1]}
            /\ \E next \in {place} \cup ({d[2]} \ {Stay}) : Show(place, next)
            /\ UNCHANGED <<watched, near, session, version, acked, fails>>
    BY <1>12 DEF Submit
  <2>2. IsQuery(watched) /\ IsMutation(d[1]) /\ d[2] \in Places \cup {Stay}
    BY <1>4, SiteIsSound
  <2>3. HasToShow(d[1]) => Drops(d[1], watched)
    BY <2>2 DEF IsMutation, HasToShow
  <2>4. place' \in Places /\ entry' \in Entries /\ Fresh(entry', acked)
    BY <1>4, <2>1, <2>2, ShowStep
  <2> DEFINE c == Changes(d[1], watched)
             r == Drops(d[1], watched)
             o == HasToShow(d[1])
             t == [n |-> n, changes |-> c, drops |-> r, owed |-> o, at |-> -1]
  <2>5. c \in BOOLEAN /\ r \in BOOLEAN /\ o \in BOOLEAN
    BY DEF Changes, Drops, HasToShow
  <2>6. (o => r) /\ sent' = sent \cup {t}
    BY <2>1, <2>3
  <2> HIDE DEF c, r, o
  <2>7. t \in Requests /\ t.at <= version /\ (t.owed => t.drops)
    BY <1>2, <2>5, <2>6, PanelAssumption DEF Requests
  <2> HIDE DEF t
  <2>8. sent' \subseteq Requests /\ \A s \in sent' : s.at <= version /\ (s.owed => s.drops)
    BY <1>3, <2>6, <2>7
  <2>9. QED
    BY <2>1, <2>4, <2>8 DEF CacheInv, TypeOK, session
<1>13. CASE OthersWrite
  <2>1. version' \in 0..MaxWrites /\ version <= version'
    BY <1>2, <1>13, PanelAssumption DEF OthersWrite
  <2>2. acked' <= version' /\ \A s \in sent' : s.at <= version' /\ (s.owed => s.drops)
    BY <1>2, <1>3, <1>13, <2>1, PanelAssumption DEF OthersWrite, Requests
  <2>3. QED
    BY <1>13, <2>1, <2>2 DEF OthersWrite, CacheInv, TypeOK, session
<1>14. ASSUME NEW s \in sent, Commit(s) PROVE CacheInv'
  <2>1. version' \in 0..MaxWrites /\ version <= version'
    BY <1>2, <1>14, PanelAssumption DEF Commit
  <2> DEFINE t == [s EXCEPT !.at = version']
  <2>2. t \in Requests /\ t.at <= version' /\ (t.owed => t.drops)
    BY <1>3, <2>1 DEF Requests
  <2>3. sent' = (sent \ {s}) \cup {t}
    BY <1>14 DEF Commit
  <2> HIDE DEF t
  <2>4. ASSUME NEW u \in sent \ {s} PROVE u \in Requests /\ u.at <= version' /\ (u.owed => u.drops)
    BY <1>2, <1>3, <2>1 DEF Requests
  <2>5. sent' \subseteq Requests /\ \A u \in sent' : u.at <= version' /\ (u.owed => u.drops)
    BY <2>2, <2>3, <2>4
  <2>6. acked' <= version'
    BY <1>2, <1>14, <2>1 DEF Commit
  <2>7. QED
    BY <1>14, <2>1, <2>5, <2>6 DEF Commit, CacheInv, TypeOK, session
<1>15. ASSUME NEW s \in sent, Acknowledged(s) PROVE CacheInv'
  <2> DEFINE flagged == [entry EXCEPT !.flagged = TRUE]
  <2>1. flagged \in Entries /\ \A a \in Nat : flagged.phase # "read" => Fresh(flagged, a)
    BY <1>1 DEF Entries, Fresh
  <2>2. Fresh(flagged, acked) /\ flagged.flagged
    BY <1>1 DEF Entries, Fresh
  <2>3. Refetch(flagged) \in Entries /\ Fresh(Refetch(flagged), acked) /\ Refetch(flagged).flagged
    <3>1. Refetch(flagged).flagged
      BY <2>1, <2>2 DEF Refetch, Entries
    <3>2. QED
      BY <1>1, <2>1, <2>2, <3>1, EntryOperators
  <2> HIDE DEF flagged
  <2>4. entry' \in Entries /\ Fresh(entry', acked) /\ (s.drops => entry'.flagged)
    BY <1>1, <1>15, <2>1, <2>2, <2>3 DEF Acknowledged, flagged
  <2>5. CASE acked' = acked
    BY <1>3, <1>15, <2>4, <2>5 DEF Acknowledged, CacheInv, TypeOK, session
  <2>6. CASE acked' # acked
    <3>1. s.owed /\ entry'.phase # "read" /\ acked' = s.at /\ s.at > acked
      BY <1>15, <2>6 DEF Acknowledged
    <3>2. acked' \in 0..MaxWrites /\ acked' <= version
      BY <1>2, <1>3, <3>1 DEF Requests
    <3>3. Fresh(entry', acked')
      BY <1>3, <2>4, <3>1 DEF Fresh
    <3>4. QED
      BY <1>3, <1>15, <2>4, <3>2, <3>3 DEF Acknowledged, CacheInv, TypeOK, session
  <2>7. QED
    BY <2>5, <2>6
<1>16. ASSUME NEW s \in sent, MutationFails(s) PROVE CacheInv'
  BY <1>16 DEF MutationFails, CacheInv, TypeOK, session
<1>17. QED
  BY <1>5, <1>6, <1>7, <1>8, <1>9, <1>10, <1>11, <1>12, <1>13, <1>14, <1>15, <1>16 DEF CacheNext

\* The session leaves the cache alone and keeps its own types.
LEMMA SessionTypes == CacheInv /\ SessionNext => CacheInv'
<1> SUFFICES ASSUME CacheInv, SessionNext PROVE CacheInv'
  OBVIOUS
<1> DEFINE Types ==
        /\ token \in Admins \cup {Nobody} /\ isSudo \in BOOLEAN
        /\ place \in Places /\ checks \in 0..MaxChecks /\ logins \subseteq Admins
<1>1. Types
  BY DEF CacheInv, TypeOK
<1>2. UNCHANGED <<watched, near, cache>>
  BY DEF SessionNext
<1>3. Types'
  <2>1. ASSUME NEW p \in Places, NEW confirmed \in BOOLEAN, Follow(p, confirmed) PROVE Types'
    <3> DEFINE pending == IF InSudoRoute(p) /\ p[1] # place[1] THEN checks + 1 ELSE checks
    <3>1. pending <= MaxChecks /\ Arrive(p, token, confirmed, pending) /\ UNCHANGED <<isSudo, logins>>
      BY <2>1 DEF Follow
    <3>2. pending \in 0..MaxChecks
      BY <1>1, <3>1, PanelAssumption
    <3> HIDE DEF pending
    <3>3. QED
      BY <1>1, <3>1, <3>2, Lists DEF Arrive
  <2>2. ASSUME NEW p \in Places, NEW confirmed \in BOOLEAN, Load(p, confirmed) PROVE Types'
    BY <1>1, <2>2, Lists, PanelAssumption DEF Load
  <2>3. ASSUME NEW confirmed \in BOOLEAN, CheckAnswered(confirmed) PROVE Types'
    BY <1>1, <2>3, Lists, PanelAssumption DEF CheckAnswered
  <2>4. ASSUME NEW a \in Admins, SignIn(a) \/ SignInFails(a) PROVE Types'
    BY <1>1, <2>4 DEF SignIn, SignInFails
  <2>5. ASSUME NEW a \in Admins, NEW confirmed \in BOOLEAN, SignedIn(a, confirmed) PROVE Types'
    <3>1. isSudo' = (a \in SudoAdmins)
      BY <2>5 DEF SignedIn
    <3>2. isSudo' \in BOOLEAN
      BY <3>1
    <3>3. a \in logins /\ logins' = logins \ {a} /\ Arrive(Page("home"), a, confirmed, checks)
      BY <2>5 DEF SignedIn
    <3>4. QED
      BY <1>1, <3>2, <3>3, Lists DEF Arrive
  <2>6. QED
    BY <2>1, <2>2, <2>3, <2>4, <2>5 DEF SessionNext
<1>4. QED
  BY <1>2, <1>3 DEF CacheInv, TypeOK, cache

LEMMA NextCache == CacheInv /\ [Next]_vars => CacheInv'
<1> SUFFICES ASSUME CacheInv, [Next]_vars PROVE CacheInv'
  OBVIOUS
<1>1. CASE UNCHANGED vars
  BY <1>1 DEF vars, session, cache, CacheInv, TypeOK
<1>2. QED
  BY <1>1, CacheStep, SessionTypes DEF Next

\* Every variable keeps its type, through every answer of the server, in whatever
\* order mutations are carried out, answered and forgotten.
THEOREM TypeCorrect == Spec => []TypeOK
<1>1. CacheInv => TypeOK
  BY DEF CacheInv
<1>2. QED
  BY <1>1, InitCache, NextCache, PTL DEF Spec

\* A page that has its answer shows the writes the panel reported as done, for every
\* query and mutation of every screen: no hook misses an entry of its own kind, and no
\* answer read earlier brings the old rows back.
THEOREM OwnWritesAreShown == Spec => []OwnWritesShown
<1>1. CacheInv => OwnWritesShown
  BY DEF CacheInv, Fresh, OwnWritesShown
<1>2. QED
  BY <1>1, InitCache, NextCache, PTL DEF Spec
=============================================================================
