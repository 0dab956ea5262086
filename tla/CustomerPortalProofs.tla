------------------------- MODULE CustomerPortalProofs -------------------------
(***************************************************************************)
(* The customer portal for any number of tabs, customers, tokens and       *)
(* requests under way: types, the two promises about late answers, and the *)
(* gate of the panel.                                                      *)
(***************************************************************************)
EXTENDS CustomerPortal, TLAPS

USE DEF None, NoToken

---------------------------------------------------------------------------
(* Routes *)

LEMMA RoutedPage ==
  ASSUME NEW p \in RoutedPaths
  PROVE  <<p, PageAt(p)>> \in PortalRoutes
<1>1. \E r \in PortalRoutes : r[1] = p
  BY DEF RoutedPaths
<1>2. PICK r \in PortalRoutes : r[1] = p /\ PageAt(p) = r[2]
  BY <1>1 DEF PageAt
<1>3. r = <<r[1], r[2]>>
  BY DEF PortalRoutes
<1>4. QED
  BY <1>2, <1>3

LEMMA PageType == ASSUME NEW p PROVE PageAt(p) \in Pages
<1>1. CASE p \in RoutedPaths
  <2> DEFINE r == <<p, PageAt(p)>>
  <2>1. r \in PortalRoutes /\ r[2] = PageAt(p)
    BY <1>1, RoutedPage
  <2> HIDE DEF r
  <2>2. QED
    BY <2>1 DEF Pages
<1>2. CASE p \notin RoutedPaths
  BY <1>2 DEF PageAt, Pages
<1>3. QED
  BY <1>1, <1>2

\* The prefix test covers every route of a panel page, and no address outside the
\* routes leads to one.
LEMMA PanelIsProtected == ASSUME NEW p, PageAt(p) \in PanelPages PROVE IsProtected(p)
<1>1. p \in RoutedPaths
  BY DEF PageAt, PanelPages, Marketing
<1>2. <<p, PageAt(p)>> \in PortalRoutes
  BY <1>1, RoutedPage
<1>3. QED
  BY <1>2 DEF PortalRoutes, PanelPages, Marketing, IsProtected

LEMMA LoginPage == PageAt("/login") = "Login" /\ "/login" \in Paths
<1>1. "/login" \in RoutedPaths
  BY DEF RoutedPaths, PortalRoutes
<1>2. <<"/login", PageAt("/login")>> \in PortalRoutes
  BY <1>1, RoutedPage
<1>3. QED
  BY <1>1, <1>2 DEF PortalRoutes, Paths

LEMMA LinksType == ASSUME NEW v \in Views PROVE LinksOf(v) \subseteq Paths
<1> DEFINE R == { "/", "/features", "/pricing", "/faq", "/about", "/contact", "/status",
                  "/legal", "/login", "/signup", "/dashboard", "/panel", "/panel/",
                  "/panel/nodes", "/panel/traffic", "/panel/plans", "/panel/billing",
                  "/panel/tickets", "/panel/invite", "/panel/account", "/panel/docs" }
<1>1. R \subseteq RoutedPaths
  BY DEF RoutedPaths, PortalRoutes
<1>2. PanelShellLinks \subseteq R /\ TopbarLinks \subseteq R /\ FooterLinks \subseteq R
  BY DEF PanelShellLinks, TopbarLinks, FooterLinks
<1>3. HomeLinks \subseteq R \cup PriceLinks /\ PricingLinks \subseteq PriceLinks
      /\ FaqLinks \subseteq R /\ NotFoundLinks \subseteq R
      /\ DashboardLinks \subseteq R /\ BillingLinks \subseteq R
  BY DEF HomeLinks, HeroLinks, PricingLinks, FaqLinks, NotFoundLinks, DashboardLinks, BillingLinks
<1>4. {"/", "/signup", "/login", "/dashboard"} \subseteq R
  OBVIOUS
<1> HIDE DEF R
<1>5. LinksOf(v) \subseteq R \cup PriceLinks
  <2>1. CASE v.page \in Marketing
    <3>1. CASE v.page \in {"Home", "Pricing", "FAQ", "NotFound"}
      BY <1>2, <1>3, <2>1, <3>1 DEF LinksOf, Marketing
    <3>2. CASE v.page \notin {"Home", "Pricing", "FAQ", "NotFound"}
      BY <1>2, <2>1, <3>2 DEF LinksOf, Marketing
    <3>3. QED
      BY <3>1, <3>2
  <2>2. CASE v.page \in {"Login", "Signup", "Account", "Dashboard", "Billing"}
    BY <1>2, <1>3, <1>4, <2>2 DEF LinksOf, Marketing
  <2>3. CASE v.page \notin Marketing \cup {"Login", "Signup", "Account", "Dashboard", "Billing"}
    BY <1>2, <2>3 DEF LinksOf
  <2>4. QED
    BY <2>1, <2>2, <2>3
<1>6. QED
  BY <1>1, <1>5 DEF Paths

---------------------------------------------------------------------------
(* Types *)

LEMMA FreshType == ASSUME NEW page \in Pages PROVE Fresh(page) \in Views
  BY PortalAssumption DEF Fresh, Views, Traffic

LEMMA AskType ==
  ASSUME NEW t \in Tabs, NEW tok \in {NoToken} \cup Tokens, NEW d \in Days
  PROVE  AskMe(t, tok) \in Requests /\ AskTraffic(t, tok, d) \in Requests
  BY PortalAssumption DEF AskMe, AskTraffic, Requests

\* One field of a view at a time.
LEMMA ViewType ==
  ASSUME NEW v \in Views, NEW b \in BOOLEAN, NEW me \in Customers \cup {None},
         NEW url \in Customers \cup {None, "short"}
  PROVE  /\ [v EXCEPT !.failed = b] \in Views /\ [v EXCEPT !.loading = b] \in Views
         /\ [v EXCEPT !.me = me] \in Views /\ [v EXCEPT !.url = url] \in Views
  BY DEF Views

LEMMA EffectsType ==
  ASSUME NEW t \in Tabs, NEW page, NEW tok \in {NoToken} \cup Tokens
  PROVE  Effects(t, page, tok) \subseteq Requests
  BY AskType, PortalAssumption DEF Effects

LEMMA UnmountedType ==
  ASSUME NEW t \in Tabs, NEW pending \in SUBSET Requests
  PROVE  Unmounted(t, pending) \subseteq Requests
<1> SUFFICES ASSUME NEW a \in Cancelled(t, {"me", "traffic"}, pending)
             PROVE  [a EXCEPT !.here = FALSE] \in Requests /\ a \in Requests
  BY DEF Unmounted
<1>1. a \in Requests
  BY DEF Cancelled
<1>2. QED
  BY <1>1 DEF Requests

\* What the hash change leaves in place, and what it puts there.
LEMMA ArriveType ==
  ASSUME TypeOK, NEW t \in Tabs, NEW p \in Paths, NEW tok \in {NoToken} \cup Tokens,
         NEW pending \in SUBSET Requests, Arrive(t, p, tok, pending)
  PROVE  /\ path' \in [Tabs -> Paths] /\ view' \in [Tabs -> Views]
         /\ crashed' \in [Tabs -> BOOLEAN] /\ asks' \in SUBSET Requests
<1> DEFINE refused == IsProtected(p) /\ tok \notin live'
           dest == IF refused THEN "/login" ELSE p
           page == PageAt(dest)
           stays == p = path[t] \/ (~refused /\ (crashed[t] \/ page = view[t].page))
<1>1. /\ path' = [path EXCEPT ![t] = IF p = path[t] THEN @ ELSE dest]
      /\ view' = IF stays THEN view ELSE [view EXCEPT ![t] = Fresh(page)]
      /\ crashed' = IF stays THEN crashed ELSE [crashed EXCEPT ![t] = FALSE]
      /\ asks' = IF stays THEN pending ELSE Unmounted(t, pending) \cup Effects(t, page, tok)
  BY DEF Arrive
<1>2. dest \in Paths /\ page \in Pages
  BY LoginPage, PageType
<1>3. Fresh(page) \in Views
  BY <1>2, FreshType
<1>4. Unmounted(t, pending) \cup Effects(t, page, tok) \subseteq Requests
  BY UnmountedType, EffectsType
<1> HIDE DEF refused, dest, page, stays
<1>5. QED
  BY <1>1, <1>2, <1>3, <1>4 DEF TypeOK

LEMMA InitType == Init => TypeOK
<1> SUFFICES ASSUME Init PROVE TypeOK
  OBVIOUS
<1>1. "/" \in Paths
  BY DEF Paths, RoutedPaths, PortalRoutes
<1>2. "Home" \in Pages
  BY DEF Pages, PortalRoutes
<1>3. Fresh("Home") \in Views
  BY <1>2, FreshType
<1>4. QED
  BY <1>1, <1>3 DEF Init, TypeOK

\* setToken and clearToken keep the type of the token, whether they are heard or not.
LEMMA StoredType ==
  ASSUME TypeOK, NEW new \in {NoToken} \cup Tokens, token' \in Stored(new)
  PROVE  token' \in {NoToken} \cup Tokens
  BY DEF Stored, TypeOK

LEMMA GoType ==
  ASSUME TypeOK, NEW t \in Tabs, NEW p \in Paths, Go(t, p)
  PROVE  TypeOK'
  BY ArriveType DEF Go, TypeOK

LEMMA UserType == ASSUME TypeOK, NEW t \in Tabs, UserStep(t) PROVE TypeOK'
<1>1. CASE Follow(t) \/ TypeAddress(t)
  <2>1. FallbackLinks \subseteq Paths /\ RoutedPaths \subseteq Paths
    BY DEF FallbackLinks, Paths, RoutedPaths, PortalRoutes
  <2>2. LinksOf(view[t]) \subseteq Paths
    BY LinksType DEF TypeOK
  <2>3. QED
    BY <1>1, <2>1, <2>2, GoType DEF Follow, TypeAddress
<1>2. CASE Reload(t)
  <2> DEFINE dest == IF IsProtected(path[t]) /\ ~TokenValid(token) THEN "/login" ELSE path[t]
  <2>1. /\ path' = [path EXCEPT ![t] = dest]
        /\ view' = [view EXCEPT ![t] = Fresh(PageAt(dest))]
        /\ crashed' = [crashed EXCEPT ![t] = FALSE]
        /\ asks' = {a \in asks : a.tab # t} \cup Effects(t, PageAt(dest), token)
        /\ UNCHANGED <<token, holder, live>>
    BY <1>2 DEF Reload
  <2>2. dest \in Paths
    BY LoginPage DEF TypeOK
  <2>3. Fresh(PageAt(dest)) \in Views
    BY PageType, FreshType
  <2>4. Effects(t, PageAt(dest), token) \subseteq Requests
    BY EffectsType DEF TypeOK
  <2> HIDE DEF dest
  <2>5. QED
    BY <2>1, <2>2, <2>3, <2>4 DEF TypeOK
<1>3. CASE Crash(t)
  <2>1. [Fresh(view[t].page) EXCEPT !.loading = FALSE] \in Views
    <3>1. view[t].page \in Pages
      BY DEF TypeOK, Views
    <3>2. QED
      BY <3>1, FreshType, ViewType
  <2>2. Unmounted(t, asks) \subseteq Requests
    BY UnmountedType DEF TypeOK
  <2>3. QED
    BY <1>3, <2>1, <2>2 DEF Crash, TypeOK
<1>4. CASE TypeUrl(t) \/ SignupStep(t)
  BY <1>4 DEF TypeUrl, SignupStep, TypeOK, Views
<1>5. CASE Submit(t)
  <2>1. CASE view[t].url = "short"
    <3>1. [view[t] EXCEPT !.failed = TRUE] \in Views
      BY ViewType DEF TypeOK
    <3>2. QED
      BY <1>5, <2>1, <3>1 DEF Submit, TypeOK
  <2>2. CASE view[t].url # "short"
    <3>1. view[t].url \in Customers
      BY <1>5, <2>2 DEF Submit, TypeOK, Views
    <3>2. PICK n \in 1..MaxSubmits :
             /\ view' = [view EXCEPT ![t] = [@ EXCEPT !.failed = FALSE, !.loading = TRUE]]
             /\ asks' = asks \cup
                  {[ tab |-> t, kind |-> "login", n |-> n, tok |-> NoToken,
                     days |-> FirstDays, url |-> view[t].url, here |-> TRUE ]}
             /\ UNCHANGED <<token, holder, live, path, crashed>>
      BY <1>5, <2>2 DEF Submit
    <3>3. [ tab |-> t, kind |-> "login", n |-> n, tok |-> NoToken,
            days |-> FirstDays, url |-> view[t].url, here |-> TRUE ] \in Requests
      BY <3>1, PortalAssumption DEF Requests
    <3>4. [view[t] EXCEPT !.failed = FALSE, !.loading = TRUE] \in Views
      BY ViewType DEF TypeOK
    <3>5. QED
      BY <3>2, <3>3, <3>4 DEF TypeOK
  <2>3. QED
    BY <2>1, <2>2
<1>6. CASE Logout(t)
  <2>1. token' \in {NoToken} \cup Tokens
    BY <1>6, StoredType DEF Logout
  <2>2. QED
    BY <1>6, <2>1, ArriveType, LoginPage DEF Logout, TypeOK
<1>7. CASE ShowDays(t)
  <2>1. PICK d \in Days :
           /\ view' = [view EXCEPT ![t].days = d]
           /\ asks' = Cancelled(t, {"traffic"}, asks) \cup {AskTraffic(t, token, d)}
           /\ UNCHANGED <<token, holder, live, path, crashed>>
    BY <1>7 DEF ShowDays
  <2>2. asks' \subseteq Requests
    BY <2>1, AskType DEF TypeOK, Cancelled
  <2>3. QED
    BY <2>1, <2>2 DEF TypeOK, Views
<1>8. QED
  BY <1>1, <1>2, <1>3, <1>4, <1>5, <1>6, <1>7 DEF UserStep

LEMMA AnswerType == TypeOK /\ Answer => TypeOK'
<1> SUFFICES ASSUME TypeOK, NEW a \in asks,
                    SignedIn(a) \/ SignInRefused(a) \/ MeAnswered(a) \/ TrafficAnswered(a)
             PROVE  TypeOK'
  BY DEF Answer
<1>1. a \in Requests
  BY DEF TypeOK
<1>2. CASE SignedIn(a)
  <2>1. PICK k \in Tokens :
           /\ holder' = [holder EXCEPT ![k] = a.url] /\ live' = live \cup {k}
           /\ token' \in Stored(k) /\ Arrive(a.tab, "/panel", token', asks \ {a})
    BY <1>2 DEF SignedIn
  <2>2. token' \in {NoToken} \cup Tokens
    BY <2>1, StoredType
  <2>3. "/panel" \in Paths
    BY DEF Paths, RoutedPaths, PortalRoutes
  <2>4. a.tab \in Tabs /\ asks \ {a} \in SUBSET Requests
    BY <1>1 DEF TypeOK, Requests
  <2>5. /\ path' \in [Tabs -> Paths] /\ view' \in [Tabs -> Views]
        /\ crashed' \in [Tabs -> BOOLEAN] /\ asks' \in SUBSET Requests
    BY <2>1, <2>2, <2>3, <2>4, ArriveType
  <2>6. holder' \in [Tokens -> Customers \cup {None}] /\ live' \in SUBSET Tokens
    BY <1>1, <2>1 DEF TypeOK, Requests
  <2>7. QED
    BY <2>2, <2>5, <2>6 DEF TypeOK
<1>3. CASE SignInRefused(a)
  <2>1. a.tab \in Tabs /\ view[a.tab] \in Views
    BY <1>1 DEF TypeOK, Requests
  <2>2. [view[a.tab] EXCEPT !.url = None, !.failed = TRUE, !.loading = FALSE] \in Views
    BY <2>1, ViewType
  <2>3. QED
    BY <1>3, <2>1, <2>2 DEF SignInRefused, TypeOK
<1>4. CASE MeAnswered(a)
  <2>1. a.tab \in Tabs /\ view[a.tab] \in Views
    BY <1>1 DEF TypeOK, Requests
  <2>2. [view[a.tab] EXCEPT !.failed = TRUE, !.loading = FALSE] \in Views
    BY <2>1, ViewType
  <2>3. ASSUME a.tok \in live
        PROVE  [view[a.tab] EXCEPT !.me = holder[a.tok], !.failed = FALSE, !.loading = FALSE] \in Views
    <3>1. holder[a.tok] \in Customers \cup {None}
      BY <2>3 DEF TypeOK
    <3>2. QED
      BY <2>1, <3>1, ViewType
  <2>4. QED
    BY <1>4, <2>1, <2>2, <2>3 DEF MeAnswered, TypeOK
<1>5. CASE TrafficAnswered(a)
  <2>1. PICK kind \in {"data", "placeholder"} :
           /\ view' = [view EXCEPT ![a.tab].traffic = [days |-> a.days, kind |-> kind]]
           /\ asks' = asks \ {a} /\ UNCHANGED <<token, holder, live, path, crashed>>
    BY <1>5 DEF TrafficAnswered
  <2>2. [days |-> a.days, kind |-> kind] \in Traffic
    BY <1>1 DEF Requests, Traffic
  <2>3. QED
    BY <1>1, <2>1, <2>2 DEF TypeOK, Views, Requests
<1>6. QED
  BY <1>2, <1>3, <1>4, <1>5

LEMMA NextType == TypeOK /\ [Next]_vars => TypeOK'
<1> SUFFICES ASSUME TypeOK, [Next]_vars PROVE TypeOK'
  OBVIOUS
<1>1. CASE \E k \in Tokens : Expire(k)
  BY <1>1 DEF Expire, TypeOK
<1>2. CASE UNCHANGED vars
  BY <1>2 DEF vars, TypeOK
<1>3. QED
  BY <1>1, <1>2, UserType, AnswerType DEF Next

\* Every variable keeps its type: a tab shows a page there is, and a request belongs to a tab.
THEOREM TypeCorrect == Spec => []TypeOK
  BY InitType, NextType, PTL DEF Spec

---------------------------------------------------------------------------
(* Late answers *)

Loads == {"Dashboard", "Account"}
LoadingView(v) == v.page \in Loads /\ v.loading

\* Of the requests of a tab: what its page and state must be.
RequestOK(a, v, down) ==
    /\ a.kind = "me" => ~down /\ LoadingView(v)
    /\ a.kind = "traffic" => ~down /\ v.page = "Dashboard" /\ a.days = v.days
    /\ (a.kind = "login" /\ a.here) => v.page = "Login"

Asked(t, kind) == \E a \in asks : a.tab = t /\ a.kind = kind

\* What holds of one tab.  The third part is needed as the first of two answers for
\* an account ends the loading.
TabOK(t) ==
    /\ \A a \in asks : a.tab = t => RequestOK(a, view[t], crashed[t])
    /\ ~crashed[t] /\ LoadingView(view[t]) => Asked(t, "me")
    /\ \A a, b \in asks : (a.tab = t /\ b.tab = t /\ a.kind = "me" /\ b.kind = "me") => a = b
    /\ ~crashed[t] /\ view[t].page = "Dashboard" /\ ~Asked(t, "traffic") =>
          view[t].traffic.kind # "none" /\ view[t].traffic.days = view[t].days

IInv == TypeOK /\ \A t \in Tabs : TabOK(t)

\* Nothing of tab u changes.
Untouched(u) ==
    /\ view'[u] = view[u] /\ crashed'[u] = crashed[u]
    /\ \A a : a.tab = u => (a \in asks' <=> a \in asks)

LEMMA UntouchedOK == ASSUME NEW u \in Tabs, TabOK(u), Untouched(u) PROVE TabOK(u)'
  BY DEF TabOK, Untouched, Asked, RequestOK, LoadingView

LEMMA FreshView ==
  ASSUME NEW page
  PROVE  /\ Fresh(page).page = page /\ Fresh(page).days = FirstDays
         /\ Fresh(page).loading <=> page \in Loads
<1>1. Fresh(page).loading = (page \in Loads)
  BY DEF Fresh, Loads
<1>2. Fresh(page).loading <=> page \in Loads
  BY <1>1, Zenon
<1>3. QED
  BY <1>2 DEF Fresh

\* A page that has just been mounted asks for what it waits for.
LEMMA MountedOK ==
  ASSUME NEW t \in Tabs, NEW page, NEW tok, view'[t] = Fresh(page), ~crashed'[t],
         Effects(t, page, tok) \subseteq asks',
         \A a \in asks' : a.tab = t => a \in Effects(t, page, tok) \/ (a.kind = "login" /\ ~a.here)
  PROVE  TabOK(t)'
<1>1. CASE page = "Dashboard"
  <2>1. Effects(t, page, tok) = {AskMe(t, tok), AskTraffic(t, tok, FirstDays)}
    BY <1>1 DEF Effects
  <2>2. /\ AskMe(t, tok).kind = "me" /\ AskMe(t, tok).tab = t
        /\ AskTraffic(t, tok, FirstDays).kind = "traffic" /\ AskTraffic(t, tok, FirstDays).tab = t
        /\ AskTraffic(t, tok, FirstDays).days = FirstDays
    BY DEF AskMe, AskTraffic
  <2>3. view'[t].page = "Dashboard" /\ view'[t].loading /\ view'[t].days = FirstDays
    BY <1>1, FreshView DEF Loads
  <2>4. Asked(t, "me")' /\ Asked(t, "traffic")'
    BY <2>1, <2>2 DEF Asked
  <2>5. \A a \in asks' : a.tab = t =>
           \/ a = AskMe(t, tok) \/ a = AskTraffic(t, tok, FirstDays)
           \/ a.kind = "login" /\ ~a.here
    BY <2>1
  <2>6. \A a \in asks' : a.tab = t => RequestOK(a, view'[t], crashed'[t])
    BY <2>2, <2>3, <2>5 DEF RequestOK, LoadingView, Loads
  <2>7. QED
    BY <2>2, <2>4, <2>5, <2>6 DEF TabOK
<1>2. CASE page = "Account"
  <2>1. Effects(t, page, tok) = {AskMe(t, tok)}
    BY <1>2 DEF Effects
  <2>2. AskMe(t, tok).kind = "me" /\ AskMe(t, tok).tab = t
    BY DEF AskMe
  <2>3. view'[t].page = "Account" /\ view'[t].loading
    BY <1>2, FreshView DEF Loads
  <2>4. Asked(t, "me")'
    BY <2>1, <2>2 DEF Asked
  <2>5. \A a \in asks' : a.tab = t => a = AskMe(t, tok) \/ (a.kind = "login" /\ ~a.here)
    BY <2>1
  <2>6. \A a \in asks' : a.tab = t => RequestOK(a, view'[t], crashed'[t])
    BY <2>2, <2>3, <2>5 DEF RequestOK, LoadingView, Loads
  <2>7. QED
    BY <2>2, <2>3, <2>4, <2>5, <2>6 DEF TabOK
<1>3. CASE page \notin Loads
  <2>1. Effects(t, page, tok) = {}
    BY <1>3 DEF Effects, Loads
  <2>2. view'[t].page = page
    BY DEF Fresh
  <2>3. QED
    BY <1>3, <2>1, <2>2 DEF TabOK, RequestOK, LoadingView, Loads
<1>4. QED
  BY <1>1, <1>2, <1>3 DEF Loads

\* The clean-up at unmounting leaves the tab nothing but sign-ins that find no page.
LEMMA UnmountedOK ==
  ASSUME NEW t \in Tabs, NEW pending \in SUBSET Requests
  PROVE  /\ \A a \in Unmounted(t, pending) : a.tab = t => a.kind = "login" /\ ~a.here
         /\ \A a : a.tab # t => (a \in Unmounted(t, pending) <=> a \in pending)
<1>1. \A a \in pending : /\ [a EXCEPT !.here = FALSE].tab = a.tab
                         /\ [a EXCEPT !.here = FALSE].kind = a.kind
                         /\ ~[a EXCEPT !.here = FALSE].here
  BY DEF Requests
<1>2. \A a \in Cancelled(t, {"me", "traffic"}, pending) : a \in pending /\ (a.tab = t => a.kind = "login")
  BY DEF Cancelled, Requests
<1>3. \A a \in pending : a.tab # t => a \in Cancelled(t, {"me", "traffic"}, pending)
  BY DEF Cancelled
<1>4. QED
  BY <1>1, <1>2, <1>3 DEF Unmounted

LEMMA EffectsTab ==
  ASSUME NEW t, NEW page, NEW tok
  PROVE  \A a \in Effects(t, page, tok) : a.tab = t
  BY DEF Effects, AskMe, AskTraffic

\* A change of the hash: the tab keeps its page, or mounts another and cancels what
\* the old one was waiting for.
LEMMA ArriveOK ==
  ASSUME IInv, NEW t \in Tabs, NEW p, NEW tok, NEW pending \in SUBSET asks,
         \A a \in asks \ pending : a.tab = t /\ a.kind = "login",
         Arrive(t, p, tok, pending)
  PROVE  \A u \in Tabs : TabOK(u)'
<1> DEFINE dest == IF IsProtected(p) /\ tok \notin live' THEN "/login" ELSE p
           page == PageAt(dest)
<1>1. CASE view' = view /\ crashed' = crashed /\ asks' = pending
  BY <1>1 DEF IInv, TabOK, Asked, RequestOK, LoadingView
<1>2. CASE /\ view' = [view EXCEPT ![t] = Fresh(page)]
           /\ crashed' = [crashed EXCEPT ![t] = FALSE]
           /\ asks' = Unmounted(t, pending) \cup Effects(t, page, tok)
  <2>1. pending \in SUBSET Requests
    BY DEF IInv, TypeOK
  <2> HIDE DEF page
  <2>2. TabOK(t)'
    <3>1. view'[t] = Fresh(page) /\ ~crashed'[t]
      BY <1>2 DEF IInv, TypeOK
    <3>2. \A a \in asks' : a.tab = t => a \in Effects(t, page, tok) \/ (a.kind = "login" /\ ~a.here)
      BY <1>2, <2>1, UnmountedOK
    <3>3. QED
      BY <1>2, <3>1, <3>2, MountedOK
  <2>3. ASSUME NEW u \in Tabs \ {t} PROVE TabOK(u)'
    <3>1. view'[u] = view[u] /\ crashed'[u] = crashed[u]
      BY <1>2 DEF IInv, TypeOK
    <3>2. \A a : a.tab = u => (a \in asks' <=> a \in asks)
      BY <1>2, <2>1, UnmountedOK, EffectsTab
    <3>3. QED
      BY <3>1, <3>2, UntouchedOK DEF IInv, Untouched
  <2>4. QED
    BY <2>2, <2>3
<1>3. QED
  BY <1>1, <1>2 DEF Arrive

LEMMA ReloadOK == ASSUME IInv, NEW t \in Tabs, Reload(t) PROVE \A u \in Tabs : TabOK(u)'
<1> DEFINE page == PageAt(IF IsProtected(path[t]) /\ ~TokenValid(token) THEN "/login" ELSE path[t])
<1>1. /\ view' = [view EXCEPT ![t] = Fresh(page)]
      /\ crashed' = [crashed EXCEPT ![t] = FALSE]
      /\ asks' = {a \in asks : a.tab # t} \cup Effects(t, page, token)
  BY DEF Reload
<1> HIDE DEF page
<1>2. TabOK(t)'
  <2>1. view'[t] = Fresh(page) /\ ~crashed'[t]
    BY <1>1 DEF IInv, TypeOK
  <2>2. QED
    BY <1>1, <2>1, MountedOK
<1>3. ASSUME NEW u \in Tabs \ {t} PROVE TabOK(u)'
  <2>1. view'[u] = view[u] /\ crashed'[u] = crashed[u]
    BY <1>1 DEF IInv, TypeOK
  <2>2. \A a : a.tab = u => (a \in asks' <=> a \in asks)
    BY <1>1, EffectsTab
  <2>3. QED
    BY <2>1, <2>2, UntouchedOK DEF IInv, Untouched
<1>4. QED
  BY <1>2, <1>3

LEMMA CrashOK == ASSUME IInv, NEW t \in Tabs, Crash(t) PROVE \A u \in Tabs : TabOK(u)'
<1>1. asks \in SUBSET Requests
  BY DEF IInv, TypeOK
<1>2. TabOK(t)'
  <2>1. crashed'[t]
    BY DEF Crash, IInv, TypeOK
  <2>2. \A a \in asks' : a.tab = t => a.kind = "login" /\ ~a.here
    BY <1>1, UnmountedOK DEF Crash
  <2>3. QED
    BY <2>1, <2>2 DEF TabOK, RequestOK
<1>3. ASSUME NEW u \in Tabs \ {t} PROVE TabOK(u)'
  <2>1. view'[u] = view[u] /\ crashed'[u] = crashed[u]
    BY DEF Crash, IInv, TypeOK
  <2>2. \A a : a.tab = u => (a \in asks' <=> a \in asks)
    BY <1>1, UnmountedOK DEF Crash
  <2>3. QED
    BY <2>1, <2>2, UntouchedOK DEF IInv, Untouched
<1>4. QED
  BY <1>2, <1>3

\* What happens on the pages that wait for no account and show no chart.
LEMMA QuietPageOK ==
  ASSUME IInv, NEW t \in Tabs, NEW v, view' = [view EXCEPT ![t] = v], UNCHANGED crashed,
         v.page = view[t].page, v.page \notin Loads,
         \A a \in asks : a.tab # t => a \in asks',
         \A a \in asks' : a \in asks \/ (a.tab = t /\ a.kind = "login" /\ v.page = "Login")
  PROVE  \A u \in Tabs : TabOK(u)'
<1>1. view'[t] = v
  BY DEF IInv, TypeOK
<1>2. TabOK(t)'
  <2>1. \A a \in asks' : a.tab = t => a.kind # "me" /\ a.kind # "traffic"
    BY DEF IInv, TabOK, RequestOK, LoadingView, Loads
  <2>2. \A a \in asks' : a.tab = t => RequestOK(a, view'[t], crashed'[t])
    BY <1>1, <2>1 DEF IInv, TabOK, RequestOK
  <2>3. QED
    BY <1>1, <2>1, <2>2 DEF TabOK, LoadingView, Loads
<1>3. ASSUME NEW u \in Tabs \ {t} PROVE TabOK(u)'
  BY UntouchedOK DEF IInv, TypeOK, Untouched
<1>4. QED
  BY <1>2, <1>3

LEMMA SubmitOK == ASSUME IInv, NEW t \in Tabs, Submit(t) PROVE \A u \in Tabs : TabOK(u)'
<1>1. view[t].page = "Login" /\ UNCHANGED crashed
  BY DEF Submit
<1>2. view[t] \in Views
  BY DEF IInv, TypeOK
<1>3. CASE view' = [view EXCEPT ![t].failed = TRUE] /\ UNCHANGED asks
  <2> DEFINE v == [view[t] EXCEPT !.failed = TRUE]
  <2>1. v.page = "Login" /\ view' = [view EXCEPT ![t] = v]
    BY <1>1, <1>2, <1>3 DEF Views
  <2> HIDE DEF v
  <2>2. QED
    BY <1>1, <1>3, <2>1, QuietPageOK DEF Loads
<1>4. CASE \E n \in 1..MaxSubmits :
             /\ view' = [view EXCEPT ![t] = [@ EXCEPT !.failed = FALSE, !.loading = TRUE]]
             /\ asks' = asks \cup
                  {[ tab |-> t, kind |-> "login", n |-> n, tok |-> NoToken,
                     days |-> FirstDays, url |-> view[t].url, here |-> TRUE ]}
  <2> DEFINE v == [view[t] EXCEPT !.failed = FALSE, !.loading = TRUE]
  <2>1. v.page = "Login" /\ view' = [view EXCEPT ![t] = v]
    BY <1>1, <1>2, <1>4 DEF Views
  <2>2. /\ \A a \in asks : a \in asks'
        /\ \A a \in asks' : a \in asks \/ (a.tab = t /\ a.kind = "login")
    BY <1>4
  <2> HIDE DEF v
  <2>3. QED
    BY <1>1, <2>1, <2>2, QuietPageOK DEF Loads
<1>5. QED
  BY <1>3, <1>4 DEF Submit

\* The chart's new request is the only one under way, for the period now highlighted.
LEMMA ShowDaysOK == ASSUME IInv, NEW t \in Tabs, ShowDays(t) PROVE \A u \in Tabs : TabOK(u)'
<1>1. PICK d \in Days :
         /\ view' = [view EXCEPT ![t].days = d]
         /\ asks' = Cancelled(t, {"traffic"}, asks) \cup {AskTraffic(t, token, d)}
  BY DEF ShowDays
<1>2. ~crashed[t] /\ view[t].page = "Dashboard" /\ UNCHANGED crashed
  BY DEF ShowDays
<1>3. /\ AskTraffic(t, token, d).kind = "traffic" /\ AskTraffic(t, token, d).tab = t
      /\ AskTraffic(t, token, d).days = d
  BY DEF AskTraffic
<1>4. TabOK(t)'
  <2>1. /\ view'[t].page = "Dashboard" /\ view'[t].days = d
        /\ view'[t].loading = view[t].loading
    BY <1>1, <1>2 DEF IInv, TypeOK, Views
  <2>2. \A a \in asks' : a.tab = t =>
           (a \in asks /\ a.kind # "traffic") \/ a = AskTraffic(t, token, d)
    BY <1>1 DEF Cancelled
  <2>3. \A a \in asks : a.tab = t /\ a.kind # "traffic" => a \in asks'
    BY <1>1 DEF Cancelled
  <2>4. \A a \in asks' : a.tab = t => RequestOK(a, view'[t], crashed'[t])
    BY <1>2, <1>3, <2>1, <2>2 DEF IInv, TabOK, RequestOK, LoadingView
  <2>5. Asked(t, "traffic")' /\ (Asked(t, "me") => Asked(t, "me")')
    BY <1>1, <1>3, <2>3 DEF Asked
  <2>6. \A a, b \in asks' : (a.tab = t /\ b.tab = t /\ a.kind = "me" /\ b.kind = "me") => a = b
    BY <1>3, <2>2 DEF IInv, TabOK
  <2>7. ~crashed'[t] /\ LoadingView(view'[t]) => Asked(t, "me")'
    BY <1>2, <2>1, <2>5 DEF IInv, TabOK, LoadingView
  <2>8. QED
    BY <2>4, <2>5, <2>6, <2>7 DEF TabOK
<1>5. ASSUME NEW u \in Tabs \ {t} PROVE TabOK(u)'
  <2>1. view'[u] = view[u] /\ crashed'[u] = crashed[u]
    BY <1>1, <1>2 DEF IInv, TypeOK
  <2>2. \A a : a.tab = u => (a \in asks' <=> a \in asks)
    BY <1>1, <1>3 DEF Cancelled
  <2>3. QED
    BY <2>1, <2>2, UntouchedOK DEF IInv, Untouched
<1>6. QED
  BY <1>4, <1>5

LEMMA UserOK == ASSUME IInv, NEW t \in Tabs, UserStep(t) PROVE \A u \in Tabs : TabOK(u)'
<1>1. CASE Follow(t) \/ TypeAddress(t)
  <2>1. PICK p : Arrive(t, p, token, asks)
    BY <1>1 DEF Follow, TypeAddress, Go
  <2>2. QED
    BY <2>1, ArriveOK
<1>2. CASE TypeUrl(t)
  <2>1. PICK url : view' = [view EXCEPT ![t].url = url] /\ UNCHANGED <<crashed, asks>>
    BY <1>2 DEF TypeUrl
  <2> DEFINE v == [view[t] EXCEPT !.url = url]
  <2>2. view[t].page = "Login"
    BY <1>2 DEF TypeUrl
  <2>3. v.page = view[t].page
    BY DEF IInv, TypeOK, Views
  <2>4. view' = [view EXCEPT ![t] = v]
    BY <2>1
  <2> HIDE DEF v
  <2>5. QED
    BY <2>1, <2>2, <2>3, <2>4, QuietPageOK DEF Loads
<1>3. CASE SignupStep(t)
  <2> DEFINE v == [view[t] EXCEPT !.step = 3 - @]
  <2>1. /\ v.page = "Signup" /\ view[t].page = "Signup" /\ view' = [view EXCEPT ![t] = v]
        /\ UNCHANGED <<crashed, asks>>
    BY <1>3 DEF SignupStep, IInv, TypeOK, Views
  <2> HIDE DEF v
  <2>2. QED
    BY <2>1, QuietPageOK DEF Loads
<1>4. CASE Logout(t)
  BY <1>4, ArriveOK DEF Logout
<1>5. CASE Reload(t) \/ Crash(t) \/ Submit(t) \/ ShowDays(t)
  BY <1>5, ReloadOK, CrashOK, SubmitOK, ShowDaysOK
<1>6. QED
  BY <1>1, <1>2, <1>3, <1>4, <1>5 DEF UserStep

\* The only request for an account is answered, and ends the loading.
LEMMA MeAnsweredOK ==
  ASSUME IInv, NEW a \in asks, MeAnswered(a) PROVE \A u \in Tabs : TabOK(u)'
<1> DEFINE t == a.tab
<1>1. t \in Tabs /\ view[t] \in Views
  BY DEF IInv, TypeOK, Requests
<1>2. PICK v : /\ view' = [view EXCEPT ![t] = v] /\ v.page = view[t].page /\ v.days = view[t].days
               /\ v.traffic = view[t].traffic /\ ~v.loading
  <2> DEFINE good == [view[t] EXCEPT !.me = holder[a.tok], !.failed = FALSE, !.loading = FALSE]
             bad == [view[t] EXCEPT !.failed = TRUE, !.loading = FALSE]
  <2>1. view' = [view EXCEPT ![t] = good] \/ view' = [view EXCEPT ![t] = bad]
    BY DEF MeAnswered
  <2>2. /\ good.page = view[t].page /\ good.days = view[t].days
        /\ good.traffic = view[t].traffic /\ ~good.loading
    BY <1>1 DEF Views
  <2>3. /\ bad.page = view[t].page /\ bad.days = view[t].days
        /\ bad.traffic = view[t].traffic /\ ~bad.loading
    BY <1>1 DEF Views
  <2> HIDE DEF good, bad
  <2>4. QED
    BY <2>1, <2>2, <2>3
<1>3. a.kind = "me" /\ asks' = asks \ {a} /\ UNCHANGED crashed
  BY DEF MeAnswered
<1> HIDE DEF t
<1>4. a.tab = t
  BY DEF t
<1>5. TabOK(t)'
  <2>1. view'[t] = v
    BY <1>1, <1>2 DEF IInv, TypeOK
  <2>2. \A b \in asks' : b.tab = t => b.kind # "me"
    BY <1>1, <1>3, <1>4 DEF IInv, TabOK
  <2>3. \A b \in asks' : b.tab = t => RequestOK(b, view'[t], crashed'[t])
    BY <1>1, <1>2, <1>3, <2>1, <2>2 DEF IInv, TabOK, RequestOK
  <2>4. Asked(t, "traffic") => Asked(t, "traffic")'
    BY <1>3 DEF Asked
  <2>5. QED
    BY <1>1, <1>2, <1>3, <2>1, <2>2, <2>3, <2>4 DEF IInv, TabOK, LoadingView
<1>6. ASSUME NEW u \in Tabs \ {t} PROVE TabOK(u)'
  <2>1. view'[u] = view[u] /\ crashed'[u] = crashed[u]
    BY <1>2, <1>3 DEF IInv, TypeOK
  <2>2. \A b : b.tab = u => (b \in asks' <=> b \in asks)
    BY <1>3, <1>4
  <2>3. QED
    BY <2>1, <2>2, UntouchedOK DEF IInv, Untouched
<1>7. QED
  BY <1>5, <1>6

\* The chart gets the data of the period it is set to.
LEMMA TrafficAnsweredOK ==
  ASSUME IInv, NEW a \in asks, TrafficAnswered(a) PROVE \A u \in Tabs : TabOK(u)'
<1> DEFINE t == a.tab
<1>1. t \in Tabs /\ view[t] \in Views
  BY DEF IInv, TypeOK, Requests
<1>2. PICK v : /\ view' = [view EXCEPT ![t] = v] /\ v.page = view[t].page /\ v.days = view[t].days
               /\ v.loading = view[t].loading
               /\ v.traffic.kind # "none" /\ v.traffic.days = a.days
  <2>1. PICK kind \in {"data", "placeholder"} :
           view' = [view EXCEPT ![a.tab].traffic = [days |-> a.days, kind |-> kind]]
    BY DEF TrafficAnswered
  <2> DEFINE v == [view[t] EXCEPT !.traffic = [days |-> a.days, kind |-> kind]]
  <2>2. /\ v.page = view[t].page /\ v.days = view[t].days /\ v.loading = view[t].loading
        /\ v.traffic.kind # "none" /\ v.traffic.days = a.days
    BY <1>1 DEF Views
  <2>3. view' = [view EXCEPT ![t] = v]
    BY <2>1
  <2> HIDE DEF v
  <2>4. QED
    BY <2>2, <2>3
<1>3. a.kind = "traffic" /\ asks' = asks \ {a} /\ UNCHANGED crashed
  BY DEF TrafficAnswered
<1> HIDE DEF t
<1>4. a.tab = t
  BY DEF t
<1>5. TabOK(t)'
  <2>1. view'[t] = v
    BY <1>1, <1>2 DEF IInv, TypeOK
  <2>2. a.days = view[t].days
    BY <1>1, <1>3, <1>4 DEF IInv, TabOK, RequestOK
  <2>3. \A b \in asks' : b.tab = t => RequestOK(b, view'[t], crashed'[t])
    BY <1>1, <1>2, <1>3, <2>1 DEF IInv, TabOK, RequestOK, LoadingView
  <2>4. Asked(t, "me") => Asked(t, "me")'
    BY <1>3 DEF Asked
  <2>5. \A b, c \in asks' : (b.tab = t /\ c.tab = t /\ b.kind = "me" /\ c.kind = "me") => b = c
    BY <1>1, <1>3 DEF IInv, TabOK
  <2>6. ~crashed'[t] /\ LoadingView(view'[t]) => Asked(t, "me")'
    BY <1>1, <1>2, <1>3, <2>1, <2>4 DEF IInv, TabOK, LoadingView
  <2>7. view'[t].traffic.kind # "none" /\ view'[t].traffic.days = view'[t].days
    BY <1>2, <2>1, <2>2
  <2>8. QED
    BY <2>3, <2>5, <2>6, <2>7 DEF TabOK
<1>6. ASSUME NEW u \in Tabs \ {t} PROVE TabOK(u)'
  <2>1. view'[u] = view[u] /\ crashed'[u] = crashed[u]
    BY <1>2, <1>3 DEF IInv, TypeOK
  <2>2. \A b : b.tab = u => (b \in asks' <=> b \in asks)
    BY <1>3, <1>4
  <2>3. QED
    BY <2>1, <2>2, UntouchedOK DEF IInv, Untouched
<1>7. QED
  BY <1>5, <1>6

LEMMA AnswerOK == IInv /\ Answer => \A u \in Tabs : TabOK(u)'
<1> SUFFICES ASSUME IInv, NEW a \in asks,
                    SignedIn(a) \/ SignInRefused(a) \/ MeAnswered(a) \/ TrafficAnswered(a)
             PROVE  \A u \in Tabs : TabOK(u)'
  BY DEF Answer
<1>1. a.tab \in Tabs /\ view[a.tab] \in Views
  BY DEF IInv, TypeOK, Requests
<1>2. CASE SignedIn(a)
  <2>1. a.kind = "login" /\ Arrive(a.tab, "/panel", token', asks \ {a})
    BY <1>2 DEF SignedIn
  <2>2. asks \ {a} \in SUBSET asks /\ \A b \in asks \ (asks \ {a}) : b = a
    OBVIOUS
  <2>3. QED
    BY <1>1, <2>1, <2>2, ArriveOK
<1>3. CASE SignInRefused(a)
  <2>1. a.kind = "login" /\ asks' = asks \ {a} /\ UNCHANGED crashed
    BY <1>3 DEF SignInRefused
  <2>2. CASE a.here
    <3> DEFINE v == [view[a.tab] EXCEPT !.url = None, !.failed = TRUE, !.loading = FALSE]
    <3>1. view' = [view EXCEPT ![a.tab] = v]
      BY <1>3, <2>2 DEF SignInRefused
    <3>2. v.page = view[a.tab].page
      BY <1>1 DEF Views
    <3>3. view[a.tab].page = "Login"
      BY <1>1, <2>1, <2>2 DEF IInv, TabOK, RequestOK
    <3> HIDE DEF v
    <3>4. \A b \in asks : b.tab # a.tab => b \in asks'
      BY <2>1
    <3>5. QED
      BY <1>1, <2>1, <3>1, <3>2, <3>3, <3>4, QuietPageOK DEF Loads
  <2>3. CASE ~a.here
    <3>1. view' = view
      BY <1>3, <2>3 DEF SignInRefused
    <3>2. ASSUME NEW u \in Tabs PROVE TabOK(u)'
      BY <2>1, <3>1 DEF IInv, TabOK, Asked, RequestOK, LoadingView
    <3>3. QED
      BY <3>2
  <2>4. QED
    BY <2>2, <2>3
<1>4. QED
  BY <1>2, <1>3, MeAnsweredOK, TrafficAnsweredOK

LEMMA NextInv == IInv /\ [Next]_vars => IInv'
<1> SUFFICES ASSUME IInv, [Next]_vars PROVE \A u \in Tabs : TabOK(u)'
  BY NextType DEF IInv
<1>1. CASE (\E k \in Tokens : Expire(k)) \/ UNCHANGED vars
  <2>1. UNCHANGED <<view, crashed, asks>>
    BY <1>1 DEF Expire, vars
  <2>2. QED
    BY <2>1 DEF IInv, TabOK, Asked, RequestOK, LoadingView
<1>2. QED
  BY <1>1, UserOK, AnswerOK DEF Next

LEMMA InitInv == Init => IInv
<1> SUFFICES ASSUME Init PROVE \A t \in Tabs : TabOK(t)
  BY InitType DEF IInv
<1>1. \A t \in Tabs : view[t].page = "Home" /\ asks = {}
  BY FreshView DEF Init
<1>2. QED
  BY <1>1 DEF TabOK, LoadingView, Loads

\* The shape the run states of it.
LEMMA TabsAreOK ==
  ASSUME NEW t, TabOK(t)
  PROVE  /\ Asked(t, "me") <=> (~crashed[t] /\ LoadingView(view[t]))
         /\ ~crashed[t] /\ view[t].page = "Dashboard" /\ ~Asked(t, "traffic") =>
               view[t].traffic.kind # "none" /\ view[t].traffic.days = view[t].days
  BY DEF TabOK, Asked, RequestOK

\* A chart that waits for nothing shows the period whose button is highlighted.
THEOREM ChartsMatch == Spec => []ChartMatchesPeriod
<1>1. IInv => ChartMatchesPeriod
  BY TabsAreOK DEF IInv, ChartMatchesPeriod, Asked
<1>2. QED
  BY <1>1, InitInv, NextInv, PTL DEF Spec

\* A tab waits for an account exactly while a mounted page is loading it.
THEOREM LoadingIsAnswered == Spec => []LoadingPagesAreAnswered
<1>1. IInv => LoadingPagesAreAnswered
  BY TabsAreOK DEF IInv, LoadingPagesAreAnswered, Asked, LoadingView, Loads
<1>2. QED
  BY <1>1, InitInv, NextInv, PTL DEF Spec

---------------------------------------------------------------------------
(* The gate of the panel *)

LEMMA ArriveGated ==
  ASSUME TypeOK, NEW t \in Tabs, NEW p, NEW pending, Arrive(t, p, token', pending),
         NEW u \in Tabs, PanelEntered(u)
  PROVE  token' \in live'
<1>1. path'[u] # path[u] \/ (crashed[u] /\ ~crashed'[u])
  BY DEF PanelEntered
<1>2. u = t
  BY <1>1 DEF Arrive, TypeOK
<1>3. p # path[t]
  BY <1>1, <1>2 DEF Arrive, TypeOK
<1>4. path'[t] = IF IsProtected(p) /\ token' \notin live' THEN "/login" ELSE p
  BY <1>3 DEF Arrive, TypeOK
<1>5. PageAt(path'[t]) \in PanelPages
  BY <1>2 DEF PanelEntered
<1>6. "Login" \notin PanelPages
  BY DEF PanelPages
<1>7. QED
  BY <1>4, <1>5, <1>6, LoginPage, PanelIsProtected

LEMMA ReloadGated ==
  ASSUME TypeOK, NEW t \in Tabs, Reload(t), NEW u \in Tabs, PanelEntered(u)
  PROVE  token' \in live'
<1>1. path'[u] # path[u] \/ (crashed[u] /\ ~crashed'[u])
  BY DEF PanelEntered
<1>2. u = t
  BY <1>1 DEF Reload, TypeOK
<1>3. path'[t] = IF IsProtected(path[t]) /\ ~TokenValid(token) THEN "/login" ELSE path[t]
  BY DEF Reload, TypeOK
<1>4. PageAt(path'[t]) \in PanelPages
  BY <1>2 DEF PanelEntered
<1>5. "Login" \notin PanelPages
  BY DEF PanelPages
<1>6. TokenValid(token) /\ UNCHANGED <<token, live>>
  BY <1>3, <1>4, <1>5, LoginPage, PanelIsProtected DEF Reload
<1>7. QED
  BY <1>6 DEF TokenValid

\* No other step moves a tab or brings it back from the fallback.
LEMMA NextGated == TypeOK /\ [Next]_vars => \A u \in Tabs : PanelEntered(u) => token' \in live'
<1> SUFFICES ASSUME TypeOK, [Next]_vars, NEW u \in Tabs, PanelEntered(u)
             PROVE  token' \in live'
  OBVIOUS
<1>1. path'[u] # path[u] \/ (crashed[u] /\ ~crashed'[u])
  BY DEF PanelEntered
<1>2. ASSUME NEW t \in Tabs, UserStep(t) PROVE token' \in live'
  <2>1. CASE Follow(t) \/ TypeAddress(t)
    <3>1. PICK p : Arrive(t, p, token', asks)
      BY <2>1 DEF Follow, TypeAddress, Go
    <3>2. QED
      BY <3>1, ArriveGated
  <2>2. CASE Reload(t)
    BY <2>2, ReloadGated
  <2>3. CASE Logout(t)
    BY <2>3, ArriveGated DEF Logout
  <2>4. CASE Crash(t)
    BY <1>1, <2>4 DEF Crash, TypeOK
  <2>5. CASE TypeUrl(t) \/ Submit(t) \/ SignupStep(t) \/ ShowDays(t)
    BY <1>1, <2>5 DEF TypeUrl, Submit, SignupStep, ShowDays
  <2>6. QED
    BY <1>2, <2>1, <2>2, <2>3, <2>4, <2>5 DEF UserStep
<1>3. ASSUME NEW a \in asks, SignedIn(a) \/ SignInRefused(a) \/ MeAnswered(a) \/ TrafficAnswered(a)
      PROVE  token' \in live'
  <2>1. CASE SignedIn(a)
    <3>1. a.tab \in Tabs
      BY DEF TypeOK, Requests
    <3>2. QED
      BY <2>1, <3>1, ArriveGated DEF SignedIn
  <2>2. CASE SignInRefused(a) \/ MeAnswered(a) \/ TrafficAnswered(a)
    BY <1>1, <2>2 DEF SignInRefused, MeAnswered, TrafficAnswered
  <2>3. QED
    BY <1>3, <2>1, <2>2
<1>4. CASE (\E k \in Tokens : Expire(k)) \/ UNCHANGED vars
  BY <1>1, <1>4 DEF Expire, vars
<1>5. QED
  BY <1>2, <1>3, <1>4 DEF Next, Answer

\* Whatever leads a tab to a page of the panel, a valid token is in storage then.
THEOREM PanelIsGated == Spec => PanelNeedsToken
<1>1. TypeOK /\ [Next]_vars => [\A t \in Tabs : PanelEntered(t) => token' \in live']_vars
  BY NextGated
<1>2. QED
  BY <1>1, TypeCorrect, PTL DEF Spec, PanelNeedsToken
=============================================================================
