--------------------------- MODULE CustomerPortal ---------------------------
(***************************************************************************)
(* The customer portal (customer-portal/src): a single page application    *)
(* with a hash router, a token in localStorage that all tabs of the browser*)
(* share, and three pages that talk to the panel's API.  The server is     *)
(* external: it issues tokens, lets them expire and answers requests, in   *)
(* any order.                                                              *)
(*                                                                         *)
(* A tab's path and the page mounted for it change in one step: between    *)
(* the hash change and React's render no other code of the tab runs.  Text,*)
(* layout and the pages' purely visual switches (node filter, cadence,     *)
(* open FAQ entry, account menu) are left out.                             *)
(***************************************************************************)
EXTENDS Naturals, FiniteSets

CONSTANTS
    Tabs,        \* tabs of one browser
    Customers,   \* customers with a subscription URL
    MaxTokens,   \* bound: tokens the server issues
    MaxSubmits,  \* bound: sign-in requests in flight
    Days,        \* periods of the traffic chart that are looked at
    FirstDays,   \* the period a fresh dashboard page shows
    Visited,     \* bound: addresses the users go to
    StorageFails \* may localStorage refuse a write (private mode, quota)?

ASSUME PortalAssumption ==
    /\ MaxTokens \in Nat
    /\ MaxSubmits \in Nat \ {0}
    /\ FirstDays \in Days
    /\ StorageFails \in BOOLEAN

None == "none"
NoToken == 0
Tokens == 1..MaxTokens

VARIABLES
    token,    \* localStorage.customer_token
    holder,   \* server: the customer each issued token belongs to
    live,     \* server: issued tokens that have not expired
    path,     \* per tab: the hash
    view,     \* per tab: the mounted page and its useState values
    crashed,  \* per tab: hasError of the error boundary
    asks      \* requests in flight

vars == <<token, holder, live, path, view, crashed, asks>>

---------------------------------------------------------------------------
(* Routes and links *)

\* The chain of path comparisons that picks the page.
PortalRoutes ==
    { <<"/", "Home">>, <<"/features", "Features">>, <<"/pricing", "Pricing">>,
      <<"/faq", "FAQ">>, <<"/about", "About">>, <<"/contact", "Contact">>,
      <<"/status", "Status">>, <<"/legal", "Legal">>,
      <<"/login", "Login">>, <<"/signup", "Signup">>,
      <<"/dashboard", "Dashboard">>, <<"/panel", "Dashboard">>, <<"/panel/", "Dashboard">>,
      <<"/panel/nodes", "Nodes">>, <<"/panel/traffic", "Traffic">>,
      <<"/panel/plans", "Plans">>, <<"/panel/billing", "Billing">>,
      <<"/panel/tickets", "Tickets">>, <<"/panel/invite", "Invite">>,
      <<"/panel/account", "Account">>, <<"/panel/docs", "Docs">> }

RoutedPaths == {r[1] : r \in PortalRoutes}
Pages == {r[2] : r \in PortalRoutes} \cup {"NotFound"}

PageAt(p) ==
    IF p \in RoutedPaths THEN (CHOOSE r \in PortalRoutes : r[1] = p)[2] ELSE "NotFound"

\* Mutant of IsProtected: the prefix test knows "/panel" only.
PanelPrefixOnly(p) ==
    p \in { "/panel", "/panel/", "/panel/nodes", "/panel/traffic", "/panel/plans",
            "/panel/billing", "/panel/tickets", "/panel/invite", "/panel/account", "/panel/docs" }

\* isProtected is a plain prefix test on "/panel" and "/dashboard".
IsProtected(p) ==
    p \in { "/dashboard", "/panel", "/panel/", "/panel/nodes", "/panel/traffic",
            "/panel/plans", "/panel/billing", "/panel/tickets", "/panel/invite",
            "/panel/account", "/panel/docs" }

\* Header of the marketing pages.
TopbarLinks == {"/", "/features", "/pricing", "/faq", "/about", "/status", "/login", "/signup"}

\* Footer of the marketing pages.
FooterLinks == {"/", "/features", "/pricing", "/status", "/about", "/contact", "/legal", "/faq"}

HeroLinks == {"/pricing", "/contact"}

\* The price cards link with a query string behind the path.
PriceLinks == {"/signup", "/signup?plan=monthly", "/signup?plan=quarterly", "/signup?plan=annual"}

HomeLinks == HeroLinks \cup PriceLinks \cup {"/faq"}

PricingLinks == PriceLinks

FaqLinks == {"/contact"}

NotFoundLinks == {"/", "/panel"}

\* Side bar and head of every panel page.
PanelShellLinks ==
    { "/", "/dashboard", "/panel/nodes", "/panel/traffic", "/panel/plans", "/panel/billing",
      "/panel/tickets", "/panel/invite", "/panel/account", "/panel/docs", "/status" }

DashboardLinks == {"/panel/docs", "/panel/plans"}

BillingLinks == {"/panel/plans"}

\* The fallback of the error boundary offers the contact page.
FallbackLinks == {"/contact"}

Marketing == { "Home", "Features", "Pricing", "FAQ", "About", "Contact",
               "Status", "Legal", "NotFound" }

\* Where a click on the mounted page may lead; the error of the account page
\* comes with a link to sign in again.
LinksOf(v) ==
    CASE v.page \in Marketing ->
            TopbarLinks \cup FooterLinks \cup
            (CASE v.page = "Home" -> HomeLinks
               [] v.page = "Pricing" -> PricingLinks
               [] v.page = "FAQ" -> FaqLinks
               [] v.page = "NotFound" -> NotFoundLinks
               [] OTHER -> {})
      [] v.page = "Login" -> {"/", "/signup"}
      [] v.page = "Signup" -> {"/"} \cup (IF v.step = 1 THEN {"/login"} ELSE {"/dashboard"})
      [] v.page = "Dashboard" -> PanelShellLinks \cup DashboardLinks
      [] v.page = "Billing" -> PanelShellLinks \cup BillingLinks
      [] v.page = "Account" -> PanelShellLinks \cup (IF v.failed THEN {"/login"} ELSE {})
      [] OTHER -> PanelShellLinks

Paths == RoutedPaths \cup PriceLinks

---------------------------------------------------------------------------
(* The token, and what a page holds *)

\* isTokenValid: a token whose exp claim lies ahead.
TokenValid(tok) == tok \in live

\* setToken and clearToken swallow an exception of localStorage.
Stored(new) == IF StorageFails THEN {new, token} ELSE {new}

\* The chart's data: none yet, an answer, or a placeholder.
Traffic == [days : Days, kind : {"none", "data", "placeholder"}]

Views ==
    [ page : Pages,
      me : Customers \cup {None},       \* answer of GET /api/customers/me
      failed : BOOLEAN,                 \* meError / error
      loading : BOOLEAN,
      traffic : Traffic,
      days : Days,                      \* trafficTabDays
      url : Customers \cup {None, "short"}, \* subUrl typed in the form
      step : {1, 2} ]

Requests ==
    [ tab : Tabs, kind : {"login", "me", "traffic"}, n : 1..MaxSubmits,
      tok : {NoToken} \cup Tokens, days : Days, url : Customers \cup {None}, here : BOOLEAN ]

\* useState of a page that has just been mounted.
Fresh(page) ==
    [ page |-> page, me |-> None, failed |-> FALSE,
      loading |-> page \in {"Dashboard", "Account"},
      traffic |-> [days |-> FirstDays, kind |-> "none"], days |-> FirstDays, url |-> None, step |-> 1 ]

\* getMe: one request with the token in storage as bearer.
AskMe(t, tok) ==
    [ tab |-> t, kind |-> "me", n |-> 1, tok |-> tok,
      days |-> FirstDays, url |-> None, here |-> TRUE ]

\* getMyTraffic(days)
AskTraffic(t, tok, d) ==
    [ tab |-> t, kind |-> "traffic", n |-> 1, tok |-> tok,
      days |-> d, url |-> None, here |-> TRUE ]

\* Mutant of Effects: the account page forgets its request.
AccountNotAsked(t, page, tok) ==
    IF page = "Dashboard" THEN {AskMe(t, tok), AskTraffic(t, tok, FirstDays)} ELSE {}

\* What the effects of a page ask for when it is mounted.
Effects(t, page, tok) ==
    CASE page = "Dashboard" -> {AskMe(t, tok), AskTraffic(t, tok, FirstDays)}
      [] page = "Account" -> {AskMe(t, tok)}
      [] OTHER -> {}

\* The clean-up of an effect sets `cancelled': its answer will be ignored.
Cancelled(t, kinds, pending) == {a \in pending : ~(a.tab = t /\ a.kind \in kinds)}

\* Sign-in requests are not cancelled with their page: the answer finds no
\* page to update, and is still acted upon.
Unmounted(t, pending) ==
    {IF a.tab = t THEN [a EXCEPT !.here = FALSE] ELSE a :
        a \in Cancelled(t, {"me", "traffic"}, pending)}

\* The hash of tab t becomes p; tok is the stored token and pending what else is
\* in flight.  An equal hash is no change.  A protected path without a valid
\* token renders nothing, which unmounts the boundary with everything in it, and
\* the effect goes on to /login.  Otherwise a boundary that caught an error
\* keeps its fallback, and a page of the same component stays mounted with its
\* state.
Arrive(t, p, tok, pending) ==
    LET refused == IsProtected(p) /\ tok \notin live'
        dest == IF refused THEN "/login" ELSE p
        page == PageAt(dest)
        stays == p = path[t] \/ (~refused /\ (crashed[t] \/ page = view[t].page))
    IN  /\ path' = [path EXCEPT ![t] = IF p = path[t] THEN @ ELSE dest]
        /\ view' = IF stays THEN view ELSE [view EXCEPT ![t] = Fresh(page)]
        /\ crashed' = IF stays THEN crashed ELSE [crashed EXCEPT ![t] = FALSE]
        /\ asks' = IF stays THEN pending
                   ELSE Unmounted(t, pending) \cup Effects(t, page, tok)

---------------------------------------------------------------------------
(* Actions *)

Init ==
    /\ token = NoToken
    /\ holder = [k \in Tokens |-> None]
    /\ live = {}
    /\ path = [t \in Tabs |-> "/"]
    /\ view = [t \in Tabs |-> Fresh("Home")]
    /\ crashed = [t \in Tabs |-> FALSE]
    /\ asks = {}

\* A link, the browser's history or the address bar changes the hash.
Go(t, p) ==
    /\ p # path[t]
    /\ UNCHANGED <<token, holder, live>>
    /\ Arrive(t, p, token, asks)

Follow(t) ==
    \E p \in IF crashed[t] THEN FallbackLinks ELSE LinksOf(view[t]) :
        p \in Visited /\ Go(t, p)

TypeAddress(t) == \E p \in RoutedPaths \cap Visited : Go(t, p)

\* The page is loaded anew, by the user or by the fallback's button: what the
\* tab had in flight is gone, and App renders for the hash it finds.
Reload(t) ==
    LET refused == IsProtected(path[t]) /\ ~TokenValid(token)
        dest == IF refused THEN "/login" ELSE path[t]
    IN  /\ path' = [path EXCEPT ![t] = dest]
        /\ view' = [view EXCEPT ![t] = Fresh(PageAt(dest))]
        /\ crashed' = [crashed EXCEPT ![t] = FALSE]
        /\ asks' = {a \in asks : a.tab # t} \cup Effects(t, PageAt(dest), token)
        /\ UNCHANGED <<token, holder, live>>

\* A page throws while rendering: the boundary shows its fallback and the page
\* is unmounted.
Crash(t) ==
    /\ ~crashed[t]
    /\ crashed' = [crashed EXCEPT ![t] = TRUE]
    /\ view' = [view EXCEPT ![t] = [Fresh(@.page) EXCEPT !.loading = FALSE]]
    /\ asks' = Unmounted(t, asks)
    /\ UNCHANGED <<token, holder, live, path>>

\* The text area of the sign-in page, disabled while a request is awaited.
TypeUrl(t) ==
    /\ ~crashed[t] /\ view[t].page = "Login" /\ ~view[t].loading
    /\ \E u \in Customers \cup {"short"} :
        /\ view[t].url # u
        /\ view' = [view EXCEPT ![t].url = u]
    /\ UNCHANGED <<token, holder, live, path, crashed, asks>>

\* handleSubmit up to its await.  Btn does not pass `disabled' on, so the form
\* can be submitted again while a request is in flight.
Submit(t) ==
    /\ ~crashed[t] /\ view[t].page = "Login" /\ view[t].url # None
    /\ IF view[t].url = "short"
       THEN /\ view' = [view EXCEPT ![t].failed = TRUE]
            /\ UNCHANGED asks
       ELSE \E n \in 1..MaxSubmits :
            /\ \A a \in asks : ~(a.kind = "login" /\ a.n = n)
            /\ view' = [view EXCEPT ![t] = [@ EXCEPT !.failed = FALSE, !.loading = TRUE]]
            /\ asks' = asks \cup
                 {[ tab |-> t, kind |-> "login", n |-> n, tok |-> NoToken,
                    days |-> FirstDays, url |-> view[t].url, here |-> TRUE ]}
    /\ UNCHANGED <<token, holder, live, path, crashed>>

\* The sign-in is answered with a token: it is stored and the tab goes to
\* /panel, wherever it is by now; then `finally' ends the loading state.
SignedIn(a) ==
    \E k \in Tokens :
        /\ a \in asks /\ a.kind = "login"
        /\ holder[k] = None
        /\ holder' = [holder EXCEPT ![k] = a.url]
        /\ live' = live \cup {k}
        /\ token' \in Stored(k)
        /\ Arrive(a.tab, "/panel", token', asks \ {a})

\* Mutant of SignInRefused: the loading state ends after `await' and not in `finally'.
RefusedKeepsLoading(a) ==
    /\ a \in asks /\ a.kind = "login"
    /\ asks' = asks \ {a}
    /\ view' = IF a.here THEN [view EXCEPT ![a.tab].url = None, ![a.tab].failed = TRUE] ELSE view
    /\ UNCHANGED <<token, holder, live, path, crashed>>

\* It is refused, or the network fails: the catch branch and `finally' write
\* the state of the page that asked, if it is still there.
SignInRefused(a) ==
    /\ a \in asks /\ a.kind = "login"
    /\ asks' = asks \ {a}
    /\ view' = IF a.here
               THEN [view EXCEPT ![a.tab] =
                          [@ EXCEPT !.url = None, !.failed = TRUE, !.loading = FALSE]]
               ELSE view
    /\ UNCHANGED <<token, holder, live, path, crashed>>

\* Mutant of SignupStep: each step leads to the next.
SignupGoesOn(t) ==
    /\ ~crashed[t] /\ view[t].page = "Signup"
    /\ view' = [view EXCEPT ![t].step = @ + 1]
    /\ UNCHANGED <<token, holder, live, path, crashed, asks>>

\* The two steps of the sign-up page; it asks the server nothing.
SignupStep(t) ==
    /\ ~crashed[t] /\ view[t].page = "Signup"
    /\ view' = [view EXCEPT ![t].step = 3 - @]
    /\ UNCHANGED <<token, holder, live, path, crashed, asks>>

\* Sign out on the account page.
Logout(t) ==
    /\ ~crashed[t] /\ view[t].page = "Account"
    /\ token' \in Stored(NoToken)
    /\ UNCHANGED <<holder, live>>
    /\ Arrive(t, "/login", token', asks)

\* Mutant of ShowDays: an effect without a clean-up.
ShowDaysUncancelled(t) ==
    /\ ~crashed[t] /\ view[t].page = "Dashboard"
    /\ \E d \in Days \ {view[t].days} :
        /\ view' = [view EXCEPT ![t].days = d]
        /\ asks' = asks \cup {AskTraffic(t, token, d)}
    /\ UNCHANGED <<token, holder, live, path, crashed>>

\* A tab of the chart: the running request is cancelled and a new one sent.
ShowDays(t) ==
    /\ ~crashed[t] /\ view[t].page = "Dashboard"
    /\ \E d \in Days \ {view[t].days} :
        /\ view' = [view EXCEPT ![t].days = d]
        /\ asks' = Cancelled(t, {"traffic"}, asks) \cup {AskTraffic(t, token, d)}
    /\ UNCHANGED <<token, holder, live, path, crashed>>

\* GET /api/customers/me answers for a token the server accepts; refusals and
\* failures all lead to the error state.
MeAnswered(a) ==
    /\ a \in asks /\ a.kind = "me"
    /\ asks' = asks \ {a}
    /\ \/ /\ a.tok \in live
          /\ view' = [view EXCEPT ![a.tab] =
                [@ EXCEPT !.me = holder[a.tok], !.failed = FALSE, !.loading = FALSE]]
       \/ view' = [view EXCEPT ![a.tab] = [@ EXCEPT !.failed = TRUE, !.loading = FALSE]]
    /\ UNCHANGED <<token, holder, live, path, crashed>>

\* _getWithGraceful404: data, a placeholder for 404 or no network, or a thrown
\* error that the page turns into a placeholder of its own.
TrafficAnswered(a) ==
    /\ a \in asks /\ a.kind = "traffic"
    /\ asks' = asks \ {a}
    /\ \E kind \in {"data", "placeholder"} :
        /\ kind = "data" => a.tok \in live
        /\ view' = [view EXCEPT ![a.tab].traffic = [days |-> a.days, kind |-> kind]]
    /\ UNCHANGED <<token, holder, live, path, crashed>>

\* The exp claim of a token has passed.
Expire(k) ==
    /\ k \in live
    /\ live' = live \ {k}
    /\ UNCHANGED <<token, holder, path, view, crashed, asks>>

UserStep(t) ==
    \/ Follow(t) \/ TypeAddress(t) \/ Reload(t) \/ Crash(t)
    \/ TypeUrl(t) \/ Submit(t) \/ SignupStep(t) \/ Logout(t) \/ ShowDays(t)

Answer ==
    \E a \in asks : SignedIn(a) \/ SignInRefused(a) \/ MeAnswered(a) \/ TrafficAnswered(a)

Next ==
    \/ \E t \in Tabs : UserStep(t)
    \/ Answer
    \/ \E k \in Tokens : Expire(k)

Spec == Init /\ [][Next]_vars

\* The answer to the n-th request of a kind that tab t waits for.
AnswerTo(t, kind, n) ==
    \E a \in asks :
        /\ a.tab = t /\ a.kind = kind /\ a.n = n
        /\ SignedIn(a) \/ SignInRefused(a) \/ MeAnswered(a) \/ TrafficAnswered(a)

\* Every request is answered or fails in the end; users owe nothing.
FairSpec ==
    /\ Spec
    /\ \A t \in Tabs, kind \in {"login", "me"}, n \in 1..MaxSubmits :
          WF_vars(AnswerTo(t, kind, n))

---------------------------------------------------------------------------
(* Properties *)

TypeOK ==
    /\ token \in {NoToken} \cup Tokens
    /\ holder \in [Tokens -> Customers \cup {None}]
    /\ live \in SUBSET Tokens
    /\ path \in [Tabs -> Paths]
    /\ view \in [Tabs -> Views]
    /\ crashed \in [Tabs -> BOOLEAN]
    /\ asks \in SUBSET Requests

\* A chart that waits for nothing shows the period whose button is highlighted:
\* an answer for another period never comes late and overwrites it.
ChartMatchesPeriod ==
    \A t \in Tabs :
        /\ ~crashed[t] /\ view[t].page = "Dashboard"
        /\ ~\E a \in asks : a.tab = t /\ a.kind = "traffic"
        => view[t].traffic.kind # "none" /\ view[t].traffic.days = view[t].days

\* Only a page that is mounted and loading waits for an account, and such a page
\* does: no page is left with its skeleton, and no answer reaches a page that
\* did not ask.
LoadingPagesAreAnswered ==
    \A t \in Tabs :
        (\E a \in asks : a.tab = t /\ a.kind = "me")
            <=> (~crashed[t] /\ view[t].page \in {"Dashboard", "Account"} /\ view[t].loading)

\* A tab reaches a page of the panel only while the stored token is valid, by
\* whatever route: a link, an address, a late answer to a sign-in, a reload.
PanelPages == Pages \ (Marketing \cup {"Login", "Signup"})
PanelEntered(t) ==
    /\ PageAt(path'[t]) \in PanelPages
    /\ path'[t] # path[t] \/ (crashed[t] /\ ~crashed'[t])

PanelNeedsToken == [][\A t \in Tabs : PanelEntered(t) => token' \in live']_vars

\* A sign-in, an account that is being loaded: the waiting state always ends.
Waiting(t) == ~crashed[t] /\ view[t].loading
WaitingEnds == \A t \in Tabs : Waiting(t) ~> ~Waiting(t)
=============================================================================
