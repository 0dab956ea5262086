-------------------------------- MODULE Panel --------------------------------
(***************************************************************************)
(* One tab of the admin panel: the session (token and is-sudo in           *)
(* localStorage, the gate of the dashboard, SudoRoute) and the cache of    *)
(* queries under the pages of PanelScreens.  The server and the cache      *)
(* library are external.                                                   *)
(*                                                                         *)
(* Entries of the cache do not influence one another, nor the session, so  *)
(* each behaviour watches one thing, chosen at the start: one query, with  *)
(* an admin who stays signed in, or (`watched' = Unwatched) the session.   *)
(***************************************************************************)
EXTENDS PanelScreens, Integers

CONSTANTS
    Admins,     \* accounts that sign in
    SudoAdmins, \* those that are sudo
    Nobody,     \* no token
    MaxChecks,  \* bound: SudoRoute checks under way
    MaxWrites,  \* bound: writes to the rows the watched query reads
    MaxSent,    \* bound: mutations under way
    MaxFails    \* bound: fetches that fail

ASSUME PanelAssumption ==
    /\ SudoAdmins \subseteq Admins
    /\ Nobody \notin Admins
    /\ MaxChecks \in Nat \ {0} \* loading a sudo page starts a check
    /\ {MaxWrites, MaxSent, MaxFails} \subseteq Nat

VARIABLES
    watched,  \* the query this behaviour is about
    near,     \* and the places that differ for it, with one for all the others
    token,    \* localStorage.token: whose session it is
    isSudo,   \* localStorage["is-sudo"]
    place,    \* the place shown
    checks,   \* SudoRoute checks that have not been answered
    logins,   \* sign-in requests that have not been answered
    version,  \* server: number of writes to what the watched query reads
    entry,    \* the watched entry of the cache
    sent,     \* mutations under way
    acked,    \* the latest own write the panel has been told of and has to show
    fails     \* fetches that have failed

session == <<token, isSudo, checks, logins>>
cache == <<version, entry, sent, acked, fails>>
vars == <<watched, near, session, place, cache>>

Unwatched == Query(<<>>, {})

---------------------------------------------------------------------------
(* Screens *)

Queries == {m[2] : m \in SudoMounts}
Mounted == Mounts(isSudo, Layers(place), watched)

---------------------------------------------------------------------------
(* The cache entry *)

Empty == [seen |-> -1, flagged |-> FALSE, phase |-> "idle", got |-> -1, barred |-> FALSE]

\* seen = -1: no answer yet; a query with initialData still has data to show.
HasData(e) == e.seen >= 0 \/ watched.given

\* A fetch joins the one under way; an invalidation or a refresh cancels it
\* instead, unless it is the first.
Fetch(e) == IF e.phase = "idle" THEN [e EXCEPT !.phase = "asked"] ELSE e
Refetch(e) == IF e.phase = "idle" \/ HasData(e) THEN [e EXCEPT !.phase = "asked", !.got = -1] ELSE e

\* Mounting fetches, except within the staleTime of a valid answer.
OnMount(e) ==
    IF watched.lasting /\ e.seen >= 0 /\ ~e.flagged THEN {e, Fetch(e)} ELSE {Fetch(e)}

\* Showing q after p mounts what is on the layers that were not there.
Show(p, q) ==
    /\ place' = q
    /\ entry' \in IF Mounts(isSudo, Layers(q) \ Layers(p), watched) THEN OnMount(entry) ELSE {entry}

Refused == watched.sudoOnly /\ ~isSudo

ServerReads ==
    /\ entry.phase = "asked" /\ ~Refused
    /\ entry' = [entry EXCEPT !.phase = "read", !.got = version]
    /\ UNCHANGED <<watched, near, session, place, version, sent, acked, fails>>

Answered ==
    /\ entry.phase = "read"
    /\ entry' = [Empty EXCEPT !.seen = entry.got]
    /\ UNCHANGED <<watched, near, session, place, version, sent, acked, fails>>

ServerRefuses ==
    /\ entry.phase = "asked" /\ Refused
    /\ entry' = [entry EXCEPT !.phase = "idle", !.barred = TRUE]
    /\ UNCHANGED <<watched, near, session, place, version, sent, acked, fails>>

FetchFails ==
    /\ entry.phase # "idle" /\ fails < MaxFails
    /\ entry' = [entry EXCEPT !.phase = "idle", !.got = -1]
    /\ fails' = fails + 1
    /\ UNCHANGED <<watched, near, session, place, version, sent, acked>>

\* Mutant of Poll: any failure ends it.
PollUntilFailure ==
    /\ watched.polls /\ ~entry.barred /\ entry.phase = "idle" /\ Mounted /\ fails = 0
    /\ entry' = Fetch(entry)
    /\ UNCHANGED <<watched, near, session, place, version, sent, acked, fails>>

\* refetchInterval of a mounted query; it ends with an answer of 401 or 403.
Poll ==
    /\ watched.polls /\ ~entry.barred /\ entry.phase = "idle" /\ Mounted
    /\ entry' = Fetch(entry)
    /\ UNCHANGED <<watched, near, session, place, version, sent, acked, fails>>

\* The window regains the focus.
Refocus ==
    /\ entry.phase = "idle" /\ Mounted
    /\ entry' \in OnMount(entry)
    /\ UNCHANGED <<watched, near, session, place, version, sent, acked, fails>>

\* Pages with a refresh button.
Refreshable == {HealthExtendedQuery, AuditEventsQuery("kpi"), IpLimitQuery, IpLimitAuditQuery}

Refresh ==
    /\ watched \in Refreshable /\ Mounted
    /\ entry' = Refetch(entry)
    /\ UNCHANGED <<watched, near, session, place, version, sent, acked, fails>>

\* The browser's reload, and the button of the nodes page: the cache starts anew, and
\* nobody is told of the mutations under way.
Reload ==
    /\ entry' = IF Mounted THEN Fetch(Empty) ELSE Empty
    /\ sent' = {[s EXCEPT !.drops = FALSE, !.owed = FALSE] : s \in sent}
    /\ UNCHANGED <<watched, near, session, place, version, acked, fails>>

\* An entry nothing shows is dropped after five minutes.
Collect ==
    /\ entry.phase = "idle" /\ ~Mounted
    /\ entry' = Empty
    /\ UNCHANGED <<watched, near, session, place, version, sent, acked, fails>>

---------------------------------------------------------------------------
(* Mutations *)

\* The key under which the panel keeps the rows a mutation is about.
OwnKey ==
    [ users |-> {"users"}, iplimit |-> {"users-iplimit", "users-iplimit-audit"},
      services |-> {"services"}, hosts |-> {"inbounds"}, admins |-> {"admins"},
      nodes |-> {"nodes"}, config |-> {"nodes"}, running |-> {"nodes"}, settings |-> {"system"},
      plans |-> {"billing-plans-admin"}, channels |-> {"billing-channels-admin"},
      invoices |-> {"billing-invoices-admin"} ]

\* The panel sets out to show a write in the entries of the same kind; what a
\* loader fetched, the user statistics, the checkout page and rows changed in
\* passing are only read again at the next visit.
HasToShow(m) == \E r \in m.writes \cap watched.reads : watched.key[1] \in OwnKey[r]

Concerns(m, q) == Changes(m, q) \/ Drops(m, q)

\* Nothing keeps a dialog from being submitted twice before it closes.
Submit ==
    \E n \in 1..MaxSent \ {s.n : s \in sent} : \E d \in Does(isSudo, place) :
        /\ Concerns(d[1], watched)
        /\ sent' = sent \cup
             {[n |-> n, changes |-> Changes(d[1], watched), drops |-> Drops(d[1], watched),
               owed |-> HasToShow(d[1]), at |-> -1]}
        /\ \E next \in {place} \cup ({d[2]} \ {Stay}) : Show(place, next)
        /\ UNCHANGED <<watched, near, session, version, acked, fails>>

\* The server has carried the mutation out.
Commit(s) ==
    /\ s.at = -1 /\ (s.changes => version < MaxWrites)
    /\ version' = version + (IF s.changes THEN 1 ELSE 0)
    /\ sent' = (sent \ {s}) \cup {[s EXCEPT !.at = version']}
    /\ UNCHANGED <<watched, near, session, place, entry, acked, fails>>

\* onSuccess invalidates; an entry on screen is fetched again at once.  An answer
\* that was read before and is not cancelled may still bring the old rows back.
Acknowledged(s) ==
    /\ s.at >= 0
    /\ LET flagged == [entry EXCEPT !.flagged = TRUE]
       IN  entry' = IF ~s.drops THEN entry ELSE IF Mounted THEN Refetch(flagged) ELSE flagged
    /\ acked' = IF s.owed /\ entry'.phase # "read" /\ s.at > acked THEN s.at ELSE acked
    /\ sent' = sent \ {s}
    /\ UNCHANGED <<watched, near, session, place, version, fails>>

\* onError, before or after the server acted.
MutationFails(s) ==
    /\ sent' = sent \ {s}
    /\ UNCHANGED <<watched, near, session, place, version, entry, acked, fails>>

\* Another admin, a customer, a node or a task of the panel writes.
OthersWrite ==
    /\ version < MaxWrites
    /\ version' = version + 1
    /\ UNCHANGED <<watched, near, session, place, entry, sent, acked, fails>>

Visit ==
    \E p \in near \ {place} :
        /\ Show(place, p)
        /\ UNCHANGED <<watched, near, session, version, sent, acked, fails>>

CacheNext ==
    /\ watched # Unwatched
    /\ \/ Visit \/ ServerReads \/ Answered \/ ServerRefuses \/ FetchFails
       \/ Poll \/ Refocus \/ Refresh \/ Reload \/ Collect \/ Submit \/ OthersWrite
       \/ \E s \in sent : Commit(s) \/ Acknowledged(s) \/ MutationFails(s)

---------------------------------------------------------------------------
(* The session *)

\* beforeLoad of the dashboard asks the server who this is; any failure leads
\* to the login page, which forgets the token (not is-sudo) as it is rendered.
Arrive(p, tok, confirmed, pending) ==
    IF p # Login /\ tok # Nobody /\ confirmed
    THEN place' = p /\ token' = tok /\ checks' = pending
    ELSE place' = Login /\ token' = Nobody /\ checks' = checks

\* A SudoRoute is on screen while its check is under way; moving inside the
\* section does not check again, leaving it does not cancel the check.
Follow(p, confirmed) ==
    /\ p \in Links(isSudo, place) \ {place}
    /\ LET pending == IF InSudoRoute(p) /\ p[1] # place[1] THEN checks + 1 ELSE checks
       IN  pending <= MaxChecks /\ Arrive(p, token, confirmed, pending)
    /\ UNCHANGED <<isSudo, logins>>

\* Another address, a bookmark or a reload: what the tab was waiting for is gone.
Load(p, confirmed) ==
    /\ LET pending == IF InSudoRoute(p) THEN 1 ELSE 0
       IN  IF p # Login /\ token # Nobody /\ confirmed
           THEN place' = p /\ token' = token /\ checks' = pending
           ELSE place' = Login /\ token' = Nobody /\ checks' = 0
    /\ logins' = {}
    /\ UNCHANGED isSudo

\* The check asked the server with the token of its time, and looks at is-sudo now.
CheckAnswered(confirmed) ==
    /\ checks > 0
    /\ checks' = checks - 1
    /\ IF confirmed /\ isSudo THEN UNCHANGED <<place, token>> ELSE place' = Login /\ token' = Nobody
    /\ UNCHANGED <<isSudo, logins>>

\* The button stays enabled while a request is under way.
SignIn(a) ==
    /\ place = Login
    /\ logins' = logins \cup {a}
    /\ UNCHANGED <<token, isSudo, place, checks>>

\* Mutant of SignedIn: the account is stored where the flag belongs.
AccountAsFlag(a, confirmed) ==
    /\ a \in logins
    /\ logins' = logins \ {a}
    /\ isSudo' = a
    /\ Arrive(Page("home"), a, confirmed, checks)

\* Mutant of SignedIn: is-sudo is only ever set, so it stays from an earlier session.
FlagOnlySet(a, confirmed) ==
    /\ a \in logins
    /\ logins' = logins \ {a}
    /\ isSudo' = (isSudo \/ a \in SudoAdmins)
    /\ Arrive(Page("home"), a, confirmed, checks)

\* The answer is acted upon wherever the tab is by then.
SignedIn(a, confirmed) ==
    /\ a \in logins
    /\ logins' = logins \ {a}
    /\ isSudo' = (a \in SudoAdmins)
    /\ Arrive(Page("home"), a, confirmed, checks)

SignInFails(a) ==
    /\ a \in logins
    /\ logins' = logins \ {a}
    /\ UNCHANGED <<token, isSudo, place, checks>>

SessionNext ==
    /\ watched = Unwatched
    /\ UNCHANGED <<watched, near, cache>>
    /\ \/ \E p \in Places, confirmed \in BOOLEAN : Follow(p, confirmed) \/ Load(p, confirmed)
       \/ \E confirmed \in BOOLEAN : CheckAnswered(confirmed)
       \/ \E a \in Admins : SignIn(a) \/ SignInFails(a)
       \/ \E a \in Admins, confirmed \in BOOLEAN : SignedIn(a, confirmed)

---------------------------------------------------------------------------
Near(q, sudo) ==
    {p \in Places : /\ InSudoRoute(p) => sudo
                    /\ \/ Mounts(sudo, Layers(p), q)
                       \/ \E d \in Does(sudo, p) : Concerns(d[1], q)} \cup {Login}

Init ==
    /\ watched \in Queries \cup {Unwatched}
    /\ token \in IF watched = Unwatched THEN {Nobody} ELSE Admins
    /\ isSudo = (token \in SudoAdmins)
    /\ near = IF watched = Unwatched THEN {} ELSE Near(watched, isSudo)
    /\ place = Login
    /\ checks = 0 /\ logins = {}
    /\ version = 0 /\ entry = Empty /\ sent = {} /\ acked = 0 /\ fails = 0

Next == CacheNext \/ SessionNext

Spec == Init /\ [][Next]_vars

\* A page that polls keeps polling, and the server answers faster than the admin
\* asks again.
FairSpec == Spec /\ WF_vars(Poll) /\ SF_vars(ServerReads) /\ SF_vars(Answered)

---------------------------------------------------------------------------
(* Properties *)

Entries ==
    [ seen : -1..MaxWrites, got : -1..MaxWrites, flagged : BOOLEAN, barred : BOOLEAN,
      phase : {"idle", "asked", "read"} ]
Requests ==
    [n : 1..MaxSent, changes : BOOLEAN, drops : BOOLEAN, owed : BOOLEAN, at : -1..MaxWrites]

\* The values the variables take; the flag of the session is a flag whoever signed in last.
TypeOK ==
    /\ watched \in Queries \cup {Unwatched}
    /\ token \in Admins \cup {Nobody} /\ isSudo \in BOOLEAN
    /\ near \subseteq Places /\ place \in Places
    /\ checks \in 0..MaxChecks /\ logins \subseteq Admins
    /\ version \in 0..MaxWrites /\ acked \in 0..MaxWrites /\ fails \in 0..MaxFails
    /\ entry \in Entries /\ sent \subseteq Requests

\* Once the check of a sudo page is over, the page belongs to a sudo admin, whatever
\* late answers of other checks and sign-ins have done meanwhile.
SudoPagesForSudo ==
    (place \in SudoPlaces /\ checks = 0 /\ watched = Unwatched) => token \in SudoAdmins

\* A page that has its answer shows the writes the panel reported as done: each
\* mutation invalidates the entries that show its rows, and an older answer under
\* way does not bring the old rows back.
OwnWritesShown ==
    (entry.phase = "idle" /\ entry.seen >= 0 /\ ~entry.flagged /\ Mounted) => entry.seen >= acked

\* A page with a refresh interval catches up with what others write, once they stop
\* (which is after MaxWrites writes, all that there are).
PolledCatchesUp ==
    (watched.polls /\ ~Refused /\ version = MaxWrites /\ Mounted)
        ~> (entry.seen = MaxWrites \/ ~Mounted)
=============================================================================
