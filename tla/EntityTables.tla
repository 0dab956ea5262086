---------------------------- MODULE EntityTables ----------------------------
(***************************************************************************)
(* The tables of dashboard/src/libs/entity-table over one list of the      *)
(* server: the page of rows on screen, the search box, the column filter,  *)
(* and, in the selectable table, the ticks that say which rows belong to   *)
(* the parent entity (the services of a user, the inbounds of a service).  *)
(* Sorting and hidden columns stay in the browser and are left out, as are *)
(* answers kept for pages that were left.                                  *)
(***************************************************************************)
EXTENDS Integers, FiniteSets, Sequences, SequencesExt

CONSTANTS
    Ids,       \* numbers of the rows the server may have
    Sizes,     \* rows per page
    Keywords,  \* what is typed into the search box, "" among it
    Kinds,     \* which table: a list of its own ("plain"), the list of a parent ("double"),
               \* hosts with a sidebar of inbounds ("hosts"), the "services" of a user or the
               \* "inbounds" of a service
    MaxWrites, \* bound: writes on the server
    MaxAsked   \* bound: requests under way

VARIABLES
    ui,  \* the component's state
    net, \* requests under way
    db   \* server: the rows there are, those that belong to the parent, how many writes
         \* there were, and whether one was made that the table was not told of

vars == <<ui, net, db>>

\* A keyword other than "" is found in the odd rows.
Matches(keyword, id) == keyword = "" \/ id % 2 = 1

\* The sidebar: two inbounds, and AllInbounds when none is selected.
Inbounds == {0, 1}
AllInbounds == 2
Under(inbound, id) == inbound = AllInbounds \/ id % 2 = inbound

Found(keyword) == {id \in db.rows : Matches(keyword, id)}

PageCount(found, size) == (Cardinality(found) + size - 1) \div size
Rank(id, found) == Cardinality({other \in found : other < id})
\* The rows of a page, in the order of their numbers.
OnPage(found, page, size) == {id \in found : Rank(id, found) \div size = page - 1}
Sorted(rows) == [i \in 1..Cardinality(rows) |-> CHOOSE id \in rows : Rank(id, rows) = i - 1]
PageOf(found, page, size) == Sorted(OnPage(found, page, size))

---------------------------------------------------------------------------
(* State *)

NoData == [rows |-> <<>>, count |-> 1]

\* The query key: whatever it names is asked for anew when it changes.
QueryKey(u) == [page |-> u.page, size |-> u.size, primary |-> u.primary, filter |-> u.filter,
                parent |-> u.parent]

\* The rows found for a key.  Page 0, which fetchUsers makes page 1, is where the change
\* of the page size leads to when there are no rows.
Answer(key) ==
    LET found == {id \in Found(key.primary) : Matches(key.filter, id) /\ Under(key.parent, id)}
        page == IF key.page = 0 THEN 1 ELSE key.page
    IN  [rows |-> PageOf(found, page, key.size), count |-> PageCount(found, key.size)]

\* usePagination counts pages from 1, in the size kept in localStorage.
EntityTable(size) ==
    [ kind |-> "plain", page |-> 1, size |-> size, primary |-> "", filter |-> "",
      parent |-> AllInbounds, data |-> NoData, fetching |-> TRUE,
      existing |-> {},  \* existingEntityIds, read from the parent entity
      ticked |-> {},    \* positions of the ticked rows, from 1
      chosen |-> {},    \* selectedEntity
      clean |-> TRUE ]  \* no tick set by hand since the last answer

\* The parent of a double table is in the address and does not change.
DoubleEntityTable(size) == [EntityTable(size) EXCEPT !.kind = "double"]

\* The sidebar starts with the first inbound, if the list of inbounds is there.
SidebarEntityTable(size, inbound) == [EntityTable(size) EXCEPT !.kind = "hosts", !.parent = inbound]

\* useRowSelection is given the numbers of the parent's rows, as positions from 0.
SelectableEntityTable(kind, size, members) ==
    [EntityTable(size) EXCEPT !.kind = kind, !.existing = members, !.chosen = members,
                              !.ticked = {id + 1 : id \in members}]

Asked(key) == [for |-> "page", key |-> key, data |-> NoData, read |-> FALSE]

Selectable(u) == u.kind \in {"services", "inbounds"}

\* New data tick the rows of the parent and untick its other rows; ticks at
\* positions the page does not have are kept, and choose nothing.
TicksSet(u) ==
    LET here == 1..Len(u.data.rows)
        ticked == {i \in u.ticked : i \notin here} \cup {i \in here : u.data.rows[i] \in u.existing}
    IN  [u EXCEPT !.ticked = ticked, !.clean = TRUE]
Chosen(u) == [u EXCEPT !.chosen = {u.data.rows[i] : i \in u.ticked \cap (1..Len(u.data.rows))}]
DataEffects(u) == IF Selectable(u) THEN Chosen(TicksSet(u)) ELSE u

\* What a change of the key does: initial data, and a request, or the one under way.
Rekeyed(u) ==
    IF QueryKey(u) = QueryKey(ui)
    THEN ui' = u /\ UNCHANGED net
    ELSE /\ ui' = DataEffects([u EXCEPT !.data = NoData, !.fetching = TRUE])
         /\ IF \E r \in net : r.for = "page" /\ r.key = QueryKey(u)
            THEN UNCHANGED net
            ELSE Cardinality(net) < MaxAsked /\ net' = net \cup {Asked(QueryKey(u))}

---------------------------------------------------------------------------
(* Paging and filters *)

\* The pages tanstack's table lets through: its pageCount is one more than the
\* server's, and it counts ours from 1.
Clamped(page) == IF page < 0 THEN 0 ELSE IF page > ui.data.count THEN ui.data.count ELSE page

FirstPage == ui.page > 1 /\ Rekeyed([ui EXCEPT !.page = Clamped(1)])
PreviousPage == ui.page > 1 /\ Rekeyed([ui EXCEPT !.page = Clamped(@ - 1)])
CanNext == ui.page - 1 < ui.data.count
NextPage == CanNext /\ Rekeyed([ui EXCEPT !.page = Clamped(@ + 1)])
LastPage == CanNext /\ Rekeyed([ui EXCEPT !.page = Clamped(ui.data.count)])

\* setPageSize, and back to the first page.
RowsPerPage == \E size \in Sizes : Rekeyed([ui EXCEPT !.size = size, !.page = Clamped(1)])

\* The search box hands its keyword on after half a second without typing; the page stays.
TableSearch == \E keyword \in Keywords : Rekeyed([ui EXCEPT !.primary = keyword])

\* A column filter goes back to the first page on a wide screen only; clearing it always does.
ColumnFilter ==
    ui.kind = "plain" /\
    \E keyword \in Keywords \ {""}, wide \in BOOLEAN :
        Rekeyed([ui EXCEPT !.filter = keyword, !.page = IF wide THEN Clamped(1) ELSE @])
ClearFilter == ui.filter # "" /\ Rekeyed([ui EXCEPT !.filter = "", !.page = Clamped(1)])

\* The sidebar's choice changes the key and keeps the page.
SelectInbound ==
    ui.kind = "hosts" /\ \E inbound \in Inbounds \cup {AllInbounds} : Rekeyed([ui EXCEPT !.parent = inbound])

---------------------------------------------------------------------------
(* Data *)

\* Only the users are asked for without page 0, which the server refuses.
ServerReads(r) ==
    /\ r.for = "page" /\ ~r.read /\ (r.key.page > 0 \/ ui.kind = "plain")
    /\ net' = (net \ {r}) \cup {[r EXCEPT !.read = TRUE, !.data = Answer(r.key)]}
    /\ UNCHANGED <<ui, db>>

\* Mutant of Answered: whatever answer arrives is shown.
LatestAnswerShown(r) ==
    /\ r.for = "page" /\ r.read
    /\ net' = net \ {r}
    /\ ui' = DataEffects([ui EXCEPT !.data = r.data, !.fetching = FALSE])
    /\ UNCHANGED db

\* An answer is filed under its key; the table shows the one of its present key.
Answered(r) ==
    /\ r.for = "page" /\ r.read
    /\ net' = net \ {r}
    /\ ui' = IF r.key = QueryKey(ui) /\ ui.fetching
             THEN DataEffects([ui EXCEPT !.data = r.data, !.fetching = FALSE]) ELSE ui
    /\ UNCHANGED db

\* Refused, or lost more often than it is retried: what is shown stays.
ReadFails(r) ==
    /\ r.for \in {"page", "parent"}
    /\ net' = net \ {r}
    /\ ui' = IF r.for = "page" /\ r.key = QueryKey(ui) THEN [ui EXCEPT !.fetching = FALSE] ELSE ui
    /\ db' = [db EXCEPT !.untold = TRUE]

\* Other admins add and delete rows.
OthersWrite ==
    /\ db.writes < MaxWrites
    /\ \E rows \in SUBSET Ids :
          db' = [db EXCEPT !.rows = rows, !.members = @ \cap rows, !.writes = @ + 1, !.untold = TRUE]
    /\ UNCHANGED <<ui, net>>

---------------------------------------------------------------------------
(* Ticks *)

Tick ==
    /\ Selectable(ui) /\ ~ui.fetching
    /\ \E i \in 1..Len(ui.data.rows) :
          ui' = Chosen([ui EXCEPT !.clean = FALSE,
                          !.ticked = IF i \in @ THEN @ \ {i} ELSE @ \cup {i}])
    /\ UNCHANGED <<net, db>>

\* UserServicesTable does not let all services go; ServiceInboundsTable lets the
\* button be pressed once any row has been ticked or unticked by the data.
ApplyEnabled ==
    CASE ui.kind = "services" -> ui.chosen # {}
      [] ui.kind = "inbounds" -> ui.data.rows # <<>> \/ ui.existing # {}
      [] OTHER -> FALSE

\* The parent is updated with the chosen rows of this page, and no others.
Apply ==
    /\ ApplyEnabled /\ db.writes < MaxWrites /\ Cardinality(net) < MaxAsked
    /\ net' = net \cup {[for |-> "apply", members |-> ui.chosen, done |-> FALSE]}
    /\ UNCHANGED <<ui, db>>

ApplyDone(r) ==
    /\ r.for = "apply" /\ ~r.done /\ db.writes < MaxWrites
    /\ db' = [db EXCEPT !.members = r.members \cap db.rows, !.writes = @ + 1]
    /\ net' = (net \ {r}) \cup {[r EXCEPT !.done = TRUE]}
    /\ UNCHANGED ui

\* The answer invalidates the page of rows; the user is a query of the same family
\* and is read again, the service was handed over by the route's loader and is not.
ApplyAnswered(r) ==
    /\ r.for = "apply" /\ r.done
    /\ ui' = [ui EXCEPT !.fetching = TRUE]
    /\ net' = {s \in net : s # r /\ ~(s.for = "page" /\ s.key = QueryKey(ui)) /\ s.for # "parent"}
                \cup {Asked(QueryKey(ui))}
                \cup (IF ui.kind = "services" THEN {[for |-> "parent", members |-> {}, read |-> FALSE]}
                      ELSE {})
    /\ UNCHANGED db

\* Refused, or the answer is lost.
ApplyFails(r) ==
    /\ r.for = "apply"
    /\ net' = net \ {r}
    /\ db' = [db EXCEPT !.untold = @ \/ r.done]
    /\ UNCHANGED ui

ParentRead(r) ==
    /\ r.for = "parent" /\ ~r.read
    /\ net' = (net \ {r}) \cup {[r EXCEPT !.read = TRUE, !.members = db.members]}
    /\ UNCHANGED <<ui, db>>

ParentAnswered(r) ==
    /\ r.for = "parent" /\ r.read
    /\ net' = net \ {r}
    /\ ui' = DataEffects([ui EXCEPT !.existing = r.members])
    /\ UNCHANGED db

---------------------------------------------------------------------------
Init ==
    /\ \E members \in SUBSET Ids : db = [rows |-> Ids, members |-> members, writes |-> 0, untold |-> FALSE]
    /\ \E size \in Sizes :
          ui \in {EntityTable(size), DoubleEntityTable(size)}
                  \cup {SidebarEntityTable(size, inbound) : inbound \in {0, AllInbounds}}
                  \cup {SelectableEntityTable(kind, size, db.members) : kind \in {"services", "inbounds"}}
    /\ ui.kind \in Kinds
    /\ net = {Asked(QueryKey(ui))}

Next ==
    \/ (FirstPage \/ PreviousPage \/ NextPage \/ LastPage \/ RowsPerPage) /\ UNCHANGED db
    \/ (TableSearch \/ ColumnFilter \/ ClearFilter \/ SelectInbound) /\ UNCHANGED db
    \/ OthersWrite \/ Tick \/ Apply
    \/ \E r \in net : \/ ServerReads(r) \/ Answered(r) \/ ReadFails(r)
                      \/ ApplyDone(r) \/ ApplyAnswered(r) \/ ApplyFails(r)
                      \/ ParentRead(r) \/ ParentAnswered(r)

---------------------------------------------------------------------------
\* The rows on screen are those of the page, size, keyword, filter and inbound on screen, and
\* in the services of a user the ticks nobody has touched are those of the server,
\* once every answer is in and the table was told of every write: an answer for an earlier key
\* is never shown, and page and user are both read again after Apply, in any order.
TablesShowServer ==
    /\ ~ui.fetching =>
          /\ Len(ui.data.rows) <= ui.size
          /\ \A id \in Range(ui.data.rows) : /\ Matches(ui.primary, id) /\ Matches(ui.filter, id)
                                          /\ Under(ui.parent, id)
    /\ (ui.kind = "services" /\ ui.clean /\ net = {} /\ ~db.untold) =>
          \A i \in 1..Len(ui.data.rows) : (i \in ui.ticked) <=> (ui.data.rows[i] \in db.members)
=============================================================================
