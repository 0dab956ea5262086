----------------------------- MODULE NodeUpdates -----------------------------
(***************************************************************************)
(* What the two marznode clients, NodeGrpclib and NodeGrpcio, have in      *)
(* common: users change in the database, every change becomes an update in *)
(* the client's _updates_queue, and _sync pushes all users at once.        *)
(*                                                                         *)
(* A request handler or a job that changes a user commits the row and, in  *)
(* the same step of the event loop, starts a coroutine that puts the       *)
(* user's new inbounds on the queue.  A streaming task of the client takes *)
(* them off and sends them to the node.  _sync is run by the client's      *)
(* monitor, and beside it by the admin request that restarts a backend.    *)
(*                                                                         *)
(* All coroutines share one event loop: each step below is what one of     *)
(* them does between two awaits.  Only the order of the put() coroutines   *)
(* is kept, since asyncio.Queue depends on it: the loop runs them first    *)
(* come first served, but one woken to take a free place goes to the end   *)
(* of the line.                                                            *)
(***************************************************************************)
EXTENDS Naturals, Sequences, FiniteSets

CONSTANTS
    Users,
    Contents,        \* what a node can hold for a user: sets of inbounds
    Off,             \* the empty set of inbounds, the user is not served
    QueueSize,       \* the size of the asyncio.Queue
    MaxPending,      \* bound on the updates of one user not yet queued
    BackendRestarts, \* is restart_backend in use?
    Refusals         \* may a reachable node answer _sync with an error?

ASSUME UpdatesAssumption ==
    /\ Off \in Contents
    /\ QueueSize \in Nat \ {0}
    /\ MaxPending \in Nat \ {0}
    /\ {BackendRestarts, Refusals} \subseteq BOOLEAN

VARIABLES
    desired,   \* [Users -> Contents], what the database says
    node,      \* [Users -> Contents], what marznode holds
    up,        \* is the node reachable?
    putting,   \* put() coroutines in the order the loop will run them
    waiting,   \* put() coroutines waiting for a place in the queue
    queue,     \* _updates_queue
    sync,      \* [Callers -> where its _sync is and what list_users gave]
    synced,    \* the client believes the node has all users
    status     \* the node's status, as shown to admins

pipeline == <<putting, waiting, queue>>
updateVars == <<desired, node, up, pipeline, sync, synced, status>>

Callers == {"monitor", "admin"}
Update == [user : Users, inbounds : Contents]
SyncSteps == {"idle", "restarting", "fetching", "pushing", "pushed", "failed"}
Sync == [pc : SyncSteps, users : [Users -> Contents]]

Nobody == [u \in Users |-> Off]
At(c, step) == sync[c].pc = step
Goto(c, step) == sync' = [sync EXCEPT ![c].pc = step]

-----------------------------------------------------------------------------
(* Users change.                                                           *)

PendingOf(u) == Cardinality({i \in DOMAIN putting : putting[i].user = u})
              + Cardinality({i \in DOMAIN waiting : waiting[i].user = u})

\* add_user, modify_user, remove_user, review_users, _disable_user, ...:
\* the commit and the ensure_future of the client's update_user.
Change(u, c) ==
    /\ c # desired[u]
    /\ PendingOf(u) < MaxPending
    /\ desired' = [desired EXCEPT ![u] = c]
    /\ putting' = Append(putting, [user |-> u, inbounds |-> c])
    /\ UNCHANGED <<node, up, waiting, queue, sync, synced, status>>

\* Mutant of HasRoom: the queue has no limit.
AlwaysRoom == TRUE

HasRoom == Len(queue) < QueueSize

\* A put() runs: it finds a place, or (again) waits for one.
Put ==
    /\ putting # <<>>
    /\ putting' = Tail(putting)
    /\ IF HasRoom
         THEN queue' = Append(queue, Head(putting)) /\ UNCHANGED waiting
         ELSE waiting' = Append(waiting, Head(putting)) /\ UNCHANGED queue
    /\ UNCHANGED <<desired, node, up, sync, synced, status>>

\* Mutant of Wake: get() wakes nobody.
WakesNobody == UNCHANGED <<putting, waiting>>

\* The put() that has waited longest, if there is one, is scheduled after
\* those that are already.
Wake ==
    IF waiting = <<>>
      THEN UNCHANGED <<putting, waiting>>
      ELSE putting' = Append(putting, Head(waiting)) /\ waiting' = Tail(waiting)

\* get(): the update taken is Head(queue).
Get ==
    /\ queue # <<>>
    /\ queue' = Tail(queue)
    /\ Wake

-----------------------------------------------------------------------------
(* _sync.                                                                  *)

\* Mutant of Snapshot: only the users the node does not serve yet are pushed.
SnapshotOfMissing == [u \in Users |-> IF node[u] = Off THEN desired[u] ELSE node[u]]

\* list_users.
Snapshot == desired

\* _fetch_backends answers; list_users reads the database at once.
Fetched(c) ==
    /\ At(c, "fetching") /\ up
    /\ sync' = [sync EXCEPT ![c] = [pc |-> "pushing", users |-> Snapshot]]
    /\ UNCHANGED <<desired, node, up, pipeline, synced, status>>

\* RepopulateUsers at the node: exactly the users pushed are served from now.
Repopulate(c) ==
    /\ At(c, "pushing") /\ up
    /\ node' = sync[c].users
    /\ Goto(c, "pushed")
    /\ UNCHANGED <<desired, up, pipeline, synced, status>>

\* The node refuses FetchBackends or RepopulateUsers.
Refuse(c) ==
    /\ Refusals
    /\ up /\ (At(c, "fetching") \/ At(c, "pushing"))
    /\ Goto(c, "failed")
    /\ UNCHANGED <<desired, node, up, pipeline, synced, status>>

-----------------------------------------------------------------------------
(* restart_backend, under wait_for(..., 5).                                *)

RestartBackend ==
    /\ BackendRestarts
    /\ At("admin", "idle")
    /\ Goto("admin", "restarting")
    /\ UNCHANGED <<desired, node, up, pipeline, synced, status>>

\* Whether a restarted backend still knows its users is up to the node.
BackendRestarted ==
    /\ At("admin", "restarting") /\ up
    /\ node' \in {node, Nobody}
    /\ Goto("admin", "fetching")
    /\ UNCHANGED <<desired, up, pipeline, synced, status>>

AdminSynced ==
    /\ At("admin", "pushed")
    /\ Goto("admin", "idle")
    /\ synced' = TRUE /\ status' = "healthy"
    /\ UNCHANGED <<desired, node, up, pipeline>>

-----------------------------------------------------------------------------

\* The connection is lost under every _sync that is running; only one that
\* has got its last answer already still succeeds.
Interrupted ==
    \E done \in SUBSET {c \in Callers : At(c, "pushed")} :
        sync' = [c \in Callers |->
                   IF At(c, "idle") \/ c \in done
                     THEN sync[c] ELSE [sync[c] EXCEPT !.pc = "failed"]]

Fresh == [pc |-> "idle", users |-> Nobody]

\* A new panel process has nothing but the database.
UpdatesInit ==
    /\ putting = <<>> /\ waiting = <<>> /\ queue = <<>>
    /\ sync = [c \in Callers |-> Fresh]
    /\ synced = FALSE

UpdatesReset ==
    /\ putting' = <<>> /\ waiting' = <<>> /\ queue' = <<>>
    /\ sync' = [c \in Callers |-> Fresh]
    /\ synced' = FALSE
    /\ UNCHANGED <<desired, node, up, status>>

WorldInit ==
    /\ desired \in [Users -> Contents]
    /\ node \in [Users -> Contents]
    /\ up \in BOOLEAN
    /\ status \in {"healthy", "unhealthy"}

UpdatesTypeOK ==
    /\ desired \in [Users -> Contents]
    /\ node \in [Users -> Contents]
    /\ up \in BOOLEAN
    /\ putting \in Seq(Update) /\ waiting \in Seq(Update)
    /\ queue \in Seq(Update) /\ Len(queue) <= QueueSize
    /\ sync \in [Callers -> Sync]
    /\ synced \in BOOLEAN
    /\ status \in {"healthy", "unhealthy"}

=============================================================================
