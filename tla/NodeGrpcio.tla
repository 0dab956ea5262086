----------------------------- MODULE NodeGrpcio ------------------------------
(***************************************************************************)
(* The grpcio client of a marznode, the default of this fork.  Its monitor *)
(* acts only when the connectivity state of the channel changes: on READY  *)
(* it runs _sync and starts a streaming task, otherwise it cancels the     *)
(* streaming task it started last.                                         *)
(*                                                                         *)
(* wait_for_state_change(state) returns once the channel has left the      *)
(* state the monitor saw; the monitor reads the state again when the loop  *)
(* gets round to it.  A connection lost and restored in between goes       *)
(* unseen, and so does one lost and restored during _sync.                 *)
(***************************************************************************)
EXTENDS NodeUpdates, SequencesExt

CONSTANTS
    MaxTasks,        \* bound on the streaming tasks alive
    MaxWire,         \* bound on the messages in flight on a stream
    BlindFlips       \* may the channel come back before the monitor looks?

ASSUME GrpcioAssumption ==
    /\ MaxTasks \in Nat \ {0}
    /\ MaxWire \in Nat \ {0}
    /\ BlindFlips \in BOOLEAN

VARIABLES
    tasks,     \* the streaming tasks alive, oldest first
    latest,    \* is the last of them _streaming_task?
    watching   \* is the monitor in wait_for_state_change?

vars == <<updateVars, tasks, latest, watching>>
own == <<tasks, latest, watching>>

Alone(A) == A /\ UNCHANGED own

Task == [held : Seq(Update), link : {"intact", "broken"}, wire : Seq(Update)]

NewTask == [held |-> <<>>, link |-> IF up THEN "intact" ELSE "broken", wire |-> <<>>]

-----------------------------------------------------------------------------
(* _stream_user_updates.                                                   *)

Waits(t) == tasks[t].held = <<>>

\* If several tasks wait in get(), any of them may be the one served.
Take(t) ==
    /\ Waits(t)
    /\ Get
    /\ tasks' = [tasks EXCEPT ![t].held = <<Head(queue)>>]
    /\ UNCHANGED <<desired, node, up, sync, synced, status, latest, watching>>

Send(t) ==
    /\ ~Waits(t)
    /\ tasks[t].link = "intact"
    /\ Len(tasks[t].wire) < MaxWire
    /\ tasks' = [tasks EXCEPT ![t].wire = @ \o tasks[t].held, ![t].held = <<>>]
    /\ UNCHANGED <<updateVars, latest, watching>>

\* Mutant of Unhealthy: an unhealthy node is not pushed to again.
UnhealthyButSynced == status' = "unhealthy" /\ UNCHANGED synced

Unhealthy == status' = "unhealthy" /\ synced' = FALSE

\* The update is lost and the task returns.
SendFails(t) ==
    /\ ~Waits(t)
    /\ tasks[t].link = "broken"
    /\ tasks' = RemoveAt(tasks, t)
    /\ latest' = (latest /\ t # Len(tasks))
    /\ Unhealthy
    /\ UNCHANGED <<desired, node, up, pipeline, sync, watching>>

\* SyncUsers at the node: it applies the next message of a stream.
Handle(t) ==
    /\ tasks[t].wire # <<>>
    /\ node' = [node EXCEPT ![Head(tasks[t].wire).user] = Head(tasks[t].wire).inbounds]
    /\ tasks' = [tasks EXCEPT ![t].wire = Tail(@)]
    /\ UNCHANGED <<desired, up, pipeline, sync, synced, status, latest, watching>>

-----------------------------------------------------------------------------
(* _monitor_channel.                                                       *)

\* The monitor is about to read the channel's state.
Looking == At("monitor", "idle") /\ ~watching

\* Mutant of CancelLatest: the task outlives its connection.
CancelNothing == UNCHANGED <<tasks, latest>>

CancelLatest ==
    /\ tasks' = IF latest THEN Front(tasks) ELSE tasks
    /\ latest' = FALSE

SeesReady ==
    /\ Looking /\ up
    /\ Goto("monitor", "fetching")
    /\ UNCHANGED <<desired, node, up, pipeline, synced, status>>
    /\ UNCHANGED own

SeesTrouble ==
    /\ Looking /\ ~up
    /\ Unhealthy
    /\ CancelLatest
    /\ watching' = TRUE
    /\ UNCHANGED <<desired, node, up, pipeline, sync>>

\* After _sync the monitor waits for the channel to leave READY; if it has
\* left already, the wait is over at once.
MonitorSynced ==
    /\ At("monitor", "pushed")
    /\ Len(tasks) < MaxTasks
    /\ Goto("monitor", "idle")
    /\ synced' = TRUE /\ status' = "healthy"
    /\ tasks' = Append(tasks, NewTask) /\ latest' = TRUE
    /\ watching' = up
    /\ UNCHANGED <<desired, node, up, pipeline>>

\* except RpcError, in _sync.
MonitorFails ==
    /\ At("monitor", "failed")
    /\ Goto("monitor", "idle")
    /\ Unhealthy
    /\ CancelLatest
    /\ watching' = up
    /\ UNCHANGED <<desired, node, up, pipeline>>

-----------------------------------------------------------------------------
(* restart_backend.  It answers an RpcError, but not the CancelledError of *)
(* wait_for(..., 5).                                                       *)

AdminFails ==
    /\ At("admin", "failed") \/ (~up /\ ~At("admin", "idle"))
    /\ Goto("admin", "idle")
    /\ Unhealthy
    /\ UNCHANGED <<desired, node, up, pipeline>>

AdminTimesOut ==
    /\ ~At("admin", "idle")
    /\ Goto("admin", "idle")
    /\ UNCHANGED <<desired, node, up, pipeline, synced, status>>

-----------------------------------------------------------------------------
(* The node, the network and the panel's process.                          *)

\* The node stops, forgetting its users, or the connection to it is lost: the
\* channel leaves READY.
GoesDown ==
    /\ up
    /\ up' = FALSE
    /\ node' \in {node, Nobody}
    /\ tasks' = [t \in DOMAIN tasks |->
                   [tasks[t] EXCEPT !.link = "broken", !.wire = <<>>]]
    /\ Interrupted
    /\ watching' = FALSE
    /\ UNCHANGED <<desired, pipeline, synced, status, latest>>

\* The channel is READY again (the periodic calls of record_usages make an
\* idle channel connect).
ComesUp ==
    /\ ~up
    /\ watching \/ BlindFlips
    /\ up' = TRUE
    /\ watching' = FALSE
    /\ UNCHANGED <<desired, node, pipeline, sync, synced, status, tasks, latest>>

PanelRestarts ==
    /\ UpdatesReset
    /\ tasks' = <<>> /\ latest' = FALSE /\ watching' = FALSE

-----------------------------------------------------------------------------

Init ==
    /\ WorldInit /\ UpdatesInit
    /\ tasks = <<>> /\ latest = FALSE /\ watching = FALSE

\* What nobody has to do, and nobody can prevent.
Disturbance ==
    \/ \E u \in Users, c \in Contents : Alone(Change(u, c))
    \/ Alone(RestartBackend) \/ Alone(AdminFails) \/ Alone(AdminTimesOut)
    \/ GoesDown \/ ComesUp \/ PanelRestarts

Refused == \E c \in Callers : Alone(Refuse(c))

TaskStep(t) == Take(t) \/ Send(t) \/ SendFails(t) \/ Handle(t)

Next ==
    \/ Disturbance \/ Refused
    \/ Alone(Put) \/ \E t \in DOMAIN tasks : TaskStep(t)
    \/ \E c \in Callers : Alone(Fetched(c)) \/ Alone(Repopulate(c))
    \/ SeesReady \/ SeesTrouble \/ MonitorSynced \/ MonitorFails
    \/ Alone(BackendRestarted) \/ Alone(AdminSynced)

Spec == Init /\ [][Next]_vars

(***************************************************************************)
(* The event loop runs every coroutine that can run, the monitor is woken  *)
(* when the channel changes, and a reachable node answers.                 *)
(***************************************************************************)
Fairness ==
    /\ WF_vars(Alone(Put))
    /\ \A t \in 1 .. MaxTasks :
         WF_vars(t \in DOMAIN tasks /\ TaskStep(t))
    /\ WF_vars(SeesReady \/ SeesTrouble)
    /\ WF_vars(MonitorSynced \/ MonitorFails)
    /\ WF_vars(Alone(BackendRestarted)) /\ WF_vars(Alone(AdminSynced))
    /\ \A c \in Callers : /\ WF_vars(Alone(Fetched(c)))
                          /\ WF_vars(Alone(Repopulate(c)))

FairSpec == Spec /\ Fairness

TypeOK ==
    /\ UpdatesTypeOK
    /\ tasks \in Seq(Task) /\ Len(tasks) <= MaxTasks
    /\ latest \in BOOLEAN /\ (latest => tasks # <<>>)
    /\ watching \in BOOLEAN

-----------------------------------------------------------------------------
(* What an operator expects: a node serves the users the database has.     *)

\* No update is on its way and no _sync is running.
NothingQueued == putting = <<>> /\ waiting = <<>> /\ queue = <<>>
Quiescent ==
    /\ up
    /\ NothingQueued
    /\ \A t \in DOMAIN tasks : Waits(t) /\ tasks[t].wire = <<>>
    /\ \A c \in Callers : At(c, "idle")

\* When the client holds a reachable node to be synced and has nothing left
\* to tell it, the node serves every user as the database has it: no update
\* was lost, overtaken by an older one or undone by a full push
\* (grpcio.py, _updates_queue and _sync).
QuiescentMatches == Quiescent /\ synced => node = desired

\* While the client holds a node to be synced, exactly one streaming task is
\* alive: with none, updates would queue up behind nobody; with two, one user's
\* updates could overtake each other (grpcio.py, _monitor_channel starts a
\* task without looking at the one it started before).
SyncedIsStreamed == synced => Len(tasks) = 1

\* A node shown unhealthy is never held to be synced (grpcio.py, every
\* set_status(unhealthy) after the first).
UnhealthyIsUnsynced == status = "unhealthy" => ~synced

\* From some point on the node stays reachable and nobody disturbs the panel;
\* in Calm the node also answers every call of _sync.
Reachable == <>[]up /\ <>[][~Disturbance]_vars
Calm == Reachable /\ <>[][~Refused]_vars

\* In the calm every update is taken off the queue (grpcio.py, the streaming
\* task is the only reader of _updates_queue),
UpdatesDrain == Calm => <>[]NothingQueued

\* and the node ends up serving exactly what the database says, whatever
\* outages, restarts and lost updates came before
\* (SPEC-mtls-fix.md:60, AC-8).
Converges == Calm => <>[](node = desired)

=============================================================================
