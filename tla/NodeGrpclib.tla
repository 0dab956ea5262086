----------------------------- MODULE NodeGrpclib -----------------------------
(***************************************************************************)
(* The grpclib client of a marznode.  Its monitor connects every ten       *)
(* seconds: while the node is not `synced' it runs _sync, then it starts a *)
(* streaming task when there is none.  Three failures to connect in a row  *)
(* end the streaming task and call for a new _sync.                        *)
(***************************************************************************)
EXTENDS NodeUpdates

CONSTANTS
    MaxTimeouts,     \* MAX_TIMEOUTS
    MaxWire,         \* bound on the messages in flight on the stream
    ShortOutages     \* may a node come back before the panel notices?

ASSUME GrpclibAssumption ==
    /\ MaxTimeouts \in Nat \ {0}
    /\ MaxWire \in Nat \ {0}
    /\ ShortOutages \in BOOLEAN

VARIABLES
    consumer,  \* _streaming_task: "none", "running" or "done"
    held,      \* the update the streaming task has taken but not sent
    link,      \* its stream: "fresh" until the first message, then
               \* "intact" until the connection is lost, then "broken"
    wire,      \* messages the node has not handled yet
    timeouts   \* consecutive_timeouts

stream == <<consumer, held, link, wire>>
vars == <<updateVars, stream, timeouts>>

Alone(A) == A /\ UNCHANGED <<stream, timeouts>>

-----------------------------------------------------------------------------
(* _stream_user_updates.                                                   *)

Take ==
    /\ consumer = "running" /\ held = <<>>
    /\ Get
    /\ held' = <<Head(queue)>>
    /\ UNCHANGED <<desired, node, up, sync, synced, status>>
    /\ UNCHANGED <<consumer, link, wire, timeouts>>

\* The first message opens the stream, connecting if need be.
Send ==
    /\ consumer = "running" /\ held # <<>>
    /\ up /\ link # "broken"
    /\ Len(wire) < MaxWire
    /\ wire' = wire \o held
    /\ held' = <<>>
    /\ link' = "intact"
    /\ UNCHANGED <<updateVars, consumer, timeouts>>

\* Mutant of Detached: a lost update does not call for a full push.
DetachedButSynced == consumer' = "done" /\ UNCHANGED synced

\* except (OSError, ConnectionError, GRPCError, StreamTerminatedError)
Detached == consumer' = "done" /\ synced' = FALSE

\* A task that waits in get() is not told of a lost connection: it meets it
\* with the next message, which is lost.
SendFails ==
    /\ consumer = "running" /\ held # <<>>
    /\ ~up \/ link = "broken"
    /\ held' = <<>>
    /\ Detached
    /\ UNCHANGED <<desired, node, up, pipeline, sync, status>>
    /\ UNCHANGED <<link, wire, timeouts>>

\* SyncUsers at the node: it applies the next message of the stream.
Handle ==
    /\ wire # <<>>
    /\ node' = [node EXCEPT ![Head(wire).user] = Head(wire).inbounds]
    /\ wire' = Tail(wire)
    /\ UNCHANGED <<desired, up, pipeline, sync, synced, status>>
    /\ UNCHANGED <<consumer, held, link, timeouts>>

-----------------------------------------------------------------------------
(* _monitor_channel.                                                       *)

\* Mutant of NeedsConsumer: a finished task is never replaced.
NeverStarted == consumer = "none"

NeedsConsumer == consumer # "running"

\* A new streaming task where there is none, and set_status(healthy).
Respawn ==
    /\ IF NeedsConsumer
         THEN /\ consumer' = "running" /\ held' = <<>>
              /\ link' = "fresh" /\ wire' = <<>>
         ELSE UNCHANGED stream
    /\ status' = "healthy"

Connect ==
    /\ At("monitor", "idle") /\ up
    /\ timeouts' = 0
    /\ IF synced
         THEN Respawn /\ UNCHANGED sync
         ELSE Goto("monitor", "fetching") /\ UNCHANGED <<stream, status>>
    /\ UNCHANGED <<desired, node, up, pipeline, synced>>

MonitorSynced ==
    /\ At("monitor", "pushed")
    /\ Goto("monitor", "idle")
    /\ synced' = TRUE
    /\ Respawn
    /\ UNCHANGED <<desired, node, up, pipeline, timeouts>>

\* _sync raised: sleep and `continue', past the respawn.
MonitorGivesUp ==
    /\ At("monitor", "failed")
    /\ Goto("monitor", "idle")
    /\ UNCHANGED <<desired, node, up, pipeline, synced, status>>
    /\ UNCHANGED <<stream, timeouts>>

\* Mutant of Unhealthy: an unhealthy node is not pushed to again.
UnhealthyButSynced == status' = "unhealthy" /\ UNCHANGED synced

Unhealthy == status' = "unhealthy" /\ synced' = FALSE

\* Mutant of TooMany: one more failure is let pass.
OneMore == timeouts + 1 > MaxTimeouts

TooMany == timeouts + 1 >= MaxTimeouts

\* __connect__ fails or takes ten seconds.
ConnectFails ==
    /\ At("monitor", "idle")
    /\ IF TooMany
         THEN /\ timeouts' = 0
              /\ Unhealthy
              /\ consumer' = "none" /\ held' = <<>>
              /\ link' = "fresh" /\ wire' = <<>>
         ELSE timeouts' = timeouts + 1 /\ UNCHANGED <<stream, synced, status>>
    /\ UNCHANGED <<desired, node, up, pipeline, sync>>

TimesOut == ~up /\ ConnectFails
SpuriousTimeout == up /\ ConnectFails

\* restart_backend: a call failed, or the five seconds are over.
AdminFails ==
    /\ ~At("admin", "idle")
    /\ Goto("admin", "idle")
    /\ Unhealthy
    /\ UNCHANGED <<desired, node, up, pipeline>>

-----------------------------------------------------------------------------
(* The node, the network and the panel's process.                          *)

\* The node stops, forgetting its users, or the connection to it is lost.
GoesDown ==
    /\ up
    /\ up' = FALSE
    /\ node' \in {node, Nobody}
    /\ link' = IF link = "intact" THEN "broken" ELSE link
    /\ wire' = <<>>
    /\ Interrupted
    /\ UNCHANGED <<desired, pipeline, synced, status, consumer, held, timeouts>>

\* The panel has learnt that the node is away.
Noticed == ~synced /\ \A c \in Callers : At(c, "idle")

ComesUp ==
    /\ ~up
    /\ ShortOutages \/ Noticed
    /\ up' = TRUE
    /\ UNCHANGED <<desired, node, pipeline, sync, synced, status>>

PanelRestarts ==
    /\ UpdatesReset
    /\ consumer' = "none" /\ held' = <<>> /\ link' = "fresh" /\ wire' = <<>>
    /\ timeouts' = 0

-----------------------------------------------------------------------------

Init ==
    /\ WorldInit /\ UpdatesInit
    /\ consumer = "none" /\ held = <<>> /\ link = "fresh" /\ wire = <<>>
    /\ timeouts = 0

\* What nobody has to do, and nobody can prevent.
Disturbance ==
    \/ \E u \in Users, c \in Contents : Alone(Change(u, c))
    \/ SpuriousTimeout
    \/ Alone(RestartBackend) \/ Alone(AdminFails)
    \/ GoesDown \/ Alone(ComesUp) \/ PanelRestarts

Refused == \E c \in Callers : Alone(Refuse(c))

Next ==
    \/ Disturbance \/ Refused
    \/ Alone(Put) \/ Take \/ Send \/ SendFails \/ Handle
    \/ \E c \in Callers : Alone(Fetched(c)) \/ Alone(Repopulate(c))
    \/ Connect \/ TimesOut \/ MonitorSynced \/ MonitorGivesUp
    \/ Alone(BackendRestarted) \/ Alone(AdminSynced)

Spec == Init /\ [][Next]_vars

(***************************************************************************)
(* The event loop runs every coroutine that can run, the monitor never     *)
(* returns, and a reachable node answers.                                  *)
(***************************************************************************)
Fairness ==
    /\ WF_vars(Alone(Put)) /\ WF_vars(Take)
    /\ WF_vars(Send \/ SendFails) /\ WF_vars(Handle)
    /\ WF_vars(Connect \/ TimesOut)
    /\ WF_vars(MonitorSynced \/ MonitorGivesUp)
    /\ WF_vars(Alone(BackendRestarted)) /\ WF_vars(Alone(AdminSynced))
    /\ \A c \in Callers : /\ WF_vars(Alone(Fetched(c)))
                          /\ WF_vars(Alone(Repopulate(c)))

FairSpec == Spec /\ Fairness

TypeOK ==
    /\ UpdatesTypeOK
    /\ consumer \in {"none", "running", "done"}
    /\ held \in Seq(Update) /\ Len(held) <= 1
    /\ link \in {"fresh", "intact", "broken"}
    /\ wire \in Seq(Update)
    /\ timeouts \in 0 .. MaxTimeouts - 1

-----------------------------------------------------------------------------
(* What an operator expects: a node serves the users the database has.     *)

\* No update is on its way and no _sync is running.
NothingQueued == putting = <<>> /\ waiting = <<>> /\ queue = <<>>
Quiescent ==
    /\ up
    /\ NothingQueued /\ held = <<>> /\ wire = <<>>
    /\ \A c \in Callers : At(c, "idle")

\* When the client holds a reachable node to be synced and has nothing left
\* to tell it, the node serves every user as the database has it: no update
\* was lost, overtaken by an older one or undone by a full push
\* (grpclib.py, _updates_queue and _sync).
QuiescentMatches == Quiescent /\ synced => node = desired

\* While the client holds a node to be synced, a streaming task is there to
\* carry the next update; otherwise updates would queue up behind nobody
\* (grpclib.py:85-96, the second and third change to _monitor_channel).
SyncedIsStreamed == synced => consumer = "running"

\* A node shown unhealthy is never held to be synced: reaching it again
\* starts with a full push (grpclib.py, the timeout branch of the monitor and
\* the except branch of restart_backend).
UnhealthyIsUnsynced == status = "unhealthy" => ~synced

\* An update the streaming task has taken off the queue reaches the stream,
\* or the client no longer holds the node to be synced
\* (grpclib.py, _stream_user_updates and the cancellation in the monitor).
Dropped == held # <<>> /\ held' = <<>> /\ wire' # wire \o held
LossIsNoticed == [][Dropped => ~synced']_vars

\* From some point on the node stays reachable and nobody disturbs the panel;
\* in Calm the node also answers every call of _sync.
Reachable == <>[]up /\ <>[][~Disturbance]_vars
Calm == Reachable /\ <>[][~Refused]_vars

\* In the calm every update is taken off the queue
\* (grpclib.py:88-90: it must not drop silently into _updates_queue),
UpdatesDrain == Calm => <>[]NothingQueued

\* and the node ends up serving exactly what the database says, whatever
\* outages, restarts and lost updates came before
\* (SPEC-mtls-fix.md:60, AC-8).
Converges == Calm => <>[](node = desired)

=============================================================================
