-------------------------- MODULE NodeGrpclibProofs --------------------------
(***************************************************************************)
(* Theorems of NodeGrpclib, for any users, contents and bounds.            *)
(***************************************************************************)
EXTENDS NodeGrpclib, NodeUpdatesProofs, SequenceTheorems

(***************************************************************************)
(* Typing.                                                                 *)
(***************************************************************************)

LEMMA TakeType ==
  ASSUME TypeOK, Take
  PROVE  TypeOK'
  <1>1. /\ Head(queue) \in Update
        /\ queue' \in Seq(Update) /\ Len(queue') <= QueueSize
        /\ putting' \in Seq(Update)
        /\ waiting' \in Seq(Update)
    BY GetType DEF TypeOK, Take
  <1>2. UpdatesTypeOK'
    BY <1>1 DEF TypeOK, UpdatesTypeOK, Take
  <1>3. held' \in Seq(Update) /\ Len(held') <= 1
    BY <1>1 DEF Take
  <1> QED
    BY <1>2, <1>3 DEF TypeOK, Take

LEMMA SendType ==
  ASSUME TypeOK, Send \/ SendFails
  PROVE  TypeOK'
  <1>1. <<>> \in Seq(Update) /\ Len(<<>>) <= 1
    OBVIOUS
  <1>2. CASE Send
    <2>1. wire' \in Seq(Update)
      BY <1>2 DEF TypeOK, Send
    <2> QED
      BY <1>1, <1>2, <2>1 DEF TypeOK, Send, updateVars, pipeline, UpdatesTypeOK
  <1>3. CASE SendFails
    BY <1>1, <1>3 DEF TypeOK, SendFails, Detached, pipeline, UpdatesTypeOK
  <1> QED
    BY <1>2, <1>3

LEMMA HandleType ==
  ASSUME TypeOK, Handle
  PROVE  TypeOK'
  <1>1. Head(wire) \in Update /\ Tail(wire) \in Seq(Update)
    BY HeadTail DEF TypeOK, Handle
  <1>2. node' \in [Users -> Contents]
    BY <1>1 DEF TypeOK, UpdatesTypeOK, Handle, Update
  <1> QED
    BY <1>1, <1>2 DEF TypeOK, UpdatesTypeOK, Handle, pipeline

LEMMA MonitorType ==
  ASSUME TypeOK, Connect \/ MonitorSynced \/ MonitorGivesUp
  PROVE  TypeOK'
  <1>1. <<>> \in Seq(Update) /\ Len(<<>>) <= 1
    OBVIOUS
  <1>2. "monitor" \in Callers /\ 0 \in 0 .. MaxTimeouts - 1
    BY GrpclibAssumption DEF Callers
  <1>3. sync' \in [Callers -> Sync]
    BY <1>2, GotoType
       DEF TypeOK, UpdatesTypeOK, Connect, MonitorSynced, MonitorGivesUp, SyncSteps
  <1>4. /\ consumer' \in {"none", "running", "done"}
        /\ held' \in Seq(Update) /\ Len(held') <= 1
        /\ link' \in {"fresh", "intact", "broken"}
        /\ wire' \in Seq(Update)
        /\ status' \in {"healthy", "unhealthy"}
    <2>1. Respawn \/ UNCHANGED <<stream, status>>
      BY DEF Connect, MonitorSynced, MonitorGivesUp
    <2> QED
      BY <1>1, <2>1 DEF TypeOK, UpdatesTypeOK, Respawn, stream
  <1>5. synced' \in BOOLEAN /\ timeouts' \in 0 .. MaxTimeouts - 1
    BY <1>2 DEF TypeOK, UpdatesTypeOK, Connect, MonitorSynced, MonitorGivesUp
  <1> QED
    BY <1>3, <1>4, <1>5 DEF TypeOK, UpdatesTypeOK, Connect, MonitorSynced,
                            MonitorGivesUp, pipeline

LEMMA ConnectFailsType ==
  ASSUME TypeOK, ConnectFails
  PROVE  TypeOK'
  <1>1. <<>> \in Seq(Update) /\ Len(<<>>) <= 1
    OBVIOUS
  <1>2. timeouts' \in 0 .. MaxTimeouts - 1
    BY GrpclibAssumption DEF TypeOK, ConnectFails, TooMany
  <1> QED
    BY <1>1, <1>2 DEF TypeOK, UpdatesTypeOK, ConnectFails, Unhealthy, stream, pipeline

LEMMA WorldType ==
  ASSUME TypeOK, \/ GoesDown \/ Alone(ComesUp) \/ PanelRestarts \/ Alone(AdminFails)
  PROVE  TypeOK'
  <1>1. <<>> \in Seq(Update) /\ Len(<<>>) <= 1
    OBVIOUS
  <1>2. CASE GoesDown
    <2>1. sync' \in [Callers -> Sync]
      BY <1>2, InterruptedType DEF TypeOK, UpdatesTypeOK, GoesDown
    <2>2. node' \in [Users -> Contents]
      BY <1>2, NobodyType DEF TypeOK, UpdatesTypeOK, GoesDown
    <2> QED
      BY <1>1, <1>2, <2>1, <2>2 DEF TypeOK, UpdatesTypeOK, GoesDown, pipeline
  <1>3. CASE Alone(ComesUp)
    BY <1>3 DEF TypeOK, UpdatesTypeOK, Alone, ComesUp, pipeline, stream
  <1>4. CASE PanelRestarts
    <2>1. UpdatesTypeOK'
      BY <1>4, ResetType DEF TypeOK, PanelRestarts
    <2>2. 0 \in 0 .. MaxTimeouts - 1
      BY GrpclibAssumption
    <2> QED
      BY <1>1, <1>4, <2>1, <2>2 DEF TypeOK, PanelRestarts
  <1>5. CASE Alone(AdminFails)
    <2>1. sync' \in [Callers -> Sync]
      BY <1>5, GotoType
         DEF TypeOK, UpdatesTypeOK, Alone, AdminFails, SyncSteps, Callers
    <2> QED
      BY <1>5, <2>1
         DEF TypeOK, UpdatesTypeOK, Alone, AdminFails, Unhealthy, pipeline, stream
  <1> QED
    BY <1>2, <1>3, <1>4, <1>5

\* A step that the two clients share leaves the rest of this one alone.
LEMMA AloneType ==
  ASSUME TypeOK, UpdatesTypeOK', UNCHANGED <<stream, timeouts>>
  PROVE  TypeOK'
  BY DEF TypeOK, stream

LEMMA InitTyped == Init => TypeOK
  <1> SUFFICES ASSUME Init PROVE TypeOK
    OBVIOUS
  <1>1. <<>> \in Seq(Update) /\ Len(<<>>) <= 1
    OBVIOUS
  <1>2. 0 \in 0 .. MaxTimeouts - 1
    BY GrpclibAssumption
  <1> QED
    BY <1>1, <1>2, UpdatesInitType DEF Init, TypeOK

LEMMA NextTyped == TypeOK /\ [Next]_vars => TypeOK'
  <1> SUFFICES ASSUME TypeOK, [Next]_vars PROVE TypeOK'
    OBVIOUS
  <1>1. ASSUME NEW u \in Users, NEW c \in Contents, Alone(Change(u, c))
        PROVE  TypeOK'
    BY <1>1, ChangeType, AloneType DEF Alone, TypeOK
  <1>2. CASE Alone(Put)
    BY <1>2, PutType, AloneType DEF Alone, TypeOK
  <1>3. ASSUME NEW c \in Callers,
               \/ Alone(Refuse(c)) \/ Alone(Fetched(c)) \/ Alone(Repopulate(c))
        PROVE  TypeOK'
    BY <1>3, SyncStepType, AloneType DEF Alone, TypeOK
  <1>4. CASE Alone(RestartBackend) \/ Alone(BackendRestarted) \/ Alone(AdminSynced)
    <2>1. "admin" \in Callers
      BY DEF Callers
    <2> QED
      BY <1>4, <2>1, SyncStepType, AloneType DEF Alone, TypeOK
  <1>5. CASE SpuriousTimeout \/ TimesOut
    BY <1>5, ConnectFailsType DEF SpuriousTimeout, TimesOut
  <1>6. CASE GoesDown \/ Alone(ComesUp) \/ PanelRestarts \/ Alone(AdminFails)
    BY <1>6, WorldType
  <1>7. CASE Take \/ Send \/ SendFails \/ Handle
    BY <1>7, TakeType, SendType, HandleType
  <1>8. CASE Connect \/ MonitorSynced \/ MonitorGivesUp
    BY <1>8, MonitorType
  <1>9. CASE UNCHANGED vars
    BY <1>9 DEF vars, updateVars, pipeline, stream, TypeOK, UpdatesTypeOK
  <1> QED
    BY <1>1, <1>2, <1>3, <1>4, <1>5, <1>6, <1>7, <1>8, <1>9
       DEF Next, Disturbance, Refused

\* The variables of the grpclib client stay well typed; its queue never
\* exceeds its size and its streaming task holds at most one update.
THEOREM TypeCorrect == Spec => []TypeOK
  <1> QED
    BY InitTyped, NextTyped, PTL DEF Spec

-----------------------------------------------------------------------------
(* Status.                                                                 *)

\* A node shown unhealthy is never held to be synced, whatever the node, the
\* monitor and restart_backend do and in whatever order.
THEOREM UnhealthyNeverSynced == Spec => []UnhealthyIsUnsynced
  <1>1. Init => UnhealthyIsUnsynced
    BY DEF Init, UpdatesInit, UnhealthyIsUnsynced
  <1>2. UnhealthyIsUnsynced /\ [Next]_vars => UnhealthyIsUnsynced'
    <2> SUFFICES ASSUME UnhealthyIsUnsynced, [Next]_vars PROVE UnhealthyIsUnsynced'
      OBVIOUS
    <2> USE DEF UnhealthyIsUnsynced
    <2>1. ASSUME NEW u \in Users, NEW c \in Contents, Alone(Change(u, c))
          PROVE  UnhealthyIsUnsynced'
      BY <2>1 DEF Alone, Change
    <2>2. CASE Alone(Put) \/ Take \/ Send \/ SendFails \/ Handle
      BY <2>2 DEF Alone, Put, Take, Send, SendFails, Detached, Handle, updateVars
    <2>3. ASSUME NEW c \in Callers,
                 \/ Alone(Refuse(c)) \/ Alone(Fetched(c)) \/ Alone(Repopulate(c))
          PROVE  UnhealthyIsUnsynced'
      BY <2>3 DEF Alone, Refuse, Fetched, Repopulate
    <2>4. CASE \/ Alone(RestartBackend) \/ Alone(BackendRestarted)
               \/ Alone(AdminSynced) \/ Alone(AdminFails)
      BY <2>4 DEF Alone, RestartBackend, BackendRestarted, AdminSynced,
                  AdminFails, Unhealthy
    <2>5. CASE SpuriousTimeout \/ TimesOut
      BY <2>5 DEF SpuriousTimeout, TimesOut, ConnectFails, Unhealthy
    <2>6. CASE GoesDown \/ Alone(ComesUp) \/ PanelRestarts
      BY <2>6 DEF Alone, GoesDown, ComesUp, PanelRestarts, UpdatesReset
    <2>7. CASE Connect \/ MonitorSynced \/ MonitorGivesUp
      BY <2>7 DEF Connect, MonitorSynced, MonitorGivesUp, Respawn
    <2>8. CASE UNCHANGED vars
      BY <2>8 DEF vars, updateVars
    <2> QED
      BY <2>1, <2>2, <2>3, <2>4, <2>5, <2>6, <2>7, <2>8
         DEF Next, Disturbance, Refused
  <1> QED
    BY <1>1, <1>2, PTL DEF Spec

-----------------------------------------------------------------------------
(* The streaming task.                                                     *)

\* A task that is not running holds no update.
StoppedHoldsNothing == consumer # "running" => held = <<>>

LEMMA HeldInit == Init => StoppedHoldsNothing
  BY DEF Init, StoppedHoldsNothing

LEMMA HeldNext == StoppedHoldsNothing /\ [Next]_vars => StoppedHoldsNothing'
  <1> SUFFICES ASSUME StoppedHoldsNothing, [Next]_vars PROVE StoppedHoldsNothing'
    OBVIOUS
  <1> USE DEF StoppedHoldsNothing
  <1>1. ASSUME UNCHANGED <<stream, timeouts>> PROVE StoppedHoldsNothing'
    BY <1>1 DEF stream
  <1>2. CASE Take \/ Send \/ SendFails \/ Handle
    BY <1>2 DEF Take, Send, SendFails, Detached, Handle
  <1>3. CASE Connect \/ MonitorSynced \/ MonitorGivesUp
    BY <1>3 DEF Connect, MonitorSynced, MonitorGivesUp, Respawn, stream
  <1>4. CASE SpuriousTimeout \/ TimesOut \/ GoesDown \/ PanelRestarts
    BY <1>4 DEF SpuriousTimeout, TimesOut, ConnectFails, GoesDown, PanelRestarts, stream
  <1> QED
    BY <1>1, <1>2, <1>3, <1>4 DEF Next, Disturbance, Refused, Alone, vars

\* The step in which an update is dropped is one that calls for a full push.
LEMMA DropUnsyncs ==
  ASSUME StoppedHoldsNothing, [Next]_vars, Dropped
  PROVE  ~synced'
  <1>1. ASSUME UNCHANGED held PROVE FALSE
    BY <1>1 DEF Dropped
  <1>2. CASE Take \/ Handle \/ Send
    BY <1>2 DEF Dropped, Take, Handle, Send
  <1>3. CASE SendFails
    BY <1>3 DEF SendFails, Detached
  <1>4. CASE Connect \/ MonitorSynced \/ MonitorGivesUp
    <2>1. Respawn \/ UNCHANGED stream
      BY <1>4 DEF Connect, MonitorSynced, MonitorGivesUp
    <2>2. consumer = "running" /\ ~NeedsConsumer
      BY DEF Dropped, StoppedHoldsNothing, NeedsConsumer
    <2> QED
      BY <1>1, <2>1, <2>2 DEF Respawn, stream
  <1>5. CASE SpuriousTimeout \/ TimesOut
    BY <1>1, <1>5 DEF SpuriousTimeout, TimesOut, ConnectFails, Unhealthy, stream
  <1>6. CASE GoesDown \/ PanelRestarts
    BY <1>1, <1>6 DEF GoesDown, PanelRestarts, UpdatesReset
  <1> QED
    BY <1>1, <1>2, <1>3, <1>4, <1>5, <1>6
       DEF Next, Disturbance, Refused, Alone, vars, stream

\* No update taken off the queue is dropped while the client goes on holding
\* the node to be synced.
THEOREM LossForcesPush == Spec => LossIsNoticed
  <1>1. StoppedHoldsNothing /\ [Next]_vars => [Dropped => ~synced']_vars
    BY DropUnsyncs
  <1> QED
    BY <1>1, HeldInit, HeldNext, PTL DEF Spec, LossIsNoticed

-----------------------------------------------------------------------------
(* Without restart_backend a node is synced exactly while it is streamed   *)
(* to, and nothing is in flight while the monitor pushes all users.        *)

StreamInv ==
    /\ At("admin", "idle")
    /\ synced <=> consumer = "running"
    /\ ~At("monitor", "idle") => ~synced
    /\ consumer # "running" => held = <<>> /\ wire = <<>>
    /\ ~up \/ link = "broken" => wire = <<>>

LEMMA StreamInit == Init => StreamInv
  BY DEF Init, UpdatesInit, StreamInv, At, Fresh, Callers

LEMMA StreamNext ==
  ASSUME ~BackendRestarts, TypeOK, StreamInv, [Next]_vars
  PROVE  StreamInv'
  <1> USE DEF StreamInv, At
  <1>0. "monitor" \in Callers /\ "admin" \in Callers /\ sync \in [Callers -> Sync]
    BY DEF Callers, TypeOK, UpdatesTypeOK
  <1>1. ASSUME NEW u \in Users, NEW c \in Contents, Alone(Change(u, c))
        PROVE  StreamInv'
    BY <1>1 DEF Alone, Change, stream
  <1>2. CASE Alone(Put)
    BY <1>2 DEF Alone, Put, stream
  <1>3. CASE Take \/ Send \/ SendFails \/ Handle
    BY <1>3 DEF Take, Send, SendFails, Detached, Handle, updateVars
  <1>4. ASSUME NEW c \in Callers,
               \/ Alone(Refuse(c)) \/ Alone(Fetched(c)) \/ Alone(Repopulate(c))
        PROVE  StreamInv'
    <2>1. c = "monitor"
      BY <1>4 DEF Alone, Refuse, Fetched, Repopulate, Callers
    <2> QED
      BY <1>0, <1>4, <2>1 DEF Alone, Refuse, Fetched, Repopulate, Goto, stream
  <1>5. CASE \/ Alone(RestartBackend) \/ Alone(BackendRestarted)
             \/ Alone(AdminSynced) \/ Alone(AdminFails)
    BY <1>5 DEF Alone, RestartBackend, BackendRestarted, AdminSynced, AdminFails
  <1>6. CASE Connect
    BY <1>0, <1>6 DEF Connect, Respawn, NeedsConsumer, Goto, stream
  <1>7. CASE MonitorSynced
    BY <1>0, <1>7 DEF MonitorSynced, Respawn, NeedsConsumer, Goto, stream
  <1>8. CASE MonitorGivesUp
    BY <1>0, <1>8 DEF MonitorGivesUp, Goto, stream
  <1>9. CASE SpuriousTimeout \/ TimesOut
    BY <1>9 DEF SpuriousTimeout, TimesOut, ConnectFails, Unhealthy, stream
  <1>10. CASE GoesDown
    <2>1. sync'["admin"].pc = "idle"
      BY <1>0, <1>10 DEF GoesDown, Interrupted
    <2>2. sync'["monitor"].pc # "idle" => sync["monitor"].pc # "idle"
      BY <1>0, <1>10 DEF GoesDown, Interrupted
    <2> QED
      BY <1>10, <2>1, <2>2 DEF GoesDown
  <1>11. CASE Alone(ComesUp)
    BY <1>11 DEF Alone, ComesUp, stream
  <1>12. CASE PanelRestarts
    BY <1>0, <1>12 DEF PanelRestarts, UpdatesReset, Fresh
  <1>13. CASE UNCHANGED vars
    BY <1>13 DEF vars, updateVars, stream
  <1> QED
    BY <1>1, <1>2, <1>3, <1>4, <1>5, <1>6, <1>7, <1>8, <1>9, <1>10, <1>11,
       <1>12, <1>13 DEF Next, Disturbance, Refused

\* As long as no backend is restarted, a node held to be synced always has a
\* running streaming task.
THEOREM SyncedStreams ==
  ASSUME ~BackendRestarts
  PROVE  Spec => []SyncedIsStreamed
  <1>1. TypeOK /\ StreamInv /\ [Next]_vars => StreamInv'
    BY StreamNext
  <1>2. StreamInv => SyncedIsStreamed
    BY DEF StreamInv, SyncedIsStreamed
  <1> QED
    BY <1>1, <1>2, StreamInit, TypeCorrect, PTL DEF Spec

-----------------------------------------------------------------------------
(* The way of an update: from pending to the queue, to the streaming task, *)
(* to the wire, to the node.  Where a user's way is empty from some stage  *)
(* on, the last update before it is the current one.                       *)

PathInv(u) ==
    /\ AllAre(putting, u, desired[u]) /\ AllAre(waiting, u, desired[u])
    /\ ~Pending(u) => LastIs(queue, u, desired[u])
    /\ ~Pending(u) /\ ~In(queue, u) => AllAre(held, u, desired[u])
    /\ ~Pending(u) /\ ~In(queue, u) /\ ~In(held, u)
         => LastIs(wire, u, desired[u])

\* Nothing is under way for the user.
Quiet(u) == ~Pending(u) /\ ~In(queue, u) /\ ~In(held, u) /\ ~In(wire, u)

\* Then the database, the push in progress and the node agree about it.
AgreeInv(u) ==
    Quiet(u) =>
      /\ synced /\ up => node[u] = desired[u]
      /\ At("monitor", "pushing") => sync["monitor"].users[u] = desired[u]
      /\ At("monitor", "pushed") /\ up => node[u] = desired[u]

\* The variables that PathInv and Quiet are about.
path == <<desired, pipeline, held, wire>>

LEMMA PathStutter ==
  ASSUME NEW u \in Users, UNCHANGED path
  PROVE  (PathInv(u)' <=> PathInv(u)) /\ (Quiet(u)' <=> Quiet(u))
  BY DEF path, pipeline, PathInv, Quiet, Pending, In, AllAre, LastIs

LEMMA PathChange ==
  ASSUME TypeOK, MaxPending = 1, NEW u \in Users, PathInv(u),
         NEW v \in Users, NEW c \in Contents, Alone(Change(v, c))
  PROVE  PathInv(u)' /\ (Quiet(u)' => Quiet(u) /\ desired'[u] = desired[u])
  <1> DEFINE e == [user |-> v, inbounds |-> c]
  <1>1. e \in Update /\ e.user = v /\ e.inbounds = c
    BY DEF Update
  <1>2. /\ putting' = Append(putting, e)
        /\ UNCHANGED <<waiting, queue, held, wire>>
        /\ desired' = [desired EXCEPT ![v] = c]
    BY DEF Alone, Change, stream
  <1> HIDE DEF e
  <1>3. putting \in Seq(Update) /\ desired \in [Users -> Contents]
    BY DEF TypeOK, UpdatesTypeOK
  <1>4. \A d : /\ In(putting', u) <=> (In(putting, u) \/ v = u)
               /\ AllAre(putting', u, d) <=> (AllAre(putting, u, d) /\ (v = u => c = d))
    BY <1>1, <1>2, <1>3, Appended
  <1>5. CASE u = v
    <2>1. ~Pending(u)
      BY <1>5, NotPending DEF TypeOK, Alone, Change
    <2>2. AllAre(putting, u, c) /\ AllAre(waiting, u, c)
      BY <2>1 DEF Pending, In, AllAre
    <2>3. desired'[u] = c
      BY <1>2, <1>3, <1>5
    <2>4. Pending(u)'
      BY <1>4, <1>5 DEF Pending
    <2> QED
      BY <1>2, <1>4, <1>5, <2>2, <2>3, <2>4 DEF PathInv, Quiet
  <1>6. CASE u # v
    <2>1. desired'[u] = desired[u]
      BY <1>2, <1>3, <1>6
    <2>2. Pending(u)' <=> Pending(u)
      BY <1>2, <1>4, <1>6 DEF Pending
    <2> QED
      BY <1>2, <1>4, <1>6, <2>1, <2>2 DEF PathInv, Quiet
  <1> QED
    BY <1>5, <1>6

LEMMA PathPut ==
  ASSUME TypeOK, NEW u \in Users, PathInv(u), Alone(Put)
  PROVE  PathInv(u)' /\ (Quiet(u)' => Quiet(u))
  <1> DEFINE h == Head(putting)
             d == desired[u]
  <1>1. /\ putting \in Seq(Update) /\ putting # <<>>
        /\ waiting \in Seq(Update) /\ queue \in Seq(Update)
        /\ h \in Update
    BY HeadTail DEF TypeOK, UpdatesTypeOK, Alone, Put
  <1>2. putting' = Tail(putting) /\ UNCHANGED <<desired, held, wire>>
    BY DEF Alone, Put, stream
  <1>3. /\ In(putting, u) <=> (h.user = u \/ In(putting', u))
        /\ AllAre(putting, u, d) <=>
             ((h.user = u => h.inbounds = d) /\ AllAre(putting', u, d))
    BY <1>1, <1>2, Headed
  <1>4. h.user = u => h.inbounds = d
    BY <1>3 DEF PathInv
  <1>5. CASE HasRoom
    <2>1. queue' = Append(queue, h) /\ waiting' = waiting
      BY <1>5 DEF Alone, Put
    <2> HIDE DEF h, d
    <2>2. /\ In(queue', u) <=> (In(queue, u) \/ h.user = u)
          /\ (IF h.user = u THEN h.inbounds = d ELSE LastIs(queue, u, d))
               => LastIs(queue', u, d)
      BY <1>1, <2>1, Appended
    <2>3. ~Pending(u)' => h.user = u \/ ~Pending(u)
      BY <1>3, <2>1 DEF Pending
    <2>4. ~Pending(u)' => LastIs(queue', u, d)
      BY <1>4, <2>2, <2>3 DEF PathInv, d
    <2>5. ~Pending(u)' /\ ~In(queue', u) => ~Pending(u) /\ ~In(queue, u)
      BY <2>2, <2>3
    <2> QED
      BY <1>2, <1>3, <2>1, <2>4, <2>5 DEF PathInv, Quiet, d
  <1>6. CASE ~HasRoom
    <2>1. waiting' = Append(waiting, h) /\ queue' = queue
      BY <1>6 DEF Alone, Put
    <2> HIDE DEF h, d
    <2>2. /\ In(waiting', u) <=> (In(waiting, u) \/ h.user = u)
          /\ AllAre(waiting', u, d) <=>
               (AllAre(waiting, u, d) /\ (h.user = u => h.inbounds = d))
      BY <1>1, <2>1, Appended
    <2>3. Pending(u)' <=> Pending(u)
      BY <1>3, <2>2 DEF Pending
    <2> QED
      BY <1>2, <1>3, <1>4, <2>1, <2>2, <2>3 DEF PathInv, Quiet, d
  <1> QED
    BY <1>5, <1>6

LEMMA PathTake ==
  ASSUME TypeOK, NEW u \in Users, PathInv(u), Take
  PROVE  PathInv(u)' /\ (Quiet(u)' => Quiet(u))
  <1> DEFINE h == Head(queue)
             d == desired[u]
  <1>1. queue \in Seq(Update) /\ queue # <<>> /\ h \in Update
    BY HeadTail DEF TypeOK, UpdatesTypeOK, Take, Get
  <1>2. /\ queue' = Tail(queue) /\ held = <<>> /\ held' = <<h>>
        /\ UNCHANGED <<desired, wire>>
    BY DEF Take, Get
  <1>3. /\ Pending(u)' <=> Pending(u)
        /\ AllAre(putting, u, d) /\ AllAre(waiting, u, d) =>
             AllAre(putting', u, d) /\ AllAre(waiting', u, d)
    BY GetPending DEF TypeOK, Take
  <1> HIDE DEF h, d
  <1>4. /\ In(queue, u) <=> (h.user = u \/ In(queue', u))
        /\ LastIs(queue, u, d) =>
             /\ LastIs(queue', u, d)
             /\ h.user = u /\ ~In(queue', u) => h.inbounds = d
    BY <1>1, <1>2, Headed DEF h
  <1>5. /\ In(held', u) <=> h.user = u
        /\ AllAre(held', u, d) <=> (h.user = u => h.inbounds = d)
    BY <1>1, <1>2, Single
  <1>6. ~In(held, u)
    BY <1>2 DEF In
  <1> QED
    BY <1>2, <1>3, <1>4, <1>5, <1>6 DEF PathInv, Quiet, d

LEMMA PathSend ==
  ASSUME TypeOK, NEW u \in Users, PathInv(u), Send
  PROVE  PathInv(u)' /\ (Quiet(u)' => Quiet(u))
  <1> DEFINE h == held[1]
             d == desired[u]
  <1>1. held \in Seq(Update) /\ held # <<>> /\ Len(held) <= 1 /\ wire \in Seq(Update)
    BY DEF TypeOK, Send
  <1>2. h \in Update /\ held = <<h>>
    <2>1. Len(held) = 1
      <3>1. Len(held) \in Nat \ {0} /\ Len(held) <= 1
        BY <1>1, EmptySeq
      <3>2. \A n \in Nat \ {0} : n <= 1 => n = 1
        OBVIOUS
      <3> QED
        BY <3>1, <3>2
    <2>2. h \in Update
      BY <1>1, <2>1
    <2>3. held \in Seq(Update) /\ <<h>> \in Seq(Update) /\ Len(<<h>>) = 1
      BY <1>1, <2>2
    <2>4. held[1] = <<h>>[1]
      OBVIOUS
    <2> QED
      BY <2>1, <2>2, <2>3, <2>4, SeqEqual
  <1>3. /\ held' = <<>> /\ wire' = wire \o held
        /\ UNCHANGED <<desired, pipeline>>
    BY DEF Send, updateVars
  <1> HIDE DEF h, d
  <1>4. wire' = Append(wire, h)
    BY <1>1, <1>2, <1>3
  <1>5. /\ In(wire', u) <=> (In(wire, u) \/ h.user = u)
        /\ (IF h.user = u THEN h.inbounds = d ELSE LastIs(wire, u, d))
             => LastIs(wire', u, d)
    BY <1>1, <1>2, <1>4, Appended
  <1>6. /\ In(held, u) <=> h.user = u
        /\ AllAre(held, u, d) <=> (h.user = u => h.inbounds = d)
    BY <1>2, Single
  <1>7. ~In(held', u) /\ AllAre(held', u, d)
    BY <1>3, Empty
  <1>8. (Pending(u)' <=> Pending(u)) /\ (In(queue', u) <=> In(queue, u))
    BY <1>3 DEF pipeline, Pending
  <1> QED
    BY <1>3, <1>5, <1>6, <1>7, <1>8 DEF PathInv, Quiet, pipeline, d

\* Losing what is held and what is on the wire keeps the rest in order.
LEMMA PathLoss ==
  ASSUME NEW u \in Users, PathInv(u), UNCHANGED <<desired, pipeline>>,
         held' \in {held, <<>>}, wire' \in {wire, <<>>},
         held' = held \/ wire' = <<>>
  PROVE  PathInv(u)'
  <1>1. /\ ~In(<<>>, u) /\ AllAre(<<>>, u, desired[u]) /\ LastIs(<<>>, u, desired[u])
    BY Empty
  <1>2. (Pending(u)' <=> Pending(u)) /\ (In(queue', u) <=> In(queue, u))
    BY DEF pipeline, Pending
  <1>3. /\ desired' = desired /\ putting' = putting
        /\ waiting' = waiting /\ queue' = queue
    BY DEF pipeline
  <1>4. CASE held' = held
    BY <1>1, <1>2, <1>3, <1>4 DEF PathInv
  <1>5. CASE held' = <<>> /\ wire' = <<>>
    BY <1>1, <1>2, <1>3, <1>5 DEF PathInv
  <1> QED
    BY <1>4, <1>5

LEMMA PathHandle ==
  ASSUME TypeOK, NEW u \in Users, PathInv(u), Handle
  PROVE  /\ PathInv(u)'
         /\ Quiet(u)' => IF Head(wire).user = u THEN node'[u] = desired'[u]
                         ELSE Quiet(u) /\ node'[u] = node[u]
  <1> DEFINE h == Head(wire)
             d == desired[u]
  <1>1. wire \in Seq(Update) /\ wire # <<>> /\ h \in Update
    BY HeadTail DEF TypeOK, Handle
  <1>2. /\ wire' = Tail(wire) /\ UNCHANGED <<desired, pipeline, held>>
        /\ node' = [node EXCEPT ![h.user] = h.inbounds]
    BY DEF Handle
  <1>3. node \in [Users -> Contents]
    BY DEF TypeOK, UpdatesTypeOK
  <1> HIDE DEF h, d
  <1>4. /\ In(wire, u) <=> (h.user = u \/ In(wire', u))
        /\ LastIs(wire, u, d) =>
             /\ LastIs(wire', u, d)
             /\ h.user = u /\ ~In(wire', u) => h.inbounds = d
    BY <1>1, <1>2, Headed DEF h
  <1>5. /\ Pending(u)' <=> Pending(u)
        /\ In(queue', u) <=> In(queue, u)
        /\ In(held', u) <=> In(held, u)
    BY <1>2 DEF pipeline, Pending
  <1>6. PathInv(u)'
    BY <1>2, <1>4, <1>5 DEF PathInv, pipeline, d
  <1>7. ASSUME Quiet(u)', h.user = u PROVE node'[u] = desired'[u]
    <2>1. h.inbounds = d
      BY <1>4, <1>5, <1>7 DEF PathInv, Quiet, d
    <2> QED
      BY <1>2, <1>3, <1>7, <2>1 DEF d
  <1>8. ASSUME Quiet(u)', h.user # u PROVE Quiet(u) /\ node'[u] = node[u]
    BY <1>2, <1>3, <1>4, <1>5, <1>8 DEF Quiet
  <1> QED
    BY <1>6, <1>7, <1>8 DEF h

LEMMA AgreeInit ==
  ASSUME Init, NEW u \in Users
  PROVE  PathInv(u) /\ AgreeInv(u)
  <1>1. /\ ~In(<<>>, u) /\ AllAre(<<>>, u, desired[u]) /\ LastIs(<<>>, u, desired[u])
    BY Empty
  <1>2. ~synced /\ At("monitor", "idle")
    BY DEF Init, UpdatesInit, At, Fresh, Callers
  <1> QED
    BY <1>1, <1>2 DEF Init, UpdatesInit, PathInv, AgreeInv, At

LEMMA PathNext ==
  ASSUME MaxPending = 1, TypeOK, StreamInv, NEW u \in Users, PathInv(u), [Next]_vars
  PROVE  PathInv(u)'
  <1>1. ASSUME NEW v \in Users, NEW c \in Contents, Alone(Change(v, c))
        PROVE  PathInv(u)'
    BY <1>1, PathChange
  <1>2. CASE Alone(Put)
    BY <1>2, PathPut
  <1>3. CASE Take
    BY <1>3, PathTake
  <1>4. CASE Send
    BY <1>4, PathSend
  <1>5. CASE Handle
    BY <1>5, PathHandle
  <1>6. CASE SendFails
    <2>1. wire = <<>>
      BY <1>6 DEF SendFails, StreamInv
    <2> QED
      BY <1>6, <2>1, PathLoss DEF SendFails
  <1>7. CASE SpuriousTimeout \/ TimesOut
    BY <1>7, PathLoss DEF SpuriousTimeout, TimesOut, ConnectFails, stream
  <1>8. CASE GoesDown
    BY <1>8, PathLoss DEF GoesDown
  <1>9. CASE PanelRestarts
    <2>1. /\ ~In(<<>>, u) /\ AllAre(<<>>, u, desired[u]) /\ LastIs(<<>>, u, desired[u])
      BY Empty
    <2> QED
      BY <1>9, <2>1 DEF PanelRestarts, UpdatesReset, PathInv
  <1>10. CASE Connect \/ MonitorSynced \/ MonitorGivesUp
    <2>1. Respawn \/ UNCHANGED stream
      BY <1>10 DEF Connect, MonitorSynced, MonitorGivesUp
    <2>2. held' = held /\ wire' = wire
      BY <2>1 DEF Respawn, NeedsConsumer, StreamInv, stream
    <2>3. UNCHANGED path
      BY <1>10, <2>2 DEF Connect, MonitorSynced, MonitorGivesUp, path
    <2> QED
      BY <2>3, PathStutter
  <1>11. ASSUME NEW c \in Callers,
               \/ Alone(Refuse(c)) \/ Alone(Fetched(c)) \/ Alone(Repopulate(c))
        PROVE  PathInv(u)'
    <2>1. UNCHANGED path
      BY <1>11 DEF Alone, Refuse, Fetched, Repopulate, path, stream
    <2> QED
      BY <2>1, PathStutter
  <1>12. CASE \/ Alone(RestartBackend) \/ Alone(BackendRestarted)
              \/ Alone(AdminSynced) \/ Alone(AdminFails) \/ Alone(ComesUp)
    <2>1. UNCHANGED path
      BY <1>12 DEF Alone, RestartBackend, BackendRestarted, AdminSynced,
                   AdminFails, ComesUp, path, pipeline, stream
    <2> QED
      BY <2>1, PathStutter
  <1>13. CASE UNCHANGED vars
    BY <1>13, PathStutter DEF vars, updateVars, stream, path
  <1> QED
    BY <1>1, <1>2, <1>3, <1>4, <1>5, <1>6, <1>7, <1>8, <1>9, <1>10, <1>11,
       <1>12, <1>13 DEF Next, Disturbance, Refused

\* What AgreeInv speaks of besides the user's path.
LEMMA AgreeStutter ==
  ASSUME NEW u \in Users, AgreeInv(u), Quiet(u)' => Quiet(u),
         Quiet(u)' => desired'[u] = desired[u],
         UNCHANGED <<node, up, sync, synced>>
  PROVE  AgreeInv(u)'
  BY DEF AgreeInv, At

LEMMA AgreeNext ==
  ASSUME ~BackendRestarts, ~ShortOutages, MaxPending = 1,
         TypeOK, StreamInv, NEW u \in Users, PathInv(u), AgreeInv(u), [Next]_vars
  PROVE  AgreeInv(u)'
  <1>0. "monitor" \in Callers /\ sync \in [Callers -> Sync]
    BY DEF Callers, TypeOK, UpdatesTypeOK
  <1>1. ASSUME NEW v \in Users, NEW c \in Contents, Alone(Change(v, c))
        PROVE  AgreeInv(u)'
    <2>1. Quiet(u)' => Quiet(u) /\ desired'[u] = desired[u]
      BY <1>1, PathChange
    <2> QED
      BY <1>1, <2>1, AgreeStutter DEF Alone, Change
  <1>2. CASE Alone(Put)
    BY <1>2, PathPut, AgreeStutter DEF Alone, Put
  <1>3. CASE Take
    BY <1>3, PathTake, AgreeStutter DEF Take
  <1>4. CASE Send
    BY <1>4, PathSend, AgreeStutter DEF Send, updateVars
  <1>5. CASE Handle
    <2>1. At("monitor", "idle")
      BY <1>5 DEF Handle, StreamInv
    <2>2. sync' = sync /\ up' = up /\ synced' = synced /\ desired' = desired
      BY <1>5 DEF Handle
    <2>3. Quiet(u)' => IF Head(wire).user = u THEN node'[u] = desired'[u]
                       ELSE Quiet(u) /\ node'[u] = node[u]
      BY <1>5, PathHandle
    <2> QED
      BY <2>1, <2>2, <2>3 DEF AgreeInv, At
  <1>6. CASE SendFails
    <2>1. ~synced' /\ At("monitor", "idle")'
      BY <1>6 DEF SendFails, Detached, StreamInv, At
    <2> QED
      BY <2>1 DEF AgreeInv, At
  <1>7. CASE SpuriousTimeout \/ TimesOut
    <2>1. sync' = sync /\ At("monitor", "idle")
      BY <1>7 DEF SpuriousTimeout, TimesOut, ConnectFails
    <2>2. CASE ~synced'
      BY <2>1, <2>2 DEF AgreeInv, At
    <2>3. CASE synced'
      <3>1. UNCHANGED <<desired, node, up, synced, path>>
        BY <1>7, <2>3 DEF SpuriousTimeout, TimesOut, ConnectFails, Unhealthy,
                          stream, path
      <3> QED
        BY <2>1, <3>1, PathStutter, AgreeStutter
    <2> QED
      BY <2>2, <2>3
  <1>8. CASE GoesDown
    <2>1. ~up' /\ ~At("monitor", "pushing")'
      BY <1>0, <1>8 DEF GoesDown, Interrupted, At
    <2> QED
      BY <2>1 DEF AgreeInv
  <1>9. CASE PanelRestarts
    <2>1. ~synced' /\ At("monitor", "idle")'
      BY <1>0, <1>9 DEF PanelRestarts, UpdatesReset, Fresh, At
    <2> QED
      BY <2>1 DEF AgreeInv, At
  <1>10. CASE Alone(ComesUp)
    <2>1. ~synced /\ At("monitor", "idle") /\ UNCHANGED <<sync, synced>>
      BY <1>0, <1>10 DEF Alone, ComesUp, Noticed
    <2> QED
      BY <2>1 DEF AgreeInv, At
  <1>11. CASE Connect
    <2>1. Respawn \/ UNCHANGED stream
      BY <1>11 DEF Connect
    <2>2. held' = held /\ wire' = wire
      BY <2>1 DEF Respawn, NeedsConsumer, StreamInv, stream
    <2>3. UNCHANGED <<desired, node, up, synced, path>>
      BY <1>11, <2>2 DEF Connect, path
    <2>4. Quiet(u)' <=> Quiet(u)
      BY <2>3, PathStutter
    <2>5. sync' = sync \/ At("monitor", "fetching")'
      <3>1. sync' = sync \/ Goto("monitor", "fetching")
        BY <1>11 DEF Connect
      <3>2. ASSUME Goto("monitor", "fetching") PROVE sync'["monitor"].pc = "fetching"
        BY <1>0, <3>2 DEF Goto, Sync
      <3> QED
        BY <3>1, <3>2 DEF At
    <2> QED
      BY <2>3, <2>4, <2>5 DEF AgreeInv, At
  <1>12. CASE MonitorSynced
    <2>1. held' = held /\ wire' = wire
      BY <1>12 DEF MonitorSynced, Respawn, NeedsConsumer, StreamInv, stream
    <2>2. UNCHANGED <<desired, node, up, path>>
      BY <1>12, <2>1 DEF MonitorSynced, path
    <2>3. Quiet(u)' <=> Quiet(u)
      BY <2>2, PathStutter
    <2>4. At("monitor", "pushed") /\ At("monitor", "idle")'
      BY <1>0, <1>12 DEF MonitorSynced, Goto, At
    <2> QED
      BY <2>2, <2>3, <2>4 DEF AgreeInv, At
  <1>13. CASE MonitorGivesUp
    <2>1. At("monitor", "idle")' /\ UNCHANGED <<desired, node, up, synced, path>>
      BY <1>0, <1>13 DEF MonitorGivesUp, Goto, At, path, stream
    <2>2. Quiet(u)' <=> Quiet(u)
      BY <2>1, PathStutter
    <2> QED
      BY <2>1, <2>2 DEF AgreeInv, At
  <1>14. ASSUME NEW c \in Callers,
               \/ Alone(Refuse(c)) \/ Alone(Fetched(c)) \/ Alone(Repopulate(c))
        PROVE  AgreeInv(u)'
    <2>1. UNCHANGED path
      BY <1>14 DEF Alone, Refuse, Fetched, Repopulate, path, stream
    <2>2. Quiet(u)' <=> Quiet(u)
      BY <2>1, PathStutter
    <2>3. c = "monitor"
      BY <1>14 DEF Alone, Refuse, Fetched, Repopulate, Callers, StreamInv, At
    <2>4. ~synced /\ UNCHANGED <<desired, up, synced>>
      BY <1>14, <2>3 DEF Alone, Refuse, Fetched, Repopulate, StreamInv, At
    <2>5. CASE Alone(Refuse(c))
      <3>1. At("monitor", "failed")'
        BY <1>0, <2>3, <2>5 DEF Alone, Refuse, Goto, At
      <3> QED
        BY <2>4, <3>1 DEF AgreeInv, At
    <2>6. CASE Alone(Fetched(c))
      <3>1. sync'["monitor"] = [pc |-> "pushing", users |-> desired]
        BY <1>0, <2>3, <2>6 DEF Alone, Fetched, Snapshot
      <3> QED
        BY <2>4, <3>1 DEF AgreeInv, At
    <2>7. CASE Alone(Repopulate(c))
      <3>1. /\ At("monitor", "pushing") /\ At("monitor", "pushed")'
            /\ node' = sync["monitor"].users
        BY <1>0, <2>3, <2>7 DEF Alone, Repopulate, Goto, At
      <3> QED
        BY <2>2, <2>4, <3>1 DEF AgreeInv, At
    <2> QED
      BY <1>14, <2>5, <2>6, <2>7
  <1>15. CASE \/ Alone(RestartBackend) \/ Alone(BackendRestarted)
              \/ Alone(AdminSynced) \/ Alone(AdminFails)
    BY <1>15 DEF Alone, RestartBackend, BackendRestarted, AdminSynced,
                 AdminFails, StreamInv, At
  <1>16. CASE UNCHANGED vars
    <2>1. UNCHANGED <<path, desired, node, up, sync, synced>>
      BY <1>16 DEF vars, updateVars, stream, path
    <2> QED
      BY <2>1, PathStutter, AgreeStutter
  <1> QED
    BY <1>1, <1>2, <1>3, <1>4, <1>5, <1>6, <1>7, <1>8, <1>9, <1>10, <1>11,
       <1>12, <1>13, <1>14, <1>15, <1>16 DEF Next, Disturbance, Refused

\* If an outage always lasts until the panel has noticed it, no backend is
\* restarted and no two updates of one user wait for the queue together, then
\* a node held to be synced serves, once nothing is under way, exactly what
\* the database says: for any users and contents, any size of the queue, and
\* whatever updates are lost and pushes refused or interrupted before.
THEOREM SyncedNodesMatch ==
  ASSUME ~BackendRestarts, ~ShortOutages, MaxPending = 1
  PROVE  Spec => []QuiescentMatches
  <1> DEFINE Inv == /\ TypeOK /\ StreamInv
                    /\ \A u \in Users : PathInv(u) /\ AgreeInv(u)
  <1>1. Init => Inv
    BY InitTyped, StreamInit, AgreeInit
  <1>2. Inv /\ [Next]_vars => Inv'
    <2> SUFFICES ASSUME Inv, [Next]_vars PROVE Inv'
      OBVIOUS
    <2>1. TypeOK' /\ StreamInv'
      BY NextTyped, StreamNext
    <2>2. ASSUME NEW u \in Users PROVE PathInv(u)' /\ AgreeInv(u)'
      BY PathNext, AgreeNext
    <2> QED
      BY <2>1, <2>2
  <1>3. Inv => QuiescentMatches
    <2> SUFFICES ASSUME Inv, Quiescent, synced PROVE node = desired
      BY DEF QuiescentMatches
    <2>1. ASSUME NEW u \in Users PROVE node[u] = desired[u]
      <3>1. Quiet(u) /\ up
        BY Empty DEF Quiescent, NothingQueued, Quiet, Pending
      <3> QED
        BY <3>1 DEF AgreeInv
    <2>2. node \in [Users -> Contents] /\ desired \in [Users -> Contents]
      BY DEF TypeOK, UpdatesTypeOK
    <2> QED
      BY <2>1, <2>2
  <1> QED
    BY <1>1, <1>2, <1>3, PTL DEF Spec

=============================================================================
