-------------------------- MODULE NodeGrpcioProofs ---------------------------
(***************************************************************************)
(* Theorems of NodeGrpcio, for any users, contents and bounds.             *)
(***************************************************************************)
EXTENDS NodeGrpcio, NodeUpdatesProofs, SequenceTheorems

(***************************************************************************)
(* Typing.                                                                 *)
(***************************************************************************)

\* A task put in the place of another.
LEMMA TaskReplaced ==
  ASSUME NEW s \in Seq(Task), NEW t \in DOMAIN s, NEW new \in Task
  PROVE  /\ [s EXCEPT ![t] = new] \in Seq(Task)
         /\ Len([s EXCEPT ![t] = new]) = Len(s)
  OBVIOUS

LEMMA TaskRemoved ==
  ASSUME NEW s \in Seq(Task), NEW t \in DOMAIN s
  PROVE  RemoveAt(s, t) \in Seq(Task) /\ Len(RemoveAt(s, t)) = Len(s) - 1
  BY DEF RemoveAt

LEMMA LastRemoved ==
  ASSUME NEW s \in Seq(Task), s # <<>>
  PROVE  Front(s) \in Seq(Task) /\ Len(Front(s)) = Len(s) - 1
  <1> DEFINE n == Len(s) - 1
  <1>1. Len(s) \in Nat \ {0}
    BY EmptySeq
  <1>2. n \in Nat /\ \A i \in 1 .. n : s[i] \in Task
    BY <1>1
  <1>3. Front(s) = SubSeq(s, 1, n)
    BY DEF Front
  <1> HIDE DEF n
  <1>4. /\ SubSeq(s, 1, n) \in Seq(Task)
        /\ Len(SubSeq(s, 1, n)) = IF 1 <= n THEN n - 1 + 1 ELSE 0
    BY <1>2, SubSeqProperties
  <1>5. Len(SubSeq(s, 1, n)) = n
    BY <1>2, <1>4
  <1> QED
    BY <1>3, <1>4, <1>5 DEF n

LEMMA TaskAdded ==
  ASSUME NEW s \in Seq(Task)
  PROVE  /\ Append(s, NewTask) \in Seq(Task)
         /\ Len(Append(s, NewTask)) = Len(s) + 1
         /\ Append(s, NewTask) # <<>>
  <1> DEFINE new == NewTask
  <1>1. new \in Task
    <2>1. <<>> \in Seq(Update)
      OBVIOUS
    <2> QED
      BY <2>1 DEF NewTask, Task
  <1> HIDE DEF new
  <1>2. Append(s, new) \in Seq(Task) /\ Len(Append(s, new)) = Len(s) + 1
    BY <1>1
  <1>3. Len(s) \in Nat /\ Len(<<>>) = 0
    OBVIOUS
  <1> QED
    BY <1>2, <1>3 DEF new

LEMMA TaskFields ==
  ASSUME TypeOK, NEW t \in DOMAIN tasks
  PROVE  /\ tasks[t] \in Task
         /\ tasks[t].held \in Seq(Update)
         /\ tasks[t].link \in {"intact", "broken"}
         /\ tasks[t].wire \in Seq(Update)
         /\ tasks # <<>>
  <1>1. tasks[t] \in Task /\ tasks # <<>>
    BY DEF TypeOK
  <1> QED
    BY <1>1 DEF Task

LEMMA TakeType ==
  ASSUME TypeOK, NEW t \in DOMAIN tasks, Take(t)
  PROVE  TypeOK'
  <1> DEFINE new == [tasks[t] EXCEPT !.held = <<Head(queue)>>]
  <1>1. /\ Head(queue) \in Update
        /\ queue' \in Seq(Update) /\ Len(queue') <= QueueSize
        /\ putting' \in Seq(Update)
        /\ waiting' \in Seq(Update)
    BY GetType DEF TypeOK, Take
  <1>2. UpdatesTypeOK'
    BY <1>1 DEF TypeOK, UpdatesTypeOK, Take
  <1>3. new \in Task
    <2>1. <<Head(queue)>> \in Seq(Update)
      BY <1>1
    <2> QED
      BY <2>1, TaskFields DEF Task
  <1>4. tasks' = [tasks EXCEPT ![t] = new]
    BY DEF Take
  <1>5. tasks' \in Seq(Task) /\ Len(tasks') = Len(tasks)
    BY <1>3, <1>4, TaskReplaced DEF TypeOK
  <1> QED
    BY <1>2, <1>5 DEF TypeOK, Take

LEMMA SendType ==
  ASSUME TypeOK, NEW t \in DOMAIN tasks, Send(t)
  PROVE  TypeOK'
  <1> DEFINE new == [tasks[t] EXCEPT !.wire = @ \o tasks[t].held, !.held = <<>>]
  <1>1. new \in Task
    <2>1. tasks[t].wire \o tasks[t].held \in Seq(Update) /\ <<>> \in Seq(Update)
      BY TaskFields
    <2> QED
      BY <2>1, TaskFields DEF Task
  <1>2. tasks' = [tasks EXCEPT ![t] = new]
    BY DEF Send
  <1>3. tasks' \in Seq(Task) /\ Len(tasks') = Len(tasks)
    BY <1>1, <1>2, TaskReplaced DEF TypeOK
  <1>4. tasks # <<>> => tasks' # <<>>
    BY <1>3, EmptySeq DEF TypeOK
  <1>5. UpdatesTypeOK'
    BY DEF TypeOK, UpdatesTypeOK, Send, updateVars, pipeline
  <1> QED
    BY <1>3, <1>4, <1>5 DEF TypeOK, Send

LEMMA SendFailsType ==
  ASSUME TypeOK, NEW t \in DOMAIN tasks, SendFails(t)
  PROVE  TypeOK'
  <1>1. tasks' \in Seq(Task) /\ Len(tasks') = Len(tasks) - 1
    BY TaskRemoved DEF TypeOK, SendFails
  <1>2. Len(tasks) \in Nat /\ t \in 1 .. Len(tasks)
    BY DEF TypeOK
  <1>3. latest' => tasks' # <<>>
    <2>1. latest' => t # Len(tasks)
      BY DEF SendFails
    <2>2. latest' => Len(tasks') > 0
      BY <1>1, <1>2, <2>1
    <2> QED
      BY <2>2, EmptySeq
  <1>4. latest' \in BOOLEAN /\ watching' \in BOOLEAN
    BY DEF TypeOK, SendFails
  <1>5. UpdatesTypeOK'
    BY DEF TypeOK, UpdatesTypeOK, SendFails, Unhealthy, pipeline
  <1>6. Len(tasks') <= MaxTasks
    BY <1>1, <1>2, GrpcioAssumption DEF TypeOK
  <1> QED
    BY <1>1, <1>3, <1>4, <1>5, <1>6 DEF TypeOK

LEMMA HandleType ==
  ASSUME TypeOK, NEW t \in DOMAIN tasks, Handle(t)
  PROVE  TypeOK'
  <1> DEFINE new == [tasks[t] EXCEPT !.wire = Tail(@)]
             h == Head(tasks[t].wire)
  <1>1. h \in Update /\ Tail(tasks[t].wire) \in Seq(Update)
    BY TaskFields, HeadTail DEF Handle
  <1>2. new \in Task
    BY <1>1, TaskFields DEF Task
  <1>3. tasks' = [tasks EXCEPT ![t] = new]
    BY DEF Handle
  <1>4. tasks' \in Seq(Task) /\ Len(tasks') = Len(tasks)
    BY <1>2, <1>3, TaskReplaced DEF TypeOK
  <1>5. tasks # <<>> => tasks' # <<>>
    BY <1>4, EmptySeq DEF TypeOK
  <1>6. node' \in [Users -> Contents]
    BY <1>1 DEF TypeOK, UpdatesTypeOK, Handle, Update
  <1>7. UpdatesTypeOK'
    BY <1>6 DEF TypeOK, UpdatesTypeOK, Handle, pipeline
  <1> QED
    BY <1>4, <1>5, <1>7 DEF TypeOK, Handle

\* Cancelling the latest task leaves the others.
LEMMA CancelType ==
  ASSUME TypeOK, CancelLatest
  PROVE  /\ tasks' \in Seq(Task) /\ Len(tasks') <= MaxTasks
         /\ ~latest'
  <1>1. CASE latest
    <2>1. tasks # <<>> /\ tasks' = Front(tasks)
      BY <1>1 DEF TypeOK, CancelLatest
    <2>2. tasks' \in Seq(Task) /\ Len(tasks') = Len(tasks) - 1
      BY <2>1, LastRemoved DEF TypeOK
    <2>3. Len(tasks) \in Nat /\ MaxTasks \in Nat
      BY GrpcioAssumption DEF TypeOK
    <2> QED
      BY <2>2, <2>3 DEF TypeOK, CancelLatest
  <1>2. CASE ~latest
    BY <1>2 DEF TypeOK, CancelLatest
  <1> QED
    BY <1>1, <1>2

LEMMA MonitorType ==
  ASSUME TypeOK, SeesReady \/ SeesTrouble \/ MonitorSynced \/ MonitorFails
  PROVE  TypeOK'
  <1>0. "monitor" \in Callers
    BY DEF Callers
  <1>1. CASE SeesReady
    <2>1. sync' \in [Callers -> Sync]
      BY <1>0, <1>1, GotoType DEF TypeOK, UpdatesTypeOK, SeesReady, SyncSteps
    <2> QED
      BY <1>1, <2>1 DEF TypeOK, UpdatesTypeOK, SeesReady, own, pipeline
  <1>2. CASE SeesTrouble
    <2>1. UpdatesTypeOK'
      BY <1>2 DEF TypeOK, UpdatesTypeOK, SeesTrouble, Unhealthy, pipeline
    <2>2. watching' \in BOOLEAN
      BY <1>2 DEF SeesTrouble
    <2>3. CancelLatest /\ latest' = FALSE
      BY <1>2 DEF SeesTrouble, CancelLatest
    <2> QED
      BY <2>1, <2>2, <2>3, CancelType DEF TypeOK
  <1>3. CASE MonitorSynced
    <2>1. sync' \in [Callers -> Sync]
      BY <1>0, <1>3, GotoType DEF TypeOK, UpdatesTypeOK, MonitorSynced, SyncSteps
    <2>2. UpdatesTypeOK'
      BY <1>3, <2>1 DEF TypeOK, UpdatesTypeOK, MonitorSynced, pipeline
    <2>3. tasks' \in Seq(Task) /\ Len(tasks') = Len(tasks) + 1 /\ tasks' # <<>>
      BY <1>3, TaskAdded DEF TypeOK, MonitorSynced
    <2>4. Len(tasks) < MaxTasks /\ Len(tasks) \in Nat /\ MaxTasks \in Nat
      BY <1>3, GrpcioAssumption DEF TypeOK, MonitorSynced
    <2>5. latest' \in BOOLEAN /\ watching' \in BOOLEAN
      BY <1>3 DEF TypeOK, UpdatesTypeOK, MonitorSynced
    <2> QED
      BY <2>2, <2>3, <2>4, <2>5 DEF TypeOK
  <1>4. CASE MonitorFails
    <2>1. sync' \in [Callers -> Sync]
      BY <1>0, <1>4, GotoType DEF TypeOK, UpdatesTypeOK, MonitorFails, SyncSteps
    <2>2. UpdatesTypeOK'
      BY <1>4, <2>1 DEF TypeOK, UpdatesTypeOK, MonitorFails, Unhealthy, pipeline
    <2>3. watching' \in BOOLEAN
      BY <1>4 DEF TypeOK, UpdatesTypeOK, MonitorFails
    <2>4. CancelLatest /\ latest' = FALSE
      BY <1>4 DEF MonitorFails, CancelLatest
    <2> QED
      BY <2>2, <2>3, <2>4, CancelType DEF TypeOK
  <1> QED
    BY <1>1, <1>2, <1>3, <1>4

\* A lost connection breaks every stream.
LEMMA BrokenTask ==
  ASSUME NEW k \in Task
  PROVE  [k EXCEPT !.link = "broken", !.wire = <<>>] \in Task
  <1>1. <<>> \in Seq(Update)
    OBVIOUS
  <1> QED
    BY <1>1 DEF Task

LEMMA WorldType ==
  ASSUME TypeOK, GoesDown \/ ComesUp \/ PanelRestarts
  PROVE  TypeOK'
  <1>1. CASE GoesDown
    <2> DEFINE broken(k) == [k EXCEPT !.link = "broken", !.wire = <<>>]
    <2>1. sync' \in [Callers -> Sync]
      BY <1>1, InterruptedType DEF TypeOK, UpdatesTypeOK, GoesDown
    <2>2. node' \in [Users -> Contents]
      BY <1>1, NobodyType DEF TypeOK, UpdatesTypeOK, GoesDown
    <2>3. UpdatesTypeOK'
      BY <1>1, <2>1, <2>2 DEF TypeOK, UpdatesTypeOK, GoesDown, pipeline
    <2>4. \A t \in DOMAIN tasks : broken(tasks[t]) \in Task
      BY TaskFields, BrokenTask
    <2>5. tasks' = [t \in DOMAIN tasks |-> broken(tasks[t])]
      BY <1>1 DEF GoesDown
    <2> HIDE DEF broken
    <2>6. Len(tasks) \in Nat /\ DOMAIN tasks = 1 .. Len(tasks)
      BY DEF TypeOK
    <2>7. tasks' \in Seq(Task) /\ Len(tasks') = Len(tasks)
      <3>1. tasks' \in [1 .. Len(tasks) -> Task]
        BY <2>4, <2>5, <2>6
      <3>2. tasks' \in Seq(Task)
        BY <2>6, <3>1, SeqDef
      <3>3. DOMAIN tasks' = 1 .. Len(tasks') /\ Len(tasks') \in Nat
        BY <3>2, LenProperties
      <3> QED
        BY <2>6, <3>1, <3>2, <3>3
    <2>8. tasks # <<>> => tasks' # <<>>
      BY <2>7, EmptySeq DEF TypeOK
    <2> QED
      BY <1>1, <2>3, <2>7, <2>8 DEF TypeOK, GoesDown
  <1>2. CASE ComesUp
    BY <1>2 DEF TypeOK, UpdatesTypeOK, ComesUp, pipeline
  <1>3. CASE PanelRestarts
    <2>1. UpdatesTypeOK'
      BY <1>3, ResetType DEF TypeOK, PanelRestarts
    <2>2. tasks' \in Seq(Task) /\ Len(tasks') <= MaxTasks
      <3>1. <<>> \in Seq(Task) /\ Len(<<>>) = 0
        OBVIOUS
      <3> QED
        BY <1>3, <3>1, GrpcioAssumption DEF PanelRestarts
    <2> QED
      BY <1>3, <2>1, <2>2 DEF TypeOK, PanelRestarts
  <1> QED
    BY <1>1, <1>2, <1>3

\* A step that the two clients share leaves the rest of this one alone.
LEMMA AloneType ==
  ASSUME TypeOK, UpdatesTypeOK', UNCHANGED own
  PROVE  TypeOK'
  BY DEF TypeOK, own

LEMMA AdminType ==
  ASSUME TypeOK, Alone(AdminFails) \/ Alone(AdminTimesOut)
  PROVE  TypeOK'
  <1>1. sync' \in [Callers -> Sync]
    BY GotoType
       DEF TypeOK, UpdatesTypeOK, Alone, AdminFails, AdminTimesOut, SyncSteps, Callers
  <1>2. UpdatesTypeOK'
    BY <1>1 DEF TypeOK, UpdatesTypeOK, Alone, AdminFails, AdminTimesOut, Unhealthy, pipeline
  <1> QED
    BY <1>2, AloneType DEF Alone

LEMMA InitTyped == Init => TypeOK
  <1> SUFFICES ASSUME Init PROVE TypeOK
    OBVIOUS
  <1>1. <<>> \in Seq(Task) /\ Len(<<>>) = 0
    OBVIOUS
  <1>2. tasks \in Seq(Task) /\ Len(tasks) <= MaxTasks
    BY <1>1, GrpcioAssumption DEF Init
  <1> QED
    BY <1>2, UpdatesInitType DEF Init, TypeOK

LEMMA NextTyped == TypeOK /\ [Next]_vars => TypeOK'
  <1> SUFFICES ASSUME TypeOK, [Next]_vars PROVE TypeOK'
    OBVIOUS
  <1>1. ASSUME NEW u \in Users, NEW c \in Contents, Alone(Change(u, c))
        PROVE  TypeOK'
    BY <1>1, ChangeType, AloneType DEF Alone, TypeOK
  <1>2. CASE Alone(Put)
    BY <1>2, PutType, AloneType DEF Alone, TypeOK
  <1>3. ASSUME NEW c \in Callers,
               \/ Alone(Refuse(c)) \/ Alone(Fetched(c)) \/ Alone(Repopulate(c))
        PROVE  TypeOK'
    BY <1>3, SyncStepType, AloneType DEF Alone, TypeOK
  <1>4. CASE Alone(RestartBackend) \/ Alone(BackendRestarted) \/ Alone(AdminSynced)
    <2>1. "admin" \in Callers
      BY DEF Callers
    <2> QED
      BY <1>4, <2>1, SyncStepType, AloneType DEF Alone, TypeOK
  <1>5. CASE Alone(AdminFails) \/ Alone(AdminTimesOut)
    BY <1>5, AdminType
  <1>6. CASE GoesDown \/ ComesUp \/ PanelRestarts
    BY <1>6, WorldType
  <1>7. ASSUME NEW t \in DOMAIN tasks, TaskStep(t)
        PROVE  TypeOK'
    BY <1>7, TakeType, SendType, SendFailsType, HandleType DEF TaskStep
  <1>8. CASE SeesReady \/ SeesTrouble \/ MonitorSynced \/ MonitorFails
    BY <1>8, MonitorType
  <1>9. CASE UNCHANGED vars
    BY <1>9 DEF vars, updateVars, pipeline, TypeOK, UpdatesTypeOK
  <1> QED
    BY <1>1, <1>2, <1>3, <1>4, <1>5, <1>6, <1>7, <1>8, <1>9
       DEF Next, Disturbance, Refused

\* The variables of the grpcio client stay well typed; its queue never
\* exceeds its size, and if it has a task to cancel, that task is alive.
THEOREM TypeCorrect == Spec => []TypeOK
  <1> QED
    BY InitTyped, NextTyped, PTL DEF Spec

-----------------------------------------------------------------------------
(* Status.                                                                 *)

\* A node shown unhealthy is never held to be synced, whatever the node, the
\* monitor, the streaming tasks and restart_backend do and in whatever order.
THEOREM UnhealthyNeverSynced == Spec => []UnhealthyIsUnsynced
  <1>1. Init => UnhealthyIsUnsynced
    BY DEF Init, UpdatesInit, UnhealthyIsUnsynced
  <1>2. UnhealthyIsUnsynced /\ [Next]_vars => UnhealthyIsUnsynced'
    <2> SUFFICES ASSUME UnhealthyIsUnsynced, [Next]_vars PROVE UnhealthyIsUnsynced'
      OBVIOUS
    <2> USE DEF UnhealthyIsUnsynced
    <2>1. ASSUME NEW u \in Users, NEW c \in Contents, Alone(Change(u, c))
          PROVE  UnhealthyIsUnsynced'
      BY <2>1 DEF Alone, Change
    <2>2. ASSUME NEW t \in DOMAIN tasks, TaskStep(t)
          PROVE  UnhealthyIsUnsynced'
      BY <2>2 DEF TaskStep, Take, Send, SendFails, Unhealthy, Handle, updateVars
    <2>3. ASSUME NEW c \in Callers,
                 \/ Alone(Refuse(c)) \/ Alone(Fetched(c)) \/ Alone(Repopulate(c))
          PROVE  UnhealthyIsUnsynced'
      BY <2>3 DEF Alone, Refuse, Fetched, Repopulate
    <2>4. CASE \/ Alone(RestartBackend) \/ Alone(BackendRestarted)
               \/ Alone(AdminSynced) \/ Alone(AdminFails) \/ Alone(AdminTimesOut)
      BY <2>4 DEF Alone, RestartBackend, BackendRestarted, AdminSynced,
                  AdminFails, AdminTimesOut, Unhealthy
    <2>5. CASE Alone(Put)
      BY <2>5 DEF Alone, Put
    <2>6. CASE GoesDown \/ ComesUp \/ PanelRestarts
      BY <2>6 DEF GoesDown, ComesUp, PanelRestarts, UpdatesReset
    <2>7. CASE SeesReady \/ SeesTrouble \/ MonitorSynced \/ MonitorFails
      BY <2>7 DEF SeesReady, SeesTrouble, MonitorSynced, MonitorFails, Unhealthy
    <2>8. CASE UNCHANGED vars
      BY <2>8 DEF vars, updateVars
    <2> QED
      BY <2>1, <2>2, <2>3, <2>4, <2>5, <2>6, <2>7, <2>8
         DEF Next, Disturbance, Refused
  <1> QED
    BY <1>1, <1>2, PTL DEF Spec

-----------------------------------------------------------------------------
(* The streaming task, where the monitor sees every change of the channel  *)
(* and no admin restarts a backend: one is alive exactly while the node is *)
(* synced, and then the monitor waits, or the channel has just been lost.  *)

TaskInv ==
    /\ At("admin", "idle")
    /\ tasks # <<>> =>
         /\ Len(tasks) = 1
         /\ latest
         /\ At("monitor", "idle")
         /\ watching <=> up
    /\ synced <=> tasks # <<>>

LEMMA TaskInit == Init => TaskInv
  BY DEF Init, UpdatesInit, TaskInv, At, Fresh, Callers

\* The only task is replaced, or it ends.
LEMMA OneTask ==
  ASSUME TypeOK, TaskInv, NEW t \in DOMAIN tasks
  PROVE  Len(tasks) = 1 /\ t = 1 /\ tasks # <<>>
  <1>1. tasks # <<>> /\ t \in 1 .. Len(tasks)
    BY DEF TypeOK
  <1> QED
    BY <1>1 DEF TaskInv

LEMMA TaskNext ==
  ASSUME ~BackendRestarts, ~BlindFlips, TypeOK, TypeOK', TaskInv, [Next]_vars
  PROVE  TaskInv'
  <1> USE DEF TaskInv, At
  <1>0. /\ "monitor" \in Callers /\ "admin" \in Callers
        /\ sync \in [Callers -> Sync]
        /\ tasks \in Seq(Task) /\ tasks' \in Seq(Task)
    BY DEF Callers, TypeOK, UpdatesTypeOK
  <1>e. \A s \in Seq(Task) : Len(s) \in Nat /\ (s = <<>> <=> Len(s) = 0)
    BY EmptySeq
  <1>1. ASSUME NEW u \in Users, NEW c \in Contents, Alone(Change(u, c))
        PROVE  TaskInv'
    BY <1>1 DEF Alone, Change, own
  <1>2. CASE Alone(Put)
    BY <1>2 DEF Alone, Put, own
  <1>3. ASSUME NEW t \in DOMAIN tasks, TaskStep(t)
        PROVE  TaskInv'
    <2>0. Len(tasks) = 1 /\ t = 1 /\ tasks # <<>>
      BY OneTask
    <2>1. CASE Take(t) \/ Send(t) \/ Handle(t)
      <3>1. Len(tasks') = Len(tasks)
        <4>1. \E new : tasks' = [tasks EXCEPT ![t] = new]
          BY <2>1 DEF Take, Send, Handle
        <4>2. DOMAIN tasks' = DOMAIN tasks
          BY <4>1
        <4> QED
          BY <1>0, <4>2, LenProperties
      <3>2. /\ tasks' # <<>>
            /\ UNCHANGED <<sync, synced, up, latest, watching>>
        BY <1>0, <1>e, <2>0, <2>1, <3>1 DEF Take, Send, Handle, updateVars
      <3> QED
        BY <2>0, <3>1, <3>2
    <2>2. CASE SendFails(t)
      <3>1. Len(tasks') = 0
        BY <2>0, <2>2, TaskRemoved DEF TypeOK, SendFails
      <3>2. tasks' = <<>> /\ ~synced'
        BY <1>0, <1>e, <2>2, <3>1 DEF SendFails, Unhealthy
      <3> QED
        BY <2>2, <3>2 DEF SendFails
    <2> QED
      BY <1>3, <2>1, <2>2 DEF TaskStep
  <1>4. ASSUME NEW c \in Callers,
               \/ Alone(Refuse(c)) \/ Alone(Fetched(c)) \/ Alone(Repopulate(c))
        PROVE  TaskInv'
    <2>1. c = "monitor" /\ sync["monitor"].pc # "idle"
      BY <1>4 DEF Alone, Refuse, Fetched, Repopulate, Callers
    <2> QED
      BY <1>0, <1>4, <2>1 DEF Alone, Refuse, Fetched, Repopulate, Goto, own
  <1>5. CASE \/ Alone(RestartBackend) \/ Alone(BackendRestarted) \/ Alone(AdminSynced)
             \/ Alone(AdminFails) \/ Alone(AdminTimesOut)
    BY <1>5 DEF Alone, RestartBackend, BackendRestarted, AdminSynced,
                AdminFails, AdminTimesOut
  <1>6. CASE SeesReady
    BY <1>0, <1>6 DEF SeesReady, Looking, Goto, own
  <1>7. ASSUME CancelLatest PROVE tasks' = <<>>
    <2>1. CASE tasks = <<>>
      BY <1>7, <2>1 DEF CancelLatest, TypeOK
    <2>2. CASE tasks # <<>>
      <3>1. tasks' = Front(tasks) /\ Len(tasks) = 1
        BY <1>7, <2>2 DEF CancelLatest
      <3>2. Len(tasks') = 0
        BY <1>0, <2>2, <3>1, LastRemoved
      <3> QED
        BY <1>0, <1>e, <3>2
    <2> QED
      BY <2>1, <2>2
  <1>8. CASE SeesTrouble
    BY <1>7, <1>8 DEF SeesTrouble, Unhealthy
  <1>9. CASE MonitorSynced
    <2>1. tasks = <<>>
      BY <1>9 DEF MonitorSynced
    <2>2. Len(tasks') = 1 /\ tasks' # <<>>
      <3>1. Len(tasks) = 0
        BY <2>1
      <3> QED
        BY <1>0, <1>9, <3>1, TaskAdded DEF MonitorSynced
    <2> QED
      BY <1>0, <1>9, <2>2 DEF MonitorSynced, Goto
  <1>10. CASE MonitorFails
    BY <1>0, <1>7, <1>10 DEF MonitorFails, Unhealthy, Goto
  <1>11. CASE GoesDown
    <2>1. /\ sync'["admin"].pc = "idle"
          /\ sync["monitor"].pc = "idle" => sync'["monitor"].pc = "idle"
      BY <1>0, <1>11 DEF GoesDown, Interrupted
    <2>2. Len(tasks') = Len(tasks)
      <3>1. DOMAIN tasks' = DOMAIN tasks
        BY <1>11 DEF GoesDown
      <3> QED
        BY <1>0, <3>1, LenProperties
    <2>3. tasks' = <<>> <=> tasks = <<>>
      BY <1>0, <1>e, <2>2
    <2> QED
      BY <1>11, <2>1, <2>2, <2>3 DEF GoesDown
  <1>12. CASE ComesUp
    BY <1>12 DEF ComesUp
  <1>13. CASE PanelRestarts
    BY <1>0, <1>13 DEF PanelRestarts, UpdatesReset, Fresh
  <1>14. CASE UNCHANGED vars
    BY <1>14 DEF vars, updateVars
  <1> QED
    BY <1>1, <1>2, <1>3, <1>4, <1>5, <1>6, <1>8, <1>9, <1>10, <1>11,
       <1>12, <1>13, <1>14 DEF Next, Disturbance, Refused

\* As long as no backend is restarted and the monitor sees every change of
\* the channel, a node held to be synced has exactly one streaming task.
THEOREM SyncedStreams ==
  ASSUME ~BackendRestarts, ~BlindFlips
  PROVE  Spec => []SyncedIsStreamed
  <1>1. TypeOK /\ TypeOK' /\ TaskInv /\ [Next]_vars => TaskInv'
    BY TaskNext
  <1>2. TaskInv => SyncedIsStreamed
    BY DEF TaskInv, SyncedIsStreamed
  <1> QED
    BY <1>1, <1>2, TaskInit, TypeCorrect, PTL DEF Spec

-----------------------------------------------------------------------------
(* What the streaming task holds and what is on its stream, under the same *)
(* assumptions: there is one task, or none.                                *)

Held == IF tasks = <<>> THEN <<>> ELSE tasks[1].held
Wire == IF tasks = <<>> THEN <<>> ELSE tasks[1].wire

LinkInv ==
    /\ watching => At("monitor", "idle")
    /\ tasks # <<>> =>
         /\ Len(tasks[1].held) <= 1
         /\ tasks[1].link = "intact" <=> up
         /\ ~up => tasks[1].wire = <<>>

LEMMA HeldType ==
  ASSUME TypeOK
  PROVE  Held \in Seq(Update) /\ Wire \in Seq(Update)
  <1>1. CASE tasks = <<>>
    BY <1>1 DEF Held, Wire
  <1>2. CASE tasks # <<>>
    <2>1. 1 \in DOMAIN tasks
      <3>1. Len(tasks) \in Nat \ {0} /\ DOMAIN tasks = 1 .. Len(tasks)
        BY <1>2, EmptySeq DEF TypeOK
      <3> QED
        BY <3>1
    <2> QED
      BY <1>2, <2>1, TaskFields DEF Held, Wire
  <1> QED
    BY <1>1, <1>2

\* A task's step is a step of the only one.
LEMMA OnlyTask ==
  ASSUME TypeOK, TaskInv, NEW t \in DOMAIN tasks, NEW new,
         tasks' = [tasks EXCEPT ![t] = new]
  PROVE  /\ t = 1 /\ tasks # <<>> /\ tasks' # <<>> /\ tasks'[1] = new
         /\ Held = tasks[1].held /\ Wire = tasks[1].wire
         /\ Held' = new.held /\ Wire' = new.wire
  <1>1. t = 1 /\ tasks # <<>>
    BY OneTask
  <1>2. 1 \in DOMAIN tasks' /\ tasks'[1] = new
    BY <1>1
  <1>3. tasks' # <<>>
    BY <1>2
  <1> QED
    BY <1>1, <1>2, <1>3 DEF Held, Wire

LEMMA TakeOnly ==
  ASSUME TypeOK, TaskInv, NEW t \in DOMAIN tasks, Take(t)
  PROVE  /\ Held = <<>> /\ Held' = <<Head(queue)>> /\ Wire' = Wire
         /\ tasks # <<>> /\ tasks'[1].link = tasks[1].link
  <1> DEFINE new == [tasks[t] EXCEPT !.held = <<Head(queue)>>]
  <1>1. tasks' = [tasks EXCEPT ![t] = new] /\ tasks[t].held = <<>>
    BY DEF Take, Waits
  <1>2. /\ new.held = <<Head(queue)>> /\ new.wire = tasks[t].wire
        /\ new.link = tasks[t].link
    BY TaskFields DEF Task
  <1> HIDE DEF new
  <1> QED
    BY <1>1, <1>2, OnlyTask

LEMMA SendOnly ==
  ASSUME TypeOK, TaskInv, NEW t \in DOMAIN tasks, Send(t)
  PROVE  /\ Held # <<>> /\ Held' = <<>> /\ Wire' = Wire \o Held
         /\ tasks # <<>> /\ tasks[1].link = "intact"
         /\ tasks'[1].link = "intact"
  <1> DEFINE new == [tasks[t] EXCEPT !.wire = @ \o tasks[t].held, !.held = <<>>]
  <1>1. /\ tasks' = [tasks EXCEPT ![t] = new] /\ tasks[t].held # <<>>
        /\ tasks[t].link = "intact"
    BY DEF Send, Waits
  <1>2. /\ new.held = <<>> /\ new.wire = tasks[t].wire \o tasks[t].held
        /\ new.link = tasks[t].link
    BY TaskFields DEF Task
  <1> HIDE DEF new
  <1> QED
    BY <1>1, <1>2, OnlyTask

LEMMA HandleOnly ==
  ASSUME TypeOK, TaskInv, NEW t \in DOMAIN tasks, Handle(t)
  PROVE  /\ Wire # <<>> /\ Wire' = Tail(Wire) /\ Held' = Held
         /\ node' = [node EXCEPT ![Head(Wire).user] = Head(Wire).inbounds]
         /\ tasks # <<>> /\ tasks'[1].link = tasks[1].link
  <1> DEFINE new == [tasks[t] EXCEPT !.wire = Tail(@)]
  <1>1. /\ tasks' = [tasks EXCEPT ![t] = new] /\ tasks[t].wire # <<>>
        /\ node' = [node EXCEPT ![Head(tasks[t].wire).user]
                                   = Head(tasks[t].wire).inbounds]
    BY DEF Handle
  <1>2. /\ new.held = tasks[t].held /\ new.wire = Tail(tasks[t].wire)
        /\ new.link = tasks[t].link
    BY TaskFields DEF Task
  <1> HIDE DEF new
  <1>3. /\ t = 1 /\ tasks # <<>> /\ tasks'[1] = new
        /\ Held = tasks[1].held /\ Wire = tasks[1].wire
        /\ Held' = new.held /\ Wire' = new.wire
    BY <1>1, OnlyTask
  <1> QED
    BY <1>1, <1>2, <1>3

\* Where the task ends, what it held and what was on its stream are lost.
LEMMA TasksEnd ==
  ASSUME TypeOK, TypeOK', TaskInv, TaskInv', ~synced'
  PROVE  tasks' = <<>> /\ Held' = <<>> /\ Wire' = <<>>
  BY DEF TaskInv, Held, Wire

LEMMA TasksStay ==
  ASSUME UNCHANGED tasks
  PROVE  Held' = Held /\ Wire' = Wire
  BY DEF Held, Wire

LEMMA MonitorSyncedOnly ==
  ASSUME TypeOK, TypeOK', TaskInv, MonitorSynced
  PROVE  /\ tasks = <<>> /\ tasks'[1] = NewTask
         /\ Held = <<>> /\ Wire = <<>> /\ Held' = <<>> /\ Wire' = <<>>
  <1> DEFINE new == NewTask
  <1>1. tasks = <<>> /\ tasks' = Append(tasks, new)
    BY DEF MonitorSynced, TaskInv, At
  <1>2. new.held = <<>> /\ new.wire = <<>>
    BY DEF NewTask
  <1> HIDE DEF new
  <1>3. tasks'[1] = new /\ tasks' # <<>>
    BY <1>1
  <1> QED
    BY <1>1, <1>2, <1>3 DEF Held, Wire, new

LEMMA GoesDownOnly ==
  ASSUME TypeOK, GoesDown
  PROVE  /\ Held' = Held /\ Wire' = <<>>
         /\ tasks' # <<>> => /\ tasks'[1].held = tasks[1].held
                             /\ tasks'[1].link = "broken"
                             /\ tasks'[1].wire = <<>>
                             /\ tasks # <<>>
  <1>1. tasks' = [t \in DOMAIN tasks |->
                    [tasks[t] EXCEPT !.link = "broken", !.wire = <<>>]]
    BY DEF GoesDown
  <1>2. CASE tasks = <<>>
    BY <1>1, <1>2 DEF Held, Wire
  <1>3. CASE tasks # <<>>
    <2>1. 1 \in DOMAIN tasks
      <3>1. Len(tasks) \in Nat \ {0} /\ DOMAIN tasks = 1 .. Len(tasks)
        BY <1>3, EmptySeq DEF TypeOK
      <3> QED
        BY <3>1
    <2>2. /\ tasks'[1].held = tasks[1].held /\ tasks'[1].link = "broken"
          /\ tasks'[1].wire = <<>>
      BY <1>1, <2>1, TaskFields DEF Task
    <2>3. tasks' # <<>>
      <3>1. DOMAIN tasks' = DOMAIN tasks
        BY <1>1
      <3>2. DOMAIN <<>> = {}
        OBVIOUS
      <3> QED
        BY <2>1, <3>1, <3>2
    <2> QED
      BY <1>3, <2>2, <2>3 DEF Held, Wire
  <1> QED
    BY <1>2, <1>3

\* The connection comes back to a client that has noticed it was gone.
LEMMA ComesUpOnly ==
  ASSUME ~BlindFlips, TaskInv, LinkInv, ComesUp
  PROVE  tasks = <<>> /\ ~synced /\ At("monitor", "idle")
  BY DEF ComesUp, TaskInv, LinkInv

LEMMA LinkInit == Init => LinkInv
  BY DEF Init, LinkInv

LEMMA LinkNext ==
  ASSUME ~BackendRestarts, ~BlindFlips, TypeOK, TypeOK', TaskInv, TaskInv',
         LinkInv, [Next]_vars
  PROVE  LinkInv'
  <1>0. "monitor" \in Callers /\ sync \in [Callers -> Sync]
    BY DEF Callers, TypeOK, UpdatesTypeOK
  <1>1. CASE UNCHANGED <<up, sync, own>>
    BY <1>1 DEF LinkInv, At, own
  <1>2. CASE \/ \E u \in Users, c \in Contents : Alone(Change(u, c))
             \/ Alone(Put) \/ UNCHANGED vars
    BY <1>1, <1>2 DEF Alone, Change, Put, vars, updateVars, own
  <1>3. ASSUME NEW c \in Callers,
               \/ Alone(Refuse(c)) \/ Alone(Fetched(c)) \/ Alone(Repopulate(c))
        PROVE  LinkInv'
    <2>1. c = "monitor" /\ ~At("monitor", "idle")
      BY <1>3 DEF Alone, Refuse, Fetched, Repopulate, Callers, TaskInv, At
    <2>2. ~watching' /\ tasks' = tasks /\ up' = up
      BY <1>3, <2>1 DEF Alone, Refuse, Fetched, Repopulate, own, LinkInv
    <2> QED
      BY <2>2 DEF LinkInv
  <1>4. CASE \/ Alone(RestartBackend) \/ Alone(BackendRestarted)
             \/ Alone(AdminSynced) \/ Alone(AdminFails) \/ Alone(AdminTimesOut)
    BY <1>4 DEF Alone, RestartBackend, BackendRestarted, AdminSynced,
                AdminFails, AdminTimesOut, TaskInv, At
  <1>5. ASSUME NEW t \in DOMAIN tasks, Take(t)
        PROVE  LinkInv'
    <2>1. /\ UNCHANGED <<up, sync, watching>> /\ tasks # <<>>
          /\ tasks'[1].link = tasks[1].link
          /\ Held' = <<Head(queue)>> /\ Wire' = Wire
      BY <1>5, TakeOnly DEF Take
    <2>2. Len(Held') <= 1
      BY <2>1
    <2> QED
      BY <2>1, <2>2 DEF LinkInv, Held, Wire, At
  <1>6. ASSUME NEW t \in DOMAIN tasks, Send(t)
        PROVE  LinkInv'
    <2>1. /\ UNCHANGED <<up, sync, watching>> /\ tasks # <<>>
          /\ tasks[1].link = "intact" /\ tasks'[1].link = "intact"
          /\ Held' = <<>>
      BY <1>6, SendOnly DEF Send, updateVars
    <2>2. Len(Held') <= 1
      BY <2>1
    <2> QED
      BY <2>1, <2>2 DEF LinkInv, Held, At
  <1>7. ASSUME NEW t \in DOMAIN tasks, Handle(t)
        PROVE  LinkInv'
    <2>1. /\ UNCHANGED <<up, sync, watching>> /\ tasks # <<>>
          /\ tasks'[1].link = tasks[1].link
          /\ Held' = Held /\ Wire # <<>>
      BY <1>7, HandleOnly DEF Handle
    <2> QED
      BY <2>1 DEF LinkInv, Held, Wire, At
  <1>8. ASSUME NEW t \in DOMAIN tasks, SendFails(t)
        PROVE  LinkInv'
    <2>1. ~synced' /\ UNCHANGED <<sync, watching>>
      BY <1>8 DEF SendFails, Unhealthy
    <2> QED
      BY <2>1, TasksEnd DEF LinkInv, At
  <1>9. CASE SeesReady
    BY <1>9 DEF SeesReady, Looking, LinkInv, own
  <1>10. CASE SeesTrouble
    <2>1. ~synced' /\ sync' = sync /\ At("monitor", "idle")
      BY <1>10 DEF SeesTrouble, Unhealthy, Looking
    <2> QED
      BY <2>1, TasksEnd DEF LinkInv, At
  <1>11. CASE MonitorSynced
    <2>1. At("monitor", "idle")' /\ up' = up
      BY <1>0, <1>11 DEF MonitorSynced, Goto, At
    <2>2. tasks'[1] = NewTask
      BY <1>11, MonitorSyncedOnly
    <2>3. /\ NewTask.held = <<>> /\ NewTask.wire = <<>> /\ Len(<<>>) <= 1
          /\ NewTask.link = "intact" <=> up
      BY DEF NewTask
    <2> QED
      BY <2>1, <2>2, <2>3 DEF LinkInv
  <1>12. CASE MonitorFails
    <2>1. ~synced' /\ At("monitor", "idle")'
      BY <1>0, <1>12 DEF MonitorFails, Unhealthy, Goto, At
    <2> QED
      BY <2>1, TasksEnd DEF LinkInv
  <1>13. CASE GoesDown
    BY <1>13, GoesDownOnly DEF LinkInv, GoesDown
  <1>14. CASE ComesUp
    BY <1>14, ComesUpOnly DEF LinkInv, ComesUp
  <1>15. CASE PanelRestarts
    BY <1>15 DEF LinkInv, PanelRestarts
  <1> QED
    BY <1>2, <1>3, <1>4, <1>5, <1>6, <1>7, <1>8, <1>9, <1>10, <1>11, <1>12,
       <1>13, <1>14, <1>15 DEF Next, Disturbance, Refused, TaskStep

-----------------------------------------------------------------------------
(* The way of an update: from pending to the queue, to the streaming task, *)
(* to the wire, to the node.  Where a user's way is empty from some stage  *)
(* on, the last update before it is the current one.                       *)

PathInv(u) ==
    /\ AllAre(putting, u, desired[u]) /\ AllAre(waiting, u, desired[u])
    /\ ~Pending(u) => LastIs(queue, u, desired[u])
    /\ ~Pending(u) /\ ~In(queue, u) => AllAre(Held, u, desired[u])
    /\ ~Pending(u) /\ ~In(queue, u) /\ ~In(Held, u)
         => LastIs(Wire, u, desired[u])

\* Nothing is under way for the user.
Quiet(u) == ~Pending(u) /\ ~In(queue, u) /\ ~In(Held, u) /\ ~In(Wire, u)

\* Then the database, the push in progress and the node agree about it.
AgreeInv(u) ==
    Quiet(u) =>
      /\ synced /\ up => node[u] = desired[u]
      /\ At("monitor", "pushing") => sync["monitor"].users[u] = desired[u]
      /\ At("monitor", "pushed") /\ up => node[u] = desired[u]

\* The variables that PathInv and Quiet are about.
path == <<desired, pipeline, Held, Wire>>

LEMMA PathStutter ==
  ASSUME NEW u \in Users, UNCHANGED path
  PROVE  (PathInv(u)' <=> PathInv(u)) /\ (Quiet(u)' <=> Quiet(u))
  BY DEF path, pipeline, PathInv, Quiet, Pending, In, AllAre, LastIs

LEMMA PathChange ==
  ASSUME TypeOK, MaxPending = 1, NEW u \in Users, PathInv(u),
         NEW v \in Users, NEW c \in Contents, Alone(Change(v, c))
  PROVE  PathInv(u)' /\ (Quiet(u)' => Quiet(u) /\ desired'[u] = desired[u])
  <1> DEFINE e == [user |-> v, inbounds |-> c]
  <1>1. e \in Update /\ e.user = v /\ e.inbounds = c
    BY DEF Update
  <1>2. /\ putting' = Append(putting, e)
        /\ UNCHANGED <<waiting, queue, Held, Wire>>
        /\ desired' = [desired EXCEPT ![v] = c]
    BY TasksStay DEF Alone, Change, own
  <1> HIDE DEF e
  <1>3. putting \in Seq(Update) /\ desired \in [Users -> Contents]
    BY DEF TypeOK, UpdatesTypeOK
  <1>4. \A d : /\ In(putting', u) <=> (In(putting, u) \/ v = u)
               /\ AllAre(putting', u, d) <=> (AllAre(putting, u, d) /\ (v = u => c = d))
    BY <1>1, <1>2, <1>3, Appended
  <1>5. CASE u = v
    <2>1. ~Pending(u)
      BY <1>5, NotPending DEF TypeOK, Alone, Change
    <2>2. AllAre(putting, u, c) /\ AllAre(waiting, u, c)
      BY <2>1 DEF Pending, In, AllAre
    <2>3. desired'[u] = c
      BY <1>2, <1>3, <1>5
    <2>4. Pending(u)'
      BY <1>4, <1>5 DEF Pending
    <2> QED
      BY <1>2, <1>4, <1>5, <2>2, <2>3, <2>4 DEF PathInv, Quiet
  <1>6. CASE u # v
    <2>1. desired'[u] = desired[u]
      BY <1>2, <1>3, <1>6
    <2>2. Pending(u)' <=> Pending(u)
      BY <1>2, <1>4, <1>6 DEF Pending
    <2> QED
      BY <1>2, <1>4, <1>6, <2>1, <2>2 DEF PathInv, Quiet
  <1> QED
    BY <1>5, <1>6

LEMMA PathPut ==
  ASSUME TypeOK, NEW u \in Users, PathInv(u), Alone(Put)
  PROVE  PathInv(u)' /\ (Quiet(u)' => Quiet(u))
  <1> DEFINE h == Head(putting)
             d == desired[u]
  <1>1. /\ putting \in Seq(Update) /\ putting # <<>>
        /\ waiting \in Seq(Update) /\ queue \in Seq(Update)
        /\ h \in Update
    BY HeadTail DEF TypeOK, UpdatesTypeOK, Alone, Put
  <1>2. putting' = Tail(putting) /\ UNCHANGED <<desired, Held, Wire>>
    BY TasksStay DEF Alone, Put, own
  <1>3. /\ In(putting, u) <=> (h.user = u \/ In(putting', u))
        /\ AllAre(putting, u, d) <=>
             ((h.user = u => h.inbounds = d) /\ AllAre(putting', u, d))
    BY <1>1, <1>2, Headed
  <1>4. h.user = u => h.inbounds = d
    BY <1>3 DEF PathInv
  <1>5. CASE HasRoom
    <2>1. queue' = Append(queue, h) /\ waiting' = waiting
      BY <1>5 DEF Alone, Put
    <2> HIDE DEF h, d
    <2>2. /\ In(queue', u) <=> (In(queue, u) \/ h.user = u)
          /\ (IF h.user = u THEN h.inbounds = d ELSE LastIs(queue, u, d))
               => LastIs(queue', u, d)
      BY <1>1, <2>1, Appended
    <2>3. ~Pending(u)' => h.user = u \/ ~Pending(u)
      BY <1>3, <2>1 DEF Pending
    <2>4. ~Pending(u)' => LastIs(queue', u, d)
      BY <1>4, <2>2, <2>3 DEF PathInv, d
    <2>5. ~Pending(u)' /\ ~In(queue', u) => ~Pending(u) /\ ~In(queue, u)
      BY <2>2, <2>3
    <2> QED
      BY <1>2, <1>3, <2>1, <2>4, <2>5 DEF PathInv, Quiet, d
  <1>6. CASE ~HasRoom
    <2>1. waiting' = Append(waiting, h) /\ queue' = queue
      BY <1>6 DEF Alone, Put
    <2> HIDE DEF h, d
    <2>2. /\ In(waiting', u) <=> (In(waiting, u) \/ h.user = u)
          /\ AllAre(waiting', u, d) <=>
               (AllAre(waiting, u, d) /\ (h.user = u => h.inbounds = d))
      BY <1>1, <2>1, Appended
    <2>3. Pending(u)' <=> Pending(u)
      BY <1>3, <2>2 DEF Pending
    <2> QED
      BY <1>2, <1>3, <1>4, <2>1, <2>2, <2>3 DEF PathInv, Quiet, d
  <1> QED
    BY <1>5, <1>6

LEMMA PathTake ==
  ASSUME TypeOK, TaskInv, NEW u \in Users, PathInv(u),
         NEW t \in DOMAIN tasks, Take(t)
  PROVE  PathInv(u)' /\ (Quiet(u)' => Quiet(u))
  <1> DEFINE h == Head(queue)
             d == desired[u]
  <1>1. queue \in Seq(Update) /\ queue # <<>> /\ h \in Update
    BY HeadTail DEF TypeOK, UpdatesTypeOK, Take, Get
  <1>2. /\ queue' = Tail(queue) /\ Held = <<>> /\ Held' = <<h>>
        /\ UNCHANGED <<desired, Wire>>
    BY TakeOnly DEF Take, Get
  <1>3. /\ Pending(u)' <=> Pending(u)
        /\ AllAre(putting, u, d) /\ AllAre(waiting, u, d) =>
             AllAre(putting', u, d) /\ AllAre(waiting', u, d)
    BY GetPending DEF TypeOK, Take
  <1> HIDE DEF h, d
  <1>4. /\ In(queue, u) <=> (h.user = u \/ In(queue', u))
        /\ LastIs(queue, u, d) =>
             /\ LastIs(queue', u, d)
             /\ h.user = u /\ ~In(queue', u) => h.inbounds = d
    BY <1>1, <1>2, Headed DEF h
  <1>5. /\ In(Held', u) <=> h.user = u
        /\ AllAre(Held', u, d) <=> (h.user = u => h.inbounds = d)
    BY <1>1, <1>2, Single
  <1>6. ~In(Held, u)
    BY <1>2 DEF In
  <1> QED
    BY <1>2, <1>3, <1>4, <1>5, <1>6 DEF PathInv, Quiet, d

LEMMA PathSend ==
  ASSUME TypeOK, TaskInv, LinkInv, NEW u \in Users, PathInv(u),
         NEW t \in DOMAIN tasks, Send(t)
  PROVE  PathInv(u)' /\ (Quiet(u)' => Quiet(u))
  <1> DEFINE h == Held[1]
             d == desired[u]
  <1>1. Held \in Seq(Update) /\ Held # <<>> /\ Len(Held) <= 1 /\ Wire \in Seq(Update)
    BY HeldType, SendOnly DEF LinkInv, Held
  <1>2. h \in Update /\ Held = <<h>>
    <2>1. Len(Held) = 1
      <3>1. Len(Held) \in Nat \ {0} /\ Len(Held) <= 1
        BY <1>1, EmptySeq
      <3>2. \A n \in Nat \ {0} : n <= 1 => n = 1
        OBVIOUS
      <3> QED
        BY <3>1, <3>2
    <2>2. h \in Update
      BY <1>1, <2>1
    <2>3. Held \in Seq(Update) /\ <<h>> \in Seq(Update) /\ Len(<<h>>) = 1
      BY <1>1, <2>2
    <2>4. Held[1] = <<h>>[1]
      OBVIOUS
    <2> QED
      BY <2>1, <2>2, <2>3, <2>4, SeqEqual
  <1>3. /\ Held' = <<>> /\ Wire' = Wire \o Held
        /\ UNCHANGED <<desired, pipeline>>
    BY SendOnly DEF Send, updateVars
  <1> HIDE DEF h, d
  <1>4. Wire' = Append(Wire, h)
    BY <1>1, <1>2, <1>3
  <1>5. /\ In(Wire', u) <=> (In(Wire, u) \/ h.user = u)
        /\ (IF h.user = u THEN h.inbounds = d ELSE LastIs(Wire, u, d))
             => LastIs(Wire', u, d)
    BY <1>1, <1>2, <1>4, Appended
  <1>6. /\ In(Held, u) <=> h.user = u
        /\ AllAre(Held, u, d) <=> (h.user = u => h.inbounds = d)
    BY <1>2, Single
  <1>7. ~In(Held', u) /\ AllAre(Held', u, d)
    BY <1>3, Empty
  <1>8. (Pending(u)' <=> Pending(u)) /\ (In(queue', u) <=> In(queue, u))
    BY <1>3 DEF pipeline, Pending
  <1> QED
    BY <1>3, <1>5, <1>6, <1>7, <1>8 DEF PathInv, Quiet, pipeline, d

\* Losing what is held and what is on the wire keeps the rest in order.
LEMMA PathLoss ==
  ASSUME NEW u \in Users, PathInv(u), UNCHANGED <<desired, pipeline>>,
         Held' \in {Held, <<>>}, Wire' \in {Wire, <<>>},
         Held' = Held \/ Wire' = <<>>
  PROVE  PathInv(u)'
  <1>1. /\ ~In(<<>>, u) /\ AllAre(<<>>, u, desired[u]) /\ LastIs(<<>>, u, desired[u])
    BY Empty
  <1>2. (Pending(u)' <=> Pending(u)) /\ (In(queue', u) <=> In(queue, u))
    BY DEF pipeline, Pending
  <1>3. /\ desired' = desired /\ putting' = putting
        /\ waiting' = waiting /\ queue' = queue
    BY DEF pipeline
  <1>4. CASE Held' = Held
    BY <1>1, <1>2, <1>3, <1>4 DEF PathInv
  <1>5. CASE Held' = <<>> /\ Wire' = <<>>
    BY <1>1, <1>2, <1>3, <1>5 DEF PathInv
  <1> QED
    BY <1>4, <1>5

LEMMA PathHandle ==
  ASSUME TypeOK, TaskInv, NEW u \in Users, PathInv(u),
         NEW t \in DOMAIN tasks, Handle(t)
  PROVE  /\ PathInv(u)'
         /\ Quiet(u)' => IF Head(Wire).user = u THEN node'[u] = desired'[u]
                         ELSE Quiet(u) /\ node'[u] = node[u]
  <1> DEFINE h == Head(Wire)
             d == desired[u]
  <1>1. Wire \in Seq(Update) /\ Wire # <<>> /\ h \in Update
    BY HeadTail, HeldType, HandleOnly
  <1>2. /\ Wire' = Tail(Wire) /\ UNCHANGED <<desired, pipeline, Held>>
        /\ node' = [node EXCEPT ![h.user] = h.inbounds]
    BY HandleOnly DEF Handle
  <1>3. node \in [Users -> Contents]
    BY DEF TypeOK, UpdatesTypeOK
  <1> HIDE DEF h, d
  <1>4. /\ In(Wire, u) <=> (h.user = u \/ In(Wire', u))
        /\ LastIs(Wire, u, d) =>
             /\ LastIs(Wire', u, d)
             /\ h.user = u /\ ~In(Wire', u) => h.inbounds = d
    BY <1>1, <1>2, Headed DEF h
  <1>5. /\ Pending(u)' <=> Pending(u)
        /\ In(queue', u) <=> In(queue, u)
        /\ In(Held', u) <=> In(Held, u)
    BY <1>2 DEF pipeline, Pending
  <1>6. PathInv(u)'
    BY <1>2, <1>4, <1>5 DEF PathInv, pipeline, d
  <1>7. ASSUME Quiet(u)', h.user = u PROVE node'[u] = desired'[u]
    <2>1. h.inbounds = d
      BY <1>4, <1>5, <1>7 DEF PathInv, Quiet, d
    <2> QED
      BY <1>2, <1>3, <1>7, <2>1 DEF d
  <1>8. ASSUME Quiet(u)', h.user # u PROVE Quiet(u) /\ node'[u] = node[u]
    BY <1>2, <1>3, <1>4, <1>5, <1>8 DEF Quiet
  <1> QED
    BY <1>6, <1>7, <1>8 DEF h

LEMMA AgreeInit ==
  ASSUME Init, NEW u \in Users
  PROVE  PathInv(u) /\ AgreeInv(u)
  <1>1. /\ ~In(<<>>, u) /\ AllAre(<<>>, u, desired[u]) /\ LastIs(<<>>, u, desired[u])
    BY Empty
  <1>2. ~synced /\ At("monitor", "idle")
    BY DEF Init, UpdatesInit, At, Fresh, Callers
  <1> QED
    BY <1>1, <1>2 DEF Init, UpdatesInit, PathInv, AgreeInv, At, Held, Wire

LEMMA PathNext ==
  ASSUME ~BackendRestarts, ~BlindFlips, MaxPending = 1, TypeOK, TypeOK',
         TaskInv, TaskInv', LinkInv, NEW u \in Users, PathInv(u), [Next]_vars
  PROVE  PathInv(u)'
  <1>1. ASSUME NEW v \in Users, NEW c \in Contents, Alone(Change(v, c))
        PROVE  PathInv(u)'
    BY <1>1, PathChange
  <1>2. CASE Alone(Put)
    BY <1>2, PathPut
  <1>3. ASSUME NEW t \in DOMAIN tasks, Take(t) \/ Send(t) \/ Handle(t)
        PROVE  PathInv(u)'
    BY <1>3, PathTake, PathSend, PathHandle
  <1>4. CASE \/ \E t \in DOMAIN tasks : SendFails(t)
             \/ SeesTrouble \/ MonitorFails
    <2>1. ~synced' /\ UNCHANGED <<desired, pipeline>>
      BY <1>4 DEF SendFails, SeesTrouble, MonitorFails, Unhealthy
    <2>2. Held' = <<>> /\ Wire' = <<>>
      BY <2>1, TasksEnd
    <2> QED
      BY <2>1, <2>2, PathLoss
  <1>5. CASE GoesDown
    <2>1. Held' = Held /\ Wire' = <<>> /\ UNCHANGED <<desired, pipeline>>
      BY <1>5, GoesDownOnly DEF GoesDown
    <2> QED
      BY <2>1, PathLoss
  <1>6. CASE PanelRestarts
    <2>1. /\ ~In(<<>>, u) /\ AllAre(<<>>, u, desired[u]) /\ LastIs(<<>>, u, desired[u])
      BY Empty
    <2>2. /\ putting' = <<>> /\ waiting' = <<>> /\ queue' = <<>>
          /\ desired' = desired /\ ~synced'
      BY <1>6 DEF PanelRestarts, UpdatesReset
    <2>3. Held' = <<>> /\ Wire' = <<>>
      BY <2>2, TasksEnd
    <2> QED
      BY <2>1, <2>2, <2>3 DEF PathInv
  <1>7. CASE MonitorSynced
    <2>1. UNCHANGED path
      BY <1>7, MonitorSyncedOnly DEF MonitorSynced, path
    <2> QED
      BY <2>1, PathStutter
  <1>8. CASE \/ \E c \in Callers : \/ Alone(Refuse(c)) \/ Alone(Fetched(c))
                                   \/ Alone(Repopulate(c))
             \/ SeesReady \/ ComesUp \/ UNCHANGED vars
    <2>1. UNCHANGED <<desired, pipeline, tasks>>
      BY <1>8 DEF Alone, Refuse, Fetched, Repopulate, SeesReady, ComesUp,
                  own, pipeline, vars, updateVars
    <2>2. UNCHANGED path
      BY <2>1, TasksStay DEF path
    <2> QED
      BY <2>2, PathStutter
  <1>9. CASE \/ Alone(RestartBackend) \/ Alone(BackendRestarted)
             \/ Alone(AdminSynced) \/ Alone(AdminFails) \/ Alone(AdminTimesOut)
    BY <1>9 DEF Alone, RestartBackend, BackendRestarted, AdminSynced,
                AdminFails, AdminTimesOut, TaskInv, At
  <1> QED
    BY <1>1, <1>2, <1>3, <1>4, <1>5, <1>6, <1>7, <1>8, <1>9
       DEF Next, Disturbance, Refused, TaskStep

\* What AgreeInv speaks of besides the user's path.
LEMMA AgreeStutter ==
  ASSUME NEW u \in Users, AgreeInv(u), Quiet(u)' => Quiet(u),
         Quiet(u)' => desired'[u] = desired[u],
         UNCHANGED <<node, up, sync, synced>>
  PROVE  AgreeInv(u)'
  BY DEF AgreeInv, At

LEMMA AgreeNext ==
  ASSUME ~BackendRestarts, ~BlindFlips, MaxPending = 1, TypeOK, TypeOK',
         TaskInv, TaskInv', LinkInv, NEW u \in Users, PathInv(u), AgreeInv(u),
         [Next]_vars
  PROVE  AgreeInv(u)'
  <1>0. "monitor" \in Callers /\ sync \in [Callers -> Sync]
    BY DEF Callers, TypeOK, UpdatesTypeOK
  <1>1. ASSUME NEW v \in Users, NEW c \in Contents, Alone(Change(v, c))
        PROVE  AgreeInv(u)'
    <2>1. Quiet(u)' => Quiet(u) /\ desired'[u] = desired[u]
      BY <1>1, PathChange
    <2> QED
      BY <1>1, <2>1, AgreeStutter DEF Alone, Change
  <1>2. CASE Alone(Put)
    BY <1>2, PathPut, AgreeStutter DEF Alone, Put
  <1>3. ASSUME NEW t \in DOMAIN tasks, Take(t)
        PROVE  AgreeInv(u)'
    <2>1. Quiet(u)' => Quiet(u)
      BY <1>3, PathTake
    <2> QED
      BY <1>3, <2>1, AgreeStutter DEF Take
  <1>4. ASSUME NEW t \in DOMAIN tasks, Send(t)
        PROVE  AgreeInv(u)'
    <2>1. Quiet(u)' => Quiet(u)
      BY <1>4, PathSend
    <2> QED
      BY <1>4, <2>1, AgreeStutter DEF Send, updateVars
  <1>5. ASSUME NEW t \in DOMAIN tasks, Handle(t)
        PROVE  AgreeInv(u)'
    <2>1. At("monitor", "idle")
      BY <1>5, OneTask DEF TaskInv
    <2>2. sync' = sync /\ up' = up /\ synced' = synced /\ desired' = desired
      BY <1>5 DEF Handle
    <2>3. Quiet(u)' => IF Head(Wire).user = u THEN node'[u] = desired'[u]
                       ELSE Quiet(u) /\ node'[u] = node[u]
      BY <1>5, PathHandle
    <2> QED
      BY <2>1, <2>2, <2>3 DEF AgreeInv, At
  <1>6. ASSUME NEW t \in DOMAIN tasks, SendFails(t)
        PROVE  AgreeInv(u)'
    <2>1. At("monitor", "idle") /\ sync' = sync /\ ~synced'
      BY <1>6, OneTask DEF TaskInv, SendFails, Unhealthy
    <2> QED
      BY <2>1 DEF AgreeInv, At
  <1>7. CASE SeesTrouble \/ MonitorFails \/ PanelRestarts
    <2>1. ~synced'
      BY <1>7 DEF SeesTrouble, MonitorFails, Unhealthy, PanelRestarts, UpdatesReset
    <2>2. At("monitor", "idle")'
      <3>1. CASE SeesTrouble
        BY <3>1 DEF SeesTrouble, Looking, At
      <3>2. CASE MonitorFails
        BY <1>0, <3>2 DEF MonitorFails, Goto, At, Sync
      <3>3. CASE PanelRestarts
        BY <1>0, <3>3 DEF PanelRestarts, UpdatesReset, Fresh, At
      <3> QED
        BY <1>7, <3>1, <3>2, <3>3
    <2> QED
      BY <2>1, <2>2 DEF AgreeInv, At
  <1>8. CASE GoesDown
    <2>1. ~up' /\ Interrupted
      BY <1>8 DEF GoesDown
    <2>2. ~At("monitor", "pushing")'
      BY <1>0, <2>1 DEF Interrupted, At
    <2> QED
      BY <2>1, <2>2 DEF AgreeInv
  <1>9. CASE ComesUp
    <2>1. ~synced /\ At("monitor", "idle") /\ UNCHANGED <<sync, synced>>
      BY <1>9, ComesUpOnly DEF ComesUp
    <2> QED
      BY <2>1 DEF AgreeInv, At
  <1>10. CASE SeesReady
    <2>1. ~synced' /\ At("monitor", "fetching")'
      <3>1. synced' = synced /\ tasks' = tasks
        BY <1>10 DEF SeesReady, own
      <3>2. At("monitor", "fetching")'
        BY <1>0, <1>10 DEF SeesReady, Goto, At, Sync
      <3> QED
        BY <3>1, <3>2 DEF TaskInv, At
    <2> QED
      BY <2>1 DEF AgreeInv, At
  <1>11. CASE MonitorSynced
    <2>1. UNCHANGED <<desired, node, up, path>>
      BY <1>11, MonitorSyncedOnly DEF MonitorSynced, path
    <2>2. Quiet(u)' <=> Quiet(u)
      BY <2>1, PathStutter
    <2>3. At("monitor", "pushed") /\ At("monitor", "idle")'
      BY <1>0, <1>11 DEF MonitorSynced, Goto, At
    <2> QED
      BY <2>1, <2>2, <2>3 DEF AgreeInv, At
  <1>12. ASSUME NEW c \in Callers,
               \/ Alone(Refuse(c)) \/ Alone(Fetched(c)) \/ Alone(Repopulate(c))
        PROVE  AgreeInv(u)'
    <2>1. UNCHANGED <<desired, pipeline, tasks>>
      BY <1>12 DEF Alone, Refuse, Fetched, Repopulate, own
    <2>2. UNCHANGED path
      BY <2>1, TasksStay DEF path
    <2>3. Quiet(u)' <=> Quiet(u)
      BY <2>2, PathStutter
    <2>4. c = "monitor" /\ ~At("monitor", "idle")
      BY <1>12 DEF Alone, Refuse, Fetched, Repopulate, Callers, TaskInv, At
    <2>5. ~synced /\ UNCHANGED <<desired, up, synced>>
      BY <1>12, <2>4 DEF Alone, Refuse, Fetched, Repopulate, TaskInv
    <2>6. CASE Alone(Refuse(c))
      <3>1. At("monitor", "failed")'
        BY <1>0, <2>4, <2>6 DEF Alone, Refuse, Goto, At
      <3> QED
        BY <2>5, <3>1 DEF AgreeInv, At
    <2>7. CASE Alone(Fetched(c))
      <3>1. sync'["monitor"] = [pc |-> "pushing", users |-> desired]
        BY <1>0, <2>4, <2>7 DEF Alone, Fetched, Snapshot
      <3> QED
        BY <2>5, <3>1 DEF AgreeInv, At
    <2>8. CASE Alone(Repopulate(c))
      <3>1. /\ At("monitor", "pushing") /\ At("monitor", "pushed")'
            /\ node' = sync["monitor"].users
        BY <1>0, <2>4, <2>8 DEF Alone, Repopulate, Goto, At
      <3> QED
        BY <2>3, <2>5, <3>1 DEF AgreeInv, At
    <2> QED
      BY <1>12, <2>6, <2>7, <2>8
  <1>13. CASE \/ Alone(RestartBackend) \/ Alone(BackendRestarted)
              \/ Alone(AdminSynced) \/ Alone(AdminFails) \/ Alone(AdminTimesOut)
    BY <1>13 DEF Alone, RestartBackend, BackendRestarted, AdminSynced,
                 AdminFails, AdminTimesOut, TaskInv, At
  <1>14. CASE UNCHANGED vars
    <2>1. UNCHANGED <<desired, pipeline, tasks, node, up, sync, synced>>
      BY <1>14 DEF vars, updateVars
    <2>2. UNCHANGED path
      BY <2>1, TasksStay DEF path
    <2> QED
      BY <2>1, <2>2, PathStutter, AgreeStutter
  <1> QED
    BY <1>1, <1>2, <1>3, <1>4, <1>5, <1>6, <1>7, <1>8, <1>9, <1>10, <1>11,
       <1>12, <1>13, <1>14 DEF Next, Disturbance, Refused, TaskStep

\* If the monitor sees every change of the channel, no backend is restarted
\* and no two updates of one user wait for the queue together, then a node
\* held to be synced serves, once nothing is under way, exactly what the
\* database says: for any users and contents, any size of the queue, any
\* number of messages in flight, and whatever updates are lost and pushes
\* refused or interrupted before (grpcio.py, _updates_queue and _sync).
THEOREM SyncedNodesMatch ==
  ASSUME ~BackendRestarts, ~BlindFlips, MaxPending = 1
  PROVE  Spec => []QuiescentMatches
  <1> DEFINE Inv == /\ TypeOK /\ TaskInv /\ LinkInv
                    /\ \A u \in Users : PathInv(u) /\ AgreeInv(u)
  <1>1. Init => Inv
    BY InitTyped, TaskInit, LinkInit, AgreeInit
  <1>2. Inv /\ [Next]_vars => Inv'
    <2> SUFFICES ASSUME Inv, [Next]_vars PROVE Inv'
      OBVIOUS
    <2>1. TypeOK'
      BY NextTyped
    <2>2. TaskInv'
      BY <2>1, TaskNext
    <2>3. LinkInv'
      BY <2>1, <2>2, LinkNext
    <2>4. ASSUME NEW u \in Users PROVE PathInv(u)' /\ AgreeInv(u)'
      BY <2>1, <2>2, PathNext, AgreeNext
    <2> QED
      BY <2>1, <2>2, <2>3, <2>4
  <1>3. Inv => QuiescentMatches
    <2> SUFFICES ASSUME Inv, Quiescent, synced PROVE node = desired
      BY DEF QuiescentMatches
    <2>1. Held = <<>> /\ Wire = <<>>
      <3>1. 1 \in DOMAIN tasks
        BY DEF TaskInv, TypeOK
      <3> QED
        BY <3>1 DEF Quiescent, Waits, Held, Wire
    <2>2. ASSUME NEW u \in Users PROVE node[u] = desired[u]
      <3>1. Quiet(u) /\ up
        BY <2>1, Empty DEF Quiescent, NothingQueued, Quiet, Pending
      <3> QED
        BY <3>1 DEF AgreeInv
    <2>3. node \in [Users -> Contents] /\ desired \in [Users -> Contents]
      BY DEF TypeOK, UpdatesTypeOK
    <2> QED
      BY <2>2, <2>3
  <1> QED
    BY <1>1, <1>2, <1>3, PTL DEF Spec

=============================================================================
