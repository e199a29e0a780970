------------------------ MODULE VMLifecycleProofs ------------------------
(***************************************************************************)
(* For any set of VMs and handlers: the state keeps its shape, and          *)
(* LifecycleInv is inductive.  With one snapshotter, and a limit loop that  *)
(* takes no VM that somebody may wake, so is SettledInv; then the VMs are   *)
(* settled at rest and go through SleepCycle.                               *)
(*                                                                          *)
(* The many steps of VMLifecycle do few different things to the variables   *)
(* of an invariant; each kind of effect has a lemma.                        *)
(***************************************************************************)
EXTENDS VMLifecycle, TLAPS

Windows == [VM -> {"none", "open", "elapsed"}]
PollLocals == [stage : {"idle", "limit"}, seen : SUBSET VM,
               todo : SUBSET VM, due : SUBSET VM]

Tasks == [Task -> [op : Handler \cup {"none"}, pc : Pcs, vm : VM \cup {NoVM}]]

\* Moving on, returning and starting keep the task table a task table.
LEMMA TasksType ==
    ASSUME task \in Tasks, NEW t \in Task
    PROVE  /\ \A p \in Pcs : GoTo(t, p) => task' \in Tasks
           /\ Return(t) => task' \in Tasks
           /\ \A o \in Handler, p \in Pcs, v \in VM :
                 task' = [task EXCEPT ![t] = [op |-> o, pc |-> p, vm |-> v]]
                    => task' \in Tasks
BY DEF Tasks, GoTo, Return, Idle, Pcs, Handler

\* Nor does forgetting a due VM break the local variables of a poll.
LEMMA ForgetType ==
    ASSUME NEW p \in PollLocals, NEW v
    PROVE  [p EXCEPT !.due = @ \ {v}] \in PollLocals
BY DEF PollLocals

\* So does the end of a wake, for its leader and all joiners at once.
LEMMA SettleType ==
    ASSUME TypeOK, NEW t \in Task, NEW v \in VM, Settle(t, v)
    PROVE  task' \in Tasks /\ pendingWakes' \in SUBSET VM
BY DEF TypeOK, Tasks, Settle, Idle, Pcs

\* What the loop leaves in trafficMap is again a map of windows.
LEMMA SweepsType ==
    ASSUME NEW p \in PollLocals, NEW w \in Windows,
           NEW R \in SUBSET VM, NEW guard \in SUBSET VM,
           NEW w2 \in Sweeps(p, w, R, guard)
    PROVE  w2 \in Windows
BY DEF Sweeps, Windows, PollLocals

\* The part of a poll between two snapshots keeps the types.
LEMMA ScanType ==
    ASSUME TypeOK, NEW t \in Task, NEW p \in PollLocals, NEW w \in Windows,
           NEW guard \in SUBSET VM, Scan(t, p, w, guard)
    PROVE  /\ overLimit' \in SUBSET VM
           /\ window' \in Windows
           /\ snapshottingSet' \in SUBSET VM
           /\ task' \in [Task -> [op : Handler \cup {"none"}, pc : Pcs, vm : VM \cup {NoVM}]]
           /\ poll' \in [Task -> PollLocals]
<1> USE DEF PollLocals
<1>0. /\ poll \in [Task -> PollLocals] /\ overLimit \in SUBSET VM
      /\ task \in [Task -> [op : Handler \cup {"none"}, pc : Pcs, vm : VM \cup {NoVM}]]
  BY DEF TypeOK
<1>1. ASSUME NEW q \in PollLocals, NEW w2 \in Windows, NEW v \in VM,
             Victim(t, v, q, w2, guard)
      PROVE  /\ window' \in Windows
             /\ snapshottingSet' \in SUBSET VM
             /\ task' \in [Task -> [op : Handler \cup {"none"}, pc : Pcs, vm : VM \cup {NoVM}]]
             /\ poll' \in [Task -> PollLocals]
  BY <1>0, <1>1 DEF Victim, Handler, Pcs, SnapPcs
<1>2. CASE NextIdle(t, p, w, guard)
  <2>0. PICK v \in p.todo : \E R \in SUBSET (p.todo \ {v}) :
             \E w2 \in Sweeps(p, w, R, guard) :
                Victim(t, v, [p EXCEPT !.todo = @ \ (R \cup {v})], w2, guard)
    BY <1>2 DEF NextIdle, Unguarded
  <2>1. PICK R \in SUBSET (p.todo \ {v}) :
             \E w2 \in Sweeps(p, w, R, guard) :
                Victim(t, v, [p EXCEPT !.todo = @ \ (R \cup {v})], w2, guard)
    BY <2>0
  <2>2. PICK w2 \in Sweeps(p, w, R, guard) :
                Victim(t, v, [p EXCEPT !.todo = @ \ (R \cup {v})], w2, guard)
    BY <2>1
  <2>3. w2 \in Windows /\ v \in VM /\ [p EXCEPT !.todo = @ \ (R \cup {v})] \in PollLocals
    BY <2>2, SweepsType
  <2> QED BY <1>0, <1>1, <1>2, <2>2, <2>3 DEF NextIdle
<1>3. CASE NextOverLimit(t, p, w, guard)
  <2>0. overLimit' \in SUBSET VM
    BY <1>0, <1>3 DEF NextOverLimit, Record
  <2>1. ASSUME NEW q \in PollLocals, NEW w2 \in Windows, VisitOver(t, q, w2, guard)
        PROVE  /\ window' \in Windows
               /\ snapshottingSet' \in SUBSET VM
               /\ task' \in [Task -> [op : Handler \cup {"none"}, pc : Pcs, vm : VM \cup {NoVM}]]
               /\ poll' \in [Task -> PollLocals]
    <3>1. PICK v \in q.todo, R \in SUBSET q.todo :
               Victim(t, v, [q EXCEPT !.stage = "limit", !.todo = @ \ (R \cup {v})], w2, guard)
      BY <2>1 DEF VisitOver, Unguarded
    <3>2. v \in VM /\ [q EXCEPT !.stage = "limit", !.todo = @ \ (R \cup {v})] \in PollLocals
      BY <3>1
    <3> QED BY <1>1, <3>1, <3>2
  <2>2. CASE p.stage = "idle"
    <3>1. PICK w2 \in Sweeps(p, w, p.todo, guard) :
               VisitOver(t, [p EXCEPT !.todo = p.seen], w2, guard)
      BY <1>3, <2>2 DEF NextOverLimit
    <3>2. w2 \in Windows /\ [p EXCEPT !.todo = p.seen] \in PollLocals
      BY <3>1, SweepsType
    <3> QED BY <2>0, <2>1, <3>1, <3>2
  <2>3. CASE p.stage = "limit"
    BY <1>3, <2>0, <2>1, <2>3 DEF NextOverLimit
  <2> QED BY <2>2, <2>3
<1>4. CASE PollEnds(t, p, w, guard)
  <2>1. overLimit' \in SUBSET VM
    BY <1>0, <1>4 DEF PollEnds, Record
  <2>2. PICK w2 \in IF p.stage = "idle" THEN Sweeps(p, w, p.todo, guard) ELSE {w} :
             window' = [u \in VM |-> IF u \in p.seen THEN w2[u] ELSE "none"]
    BY <1>4 DEF PollEnds
  <2>3. w2 \in Windows
    BY <2>2, SweepsType
  <2>4. window' \in Windows
    BY <2>2, <2>3 DEF Windows
  <2> QED BY <1>0, <1>4, <2>1, <2>4 DEF PollEnds, Return, Idle, NoPoll, Pcs, Handler
<1> QED BY <1>2, <1>3, <1>4 DEF Scan

-----------------------------------------------------------------------------
(* Every step keeps the types; one lemma per kind of step.                 *)

LEMMA InitType == Init => TypeOK
BY BoundAssumption, NoVMAssumption
   DEF Init, TypeOK, Status, Unit, Idle, NoPoll, NoAnswer, Pcs, Handler

LEMMA WakeType ==
    ASSUME TypeOK, NEW t \in Task, NEW v \in VM, EnsureVMRunning(t, v),
           UNCHANGED restarts
    PROVE  TypeOK'
<1> USE DEF TypeOK, db, host, memory
<1>1. CASE AlreadyRunning(t, v)
  BY <1>1 DEF AlreadyRunning, AnswerOk
<1>2. CASE StaleRunning(t, v)
  BY <1>2 DEF StaleRunning, AnswerOk
<1>3. CASE WakeRefused(t, v)
  BY <1>3 DEF WakeRefused
<1>4. CASE JoinWake(t, v)
  BY <1>4 DEF JoinWake, Quiet, NoAnswer, Handler, Pcs
<1>5. CASE StartWake(t, v)
  <2>1. status' \in [VM -> Status]
    BY <1>5 DEF StartWake, SetStatus, Status
  <2>2. fc' \in [VM -> Unit] /\ tap' \in [VM -> BOOLEAN]
    BY <1>5 DEF StartWake, Unit
  <2>3. task' \in Tasks
    <3>1. task \in Tasks /\ "wake" \in Handler /\ {"load", "setup"} \subseteq Pcs
      BY DEF Tasks, Handler, Pcs, BootPcs
    <3>2. PICK p \in {"load", "setup"} :
             task' = [task EXCEPT ![t] = [op |-> "wake", pc |-> p, vm |-> v]]
      <4>1. CASE files[v]
        BY <1>5, <4>1 DEF StartWake
      <4>2. CASE ~files[v]
        BY <1>5, <4>2 DEF StartWake
      <4> QED BY <4>1, <4>2
    <3> QED BY <3>1, <3>2, TasksType
  <2> QED BY <1>5, <2>1, <2>2, <2>3 DEF StartWake, Quiet, NoAnswer, Tasks
<1>6. CASE WakeRejected(t, v)
  BY <1>6 DEF WakeRejected, SetStatus, Status
<1> QED BY <1>1, <1>2, <1>3, <1>4, <1>5, <1>6 DEF EnsureVMRunning

LEMMA BootType ==
    ASSUME TypeOK, NEW t \in Task, NEW v \in VM, Boot(t, v), UNCHANGED restarts
    PROVE  TypeOK'
<1> USE DEF TypeOK, db, host, memory, Quiet, NoAnswer
<1>0. task \in Tasks /\ BootPcs \subseteq Pcs
  BY DEF Tasks, Pcs
<1>1. CASE Quiet /\ LaunchUnit(t, v)
  <2>1. task' \in Tasks
    BY <1>0, <1>1, TasksType DEF LaunchUnit, BootPcs
  <2> QED BY <1>1, <2>1 DEF LaunchUnit, Unit, Tasks
<1>2. CASE Quiet /\ LoadSnapshot(t, v)
  <2>1. task' \in Tasks
    BY <1>0, <1>2, TasksType DEF LoadSnapshot, BootPcs
  <2> QED BY <1>2, <2>1 DEF LoadSnapshot, Unit, Tasks
<1>3. CASE Quiet /\ StartGuest(t, v)
  <2>1. task' \in Tasks
    BY <1>0, <1>3, TasksType DEF StartGuest, BootPcs
  <2> QED BY <1>3, <2>1 DEF StartGuest, Unit, Tasks
<1>4. CASE BootReady(t, v)
  <2>1. task' \in Tasks
    BY <1>0, <1>4, TasksType DEF BootReady, BootPcs
  <2>2. status' \in [VM -> Status]
    BY <1>4 DEF BootReady, SetStatus, Status
  <2>3. files' \in [VM -> BOOLEAN]
    BY <1>4 DEF BootReady, At
  <2> QED BY <1>4, <2>1, <2>2, <2>3 DEF BootReady, Tasks
<1>5. CASE WakeFinish(t, v)
  BY <1>5, SettleType DEF WakeFinish, AnswerOk, Tasks
<1>6. CASE BootFails(t, v)
  <2>1. fc' \in [VM -> Unit]
    BY <1>6 DEF BootFails, PartialBoot, Unit
  <2>2. tap' \in [VM -> BOOLEAN]
    BY <1>6 DEF BootFails, PartialBoot, At
  <2>3. CASE task[t].op = "wake"
    <3>1. status' \in [VM -> Status]
      BY <1>6, <2>3, SMTT(30) DEF BootFails, MarkError, SetStatus, Status
    <3>2. task' \in Tasks /\ pendingWakes' \in SUBSET VM
      BY <1>0, <1>6, <2>3, SettleType DEF BootFails
    <3> QED BY <1>6, <2>1, <2>2, <2>3, <3>1, <3>2 DEF BootFails, Tasks
  <2>4. CASE task[t].op # "wake"
    <3>1. status' \in [VM -> Status] /\ files' \in [VM -> BOOLEAN]
      BY <1>6, <2>4 DEF BootFails, Status
    <3>2. task' \in Tasks
      BY <1>0, <1>6, <2>4, TasksType DEF BootFails
    <3> QED BY <1>6, <2>1, <2>2, <2>4, <3>1, <3>2 DEF BootFails, Tasks
  <2> QED BY <2>3, <2>4
<1> QED BY <1>1, <1>2, <1>3, <1>4, <1>5, <1>6 DEF Boot

LEMMA SnapshotType ==
    ASSUME TypeOK, NEW t \in Task, NEW v \in VM, Snapshot(t, v), UNCHANGED restarts
    PROVE  TypeOK'
<1> USE DEF TypeOK, db, host, memory, GoTo, Return, Idle, Quiet, NoAnswer, Pcs, SnapPcs
<1>0. Quiet
  BY DEF Snapshot
<1>1. CASE PauseGuest(t, v)
  <2>1. task' \in Tasks
    BY <1>1, TasksType DEF PauseGuest, Tasks
  <2> QED BY <1>0, <1>1, <2>1 DEF PauseGuest, Unit, Tasks
<1>2. CASE CreateSnapshot(t, v)
  <2>1. task' \in Tasks
    BY <1>2, TasksType DEF CreateSnapshot, Tasks
  <2> QED BY <1>0, <1>2, <2>1 DEF CreateSnapshot, Tasks
<1>3. CASE KillGuest(t, v)
  <2>1. task' \in Tasks
    BY <1>3, TasksType DEF KillGuest, Tasks
  <2> QED BY <1>0, <1>3, <2>1 DEF KillGuest, Unit, Tasks
<1>5. CASE SnapshotDone(t, v)
  <2>1. status' \in [VM -> Status]
    BY <1>5 DEF SnapshotDone, SetStatus, Status
  <2>2. CASE task[t].op = "poll"
    <3>1. /\ poll[t] \in PollLocals
          /\ [window EXCEPT ![v] = "none"] \in Windows
          /\ ReleaseGuard(v, snapshottingSet) \in SUBSET VM
      BY DEF PollLocals, Windows, ReleaseGuard
    <3>2. Scan(t, poll[t], [window EXCEPT ![v] = "none"], ReleaseGuard(v, snapshottingSet))
      BY <1>5, <2>2 DEF SnapshotDone
    <3> HIDE DEF TypeOK
    <3>3. /\ overLimit' \in SUBSET VM
          /\ window' \in Windows
          /\ snapshottingSet' \in SUBSET VM
          /\ task' \in [Task -> [op : Handler \cup {"none"}, pc : Pcs, vm : VM \cup {NoVM}]]
          /\ poll' \in [Task -> PollLocals]
      BY <3>1, <3>2, ScanType
    <3> QED BY <1>0, <1>5, <2>1, <3>3 DEF SnapshotDone, DropDnat, Windows, PollLocals, TypeOK
  <2>3. CASE task[t].op # "poll"
    <3>1. dnat' \in [VM -> BOOLEAN]
      BY <1>5 DEF SnapshotDone, DropDnat
    <3>2. task' \in Tasks
      BY <1>5, <2>3, TasksType DEF SnapshotDone, Tasks
    <3> QED BY <1>0, <1>5, <2>1, <2>3, <3>1, <3>2 DEF SnapshotDone, Tasks
  <2> QED BY <2>2, <2>3
<1>6. CASE SnapshotFails(t, v)
  <2>1. fc' \in [VM -> Unit] /\ files' \in [VM -> BOOLEAN]
    <3>1. SnapshotCallFails(t, v)
      BY <1>6 DEF SnapshotFails
    <3>2. fc \in [VM -> Unit] /\ files \in [VM -> BOOLEAN]
      OBVIOUS
    <3> HIDE DEF TypeOK
    <3>3. fc' \in [VM -> Unit]
      BY <3>1, <3>2 DEF SnapshotCallFails, Unit
    <3>4. files' \in [VM -> BOOLEAN]
      BY <3>1, <3>2 DEF SnapshotCallFails
    <3> QED BY <3>3, <3>4
  <2>2. CASE task[t].op = "poll"
    <3> DEFINE w == IF poll[t].stage = "idle"
                    THEN [window EXCEPT ![v] = "open"] ELSE window
    <3>1. /\ poll[t] \in PollLocals /\ w \in Windows
          /\ ReleaseGuard(v, snapshottingSet) \in SUBSET VM
      BY DEF PollLocals, Windows, ReleaseGuard
    <3>2. Scan(t, poll[t], w, ReleaseGuard(v, snapshottingSet))
      BY <1>6, <2>2 DEF SnapshotFails
    <3> HIDE DEF TypeOK, w
    <3>3. /\ overLimit' \in SUBSET VM
          /\ window' \in Windows
          /\ snapshottingSet' \in SUBSET VM
          /\ task' \in [Task -> [op : Handler \cup {"none"}, pc : Pcs, vm : VM \cup {NoVM}]]
          /\ poll' \in [Task -> PollLocals]
      BY <3>1, <3>2, ScanType
    <3> QED BY <1>0, <1>6, <2>1, <3>3 DEF SnapshotFails, Windows, PollLocals, TypeOK
  <2>3. CASE task[t].op # "poll"
    <3>1. task' \in Tasks
      BY <1>6, <2>3, TasksType DEF SnapshotFails, Tasks
    <3> QED BY <1>0, <1>6, <2>1, <2>3, <3>1 DEF SnapshotFails, Tasks
  <2> QED BY <2>2, <2>3
<1> QED BY <1>1, <1>2, <1>3, <1>5, <1>6 DEF Snapshot

LEMMA CloneType ==
    ASSUME TypeOK, NEW t \in Task, NEW v \in VM, Clone(t, v), UNCHANGED restarts
    PROVE  TypeOK'
<1> USE DEF TypeOK, db, host, memory, Quiet, NoAnswer
<1>0. Quiet
  BY DEF Clone
<1>00. task \in Tasks /\ {"copy", "thaw"} \subseteq Pcs
  BY DEF Tasks, Pcs, ClonePcs
<1>1. CASE CloneFreezes(t, v)
  <2>1. task' \in Tasks
    BY <1>00, <1>1, TasksType DEF CloneFreezes
  <2> QED BY <1>0, <1>1, <2>1 DEF CloneFreezes, Unit, Tasks
<1>2. CASE CloneCopies(t, v)
  <2>1. task' \in Tasks
    BY <1>00, <1>2, TasksType DEF CloneCopies
  <2> QED BY <1>0, <1>2, <2>1 DEF CloneCopies, Tasks
<1>3. CASE CloneThaws(t, v)
  <2>1. task' \in Tasks
    BY <1>00, <1>3, TasksType DEF CloneThaws
  <2> QED BY <1>0, <1>3, <2>1 DEF CloneThaws, Unit, Tasks
<1>4. CASE CloneFails(t, v)
  <2>1. task' \in Tasks
    BY <1>00, <1>4, TasksType DEF CloneFails
  <2>2. fc' \in [VM -> Unit]
    BY <1>4 DEF CloneFails, Unit
  <2> QED BY <1>0, <1>4, <2>1, <2>2 DEF CloneFails, Tasks
<1> QED BY <1>1, <1>2, <1>3, <1>4 DEF Clone

LEMMA DeleteType ==
    ASSUME TypeOK, NEW t \in Task, NEW v \in VM, Delete(t, v), UNCHANGED restarts
    PROVE  TypeOK'
<1> USE DEF TypeOK, db, host, memory, Quiet, NoAnswer
<1>0. Quiet
  BY DEF Delete
<1>00. task \in Tasks /\ {"route", "stopping"} \subseteq Pcs
  BY DEF Tasks, Pcs
<1>1. CASE DeleteUnknown(t, v)
  <2>1. task' \in Tasks
    BY <1>00, <1>1, TasksType DEF DeleteUnknown
  <2> QED BY <1>0, <1>1, <2>1 DEF DeleteUnknown, Tasks
<1>2. CASE DeleteKnown(t, v)
  <2>1. task' \in Tasks
    BY <1>00, <1>2, TasksType DEF DeleteKnown
  <2> QED BY <1>0, <1>2, <2>1 DEF DeleteKnown, Tasks
<1>3. CASE DeleteStop(t, v)
  <2>1. task' \in Tasks
    BY <1>00, <1>3, TasksType DEF DeleteStop
  <2> QED BY <1>0, <1>3, <2>1 DEF DeleteStop, Unit, Tasks
<1>4. CASE DeleteRow(t, v)
  <2>1. task' \in Tasks
    BY <1>00, <1>4, TasksType DEF DeleteRow
  <2> QED BY <1>0, <1>4, <2>1 DEF DeleteRow, Status, Tasks
<1> QED BY <1>1, <1>2, <1>3, <1>4 DEF Delete

LEMMA RequestType ==
    ASSUME TypeOK, NEW t \in Task, Request(t), UNCHANGED restarts
    PROVE  TypeOK'
<1>1. CASE PollStart(t) /\ Quiet
  <2> DEFINE p == [stage |-> "idle", seen |-> Listed, todo |-> Listed,
                   due |-> {v \in Listed : window[v] = "elapsed"}]
  <2>1. p \in PollLocals /\ window \in Windows /\ snapshottingSet \in SUBSET VM
    BY DEF PollLocals, Windows, Listed, TypeOK
  <2>2. Scan(t, p, window, snapshottingSet)
    BY <1>1 DEF PollStart
  <2> HIDE DEF p
  <2>3. /\ overLimit' \in SUBSET VM
        /\ window' \in Windows
        /\ snapshottingSet' \in SUBSET VM
        /\ task' \in [Task -> [op : Handler \cup {"none"}, pc : Pcs, vm : VM \cup {NoVM}]]
        /\ poll' \in [Task -> PollLocals]
    BY <2>1, <2>2, ScanType
  <2> QED BY <1>1, <2>3 DEF PollStart, Quiet, NoAnswer, Windows, PollLocals, TypeOK, host
<1>2. ASSUME NEW v \in VM, EnsureVMRunning(t, v) PROVE TypeOK'
  BY <1>2, WakeType
<1>3. ASSUME NEW v \in VM, Quiet, CreateRequest(t, v) PROVE TypeOK'
  BY <1>3 DEF CreateRequest, TypeOK, db, host, memory, Quiet, NoAnswer, Status,
              Handler, Pcs, BootPcs
<1>4. ASSUME NEW v \in VM, Quiet, SnapshotRequest(t, v) PROVE TypeOK'
  BY <1>4 DEF SnapshotRequest, TypeOK, db, host, memory, Quiet, NoAnswer,
              Handler, Pcs, SnapPcs
<1>5. ASSUME NEW v \in VM, Quiet, DeleteRequest(t, v) PROVE TypeOK'
  BY <1>5 DEF DeleteRequest, TypeOK, db, host, memory, Quiet, NoAnswer, Handler, Pcs
<1>6. ASSUME NEW v \in VM, Quiet, CloneRequest(t, v) PROVE TypeOK'
  BY <1>6 DEF CloneRequest, TypeOK, db, host, memory, Quiet, NoAnswer,
              Handler, Pcs, ClonePcs
<1> QED BY <1>1, <1>2, <1>3, <1>4, <1>5, <1>6 DEF Request

LEMMA EnvironmentType ==
    ASSUME TypeOK, Environment, UNCHANGED restarts
    PROVE  TypeOK'
<1> USE DEF TypeOK, db, host, memory, Quiet, NoAnswer
<1>0. Quiet
  BY DEF Environment
<1>1. CASE Relief
  BY <1>0, <1>1 DEF Relief
<1>2. ASSUME NEW v \in VM, Elapse(v) PROVE TypeOK'
  <2>1. poll' \in [Task -> PollLocals]
    <3>1. \A u \in Task : poll[u] \in PollLocals
      BY DEF PollLocals
    <3>2. \A u \in Task : [poll[u] EXCEPT !.due = @ \ {v}] \in PollLocals
      BY <3>1, ForgetType
    <3>3. poll' = [u \in Task |-> [poll[u] EXCEPT !.due = @ \ {v}]]
      BY <1>2 DEF Elapse
    <3> HIDE DEF TypeOK
    <3> DEFINE f(u) == [poll[u] EXCEPT !.due = @ \ {v}]
    <3>4. poll' = [u \in Task |-> f(u)] /\ \A u \in Task : f(u) \in PollLocals
      BY <3>2, <3>3
    <3> HIDE DEF f
    <3> QED BY <3>4
  <2>2. window' \in Windows
    BY <1>2 DEF Elapse, Windows
  <2> QED BY <1>0, <1>2, <2>1, <2>2 DEF Elapse, PollLocals, Windows
<1>3. ASSUME NEW v \in VM, GuestHalts(v) PROVE TypeOK'
  BY <1>0, <1>3 DEF GuestHalts, Unit
<1> QED BY <1>1, <1>2, <1>3 DEF Environment

LEMMA RestartType == ASSUME TypeOK, Restart PROVE TypeOK'
BY BoundAssumption
   DEF Restart, TypeOK, Quiet, NoAnswer, Idle, NoPoll, Status, Handler, Pcs

LEMMA TypeStep == ASSUME TypeOK, [Next]_vars PROVE TypeOK'
<1>1. ASSUME NEW t \in Task, Request(t), UNCHANGED restarts PROVE TypeOK'
  BY <1>1, RequestType
<1>2. ASSUME NEW t \in Task, Continue(t), UNCHANGED restarts PROVE TypeOK'
  BY <1>2, BootType, SnapshotType, CloneType, DeleteType DEF Continue
<1>3. CASE Environment /\ UNCHANGED restarts
  BY <1>3, EnvironmentType
<1>4. CASE Restart
  BY <1>4, RestartType
<1>5. CASE UNCHANGED vars
  BY <1>5 DEF TypeOK, vars, db, host, memory
<1> QED BY <1>1, <1>2, <1>3, <1>4, <1>5 DEF Next

\* Every reachable state has the declared shape: no handler writes a status
\* the others do not know, and no answer or local variable goes astray.
THEOREM TypeCorrect == Spec => []TypeOK
BY InitType, TypeStep, PTL DEF Spec

-----------------------------------------------------------------------------
(* Safety.                                                                   *)

\* The parts of the invariant other than the types.
Safe == /\ HandlersInPlace
        /\ WorkedOnExist
        /\ CreationUndisturbed
        /\ FinishedIsWritten
        /\ BootExclusive
        /\ PendingHasLeader
        /\ PollExclusive
        /\ CreatingHasBooter

Typed == /\ task \in Tasks
         /\ status \in [VM -> Status]
         /\ poll \in [Task -> PollLocals]
         /\ pendingWakes \in SUBSET VM
         /\ snapshottingSet \in SUBSET VM
         /\ restarts \in Nat

\* Only task t changes, and it changes to k.
Becomes(t, k) == /\ task'[t] = k
                 /\ \A u \in Task : u # t => task'[u] = task[u]

ListsSame == \A u \in Task : poll'[u].seen = poll[u].seen /\ poll'[u].todo = poll[u].todo

\* Row v changes to s, the others do not.
RowBecomes(v, s) == status' = [status EXCEPT ![v] = s]

\* One kind of step does not change what a handler is for.
Kind(k) == IF k.pc \in BootPcs \ {"finish"} THEN "boot"
           ELSE IF k.pc \in SnapPcs THEN "snap"
           ELSE IF k.pc \in ClonePcs THEN "clone"
           ELSE IF k.pc \in {"hook", "stopping", "route"} THEN "delete"
           ELSE "other"

LEMMA Invisible ==
    ASSUME Safe, Typed, UNCHANGED <<status, pendingWakes, snapshottingSet, task, restarts>>,
           ListsSame
    PROVE  Safe'
<1>1. HandlersInPlace' /\ BootExclusive' /\ PendingHasLeader' /\ PollExclusive'
  BY DEF Safe, HandlersInPlace, InPlace, BootExclusive, Boots, PendingHasLeader, Wakes,
         PollExclusive, Polls
<1>2. WorkedOnExist' /\ CreationUndisturbed'
  BY DEF Safe, WorkedOnExist, CreationUndisturbed, ListsSame, Creates, Boots
<1>3. FinishedIsWritten' /\ CreatingHasBooter'
  BY DEF Safe, FinishedIsWritten, CreatingHasBooter, Boots
<1> QED BY <1>1, <1>2, <1>3 DEF Safe

\* A row that nobody creates or wakes leaves the state snapshotted.
LEMMA RowGivenUp ==
    ASSUME Safe, Typed, NEW v \in VM, status[v] = "snapshotted", v \notin pendingWakes,
           RowBecomes(v, "error"), ListsSame,
           UNCHANGED <<pendingWakes, snapshottingSet, task, restarts>>
    PROVE  Safe'
<1> USE DEF RowBecomes, Typed
<1>1. HandlersInPlace' /\ BootExclusive' /\ PendingHasLeader' /\ PollExclusive'
  BY DEF Safe, HandlersInPlace, InPlace, BootExclusive, Boots, PendingHasLeader, Wakes,
         PollExclusive, Polls
<1>2. WorkedOnExist' /\ CreationUndisturbed'
  BY DEF Safe, WorkedOnExist, CreationUndisturbed, ListsSame, Creates, Boots
<1>3. FinishedIsWritten' /\ CreatingHasBooter'
  BY DEF Safe, FinishedIsWritten, CreatingHasBooter, Boots
<1> QED BY <1>1, <1>2, <1>3 DEF Safe

\* A handler starts to wait, to snapshot or to delete.
LEMMA Engages ==
    ASSUME Safe, Typed, NEW t \in Task, NEW v \in VM, NEW k, task[t] = Idle,
           Becomes(t, k), k.vm = v, InPlace(k),
           status[v] # "unborn", k.pc \in SnapPcs /\ k.op = "pause" => status[v] = "running",
           k.op # "poll", k.pc \notin BootPcs,
           ListsSame, UNCHANGED <<status, pendingWakes, snapshottingSet, restarts>>
    PROVE  Safe'
<1> USE DEF Becomes, Typed, Idle
<1>1. HandlersInPlace'
  BY DEF Safe, HandlersInPlace, InPlace
<1>2. WorkedOnExist'
  BY DEF Safe, WorkedOnExist, ListsSame
<1>3. CreationUndisturbed'
  BY DEF Safe, CreationUndisturbed, ListsSame, Creates, Boots, InPlace, BootPcs, SnapPcs, ClonePcs
<1>4. FinishedIsWritten'
  BY DEF Safe, FinishedIsWritten, BootPcs
<1>5. BootExclusive'
  BY DEF Safe, BootExclusive, Boots
<1>6. PendingHasLeader'
  BY DEF Safe, PendingHasLeader, Wakes, Boots, BootPcs
<1>7. PollExclusive'
  BY DEF Safe, PollExclusive, Polls, SnapPcs, ClonePcs
<1>8. CreatingHasBooter'
  BY DEF Safe, CreatingHasBooter, Boots, BootPcs
<1> QED BY <1>1, <1>2, <1>3, <1>4, <1>5, <1>6, <1>7, <1>8 DEF Safe

\* A handler takes the next step of the same kind.
LEMMA Advances ==
    ASSUME Safe, Typed, NEW t \in Task, NEW k, task[t] # Idle,
           Becomes(t, k), k.vm = task[t].vm, k.op = task[t].op, InPlace(k),
           Kind(k) = Kind(task[t]), Kind(k) # "other",
           ListsSame, UNCHANGED <<status, pendingWakes, snapshottingSet, restarts>>
    PROVE  Safe'
<1> USE DEF Becomes, Typed
<1>0. /\ k.pc \in SnapPcs <=> task[t].pc \in SnapPcs
      /\ k.pc \in BootPcs <=> task[t].pc \in BootPcs
      /\ k.pc # "finish"
  BY DEF Kind, SnapPcs, BootPcs, ClonePcs
<1>1. HandlersInPlace'
  BY <1>0 DEF Safe, HandlersInPlace, InPlace
<1>2. WorkedOnExist'
  BY DEF Safe, WorkedOnExist, ListsSame
<1>3. CreationUndisturbed'
  BY <1>0 DEF Safe, CreationUndisturbed, ListsSame, Creates, Boots
<1>4. FinishedIsWritten'
  BY <1>0 DEF Safe, FinishedIsWritten
<1>5. BootExclusive'
  BY <1>0 DEF Safe, BootExclusive, Boots
<1>6. PendingHasLeader'
  BY <1>0 DEF Safe, PendingHasLeader, Wakes, Boots
<1>7. PollExclusive'
  BY <1>0 DEF Safe, PollExclusive, Polls
<1>8. CreatingHasBooter'
  BY <1>0 DEF Safe, CreatingHasBooter, Boots
<1> QED BY <1>1, <1>2, <1>3, <1>4, <1>5, <1>6, <1>7, <1>8 DEF Safe

\* A wake begins: nobody boots the VM, by its row and the map of promises.
LEMMA WakeBegins ==
    ASSUME Safe, Typed, NEW t \in Task, NEW v \in VM, NEW k, task[t] = Idle,
           status[v] = "snapshotted", v \notin pendingWakes,
           Becomes(t, k), k.vm = v, k.op = "wake", k.pc \in {"load", "setup"},
           RowBecomes(v, "creating"), pendingWakes' = pendingWakes \cup {v},
           ListsSame, UNCHANGED <<snapshottingSet, restarts>>
    PROVE  Safe'
<1> USE DEF Becomes, Typed, RowBecomes, Idle
<1>0. \A u \in Task : ~Boots(u, v)
  <2> SUFFICES ASSUME NEW u \in Task, Boots(u, v) PROVE FALSE
    OBVIOUS
  <2>1. task[u].op \in {"create", "wake"}
    BY DEF Safe, HandlersInPlace, InPlace, Boots, BootPcs, SnapPcs, ClonePcs
  <2>2. task[u].op # "wake"
    BY DEF Safe, PendingHasLeader, Wakes
  <2>3. task[u].op # "create"
    BY DEF Safe, CreationUndisturbed, Creates
  <2> QED BY <2>1, <2>2, <2>3
<1>1. HandlersInPlace'
  BY DEF Safe, HandlersInPlace, InPlace
<1>2. WorkedOnExist'
  BY DEF Safe, WorkedOnExist, ListsSame
<1>3. CreationUndisturbed'
  BY DEF Safe, CreationUndisturbed, ListsSame, Creates, Boots, SnapPcs
<1>4. FinishedIsWritten'
  BY <1>0 DEF Safe, FinishedIsWritten, Boots, BootPcs
<1>5. BootExclusive'
  BY <1>0 DEF Safe, BootExclusive, Boots
<1>6. PendingHasLeader'
  BY <1>0 DEF Safe, PendingHasLeader, Wakes, Boots, BootPcs
<1>7. PollExclusive'
  BY DEF Safe, PollExclusive, Polls, SnapPcs
<1>8. CreatingHasBooter'
  BY DEF Safe, CreatingHasBooter, Boots, BootPcs
<1> QED BY <1>1, <1>2, <1>3, <1>4, <1>5, <1>6, <1>7, <1>8 DEF Safe

\* A creation begins: the id is new, so nobody works on the VM.
LEMMA CreationBegins ==
    ASSUME Safe, Typed, NEW t \in Task, NEW v \in VM, NEW k, task[t] = Idle,
           status[v] = "unborn",
           Becomes(t, k), k.vm = v, k.op = "create", k.pc = "setup",
           RowBecomes(v, "creating"),
           ListsSame, UNCHANGED <<pendingWakes, snapshottingSet, restarts>>
    PROVE  Safe'
<1> USE DEF Becomes, Typed, RowBecomes, Idle
<1>0. \A u \in Task : task[u].vm # v /\ v \notin poll[u].seen \cup poll[u].todo
  BY DEF Safe, WorkedOnExist
<1>1. HandlersInPlace'
  BY DEF Safe, HandlersInPlace, InPlace
<1>2. WorkedOnExist'
  BY DEF Safe, WorkedOnExist, ListsSame
<1>3. CreationUndisturbed'
  BY <1>0 DEF Safe, CreationUndisturbed, ListsSame, Creates, Boots, SnapPcs
<1>4. FinishedIsWritten'
  BY <1>0 DEF Safe, FinishedIsWritten
<1>5. BootExclusive'
  BY <1>0 DEF Safe, BootExclusive, Boots
<1>6. PendingHasLeader'
  BY DEF Safe, PendingHasLeader, Wakes, Boots, BootPcs
<1>7. PollExclusive'
  BY DEF Safe, PollExclusive, Polls, SnapPcs
<1>8. CreatingHasBooter'
  BY DEF Safe, CreatingHasBooter, Boots, BootPcs
<1> QED BY <1>1, <1>2, <1>3, <1>4, <1>5, <1>6, <1>7, <1>8 DEF Safe

\* The guest is up and its row, if there is one, says so.
LEMMA GuestUp ==
    ASSUME Safe, Typed, NEW t \in Task, NEW v \in VM, NEW k, task[t].vm = v,
           task[t].pc \in {"ready", "probe"},
           Becomes(t, k),
           \/ task[t].op = "wake" /\ k = [task[t] EXCEPT !.pc = "finish"]
           \/ task[t].op # "wake" /\ k = Idle,
           RowBecomes(v, IF Row(v) THEN "running" ELSE status[v]),
           ListsSame, UNCHANGED <<pendingWakes, snapshottingSet, restarts>>
    PROVE  Safe'
<1> USE DEF Becomes, Typed, RowBecomes, Row, Tasks
<1>0. /\ Boots(t, v)
      /\ \A u \in Task : Boots(u, v) => u = t
      /\ task[t].op \in {"create", "wake"}
      /\ status'[v] # "creating"
      /\ status'[v] # "unborn"
  BY NoVMAssumption
     DEF Safe, BootExclusive, HandlersInPlace, InPlace, Boots, BootPcs, SnapPcs, ClonePcs, Idle, WorkedOnExist
<1>1. HandlersInPlace'
  BY DEF Safe, HandlersInPlace, InPlace
<1>2. WorkedOnExist'
  BY <1>0, NoVMAssumption DEF Safe, WorkedOnExist, ListsSame, Idle
<1>3. CreationUndisturbed'
  BY <1>0 DEF Safe, CreationUndisturbed, ListsSame, Creates, Boots, SnapPcs, Idle, BootPcs
<1>4. FinishedIsWritten'
  BY <1>0, NoVMAssumption DEF Safe, FinishedIsWritten, Idle
<1>5. BootExclusive'
  BY <1>0, NoVMAssumption DEF Safe, BootExclusive, Boots, Idle
<1>6. PendingHasLeader'
  BY <1>0, NoVMAssumption DEF Safe, PendingHasLeader, Wakes, Boots, BootPcs, Idle
<1>7. PollExclusive'
  <2>1. task[t].pc \notin SnapPcs /\ task'[t].pc \notin SnapPcs
    BY DEF SnapPcs, Idle
  <2>2. \A u \in Task, w \in VM : Polls(u, w)' <=> Polls(u, w)
    BY <2>1 DEF Polls
  <2> QED BY <2>2 DEF Safe, PollExclusive
<1>8. CreatingHasBooter'
  BY <1>0, NoVMAssumption DEF Safe, CreatingHasBooter, Boots, BootPcs, Idle
<1> QED BY <1>1, <1>2, <1>3, <1>4, <1>5, <1>6, <1>7, <1>8 DEF Safe

\* A boot ends: a creation alone, a wake together with its joiners.
LEMMA BootIsOver ==
    ASSUME Safe, Typed, NEW t \in Task, NEW v \in VM, task[t].vm = v, task[t].pc \in BootPcs,
           task'[t] = Idle,
           \A u \in Task \ {t} :
              \/ task'[u] = task[u]
              \/ task[u].pc = "join" /\ task'[u] = Idle,
           IF task[t].op = "wake" THEN pendingWakes' = pendingWakes \ {v}
                                  ELSE UNCHANGED pendingWakes,
           \/ UNCHANGED status /\ status[v] # "creating"
           \/ RowBecomes(v, "error")
           \/ RowBecomes(v, "deleted")
           \/ UNCHANGED status /\ ~Row(v),
           ListsSame, UNCHANGED <<snapshottingSet, restarts>>
    PROVE  Safe'
<1> USE NoVMAssumption DEF Typed, RowBecomes, Idle
<1>0. /\ Boots(t, v)
      /\ \A u \in Task : Boots(u, v) => u = t
      /\ status'[v] \notin {"creating", "unborn"}
      /\ task[t].op \in {"create", "wake"}
  BY DEF Safe, BootExclusive, Boots, WorkedOnExist, Row, HandlersInPlace, InPlace, BootPcs,
         SnapPcs, ClonePcs
<1>1. HandlersInPlace'
  BY DEF Safe, HandlersInPlace, InPlace
<1>2. WorkedOnExist'
  BY <1>0 DEF Safe, WorkedOnExist, ListsSame
<1>3. CreationUndisturbed'
  BY <1>0 DEF Safe, CreationUndisturbed, ListsSame, Creates, Boots, SnapPcs, BootPcs
<1>4. FinishedIsWritten'
  BY <1>0 DEF Safe, FinishedIsWritten
<1>5. BootExclusive'
  BY <1>0 DEF Safe, BootExclusive, Boots, BootPcs
<1>6. PendingHasLeader'
  BY <1>0 DEF Safe, PendingHasLeader, Wakes, Boots, BootPcs
<1>7. PollExclusive'
  BY <1>0 DEF Safe, PollExclusive, Polls, SnapPcs, BootPcs
<1>8. CreatingHasBooter'
  BY <1>0 DEF Safe, CreatingHasBooter, Boots, BootPcs
<1> QED BY <1>1, <1>2, <1>3, <1>4, <1>5, <1>6, <1>7, <1>8 DEF Safe

\* A request that boots nothing returns; it may write the row it worked on.
LEMMA Returns ==
    ASSUME Safe, Typed, NEW t \in Task, NEW v \in VM, task[t].vm = v,
           Becomes(t, Idle),
           \/ task[t].pc \in SnapPcs /\ task[t].op # "poll"
           \/ task[t].pc \in ClonePcs \cup {"route"},
           \/ UNCHANGED status
           \/ RowBecomes(v, "snapshotted") /\ task[t].pc \in SnapPcs /\ task[t].op = "pause"
           \/ RowBecomes(v, "deleted"),
           ListsSame, UNCHANGED <<pendingWakes, snapshottingSet, restarts>>
    PROVE  Safe'
<1> USE NoVMAssumption DEF Typed, RowBecomes, Idle, Becomes
<1>0. ~Boots(t, v) /\ status'[v] # "unborn"
  BY DEF Safe, WorkedOnExist, Boots, BootPcs, SnapPcs, ClonePcs
<1>1. HandlersInPlace'
  BY DEF Safe, HandlersInPlace, InPlace
<1>2. WorkedOnExist'
  BY <1>0 DEF Safe, WorkedOnExist, ListsSame
<1>3. CreationUndisturbed'
  BY <1>0 DEF Safe, CreationUndisturbed, ListsSame, Creates, Boots, SnapPcs, BootPcs, ClonePcs
<1>4. FinishedIsWritten'
  BY <1>0 DEF Safe, FinishedIsWritten, ClonePcs
<1>5. BootExclusive'
  BY DEF Safe, BootExclusive, Boots, BootPcs, ClonePcs
<1>6. PendingHasLeader'
  BY <1>0 DEF Safe, PendingHasLeader, Wakes, Boots, BootPcs, ClonePcs
<1>7. PollExclusive'
  BY DEF Safe, PollExclusive, Polls, SnapPcs, ClonePcs
<1>8. CreatingHasBooter'
  BY <1>0 DEF Safe, CreatingHasBooter, Boots, BootPcs, ClonePcs
<1> QED BY <1>1, <1>2, <1>3, <1>4, <1>5, <1>6, <1>7, <1>8 DEF Safe

\* What the loop of a poll does before its next await: it takes a VM that it
\* listed and no poll is snapshotting, or it ends.
TakesNext(t, p, guard) ==
    \/ \E v \in (p.seen \cup p.todo) \ guard :
          /\ Becomes(t, [op |-> "poll", pc |-> "quiesce", vm |-> v])
          /\ snapshottingSet' = guard \cup {v}
          /\ poll'[t].seen = p.seen
          /\ poll'[t].todo \subseteq p.seen \cup p.todo
    \/ /\ Becomes(t, Idle)
       /\ snapshottingSet' = guard
       /\ poll'[t] = NoPoll

OtherPollsSame(t) == \A u \in Task \ {t} : poll'[u] = poll[u]

LEMMA ScanTakesNext ==
    ASSUME Typed, NEW t \in Task, NEW p \in PollLocals, NEW w, NEW guard \in SUBSET VM,
           Scan(t, p, w, guard)
    PROVE  TakesNext(t, p, guard) /\ OtherPollsSame(t)
<1>1. ASSUME NEW q, q.seen = p.seen, q.todo \subseteq p.seen \cup p.todo, NEW w2,
             NEW v \in (p.seen \cup p.todo) \ guard, Victim(t, v, q, w2, guard)
      PROVE  TakesNext(t, p, guard) /\ OtherPollsSame(t)
  BY <1>1 DEF Victim, TakesNext, OtherPollsSame, Becomes, Typed, Tasks
<1>2. CASE NextIdle(t, p, w, guard)
  <2>1. PICK v \in p.todo \ guard : \E R \in SUBSET (p.todo \ {v}) :
             \E w2 \in Sweeps(p, w, R, guard) :
                Victim(t, v, [p EXCEPT !.todo = @ \ (R \cup {v})], w2, guard)
    BY <1>2 DEF NextIdle, Unguarded
  <2>2. PICK R \in SUBSET (p.todo \ {v}) : \E w2 \in Sweeps(p, w, R, guard) :
                Victim(t, v, [p EXCEPT !.todo = @ \ (R \cup {v})], w2, guard)
    BY <2>1
  <2>3. PICK w2 : Victim(t, v, [p EXCEPT !.todo = @ \ (R \cup {v})], w2, guard)
    BY <2>2
  <2> QED BY <1>1, <2>3 DEF PollLocals
<1>3. CASE NextOverLimit(t, p, w, guard)
  <2>1. ASSUME NEW q \in PollLocals, q.seen = p.seen, q.todo \subseteq p.seen \cup p.todo,
               NEW w2, VisitOver(t, q, w2, guard)
        PROVE  TakesNext(t, p, guard) /\ OtherPollsSame(t)
    <3>1. PICK v \in q.todo \ guard, R \in SUBSET q.todo :
               Victim(t, v, [q EXCEPT !.stage = "limit", !.todo = @ \ (R \cup {v})], w2, guard)
      BY <2>1 DEF VisitOver, Unguarded
    <3> QED BY <1>1, <2>1, <3>1 DEF PollLocals
  <2>2. CASE p.stage = "idle"
    <3>1. PICK w2 \in Sweeps(p, w, p.todo, guard) :
               VisitOver(t, [p EXCEPT !.todo = p.seen], w2, guard)
      BY <1>3, <2>2 DEF NextOverLimit
    <3> QED BY <2>1, <3>1 DEF PollLocals
  <2>3. CASE p.stage # "idle"
    BY <1>3, <2>1, <2>3 DEF NextOverLimit
  <2> QED BY <2>2, <2>3
<1>4. CASE PollEnds(t, p, w, guard)
  BY <1>4 DEF PollEnds, Return, TakesNext, OtherPollsSame, Becomes, Typed, Tasks
<1> QED BY <1>2, <1>3, <1>4 DEF Scan

\* A poll starts, or goes on after a snapshot that it made or failed to make.
LEMMA PollGoesOn ==
    ASSUME Safe, Typed, NEW t \in Task, NEW p \in PollLocals, NEW guard \in SUBSET VM,
           TakesNext(t, p, guard), OtherPollsSame(t),
           \/ /\ task[t] = Idle /\ guard = snapshottingSet /\ UNCHANGED status
              /\ \A v \in p.seen \cup p.todo : status[v] = "running"
           \/ /\ Polls(t, task[t].vm) /\ guard = snapshottingSet \ {task[t].vm} /\ p = poll[t]
              /\ UNCHANGED status \/ RowBecomes(task[t].vm, "snapshotted"),
           UNCHANGED <<pendingWakes, restarts>>
    PROVE  Safe'
<1> USE NoVMAssumption DEF Typed, RowBecomes, Idle, Becomes
<1>0. /\ p.seen \subseteq VM /\ p.todo \subseteq VM
      /\ NoPoll.seen = {} /\ NoPoll.todo = {}
  BY DEF PollLocals, NoPoll
<1>1. /\ task[t].pc \in {"idle"} \cup SnapPcs
      /\ task'[t].pc \in {"idle", "quiesce"}
      /\ \A u \in Task : u # t => task'[u] = task[u]
  <2>1. task[t].pc \in {"idle"} \cup SnapPcs
    BY DEF Polls
  <2>2. CASE Becomes(t, Idle)
    BY <2>1, <2>2
  <2>3. ASSUME NEW v, Becomes(t, [op |-> "poll", pc |-> "quiesce", vm |-> v])
        PROVE  /\ task'[t].pc \in {"idle", "quiesce"}
               /\ \A u \in Task : u # t => task'[u] = task[u]
    BY <2>3
  <2> HIDE DEF Becomes
  <2> QED BY <2>1, <2>2, <2>3 DEF TakesNext
<1>2. \A u \in Task, v \in VM : /\ Boots(u, v)' <=> Boots(u, v)
                                /\ Wakes(u, v)' <=> Wakes(u, v)
                                /\ Creates(u, v)' <=> Creates(u, v)
  <2>1. task[t].pc \notin BootPcs /\ task'[t].pc \notin BootPcs
    BY <1>1 DEF BootPcs, SnapPcs
  <2> QED BY <1>1, <2>1 DEF Boots, Wakes, Creates
<1>3. \A v \in VM : \/ status'[v] = status[v]
                    \/ status[v] # "unborn" /\ status'[v] = "snapshotted"
                       /\ v = task[t].vm /\ Polls(t, v)
  BY DEF Safe, WorkedOnExist
<1>4. \A v \in p.seen \cup p.todo :
          status[v] # "unborn" /\ \A u \in Task : ~Creates(u, v)
  BY <1>0 DEF Safe, WorkedOnExist, CreationUndisturbed
<1>5. \A u \in Task, v \in VM :
          v \in poll'[u].seen \cup poll'[u].todo =>
             v \in poll[u].seen \cup poll[u].todo \/ v \in p.seen \cup p.todo
  BY <1>0 DEF TakesNext, OtherPollsSame
<1>14. \/ task'[t] = Idle /\ snapshottingSet' = guard
       \/ /\ task'[t].vm \in (p.seen \cup p.todo) \ guard
          /\ task'[t].op = "poll" /\ task'[t].pc = "quiesce"
          /\ snapshottingSet' = guard \cup {task'[t].vm}
  <2>1. ASSUME NEW v \in (p.seen \cup p.todo) \ guard,
               Becomes(t, [op |-> "poll", pc |-> "quiesce", vm |-> v]),
               snapshottingSet' = guard \cup {v}
        PROVE  <1>14!2
    BY <2>1
  <2>2. CASE Becomes(t, Idle) /\ snapshottingSet' = guard
    BY <2>2
  <2> HIDE DEF Becomes
  <2> QED BY <2>1, <2>2 DEF TakesNext
<1>15. \A v \in VM : task'[t].vm = v => v \in p.seen \cup p.todo
  BY <1>14
<1>6. HandlersInPlace'
  BY <1>0, <1>1, <1>14 DEF Safe, HandlersInPlace, InPlace, SnapPcs
<1>7. WorkedOnExist'
  <2> SUFFICES ASSUME NEW u \in Task, NEW v \in VM,
                      task'[u].vm = v \/ v \in poll'[u].seen \cup poll'[u].todo
               PROVE  status'[v] # "unborn"
    BY DEF WorkedOnExist
  <2>1. status[v] # "unborn"
    BY <1>1, <1>4, <1>5, <1>15 DEF Safe, WorkedOnExist
  <2> QED BY <1>3, <2>1
<1>8. CreationUndisturbed'
  <2> SUFFICES ASSUME NEW c \in Task, NEW v \in VM, Creates(c, v)'
               PROVE  /\ status'[v] \in {"creating", "deleted"}
                      /\ \A u \in Task :
                            /\ v \notin poll'[u].seen \cup poll'[u].todo
                            /\ task'[u].vm = v /\ task'[u].pc \in SnapPcs => task'[u].op = "stop"
    BY DEF CreationUndisturbed
  <2>1. Creates(c, v)
    BY <1>2
  <2>2. status'[v] = status[v]
    BY <1>3, <2>1 DEF Safe, CreationUndisturbed, Polls
  <2>3. \A u \in Task : v \notin poll'[u].seen \cup poll'[u].todo
    BY <1>4, <1>5, <2>1 DEF Safe, CreationUndisturbed
  <2> QED BY <1>1, <1>4, <1>15, <2>1, <2>2, <2>3 DEF Safe, CreationUndisturbed
<1>9. FinishedIsWritten'
  BY <1>1, <1>3 DEF Safe, FinishedIsWritten
<1>10. BootExclusive'
  BY <1>2 DEF Safe, BootExclusive
<1>11. PendingHasLeader'
  BY <1>2 DEF Safe, PendingHasLeader
<1>12. PollExclusive'
  <2>1. /\ \A u \in Task, v \in VM : u # t => (Polls(u, v)' <=> Polls(u, v))
        /\ \A v \in VM : Polls(t, v)' <=> task'[t] # Idle /\ v = task'[t].vm
    BY <1>0, <1>1, <1>14 DEF Polls, SnapPcs
  <2>2. \A v \in VM : v \in guard <=> \E u \in Task \ {t} : Polls(u, v)
    BY DEF Safe, PollExclusive, Polls, SnapPcs
  <2>3. \A v \in VM : v \in snapshottingSet' <=> v \in guard \/ Polls(t, v)'
    BY <1>0, <1>14, <2>1
  <2>4. task'[t] # Idle => task'[t].vm \notin guard
    BY <1>14
  <2>5. snapshottingSet' \subseteq VM
    BY <1>0, <1>14
  <2>6. \A v \in VM : \A u, w \in Task : Polls(u, v) /\ Polls(w, v) => u = w
    BY DEF Safe, PollExclusive
  <2>7. \A v \in VM : \A u, w \in Task : Polls(u, v)' /\ Polls(w, v)' => u = w
    BY <2>1, <2>2, <2>4, <2>6
  <2>8. snapshottingSet' = {v \in VM : \E u \in Task : Polls(u, v)'}
    BY <2>1, <2>2, <2>3, <2>5
  <2> QED BY <2>7, <2>8 DEF PollExclusive
<1>13. CreatingHasBooter'
  BY <1>2, <1>3 DEF Safe, CreatingHasBooter
<1> QED BY <1>6, <1>7, <1>8, <1>9, <1>10, <1>11, <1>12, <1>13 DEF Safe

\* Nothing is in flight after a restart.
LEMMA StartsAgain == ASSUME TypeOK, Restart PROVE Safe'
<1>1. /\ \A t \in Task : task'[t] = Idle /\ poll'[t] = NoPoll
      /\ pendingWakes' = {} /\ snapshottingSet' = {} /\ restarts' # 0
  BY BoundAssumption DEF Restart, TypeOK
<1> QED BY <1>1, NoVMAssumption
        DEF Safe, HandlersInPlace, WorkedOnExist, CreationUndisturbed, FinishedIsWritten,
            BootExclusive, PendingHasLeader, PollExclusive, CreatingHasBooter, Boots, Wakes,
            Creates, Polls, Idle, NoPoll, BootPcs, SnapPcs

LEMMA StartsSafe == Init => Safe
BY NoVMAssumption
   DEF Init, Safe, HandlersInPlace, WorkedOnExist, CreationUndisturbed, FinishedIsWritten,
       BootExclusive, PendingHasLeader, PollExclusive, CreatingHasBooter, Boots, Wakes,
       Creates, Polls, Idle, NoPoll, BootPcs, SnapPcs

-----------------------------------------------------------------------------
(* Every step of the specification has one of these effects.               *)

LEMMA TypesHold == ASSUME TypeOK PROVE Typed
BY BoundAssumption DEF TypeOK, Typed, Tasks, PollLocals

LEMMA WakeSafe ==
    ASSUME TypeOK, Safe, NEW t \in Task, NEW v \in VM, EnsureVMRunning(t, v),
           UNCHANGED restarts
    PROVE  Safe'
<1>0. Typed /\ task \in Tasks /\ status \in [VM -> Status]
  BY TypesHold DEF Typed
<1> USE DEF db, host, memory
<1>1. CASE AlreadyRunning(t, v)
  BY <1>0, <1>1, Invisible DEF AlreadyRunning, ListsSame
<1>2. CASE StaleRunning(t, v)
  BY <1>0, <1>2, Invisible DEF StaleRunning, ListsSame
<1>3. CASE WakeRefused(t, v)
  BY <1>0, <1>3, Invisible DEF WakeRefused, ListsSame
<1>4. CASE JoinWake(t, v)
  <2> DEFINE k == [op |-> "wake", pc |-> "join", vm |-> v]
  <2>1. /\ task[t] = Idle /\ Becomes(t, k) /\ ListsSame
        /\ status[v] = "snapshotted"
        /\ UNCHANGED <<status, pendingWakes, snapshottingSet, restarts>>
    BY <1>0, <1>4 DEF JoinWake, CanWake, Start, Becomes, Tasks, ListsSame
  <2>2. InPlace(k) /\ k.vm = v /\ k.op = "wake" /\ k.pc \notin BootPcs \cup SnapPcs
    BY DEF InPlace, BootPcs, SnapPcs
  <2> HIDE DEF k
  <2> QED BY <1>0, <2>1, <2>2, Engages
<1>5. CASE StartWake(t, v)
  <2> DEFINE k == [op |-> "wake", vm |-> v, pc |-> IF files[v] THEN "load" ELSE "setup"]
  <2>1. /\ task[t] = Idle /\ Becomes(t, k) /\ ListsSame
        /\ status[v] = "snapshotted" /\ v \notin pendingWakes
        /\ pendingWakes' = pendingWakes \cup {v}
        /\ UNCHANGED <<snapshottingSet, restarts>>
    BY <1>0, <1>5 DEF StartWake, HasSnapshot, CanWake, Pending, Start, Becomes, Tasks, ListsSame
  <2>2. RowBecomes(v, "creating")
    BY <1>0, <1>5, <2>1 DEF StartWake, SetStatus, RowBecomes, Row
  <2>3. k.vm = v /\ k.op = "wake" /\ k.pc \in {"load", "setup"}
    OBVIOUS
  <2> HIDE DEF k
  <2> QED BY <1>0, <2>1, <2>2, <2>3, WakeBegins
<1>6. CASE WakeRejected(t, v)
  <2>1. /\ status[v] = "snapshotted" /\ v \notin pendingWakes /\ ListsSame
        /\ UNCHANGED <<pendingWakes, snapshottingSet, task, restarts>>
    BY <1>6 DEF WakeRejected, CanWake, Pending, ListsSame
  <2>2. RowBecomes(v, "error")
    BY <1>0, <1>6, <2>1 DEF WakeRejected, SetStatus, RowBecomes, Row
  <2> QED BY <1>0, <2>1, <2>2, RowGivenUp
<1> QED BY <1>1, <1>2, <1>3, <1>4, <1>5, <1>6 DEF EnsureVMRunning

\* A step of a handler within its operation, as the effect Advances sees it.
LEMMA GoToAdvances ==
    ASSUME TypeOK, Safe, NEW t \in Task, NEW p, GoTo(t, p), task[t] # Idle,
           LET k == [task[t] EXCEPT !.pc = p]
           IN  InPlace(k) /\ Kind(k) = Kind(task[t]) /\ Kind(k) # "other",
           UNCHANGED <<status, pendingWakes, snapshottingSet, poll, restarts>>
    PROVE  Safe'
<1> DEFINE k == [task[t] EXCEPT !.pc = p]
<1>1. Typed /\ ListsSame
  BY TypesHold DEF ListsSame
<1>2. Becomes(t, k) /\ k.vm = task[t].vm /\ k.op = task[t].op
  BY <1>1 DEF GoTo, Becomes, Typed, Tasks
<1>3. InPlace(k) /\ Kind(k) = Kind(task[t]) /\ Kind(k) # "other"
  OBVIOUS
<1> HIDE DEF k
<1> QED BY <1>1, <1>2, <1>3, Advances

LEMMA BootSafe ==
    ASSUME TypeOK, Safe, NEW t \in Task, NEW v \in VM, task[t].vm = v, Boot(t, v),
           UNCHANGED restarts
    PROVE  Safe'
<1>0. Typed /\ task \in Tasks /\ status \in [VM -> Status] /\ task[t] # Idle
  BY TypesHold, NoVMAssumption DEF Typed, Idle
<1>00. InPlace(task[t])
  BY <1>0 DEF Safe, HandlersInPlace
<1> USE DEF db, host, memory
<1>1. CASE LaunchUnit(t, v)
  <2>1. LET k == [task[t] EXCEPT !.pc = "config"]
        IN  InPlace(k) /\ Kind(k) = Kind(task[t]) /\ Kind(k) # "other"
    BY <1>0, <1>00, <1>1 DEF LaunchUnit, At, InPlace, Kind, BootPcs, SnapPcs, ClonePcs, Tasks
  <2> QED BY <1>0, <1>1, <2>1, GoToAdvances DEF LaunchUnit
<1>2. CASE LoadSnapshot(t, v)
  <2>1. LET k == [task[t] EXCEPT !.pc = "resume"]
        IN  InPlace(k) /\ Kind(k) = Kind(task[t]) /\ Kind(k) # "other"
    BY <1>0, <1>00, <1>2 DEF LoadSnapshot, At, InPlace, Kind, BootPcs, SnapPcs, ClonePcs, Tasks
  <2> QED BY <1>0, <1>2, <2>1, GoToAdvances DEF LoadSnapshot
<1>3. CASE StartGuest(t, v)
  <2>1. PICK p \in {"ready", "probe"} :
             GoTo(t, p) /\ At(t, IF p = "ready" THEN "config" ELSE "resume")
    BY <1>3 DEF StartGuest
  <2>2. LET k == [task[t] EXCEPT !.pc = p]
        IN  InPlace(k) /\ Kind(k) = Kind(task[t]) /\ Kind(k) # "other"
    BY <1>0, <1>00, <2>1 DEF At, InPlace, Kind, BootPcs, SnapPcs, ClonePcs, Tasks
  <2> QED BY <1>0, <1>3, <2>1, <2>2, GoToAdvances DEF StartGuest
<1>4. CASE BootReady(t, v)
  <2> DEFINE k == IF task[t].op = "wake" THEN [task[t] EXCEPT !.pc = "finish"] ELSE Idle
  <2>1. /\ task[t].pc \in {"ready", "probe"} /\ ListsSame
        /\ RowBecomes(v, IF Row(v) THEN "running" ELSE status[v])
        /\ UNCHANGED <<pendingWakes, snapshottingSet, restarts>>
    BY <1>0, <1>4 DEF BootReady, ListsSame, SetStatus, RowBecomes
  <2>2. Becomes(t, k)
    BY <1>0, <1>4 DEF BootReady, GoTo, Return, Becomes, Tasks
  <2>3. \/ task[t].op = "wake" /\ k = [task[t] EXCEPT !.pc = "finish"]
        \/ task[t].op # "wake" /\ k = Idle
    OBVIOUS
  <2> HIDE DEF k
  <2> QED BY <1>0, <2>1, <2>2, <2>3, GuestUp
<1>5. ASSUME Settle(t, v)
      PROVE  /\ task'[t] = Idle /\ pendingWakes' = pendingWakes \ {v}
             /\ \A u \in Task \ {t} : \/ task'[u] = task[u]
                                      \/ task[u].pc = "join" /\ task'[u] = Idle
  BY <1>0, <1>5 DEF Settle, At
<1>6. CASE WakeFinish(t, v)
  <2>1. /\ task[t].pc \in BootPcs /\ Settle(t, v) /\ ListsSame
        /\ UNCHANGED <<status, snapshottingSet, restarts>>
    BY <1>6 DEF WakeFinish, FollowUp, At, BootPcs, ListsSame
  <2>2. status[v] # "creating" /\ task[t].op = "wake"
    BY <1>00, <1>6 DEF WakeFinish, FollowUp, At, Safe, FinishedIsWritten, InPlace, SnapPcs, ClonePcs
  <2> QED BY <1>0, <1>5, <2>1, <2>2, BootIsOver
<1>7. CASE BootFails(t, v)
  <2>1. /\ task[t].pc \in BootPcs /\ ListsSame
        /\ UNCHANGED <<snapshottingSet, restarts>>
    BY <1>7 DEF BootFails, BootPcs, ListsSame
  <2>2. CASE task[t].op = "wake"
    <3>1. Settle(t, v) /\ SetStatus(v, "error")
      BY <1>7, <2>2 DEF BootFails, MarkError
    <3>2. RowBecomes(v, "error") \/ (UNCHANGED status /\ ~Row(v))
      BY <1>0, <3>1 DEF SetStatus, RowBecomes
    <3> QED BY <1>0, <1>5, <2>1, <2>2, <3>1, <3>2, BootIsOver
  <2>3. CASE task[t].op # "wake"
    <3>1. RowBecomes(v, "deleted") /\ Return(t) /\ UNCHANGED pendingWakes
      BY <1>7, <2>3 DEF BootFails, RowBecomes
    <3>2. task'[t] = Idle /\ \A u \in Task \ {t} : task'[u] = task[u]
      BY <1>0, <3>1 DEF Return, Tasks
    <3> QED BY <1>0, <2>1, <2>3, <3>1, <3>2, BootIsOver
  <2> QED BY <2>2, <2>3
<1> QED BY <1>1, <1>2, <1>3, <1>4, <1>6, <1>7 DEF Boot

\* A poll that ends a snapshot of v and goes on.
LEMMA PollSafe ==
    ASSUME TypeOK, Safe, NEW t \in Task, NEW v \in VM, task[t].vm = v,
           task[t].pc \in SnapPcs, task[t].op = "poll", NEW w,
           Scan(t, poll[t], w, ReleaseGuard(v, snapshottingSet)),
           UNCHANGED status \/ SetStatus(v, "snapshotted"),
           UNCHANGED <<pendingWakes, restarts>>
    PROVE  Safe'
<1> DEFINE guard == snapshottingSet \ {v}
<1>1. Typed /\ Polls(t, v) /\ poll[t] \in PollLocals /\ guard \in SUBSET VM
  BY TypesHold DEF Typed, Polls
<1>2. TakesNext(t, poll[t], guard) /\ OtherPollsSame(t)
  BY <1>1, ScanTakesNext DEF ReleaseGuard
<1>3. UNCHANGED status \/ RowBecomes(v, "snapshotted")
  BY <1>1 DEF SetStatus, RowBecomes, Typed
<1> HIDE DEF guard
<1>4. guard = snapshottingSet \ {v}
  BY DEF guard
<1> QED BY <1>1, <1>2, <1>3, <1>4, PollGoesOn

LEMMA SnapshotSafe ==
    ASSUME TypeOK, Safe, NEW t \in Task, NEW v \in VM, task[t].vm = v, Snapshot(t, v),
           UNCHANGED restarts
    PROVE  Safe'
<1>0. Typed /\ task \in Tasks /\ status \in [VM -> Status] /\ task[t] # Idle
  BY TypesHold, NoVMAssumption DEF Typed, Idle
<1>00. InPlace(task[t])
  BY <1>0 DEF Safe, HandlersInPlace
<1> USE DEF db, host, memory
<1>1. CASE PauseGuest(t, v)
  <2>1. LET k == [task[t] EXCEPT !.pc = "snap"]
        IN  InPlace(k) /\ Kind(k) = Kind(task[t]) /\ Kind(k) # "other"
    BY <1>0, <1>00, <1>1 DEF PauseGuest, At, InPlace, Kind, BootPcs, SnapPcs, ClonePcs, Tasks
  <2> QED BY <1>0, <1>1, <2>1, GoToAdvances DEF PauseGuest
<1>2. CASE CreateSnapshot(t, v)
  <2>1. LET k == [task[t] EXCEPT !.pc = "kill"]
        IN  InPlace(k) /\ Kind(k) = Kind(task[t]) /\ Kind(k) # "other"
    BY <1>0, <1>00, <1>2 DEF CreateSnapshot, At, InPlace, Kind, BootPcs, SnapPcs, ClonePcs, Tasks
  <2> QED BY <1>0, <1>2, <2>1, GoToAdvances DEF CreateSnapshot
<1>3. CASE KillGuest(t, v)
  <2>1. LET k == [task[t] EXCEPT !.pc = "cleanup"]
        IN  InPlace(k) /\ Kind(k) = Kind(task[t]) /\ Kind(k) # "other"
    BY <1>0, <1>00, <1>3 DEF KillGuest, At, InPlace, Kind, BootPcs, SnapPcs, ClonePcs, Tasks
  <2> QED BY <1>0, <1>3, <2>1, GoToAdvances DEF KillGuest
<1>4. CASE SnapshotDone(t, v)
  <2>1. task[t].pc \in SnapPcs /\ UNCHANGED <<pendingWakes, restarts>>
    BY <1>4 DEF SnapshotDone, At, SnapPcs
  <2>2. CASE task[t].op = "poll"
    <3>1. /\ Scan(t, poll[t], [window EXCEPT ![v] = "none"], ReleaseGuard(v, snapshottingSet))
          /\ SetStatus(v, "snapshotted")
      BY <1>4, <2>2 DEF SnapshotDone
    <3> QED BY <2>1, <2>2, <3>1, PollSafe
  <2>3. CASE task[t].op # "poll"
    <3>1. /\ Becomes(t, Idle) /\ ListsSame /\ UNCHANGED snapshottingSet
      BY <1>0, <1>4, <2>3 DEF SnapshotDone, Return, Becomes, ListsSame, Tasks
    <3>2. \/ UNCHANGED status
          \/ RowBecomes(v, "snapshotted") /\ task[t].op = "pause"
      BY <1>0, <1>00, <1>4, <2>1, <2>3
         DEF SnapshotDone, SetStatus, RowBecomes, InPlace, SnapPcs, ClonePcs
    <3> QED BY <1>0, <2>1, <2>3, <3>1, <3>2, Returns
  <2> QED BY <2>2, <2>3
<1>5. CASE SnapshotFails(t, v)
  <2>1. /\ task[t].pc \in SnapPcs /\ UNCHANGED <<status, pendingWakes, restarts>>
    BY <1>5 DEF SnapshotFails, SnapshotCallFails, At, SnapPcs
  <2>2. CASE task[t].op = "poll"
    <3>1. Scan(t, poll[t], IF poll[t].stage = "idle" THEN [window EXCEPT ![v] = "open"] ELSE window,
               ReleaseGuard(v, snapshottingSet))
      BY <1>5, <2>2 DEF SnapshotFails
    <3> QED BY <2>1, <2>2, <3>1, PollSafe
  <2>3. CASE task[t].op # "poll"
    <3>1. Becomes(t, Idle) /\ ListsSame /\ UNCHANGED snapshottingSet
      BY <1>0, <1>5, <2>3 DEF SnapshotFails, Return, Becomes, ListsSame, Tasks
    <3> QED BY <1>0, <2>1, <2>3, <3>1, Returns
  <2> QED BY <2>2, <2>3
<1> QED BY <1>1, <1>2, <1>3, <1>4, <1>5 DEF Snapshot

LEMMA CloneSafe ==
    ASSUME TypeOK, Safe, NEW t \in Task, NEW v \in VM, task[t].vm = v, Clone(t, v),
           UNCHANGED restarts
    PROVE  Safe'
<1>0. Typed /\ task \in Tasks /\ task[t] # Idle
  BY TypesHold, NoVMAssumption DEF Typed, Idle
<1>00. InPlace(task[t])
  BY <1>0 DEF Safe, HandlersInPlace
<1> USE DEF db, host, memory
<1>1. ASSUME NEW p \in {"copy", "thaw"}, task[t].pc \in {"freeze", "copy"}, GoTo(t, p),
             UNCHANGED <<status, pendingWakes, snapshottingSet, poll>>
      PROVE  Safe'
  <2>1. LET k == [task[t] EXCEPT !.pc = p]
        IN  InPlace(k) /\ Kind(k) = Kind(task[t]) /\ Kind(k) # "other"
    BY <1>0, <1>00, <1>1 DEF InPlace, Kind, BootPcs, SnapPcs, ClonePcs, Tasks
  <2> QED BY <1>0, <1>1, <2>1, GoToAdvances
<1>2. ASSUME task[t].pc \in ClonePcs, Return(t),
             UNCHANGED <<status, pendingWakes, snapshottingSet, poll>>
      PROVE  Safe'
  <2>1. Becomes(t, Idle) /\ ListsSame
    BY <1>0, <1>2 DEF Return, Becomes, ListsSame, Tasks
  <2> QED BY <1>0, <1>2, <2>1, Returns
<1>3. CASE CloneFreezes(t, v)
  BY <1>1, <1>3 DEF CloneFreezes, At
<1>4. CASE CloneCopies(t, v)
  BY <1>1, <1>2, <1>4 DEF CloneCopies, At, ClonePcs
<1>5. CASE CloneThaws(t, v)
  BY <1>2, <1>5 DEF CloneThaws, At, ClonePcs
<1>6. CASE CloneFails(t, v)
  BY <1>2, <1>6 DEF CloneFails, At, ClonePcs
<1> QED BY <1>3, <1>4, <1>5, <1>6 DEF Clone

LEMMA DeleteSafe ==
    ASSUME TypeOK, Safe, NEW t \in Task, NEW v \in VM, task[t].vm = v, Delete(t, v),
           UNCHANGED restarts
    PROVE  Safe'
<1>0. Typed /\ task \in Tasks /\ status \in [VM -> Status] /\ task[t] # Idle
  BY TypesHold, NoVMAssumption DEF Typed, Idle
<1>00. InPlace(task[t])
  BY <1>0 DEF Safe, HandlersInPlace
<1> USE DEF db, host, memory
<1>1. ASSUME NEW p \in {"stopping", "route"}, task[t].pc \in {"hook", "stopping"}, GoTo(t, p),
             UNCHANGED <<status, pendingWakes, snapshottingSet, poll>>
      PROVE  Safe'
  <2>1. LET k == [task[t] EXCEPT !.pc = p]
        IN  InPlace(k) /\ Kind(k) = Kind(task[t]) /\ Kind(k) # "other"
    BY <1>0, <1>00, <1>1 DEF InPlace, Kind, BootPcs, SnapPcs, ClonePcs, Tasks
  <2> QED BY <1>0, <1>1, <2>1, GoToAdvances
<1>2. CASE DeleteUnknown(t, v)
  BY <1>1, <1>2 DEF DeleteUnknown, At
<1>3. CASE DeleteKnown(t, v)
  BY <1>1, <1>3 DEF DeleteKnown, At
<1>4. CASE DeleteStop(t, v)
  BY <1>1, <1>4 DEF DeleteStop, At
<1>5. CASE DeleteRow(t, v)
  <2>1. /\ task[t].pc = "route" /\ Becomes(t, Idle) /\ ListsSame /\ RowBecomes(v, "deleted")
        /\ UNCHANGED <<pendingWakes, snapshottingSet>>
    BY <1>0, <1>5 DEF DeleteRow, At, Return, Becomes, ListsSame, RowBecomes, Tasks
  <2> QED BY <1>0, <2>1, Returns
<1> QED BY <1>2, <1>3, <1>4, <1>5 DEF Delete

LEMMA RequestSafe ==
    ASSUME TypeOK, Safe, NEW t \in Task, Request(t), UNCHANGED restarts
    PROVE  Safe'
<1>0. Typed /\ task \in Tasks /\ status \in [VM -> Status]
  BY TypesHold DEF Typed
<1> USE DEF db, host, memory
<1>1. CASE PollStart(t)
  <2> DEFINE p == [stage |-> "idle", seen |-> Listed, todo |-> Listed,
                   due |-> {v \in Listed : window[v] = "elapsed"}]
  <2>1. /\ p \in PollLocals /\ snapshottingSet \in SUBSET VM
        /\ \A v \in p.seen \cup p.todo : status[v] = "running"
    BY <1>0 DEF PollLocals, Listed, Typed
  <2>2. /\ Scan(t, p, window, snapshottingSet) /\ task[t] = Idle
        /\ UNCHANGED <<status, pendingWakes>>
    BY <1>1 DEF PollStart
  <2> HIDE DEF p
  <2>3. TakesNext(t, p, snapshottingSet) /\ OtherPollsSame(t)
    BY <1>0, <2>1, <2>2, ScanTakesNext
  <2> QED BY <1>0, <2>1, <2>2, <2>3, PollGoesOn
<1>2. ASSUME NEW v \in VM, EnsureVMRunning(t, v) PROVE Safe'
  BY <1>2, WakeSafe
<1>3. ASSUME NEW v \in VM, CreateRequest(t, v) PROVE Safe'
  <2> DEFINE k == [op |-> "create", pc |-> "setup", vm |-> v]
  <2>1. /\ task[t] = Idle /\ status[v] = "unborn" /\ Becomes(t, k) /\ ListsSame
        /\ RowBecomes(v, "creating") /\ UNCHANGED <<pendingWakes, snapshottingSet>>
    BY <1>0, <1>3 DEF CreateRequest, Start, Becomes, ListsSame, RowBecomes, Tasks
  <2>2. k.vm = v /\ k.op = "create" /\ k.pc = "setup"
    OBVIOUS
  <2> HIDE DEF k
  <2> QED BY <1>0, <2>1, <2>2, CreationBegins
<1>4. ASSUME NEW v \in VM, SnapshotRequest(t, v) PROVE Safe'
  <2>1. PICK o \in {"pause", "stop"} :
          /\ Start(t, o, v)
          /\ IF o = "pause" THEN status[v] = "running" ELSE Row(v)
          /\ task' = [task EXCEPT ![t] = [op |-> o, pc |-> "quiesce", vm |-> v]]
    BY <1>4 DEF SnapshotRequest
  <2> DEFINE k == [op |-> o, pc |-> "quiesce", vm |-> v]
  <2>2. /\ task[t] = Idle /\ Becomes(t, k) /\ ListsSame
        /\ UNCHANGED <<status, pendingWakes, snapshottingSet>>
    BY <1>0, <1>4, <2>1 DEF SnapshotRequest, Start, Becomes, ListsSame, Tasks
  <2>3. /\ InPlace(k) /\ k.vm = v /\ k.op # "poll" /\ k.pc \notin BootPcs
        /\ status[v] # "unborn" /\ (k.op = "pause" => status[v] = "running")
    BY <2>1 DEF InPlace, SnapPcs, BootPcs, Row
  <2> HIDE DEF k
  <2> QED BY <1>0, <2>2, <2>3, Engages
<1>5. ASSUME NEW v \in VM, DeleteRequest(t, v) PROVE Safe'
  <2> DEFINE k == [op |-> "delete", pc |-> "hook", vm |-> v]
  <2>1. /\ task[t] = Idle /\ Becomes(t, k) /\ ListsSame /\ status[v] # "unborn"
        /\ UNCHANGED <<status, pendingWakes, snapshottingSet>>
    BY <1>0, <1>5 DEF DeleteRequest, Start, Becomes, ListsSame, Tasks, Row
  <2>2. InPlace(k) /\ k.vm = v /\ k.op = "delete" /\ k.pc \notin BootPcs
    BY DEF InPlace, BootPcs
  <2> HIDE DEF k
  <2> QED BY <1>0, <2>1, <2>2, Engages
<1>6. ASSUME NEW v \in VM, CloneRequest(t, v) PROVE Safe'
  <2> DEFINE k == [op |-> "clone", pc |-> "freeze", vm |-> v]
  <2>1. /\ task[t] = Idle /\ Becomes(t, k) /\ ListsSame /\ status[v] # "unborn"
        /\ UNCHANGED <<status, pendingWakes, snapshottingSet>>
    BY <1>0, <1>6 DEF CloneRequest, Start, Becomes, ListsSame, Tasks
  <2>2. InPlace(k) /\ k.vm = v /\ k.op = "clone" /\ k.pc \notin BootPcs \cup SnapPcs
    BY DEF InPlace, BootPcs, SnapPcs, ClonePcs
  <2> HIDE DEF k
  <2> QED BY <1>0, <2>1, <2>2, Engages
<1> QED BY <1>1, <1>2, <1>3, <1>4, <1>5, <1>6 DEF Request

LEMMA SafeStep == ASSUME TypeOK, Safe, [Next]_vars PROVE Safe'
<1>0. Typed
  BY TypesHold
<1> USE DEF db, host, memory
<1>1. ASSUME NEW t \in Task, Request(t), UNCHANGED restarts PROVE Safe'
  BY <1>1, RequestSafe
<1>2. ASSUME NEW t \in Task, Continue(t), UNCHANGED restarts PROVE Safe'
  BY <1>2, BootSafe, SnapshotSafe, CloneSafe, DeleteSafe DEF Continue
<1>3. CASE Environment /\ UNCHANGED restarts
  <2>1. CASE Relief
    BY <1>0, <1>3, <2>1, Invisible DEF Relief, ListsSame
  <2>2. ASSUME NEW v \in VM, Elapse(v) PROVE Safe'
    <3>1. ListsSame
      BY <1>0, <2>2 DEF Elapse, ListsSame, Typed, PollLocals
    <3> QED BY <1>0, <1>3, <2>2, <3>1, Invisible DEF Elapse
  <2>3. ASSUME NEW v \in VM, GuestHalts(v) PROVE Safe'
    BY <1>0, <1>3, <2>3, Invisible DEF GuestHalts, ListsSame
  <2> QED BY <1>3, <2>1, <2>2, <2>3 DEF Environment
<1>4. CASE Restart
  BY <1>4, StartsAgain
<1>5. CASE UNCHANGED vars
  BY <1>0, <1>5, Invisible DEF vars, ListsSame
<1> QED BY <1>1, <1>2, <1>3, <1>4, <1>5 DEF Next

-----------------------------------------------------------------------------
(* The theorems.                                                           *)

\* The invariant holds in every reachable state: what a creation or a wake,
\* a joiner, a poll and the map of promises rely on is never broken, however
\* many handlers, VMs and restarts there are.
THEOREM LifecycleSafe == Spec => []LifecycleInv
<1>1. Init => TypeOK /\ Safe
  BY InitType, StartsSafe
<1>2. TypeOK /\ Safe /\ [Next]_vars => TypeOK' /\ Safe'
  BY TypeStep, SafeStep
<1>3. TypeOK /\ Safe => LifecycleInv
  BY DEF Safe, LifecycleInv
<1> QED BY <1>1, <1>2, <1>3, PTL DEF Spec

\* Two handlers never boot one VM at the same time (wake.ts, routes/vms.ts).
THEOREM OneBootPerVM == Spec => []BootExclusive
<1>1. LifecycleInv => BootExclusive
  BY DEF LifecycleInv
<1> QED BY <1>1, LifecycleSafe, PTL

\* The map of wake promises says exactly which VMs are being woken.
THEOREM PromisesAreKept == Spec => []PendingHasLeader
<1>1. LifecycleInv => PendingHasLeader
  BY DEF LifecycleInv
<1> QED BY <1>1, LifecycleSafe, PTL

\* Overlapping polls never snapshot the same VM together, and no guard of
\* the idle monitor is lost or left behind.
THEOREM PollsExclude == Spec => []PollExclusive
<1>1. LifecycleInv => PollExclusive
  BY DEF LifecycleInv
<1> QED BY <1>1, LifecycleSafe, PTL

\* Until the first restart, creating means that somebody is at it.
THEOREM CreatingIsTrue == Spec => []CreatingHasBooter
<1>1. LifecycleInv => CreatingHasBooter
  BY DEF LifecycleInv
<1> QED BY <1>1, LifecycleSafe, PTL

\* A VM under creation is left alone: no poll, pause or wake writes its row
\* before the creation does (idle-monitor.ts:54, routes/vms.ts:527).
THEOREM CreationsAreLeftAlone == Spec => []CreationUndisturbed
<1>1. LifecycleInv => CreationUndisturbed
  BY DEF LifecycleInv
<1> QED BY <1>1, LifecycleSafe, PTL

-----------------------------------------------------------------------------
(* Settled.  An orderly control plane has one handler that snapshots; what  *)
(* the steps do to one VM has a lemma per kind, and the other VMs see        *)
(* nothing of it.                                                            *)

\* Past the types and the invariant above.
Base == Orderly /\ TypeOK /\ Safe /\ SettledInv

Working == (BootPcs \ {"finish"}) \cup SnapPcs

\* The row, the host and the memory of a VM are as they were.
Same(w) == /\ status'[w] = status[w]
           /\ fc'[w] = fc[w] /\ files'[w] = files[w]
           /\ tap'[w] = tap[w] /\ dnat'[w] = dnat[w]
           /\ w \in runningVMs' <=> w \in runningVMs

OnlyVM(v) == \A w \in VM \ {v} : Same(w)

LEMMA OneSnapshotter ==
    ASSUME Base, NEW t \in Task, Snapshotting(t)
    PROVE  \A u \in Task \ {t} : task[u].pc \notin SnapPcs /\ poll[u].todo = {}
<1> SUFFICES ASSUME NEW u \in Task \ {t} PROVE task[u].pc \notin SnapPcs /\ poll[u].todo = {}
  OBVIOUS
<1>1. Serves[u] \cap {"poll", "pause", "stop"} = {}
  BY DEF Base, Orderly, Snapshotting
<1>2. task[u] # Idle => task[u].op \in Serves[u] /\ InPlace(task[u])
  BY DEF Base, SettledInv, AsServed, Safe, HandlersInPlace
<1>3. task[u].pc \notin SnapPcs
  BY <1>1, <1>2 DEF InPlace, SnapPcs, BootPcs, ClonePcs, Idle
<1>4. poll[u].todo = {}
  BY <1>1, <1>2 DEF Base, SettledInv, AsServed, Idle
<1> QED BY <1>3, <1>4

\* Whoever snapshots is the one that may, and only a snapshot has a list.
LEMMA SnapsServe ==
    ASSUME Base, NEW t \in Task
    PROVE  /\ task[t].pc \in SnapPcs => Snapshotting(t) /\ task[t].op \in {"poll", "pause"}
           /\ poll[t].todo # {} => task[t].pc \in SnapPcs /\ task[t].op = "poll"
<1>1. task[t] # Idle => task[t].op \in Serves[t] /\ InPlace(task[t])
  BY DEF Base, SettledInv, AsServed, Safe, HandlersInPlace
<1>2. Serves[t] \cap {"stop", "delete"} = {}
  BY DEF Base, Orderly
<1>3. poll[t].todo # {} => task[t].op = "poll"
  BY DEF Base, SettledInv, AsServed
<1>4. task[t].pc \in SnapPcs => Snapshotting(t) /\ task[t].op \in {"poll", "pause"}
  BY <1>1, <1>2 DEF InPlace, SnapPcs, BootPcs, ClonePcs, Idle, Snapshotting
<1>5. task[t].op = "poll" => task[t].pc \in SnapPcs
  BY <1>1 DEF InPlace, SnapPcs, BootPcs, ClonePcs, Idle
<1> QED BY <1>3, <1>4, <1>5

\* A boot that is not over has the VM to itself.
LEMMA BootAlone ==
    ASSUME Base, NEW t \in Task, NEW v \in VM, Boots(t, v), ~At(t, "finish")
    PROVE  /\ status[v] = "creating"
           /\ \A u \in Task : Boots(u, v) => u = t
           /\ \A u \in Task : ~Snaps(u, v)
           /\ \A u \in Task : poll[u].stage = "idle" => v \notin poll[u].todo
<1>1. status[v] = "creating"
  BY DEF Base, SettledInv, Holds, BootHolds
<1> QED BY <1>1 DEF Base, SettledInv, Holds, SnapsAwake, StaysAsleep, ListIsFresh, Safe, BootExclusive

\* The VMs that a step is not about.
LEMMA Elsewhere ==
    ASSUME Base, NEW v \in VM, OnlyVM(v),
           \A u \in Task : \/ task'[u] = task[u]
                           \/ task[u].vm \in {v, NoVM} /\ task'[u].vm \in {v, NoVM},
           UNCHANGED <<overLimit, poll>>
    PROVE  \A w \in VM \ {v} : Holds(w)'
<1> SUFFICES ASSUME NEW w \in VM \ {v} PROVE Holds(w)'
  OBVIOUS
<1>0. w # NoVM /\ w # v /\ Holds(w) /\ Same(w)
  BY NoVMAssumption DEF Base, SettledInv, OnlyVM
<1>1. \A u \in Task : task[u].vm = w \/ task'[u].vm = w => task'[u] = task[u]
  BY <1>0
<1>2. RunningIsUp(w)'
  BY <1>0, <1>1 DEF Same, Holds, RunningIsUp, Snaps, At, ImageOnly, OnHost
<1>3. AsleepIsDown(w)'
  BY <1>0 DEF Same, Holds, AsleepIsDown, ImageOnly
<1>4. KnownIsBooted(w)'
  BY <1>0, <1>1 DEF Same, Holds, KnownIsBooted, Booted
<1>5. BootHolds(w)'
  BY <1>0, <1>1 DEF Same, Holds, BootHolds, Boots, Booted, At, OnHost
<1>6. SnapsAwake(w)'
  BY <1>0, <1>1 DEF Same, Holds, SnapsAwake, Snaps, StaysAsleep, At
<1>7. ListIsFresh(w)'
  BY <1>0, <1>1 DEF Same, Holds, ListIsFresh
<1>8. ColdBoot(w)'
  BY <1>0, <1>1 DEF Same, Holds, ColdBoot, Boots, Afresh
<1> QED BY <1>2, <1>3, <1>4, <1>5, <1>6, <1>7, <1>8 DEF Holds

\* Handlers keep what they serve when each changes to something it serves.
LEMMA StillServed ==
    ASSUME Base, UNCHANGED poll,
           \A u \in Task : /\ task'[u] # Idle => task'[u].op \in Serves[u]
                           /\ task[u].op = "poll" => task'[u].op = "poll"
    PROVE  AsServed'
BY DEF Base, SettledInv, AsServed

\* Traffic, answers and a larger plan change nothing that a VM relies on.
LEMMA Unseen ==
    ASSUME Base, UNCHANGED <<status, fc, files, tap, dnat, runningVMs, task>>,
           \A u \in Task : poll'[u].todo = poll[u].todo /\ poll'[u].stage = poll[u].stage,
           UNCHANGED overLimit \/ "relief" \in Env
    PROVE  SettledInv'
<1>1. AsServed'
  BY DEF Base, SettledInv, AsServed
<1>2. ASSUME NEW v \in VM PROVE Holds(v)'
  <2>0. Holds(v)
    BY DEF Base, SettledInv
  <2>1. RunningIsUp(v)' /\ AsleepIsDown(v)' /\ KnownIsBooted(v)'
    BY <2>0 DEF Holds, RunningIsUp, AsleepIsDown, KnownIsBooted, Snaps, Booted, At,
                OnHost, ImageOnly
  <2>2. BootHolds(v)' /\ ColdBoot(v)' /\ SnapsAwake(v)' /\ ListIsFresh(v)'
    BY <2>0 DEF Holds, BootHolds, ColdBoot, SnapsAwake, ListIsFresh, Snaps, Boots, Booted,
                At, Afresh, OnHost, StaysAsleep
  <2> QED BY <2>1, <2>2 DEF Holds
<1> QED BY <1>1, <1>2 DEF SettledInv

\* A step next to the boots and snapshots: a request waits, a clone goes on or
\* ends, a woken VM gets its route.  The guest may be paused or resumed.
LEMMA Aside ==
    ASSUME Base, NEW v \in VM,
           \A u \in Task : \/ task'[u] = task[u]
                           \/ /\ task[u].pc \notin Working /\ task'[u].pc \notin Working
                              /\ task'[u] # Idle => task'[u].op \in Serves[u],
           \/ UNCHANGED fc
           \/ /\ fc[v] \in {"running", "paused"} /\ fc'[v] \in {"running", "paused"}
              /\ \A w \in VM \ {v} : fc'[w] = fc[w],
           UNCHANGED <<status, overLimit, files, tap, dnat, runningVMs, poll>>
    PROVE  SettledInv'
<1> USE DEF Working
<1>1. \A u \in Task : task'[u] # task[u] => poll[u].todo = {} /\ task[u].op # "poll"
  <2> SUFFICES ASSUME NEW u \in Task, task[u].pc \notin Working
               PROVE  poll[u].todo = {} /\ task[u].op # "poll"
    OBVIOUS
  <2>1. task[u].pc \notin SnapPcs
    OBVIOUS
  <2>2. task[u].op # "poll"
    BY <2>1 DEF Base, Safe, HandlersInPlace, InPlace, Idle
  <2> QED BY <2>1, <2>2, SnapsServe
<1>2. AsServed'
  BY <1>1, StillServed DEF Base, SettledInv, AsServed
<1>3. \A u \in Task, w \in VM :
        /\ Snaps(u, w)' <=> Snaps(u, w)
        /\ Booted(u, w)' <=> Booted(u, w)
        /\ (Boots(u, w) /\ ~At(u, "finish"))' <=> Boots(u, w) /\ ~At(u, "finish")
        /\ (Boots(u, w) /\ Afresh(u))' <=> Boots(u, w) /\ Afresh(u)
  BY DEF Snaps, Booted, Boots, At, Afresh, SnapPcs, BootPcs
<1>4. \A u \in Task, w \in VM, p \in Working :
        task[u].vm = w => (At(u, p)' <=> At(u, p))
  BY DEF At
<1>5. \A w \in VM : (fc'[w] \in {"running", "paused"} <=> fc[w] \in {"running", "paused"})
                    /\ (fc'[w] = "none" <=> fc[w] = "none")
  OBVIOUS
<1>6. {"cleanup", "quiesce", "setup"} \subseteq Working
  BY DEF SnapPcs, BootPcs
<1>7. ASSUME NEW w \in VM PROVE Holds(w)'
  <2>0. Holds(w)
    BY DEF Base, SettledInv
  <2>1. (OnHost(w)' <=> OnHost(w)) /\ (ImageOnly(w)' <=> ImageOnly(w))
    BY <1>5 DEF OnHost, ImageOnly
  <2>2. RunningIsUp(w)'
    BY <1>3, <1>4, <1>6, <2>0, <2>1 DEF Holds, RunningIsUp, Snaps
  <2>3. AsleepIsDown(w)' /\ KnownIsBooted(w)'
    BY <1>3, <2>0, <2>1 DEF Holds, AsleepIsDown, KnownIsBooted
  <2>4. BootHolds(w)'
    BY <1>3, <1>4, <1>6, <2>0, <2>1 DEF Holds, BootHolds, Boots
  <2>5. SnapsAwake(w)'
    BY <1>3, <1>4, <1>6, <2>0 DEF Holds, SnapsAwake, StaysAsleep, Snaps
  <2>6. ListIsFresh(w)'
    BY <1>1, <2>0 DEF Holds, ListIsFresh
  <2>7. ColdBoot(w)'
    BY <1>3, <2>0 DEF Holds, ColdBoot
  <2> QED BY <2>2, <2>3, <2>4, <2>5, <2>6, <2>7 DEF Holds
<1> QED BY <1>2, <1>7 DEF SettledInv

\* A creation or a wake begins, on a VM that is new or asleep.
LEMMA BootStarts ==
    ASSUME Base, NEW t \in Task, NEW v \in VM, NEW k, task[t] = Idle, Becomes(t, k),
           k.vm = v, k.op \in Serves[t], k.pc \in {"setup", "load"}, k.op # "none",
           status[v] = "unborn" \/ (status[v] = "snapshotted" /\ v \notin overLimit),
           status'[v] = "creating", IF k.pc = "load" THEN tap'[v] ELSE ~files'[v],
           OnlyVM(v), UNCHANGED <<overLimit, runningVMs, poll>>
    PROVE  SettledInv'
<1>0. Holds(v) /\ task[t].vm # v /\ task[t].op = "none" /\ task[t].pc = "idle"
  BY NoVMAssumption DEF Base, SettledInv, Idle
<1>1. AsServed'
  BY <1>0, StillServed DEF Base, SettledInv, AsServed, Becomes, Idle
<1>2. \A w \in VM \ {v} : Holds(w)'
  BY Elsewhere DEF Becomes, Idle
<1>3. /\ v \notin runningVMs
      /\ \A u \in Task : ~Snaps(u, v) /\ (Boots(u, v) => At(u, "finish"))
      /\ \A u \in Task : poll[u].stage = "idle" => v \notin poll[u].todo
  BY <1>0 DEF Holds, KnownIsBooted, SnapsAwake, StaysAsleep, BootHolds, ListIsFresh
<1>4. \A u \in Task : u # t => task'[u] = task[u]
  BY DEF Becomes
<1>5. RunningIsUp(v)' /\ AsleepIsDown(v)' /\ KnownIsBooted(v)'
  BY <1>3 DEF RunningIsUp, AsleepIsDown, KnownIsBooted
<1>6. BootHolds(v)'
  BY <1>3, <1>4 DEF BootHolds, Boots, Booted, At, Becomes
<1>7. SnapsAwake(v)'
  BY <1>3, <1>4 DEF SnapsAwake, Snaps, Becomes, SnapPcs
<1>8. ListIsFresh(v)'
  BY <1>3 DEF ListIsFresh
<1>9. ColdBoot(v)'
  BY <1>3, <1>4 DEF ColdBoot, Boots, At, Afresh, Becomes
<1> QED BY <1>1, <1>2, <1>5, <1>6, <1>7, <1>8, <1>9 DEF SettledInv, Holds

\* A wake that does not get as far as a task leaves the row in error.
LEMMA NeverStarted ==
    ASSUME Base, NEW v \in VM, status[v] = "snapshotted", v \notin overLimit,
           status'[v] = "error",
           OnlyVM(v), UNCHANGED <<overLimit, runningVMs, task, poll>>
    PROVE  SettledInv'
<1>0. Holds(v)
  BY DEF Base, SettledInv
<1>1. AsServed'
  BY DEF Base, SettledInv, AsServed
<1>2. \A w \in VM \ {v} : Holds(w)'
  BY Elsewhere
<1>3. /\ v \notin runningVMs
      /\ \A u \in Task : ~Snaps(u, v) /\ (Boots(u, v) => At(u, "finish"))
      /\ \A u \in Task : poll[u].stage = "idle" => v \notin poll[u].todo
  BY <1>0 DEF Holds, KnownIsBooted, SnapsAwake, StaysAsleep, BootHolds, ListIsFresh
<1>4. RunningIsUp(v)' /\ AsleepIsDown(v)' /\ KnownIsBooted(v)'
  BY <1>3 DEF RunningIsUp, AsleepIsDown, KnownIsBooted
<1>5. BootHolds(v)' /\ ColdBoot(v)' /\ SnapsAwake(v)' /\ ListIsFresh(v)'
  BY <1>3 DEF BootHolds, ColdBoot, Boots, At, Afresh, SnapsAwake, Snaps, ListIsFresh
<1> QED BY <1>1, <1>2, <1>4, <1>5 DEF SettledInv, Holds

\* A boot goes on.
LEMMA BootGoesOn ==
    ASSUME Base, NEW t \in Task, NEW v \in VM, Boots(t, v), ~At(t, "finish"),
           NEW p \in BootPcs \ {"finish"}, Becomes(t, [task[t] EXCEPT !.pc = p]),
           p = "setup" \/ tap'[v],
           p \in {"ready", "probe"} => OnHost(v)' /\ dnat'[v],
           p \in {"setup", "config", "ready"} => ~files'[v],
           v \in runningVMs' <=> p \in {"ready", "probe"},
           OnlyVM(v), UNCHANGED <<status, overLimit, poll>>
    PROVE  SettledInv'
<1>0. /\ Holds(v) /\ status[v] = "creating"
      /\ task'[t].vm = v /\ task'[t].op = task[t].op /\ task'[t].pc = p
      /\ \A u \in Task : u # t => task'[u] = task[u]
  BY BootAlone DEF Base, SettledInv, Becomes, Boots, TypeOK
<1>1. AsServed'
  BY <1>0, StillServed, NoVMAssumption DEF Base, SettledInv, AsServed, Boots, Idle
<1>2. \A w \in VM \ {v} : Holds(w)'
  BY <1>0, Elsewhere DEF Boots
<1>3. /\ \A u \in Task : Boots(u, v) => u = t
      /\ \A u \in Task : ~Snaps(u, v)
      /\ \A u \in Task : poll[u].stage = "idle" => v \notin poll[u].todo
  BY BootAlone
<1>4. RunningIsUp(v)' /\ AsleepIsDown(v)'
  BY <1>0 DEF RunningIsUp, AsleepIsDown
<1>5. KnownIsBooted(v)'
  BY <1>0 DEF KnownIsBooted, Booted
<1>6. BootHolds(v)'
  BY <1>0, <1>3 DEF BootHolds, Boots, Booted, At
<1>7. SnapsAwake(v)' /\ ListIsFresh(v)'
  BY <1>0, <1>3 DEF SnapsAwake, Snaps, ListIsFresh, SnapPcs, BootPcs
<1>8. ColdBoot(v)'
  BY <1>0, <1>3 DEF ColdBoot, Boots, Afresh
<1> QED BY <1>1, <1>2, <1>4, <1>5, <1>6, <1>7, <1>8 DEF SettledInv, Holds

\* A boot has its guest up, or has failed; the joiners of a wake return.
LEMMA BootLeavesRow ==
    ASSUME Base, NEW t \in Task, NEW v \in VM, Boots(t, v), ~At(t, "finish"),
           task'[t] = Idle \/ task'[t] = [task[t] EXCEPT !.pc = "finish"],
           \A u \in Task \ {t} : \/ task'[u] = task[u]
                                 \/ At(u, "join") /\ task[u].vm = v /\ task'[u] = Idle,
           \/ status'[v] = "running" /\ v \in runningVMs' /\ dnat'[v] /\ OnHost(v)'
           \/ status'[v] \in {"error", "deleted"} /\ v \notin runningVMs',
           OnlyVM(v), UNCHANGED <<overLimit, poll>>
    PROVE  SettledInv'
<1>0. /\ Holds(v) /\ status[v] = "creating" /\ task[t].vm = v /\ task[t].pc \in BootPcs
      /\ v # NoVM /\ task[t] # Idle
      /\ task[t].op \in {"create", "wake"}
  <2>1. task[t].vm = v /\ v # NoVM /\ task[t] # Idle
    BY NoVMAssumption DEF Boots, Idle
  <2>2. InPlace(task[t])
    BY <2>1 DEF Base, Safe, HandlersInPlace
  <2> QED BY <2>1, <2>2, BootAlone
          DEF Base, SettledInv, Boots, InPlace, BootPcs, SnapPcs, ClonePcs
<1>01. task'[t] # Idle => /\ task'[t].vm = v /\ task'[t].op = task[t].op
                          /\ task'[t].pc = "finish"
  BY <1>0 DEF Base, TypeOK
<1>02. \A u \in Task : task[u].pc = "join" => task[u].op = "wake"
  BY DEF Base, Safe, HandlersInPlace, InPlace, Idle, BootPcs, SnapPcs, ClonePcs
<1>1. AsServed'
  BY <1>0, <1>01, <1>02, StillServed DEF Base, SettledInv, AsServed, Idle, At
<1>2. \A w \in VM \ {v} : Holds(w)'
  BY <1>0, <1>01, Elsewhere DEF Idle
<1>3. /\ \A u \in Task : Boots(u, v) => u = t
      /\ \A u \in Task : ~Snaps(u, v)
      /\ \A u \in Task : poll[u].stage = "idle" => v \notin poll[u].todo
  BY BootAlone
<1>4. \A u \in Task : task'[u].pc \in BootPcs \ {"finish"} \/ task'[u].pc \in SnapPcs
         => u # t /\ task'[u] = task[u]
  BY <1>01 DEF BootPcs, SnapPcs, Idle
<1>5. \A u \in Task : ~Snaps(u, v)' /\ ~Booted(u, v)' /\ (Boots(u, v)' => At(u, "finish")')
  BY <1>3, <1>4 DEF Snaps, Booted, Boots, At, BootPcs
<1>6. RunningIsUp(v)' /\ AsleepIsDown(v)' /\ KnownIsBooted(v)'
  BY <1>5 DEF RunningIsUp, AsleepIsDown, KnownIsBooted
<1>7. BootHolds(v)' /\ ColdBoot(v)' /\ SnapsAwake(v)' /\ ListIsFresh(v)'
  BY <1>3, <1>5 DEF BootHolds, ColdBoot, SnapsAwake, ListIsFresh, At, Afresh
<1> QED BY <1>1, <1>2, <1>6, <1>7 DEF SettledInv, Holds

\* A pause request, or the next step of a snapshot.
LEMMA SnapGoesOn ==
    ASSUME Base, NEW t \in Task, NEW v \in VM, NEW k, Becomes(t, k),
           k.vm = v, k.pc \in SnapPcs, k.op \in Serves[t], status[v] = "running",
           \/ task[t] = Idle /\ k.pc = "quiesce" /\ k.op # "none" /\ Snapshotting(t) /\ OnHost(v)'
           \/ Snaps(t, v) /\ ~At(t, "cleanup") /\ k.op = task[t].op
              /\ IF k.pc = "cleanup" THEN ImageOnly(v)' ELSE OnHost(v)',
           OnlyVM(v), UNCHANGED <<status, overLimit, dnat, runningVMs, poll>>
    PROVE  SettledInv'
<1>0. Holds(v) /\ v # NoVM /\ Snapshotting(t) /\ (task[t] = Idle => task[t].vm = NoVM)
      /\ task'[t] = k /\ \A u \in Task : u # t => task'[u] = task[u]
  BY NoVMAssumption, SnapsServe DEF Base, SettledInv, Idle, Snaps, Becomes
<1>1. AsServed'
  BY <1>0, StillServed DEF Base, SettledInv, AsServed, Idle
<1>2. \A w \in VM \ {v} : Holds(w)'
  BY <1>0, Elsewhere DEF Snaps
<1>3. \A u \in Task : u # t => task'[u].pc \notin SnapPcs
  BY <1>0, OneSnapshotter
<1>4. RunningIsUp(v)'
  BY <1>0, <1>3 DEF Holds, RunningIsUp, Snaps, At, SnapPcs
<1>5. AsleepIsDown(v)' /\ KnownIsBooted(v)'
  BY DEF AsleepIsDown, KnownIsBooted
<1>6. BootHolds(v)'
  BY <1>0 DEF Holds, BootHolds, Boots, Booted, At, BootPcs, SnapPcs
<1>7. SnapsAwake(v)'
  BY DEF SnapsAwake
<1>8. ListIsFresh(v)'
  BY <1>0, SnapsServe DEF Holds, ListIsFresh, Snaps, Idle, SnapPcs
<1>9. ColdBoot(v)'
  <2>1. \A u \in Task : Boots(u, v)' => ~Afresh(u)'
    BY <1>0 DEF Holds, BootHolds, Boots, At, Afresh, BootPcs, SnapPcs
  <2> QED BY <2>1 DEF ColdBoot
<1> QED BY <1>1, <1>2, <1>4, <1>5, <1>6, <1>7, <1>8, <1>9 DEF SettledInv, Holds

\* What the poll takes next is on the list of its first loop, or its owner is
\* over the limit; or the poll ends.
Picks(t, p) ==
    \/ \E x \in VM :
          /\ task'[t] = [op |-> "poll", pc |-> "quiesce", vm |-> x]
          /\ \/ /\ p.stage = "idle" /\ poll'[t].stage = "idle"
                /\ x \in p.todo /\ poll'[t].todo \subseteq p.todo \ {x}
             \/ /\ poll'[t].stage = "limit" /\ x \in overLimit'
                /\ x \in p.seen \cup p.todo
    \/ task'[t] = Idle /\ poll'[t].todo = {}

OthersSame(t) == \A u \in Task \ {t} : task'[u] = task[u] /\ poll'[u] = poll[u]

LEMMA ScanPicks ==
    ASSUME Typed, NEW t \in Task, NEW p \in PollLocals, NEW w, NEW guard \in SUBSET VM,
           Scan(t, p, w, guard)
    PROVE  /\ Picks(t, p) /\ OthersSame(t)
           /\ overLimit \subseteq overLimit'
<1>0. p.todo \subseteq VM /\ p.seen \subseteq VM /\ NoPoll.todo = {}
  BY DEF PollLocals, NoPoll
<1>1. ASSUME NEW q, NEW w2, NEW x \in VM \ guard, Victim(t, x, q, w2, guard)
      PROVE  /\ task'[t] = [op |-> "poll", pc |-> "quiesce", vm |-> x]
             /\ poll'[t] = q /\ OthersSame(t)
            
  BY <1>1 DEF Victim, OthersSame, Typed, Tasks
<1>2. CASE NextIdle(t, p, w, guard)
  <2>1. PICK x \in p.todo \ guard : \E R \in SUBSET (p.todo \ {x}) :
             \E w2 \in Sweeps(p, w, R, guard) :
                Victim(t, x, [p EXCEPT !.todo = @ \ (R \cup {x})], w2, guard)
    BY <1>2 DEF NextIdle, Unguarded
  <2>2. PICK R \in SUBSET (p.todo \ {x}) : \E w2 \in Sweeps(p, w, R, guard) :
                Victim(t, x, [p EXCEPT !.todo = @ \ (R \cup {x})], w2, guard)
    BY <2>1
  <2> DEFINE q == [p EXCEPT !.todo = @ \ (R \cup {x})]
  <2>3. PICK w2 : Victim(t, x, q, w2, guard)
    BY <2>2
  <2>4. q.stage = p.stage /\ q.todo \subseteq p.todo \ {x} /\ x \in VM \ guard
    BY <1>0 DEF PollLocals
  <2>5. p.stage = "idle" /\ UNCHANGED overLimit
    BY <1>2 DEF NextIdle
  <2> HIDE DEF q
  <2>6. /\ task'[t] = [op |-> "poll", pc |-> "quiesce", vm |-> x]
        /\ poll'[t] = q /\ OthersSame(t)
    BY <1>1, <2>3, <2>4
  <2>7. Picks(t, p)
    BY <2>4, <2>5, <2>6 DEF Picks
  <2> QED BY <2>5, <2>6, <2>7
<1>3. CASE NextOverLimit(t, p, w, guard)
  <2>0. overLimit \subseteq overLimit'
    BY <1>3 DEF NextOverLimit, Record
  <2>1. ASSUME NEW q \in PollLocals, q.todo \subseteq p.seen \cup p.todo,
               NEW w2, VisitOver(t, q, w2, guard)
        PROVE  Picks(t, p) /\ OthersSame(t)
    <3>1. PICK x \in (q.todo \cap overLimit') \ guard, R \in SUBSET q.todo :
               Victim(t, x, [q EXCEPT !.stage = "limit", !.todo = @ \ (R \cup {x})], w2, guard)
      BY <2>1 DEF VisitOver, Unguarded
    <3> DEFINE r == [q EXCEPT !.stage = "limit", !.todo = @ \ (R \cup {x})]
    <3>2. r.stage = "limit" /\ x \in VM \ guard /\ x \in overLimit' /\ x \in p.seen \cup p.todo
      BY <1>0, <2>1, <3>1 DEF PollLocals
    <3>3. Victim(t, x, r, w2, guard)
      BY <3>1
    <3> HIDE DEF r
    <3>4. /\ task'[t] = [op |-> "poll", pc |-> "quiesce", vm |-> x]
          /\ poll'[t] = r /\ OthersSame(t)
      BY <1>1, <3>2, <3>3
    <3>5. Picks(t, p)
      BY <3>2, <3>4 DEF Picks
    <3> QED BY <3>4, <3>5
  <2>2. CASE p.stage = "idle"
    <3>1. PICK w2 \in Sweeps(p, w, p.todo, guard) :
               VisitOver(t, [p EXCEPT !.todo = p.seen], w2, guard)
      BY <1>3, <2>2 DEF NextOverLimit
    <3>2. /\ [p EXCEPT !.todo = p.seen] \in PollLocals
          /\ [p EXCEPT !.todo = p.seen].todo \subseteq p.seen \cup p.todo
      BY DEF PollLocals
    <3> QED BY <2>0, <2>1, <3>1, <3>2
  <2>3. CASE p.stage # "idle"
    BY <1>3, <2>0, <2>1, <2>3 DEF NextOverLimit
  <2> QED BY <2>2, <2>3
<1>4. CASE PollEnds(t, p, w, guard)
  <2>1. overLimit \subseteq overLimit'
    BY <1>4 DEF PollEnds, Record
  <2>2. task' = [task EXCEPT ![t] = Idle] /\ poll' = [poll EXCEPT ![t] = NoPoll]
    BY <1>4 DEF PollEnds, Return
  <2>3. task'[t] = Idle /\ poll'[t].todo = {} /\ OthersSame(t)
    BY <1>0, <2>2 DEF OthersSame, Typed, Tasks
  <2> QED BY <2>1, <2>3 DEF Picks
<1> QED BY <1>2, <1>3, <1>4 DEF Scan

\* The snapshot that task t makes of v ends: the VM sleeps, or it stays up.
Sleeps(v)  == /\ status[v] = "running" /\ status'[v] = "snapshotted"
              /\ ImageOnly(v)' /\ ~dnat'[v] /\ v \notin runningVMs'
StaysUp(v) == /\ status[v] = "running" /\ status'[v] = "running"
              /\ OnHost(v)' /\ dnat'[v] /\ v \in runningVMs'

\* A poll starts, or the snapshot of v is over, and the poll goes on.
LEMMA SnapEnds ==
    ASSUME Base, TakesAwake, NEW t \in Task, NEW p \in PollLocals,
           Picks(t, p), OthersSame(t), overLimit \subseteq overLimit',
           \A w \in p.todo : p.stage = "idle" => status'[w] = "running",
           \/ task[t] = Idle /\ "poll" \in Serves[t] /\ \A w \in VM : Same(w)
           \/ \E v \in VM : /\ Snaps(t, v) /\ OnlyVM(v)
                            /\ (Sleeps(v) /\ At(t, "cleanup")) \/ StaysUp(v) \/ (Same(v) /\ ~At(t, "cleanup")),
           task'[t] # Idle => "poll" \in Serves[t]
    PROVE  SettledInv'
<1> DEFINE k(x) == [op |-> "poll", pc |-> "quiesce", vm |-> x]
           Next1(x) == p.stage = "idle" /\ poll'[t].stage = "idle"
                       /\ x \in p.todo /\ poll'[t].todo \subseteq p.todo \ {x}
           Next2(x) == poll'[t].stage = "limit" /\ x \in overLimit'
           k2 == task'[t]
<1>01. \/ k2 = Idle /\ poll'[t].todo = {}
       \/ /\ k2.op = "poll" /\ k2.pc = "quiesce" /\ k2.vm \in VM /\ k2 = k(k2.vm)
          /\ Next1(k2.vm) \/ Next2(k2.vm)
  <2>1. ASSUME NEW x \in VM, k2 = k(x), Next1(x) \/ Next2(x)
        PROVE  <1>01!2
    <3>1. k2.op = "poll" /\ k2.pc = "quiesce" /\ k2.vm = x
      BY <2>1
    <3> QED BY <2>1, <3>1
  <2>2. \/ k2 = Idle /\ poll'[t].todo = {}
        \/ \E x \in VM : k2 = k(x) /\ (Next1(x) \/ Next2(x))
    BY DEF Picks
  <2> HIDE DEF k, Next1, Next2
  <2> QED BY <2>1, <2>2
<1>0. /\ Snapshotting(t) /\ task[t].pc \in {"idle"} \cup SnapPcs
      /\ task'[t] = Idle \/ (task'[t].op = "poll" /\ task'[t].pc = "quiesce")
      /\ \A u \in Task : u # t => task'[u] = task[u] /\ poll'[u] = poll[u]
      /\ \A u \in Task : u # t => task'[u].pc \notin SnapPcs /\ poll'[u].todo = {}
  <2>1. Snapshotting(t) /\ task[t].pc \in {"idle"} \cup SnapPcs
    BY SnapsServe DEF Snaps, Snapshotting, Idle
  <2>2. \A u \in Task : u # t => task[u].pc \notin SnapPcs /\ poll[u].todo = {}
    BY <2>1, OneSnapshotter
  <2>3. /\ task'[t] = Idle \/ (task'[t].op = "poll" /\ task'[t].pc = "quiesce")
        /\ \A u \in Task : u # t => task'[u] = task[u] /\ poll'[u] = poll[u]
    BY <1>01 DEF OthersSame
  <2> QED BY <2>1, <2>2, <2>3
<1>1. AsServed'
  BY <1>0, <1>01 DEF Base, SettledInv, AsServed
<1>2. ASSUME NEW w \in VM
      PROVE  \/ Same(w) /\ (Snaps(t, w) => ~At(t, "cleanup"))
             \/ Snaps(t, w) /\ ((Sleeps(w) /\ At(t, "cleanup")) \/ StaysUp(w))
  BY NoVMAssumption DEF OnlyVM, Snaps, Idle, SnapPcs, At
<1>3. ASSUME NEW w \in VM PROVE Holds(w)'
  <2>0. Holds(w) /\ w # NoVM
    BY NoVMAssumption DEF Base, SettledInv
  <2>1. \A u \in Task : /\ (Boots(u, w)' <=> Boots(u, w))
                        /\ (Booted(u, w)' <=> Booted(u, w))
                        /\ (At(u, "setup") /\ Boots(u, w))' <=> (At(u, "setup") /\ Boots(u, w))
                        /\ (At(u, "finish") /\ Boots(u, w))' <=> (At(u, "finish") /\ Boots(u, w))
                        /\ (Boots(u, w) /\ Afresh(u))' <=> (Boots(u, w) /\ Afresh(u))
    BY <1>0 DEF Boots, Booted, At, Afresh, Idle, BootPcs, SnapPcs
  <2>2. \A u \in Task : Snaps(u, w) => u = t
    BY <1>0 DEF Snaps
  <2>3. ~\E u \in Task : Snaps(u, w)' /\ At(u, "cleanup")'
    BY <1>0 DEF Snaps, At, Idle
  <2>4. status[w] = "running" \/ Sleeps(w) => \A u \in Task : Boots(u, w) => At(u, "finish")
    BY <2>0 DEF Holds, BootHolds, Sleeps
  <2>5. RunningIsUp(w)' /\ AsleepIsDown(w)' /\ KnownIsBooted(w)'
    <3>1. CASE Same(w) /\ (Snaps(t, w) => ~At(t, "cleanup"))
      <4>1. ~\E u \in Task : Snaps(u, w) /\ At(u, "cleanup")
        BY <2>2, <3>1
      <4> QED BY <2>0, <2>1, <2>3, <3>1, <4>1
              DEF Same, Holds, RunningIsUp, AsleepIsDown, KnownIsBooted, OnHost, ImageOnly
    <3>2. CASE Sleeps(w)
      BY <3>2 DEF Sleeps, RunningIsUp, AsleepIsDown, KnownIsBooted
    <3>3. CASE StaysUp(w)
      BY <2>3, <3>3 DEF StaysUp, RunningIsUp, AsleepIsDown, KnownIsBooted
    <3> QED BY <1>2, <3>1, <3>2, <3>3
  <2>6. BootHolds(w)'
    <3>1. CASE Same(w)
      BY <2>0, <2>1, <3>1 DEF Same, Holds, BootHolds, OnHost
    <3>2. CASE Sleeps(w) \/ StaysUp(w)
      BY <2>1, <2>4, <3>2 DEF BootHolds, StaysUp, Boots
    <3> QED BY <1>2, <3>1, <3>2
  <2>7. SnapsAwake(w)'
    <3> SUFFICES ASSUME task'[t].vm = w, task'[t].pc \in SnapPcs
                 PROVE  \/ status'[w] = "running"
                        \/ StaysAsleep(w)' /\ w \in overLimit' /\ At(t, "quiesce")'
      BY <1>0 DEF SnapsAwake, Snaps
    <3>0. task'[t] # Idle
      BY DEF Idle, SnapPcs
    <3>1. task'[t] = [op |-> "poll", pc |-> "quiesce", vm |-> w]
      BY <1>01, <3>0
    <3>2. CASE p.stage = "idle" /\ w \in p.todo
      BY <3>2
    <3>3. CASE poll'[t].stage = "limit" /\ w \in overLimit' /\ task'[t] # task[t]
      BY <3>1, <3>3 DEF TakesAwake, At
    <3>4. CASE task'[t] = task[t]
      <4>1. Snaps(t, w) /\ At(t, "quiesce")
        BY <3>1, <3>4 DEF Snaps, At, SnapPcs
      <4>2. Same(w) \/ StaysUp(w)
        BY <1>2, <4>1 DEF At
      <4> QED BY <2>0, <3>1, <4>1, <4>2 DEF Holds, SnapsAwake, StaysAsleep, Same, StaysUp, At
    <3> QED BY <1>01, <3>0, <3>2, <3>3, <3>4
  <2>8. ListIsFresh(w)'
    BY <1>0, <1>01 DEF ListIsFresh
  <2>9. ColdBoot(w)'
    <3>1. CASE Same(w)
      BY <2>0, <2>1, <3>1 DEF Same, Holds, ColdBoot
    <3>2. CASE Sleeps(w) \/ StaysUp(w)
      BY <2>1, <2>4, <3>2 DEF ColdBoot, Sleeps, StaysUp, At, Afresh
    <3> QED BY <1>2, <3>1, <3>2
  <2> QED BY <2>5, <2>6, <2>7, <2>8, <2>9 DEF Holds
<1> QED BY <1>1, <1>3 DEF SettledInv

-----------------------------------------------------------------------------
(* Every step of an orderly control plane has one of these effects.        *)

\* The fields of a task that was replaced, for the steps that write one.
LEMMA TaskFields ==
    ASSUME Base, NEW t \in Task
    PROVE  /\ \A p : GoTo(t, p) => Becomes(t, [task[t] EXCEPT !.pc = p])
           /\ \A k : task' = [task EXCEPT ![t] = k] => Becomes(t, k)
           /\ Return(t) => Becomes(t, Idle)
BY DEF Base, TypeOK, GoTo, Return, Becomes

LEMMA WakeSettled ==
    ASSUME Base, NEW t \in Task, NEW v \in VM, EnsureVMRunning(t, v)
    PROVE  SettledInv'
<1> USE DEF db, host, memory
<1>0. TypeOK /\ v # NoVM
  BY NoVMAssumption DEF Base
<1>1. CASE AlreadyRunning(t, v) \/ StaleRunning(t, v) \/ WakeRefused(t, v)
  BY <1>1, Aside DEF AlreadyRunning, StaleRunning, WakeRefused
<1>2. CASE JoinWake(t, v)
  <2>1. /\ Becomes(t, [op |-> "wake", pc |-> "join", vm |-> v])
        /\ task[t] = Idle /\ "wake" \in Serves[t]
    BY <1>2, TaskFields DEF JoinWake, CanWake, Start
  <2>2. task[t].pc \notin Working /\ "join" \notin Working
    BY <2>1 DEF Idle, Working, BootPcs, SnapPcs
  <2> QED BY <1>2, <2>1, <2>2, Aside DEF JoinWake, Becomes
<1>3. CASE StartWake(t, v)
  <2> DEFINE k == [op |-> "wake", vm |-> v, pc |-> IF files[v] THEN "load" ELSE "setup"]
  <2>1. /\ task[t] = Idle /\ "wake" \in Serves[t] /\ Becomes(t, k)
        /\ status[v] = "snapshotted" /\ v \notin overLimit
    BY <1>3, TaskFields DEF StartWake, HasSnapshot, CanWake, Start
  <2>2. status' = [status EXCEPT ![v] = "creating"] /\ status'[v] = "creating"
    BY <1>0, <1>3, <2>1 DEF StartWake, SetStatus, Row, TypeOK
  <2>3. k.vm = v /\ k.op = "wake" /\ k.pc = IF files[v] THEN "load" ELSE "setup"
    OBVIOUS
  <2>4. /\ files[v] => tap'[v]
        /\ \A w \in VM \ {v} : fc'[w] = fc[w] /\ tap'[w] = tap[w]
    BY <1>0, <1>3 DEF StartWake, HasSnapshot, TypeOK
  <2>5. OnlyVM(v) /\ UNCHANGED <<overLimit, runningVMs, poll>>
    BY <1>0, <1>3, <2>2, <2>4 DEF StartWake, OnlyVM, Same, TypeOK
  <2>6. files' = files
    BY <1>3 DEF StartWake
  <2> HIDE DEF k
  <2> QED BY <2>1, <2>2, <2>3, <2>4, <2>5, <2>6, BootStarts
<1>4. CASE WakeRejected(t, v)
  <2>1. status[v] = "snapshotted" /\ v \notin overLimit
    BY <1>4 DEF WakeRejected, CanWake
  <2>2. status' = [status EXCEPT ![v] = "error"] /\ status'[v] = "error"
    BY <1>0, <1>4, <2>1 DEF WakeRejected, SetStatus, Row, TypeOK
  <2>3. OnlyVM(v) /\ UNCHANGED <<overLimit, runningVMs, task, poll>>
    BY <1>0, <1>4, <2>2 DEF WakeRejected, OnlyVM, Same, TypeOK
  <2> QED BY <2>1, <2>2, <2>3, NeverStarted
<1> QED BY <1>1, <1>2, <1>3, <1>4 DEF EnsureVMRunning

LEMMA BootSettled ==
    ASSUME Base, NEW t \in Task, NEW v \in VM, task[t].vm = v, Boot(t, v)
    PROVE  SettledInv'
<1> USE DEF db, host, memory
<1>0. TypeOK /\ v # NoVM /\ Holds(v) /\ task[t] # Idle
  BY NoVMAssumption DEF Base, SettledInv, Idle
<1>01. ASSUME NEW p \in BootPcs \ {"finish"}, At(t, p)
       PROVE  /\ Boots(t, v) /\ ~At(t, "finish") /\ status[v] = "creating"
              /\ v \in runningVMs => p \in {"ready", "probe"}
              /\ p = "setup" \/ tap[v]
              /\ p \in {"ready", "probe"} => OnHost(v) /\ dnat[v] /\ v \in runningVMs
              /\ p \in {"setup", "config", "ready"} => ~files[v]
  <2>1. Boots(t, v) /\ ~At(t, "finish")
    BY <1>01 DEF Boots, At
  <2>2. status[v] = "creating" /\ \A u \in Task : Boots(u, v) => u = t
    BY <2>1, BootAlone
  <2>3. v \in runningVMs => p \in {"ready", "probe"}
    BY <1>0, <1>01, <2>2 DEF Holds, KnownIsBooted, Booted, Boots, At, BootPcs
  <2>4. p \in {"setup", "config", "ready"} => ~files[v]
    BY <1>0, <1>01, <2>1 DEF Holds, ColdBoot, Afresh, At
  <2> QED BY <1>0, <1>01, <2>1, <2>2, <2>3, <2>4 DEF Holds, BootHolds, Booted, At
<1>1. CASE LaunchUnit(t, v)
  <2>1. /\ At(t, "setup") /\ Becomes(t, [task[t] EXCEPT !.pc = "config"])
        /\ tap'[v] /\ OnlyVM(v) /\ UNCHANGED <<status, overLimit, files, runningVMs, poll>>
    BY <1>0, <1>1, TaskFields DEF LaunchUnit, OnlyVM, Same, TypeOK
  <2>2. {"setup", "config"} \subseteq BootPcs \ {"finish"}
    BY DEF BootPcs
  <2>3. Boots(t, v) /\ ~At(t, "finish") /\ v \notin runningVMs /\ ~files[v]
    BY <1>01, <2>1, <2>2
  <2> QED BY <2>1, <2>2, <2>3, BootGoesOn
<1>2. CASE LoadSnapshot(t, v)
  <2>1. /\ At(t, "load") /\ Becomes(t, [task[t] EXCEPT !.pc = "resume"])
        /\ OnlyVM(v) /\ UNCHANGED <<status, overLimit, tap, runningVMs, poll>>
    BY <1>0, <1>2, TaskFields DEF LoadSnapshot, OnlyVM, Same, TypeOK
  <2>2. {"load", "resume"} \subseteq BootPcs \ {"finish"}
    BY DEF BootPcs
  <2>3. Boots(t, v) /\ ~At(t, "finish") /\ v \notin runningVMs /\ tap[v]
    BY <1>01, <2>1, <2>2
  <2> QED BY <2>1, <2>2, <2>3, BootGoesOn
<1>3. CASE StartGuest(t, v)
  <2>1. PICK p \in {"ready", "probe"}, q \in {"config", "resume"} :
             At(t, q) /\ GoTo(t, p) /\ (p = "ready" => q = "config")
    BY <1>3 DEF StartGuest
  <2>2. {"ready", "probe", "config", "resume"} \subseteq BootPcs \ {"finish"}
    BY DEF BootPcs
  <2>3. Boots(t, v) /\ ~At(t, "finish") /\ tap[v] /\ (p = "ready" => ~files[v])
    BY <1>01, <2>1, <2>2
  <2>4. /\ Becomes(t, [task[t] EXCEPT !.pc = p])
        /\ tap'[v] /\ OnHost(v)' /\ dnat'[v] /\ v \in runningVMs'
        /\ OnlyVM(v) /\ UNCHANGED <<status, overLimit, files, poll>>
    BY <1>0, <1>3, <2>1, <2>3, TaskFields DEF StartGuest, OnlyVM, Same, OnHost, TypeOK
  <2> QED BY <2>2, <2>3, <2>4, BootGoesOn
<1>4. CASE BootReady(t, v)
  <2>1. PICK p \in {"ready", "probe"} : At(t, p)
    BY <1>4 DEF BootReady, At
  <2>2. {"ready", "probe"} \subseteq BootPcs \ {"finish"}
    BY DEF BootPcs
  <2>3. /\ Boots(t, v) /\ ~At(t, "finish") /\ status[v] = "creating"
        /\ OnHost(v) /\ dnat[v] /\ v \in runningVMs
    BY <1>01, <2>1, <2>2
  <2>4. status' = [status EXCEPT ![v] = "running"]
    BY <1>4, <2>3 DEF BootReady, SetStatus, Row
  <2>5. Becomes(t, Idle) \/ Becomes(t, [task[t] EXCEPT !.pc = "finish"])
    BY <1>4, TaskFields DEF BootReady
  <2>6. /\ status'[v] = "running" /\ v \in runningVMs' /\ dnat'[v] /\ OnHost(v)'
        /\ OnlyVM(v) /\ UNCHANGED <<overLimit, poll>>
    BY <1>0, <1>4, <2>3, <2>4 DEF BootReady, OnlyVM, Same, OnHost, TypeOK
  <2> QED BY <2>3, <2>5, <2>6, BootLeavesRow DEF Becomes
<1>5. ASSUME Settle(t, v)
      PROVE  /\ task'[t] = Idle
             /\ \A u \in Task \ {t} : \/ task'[u] = task[u]
                                      \/ At(u, "join") /\ task[u].vm = v /\ task'[u] = Idle
  BY <1>0, <1>5 DEF Settle, At, TypeOK
<1>6. CASE WakeFinish(t, v)
  <2>1. /\ At(t, "finish") /\ Settle(t, v)
        /\ UNCHANGED <<status, overLimit, fc, files, tap, dnat, runningVMs, poll>>
    BY <1>6 DEF WakeFinish, FollowUp
  <2>2. {"finish", "join"} \cap Working = {} /\ Idle.pc \notin Working
    BY DEF Working, BootPcs, SnapPcs, Idle
  <2>3. \A u \in Task : \/ task'[u] = task[u]
                        \/ task'[u] = Idle /\ task[u].pc \in {"finish", "join"}
    BY <1>5, <2>1 DEF At
  <2> QED BY <2>1, <2>2, <2>3, Aside
<1>7. CASE BootFails(t, v)
  <2>1. PICK p \in {"setup", "config", "load", "resume"} : At(t, p)
    BY <1>7 DEF BootFails, At
  <2>2. {"setup", "config", "load", "resume"} \subseteq BootPcs \ {"finish"}
    BY DEF BootPcs
  <2>3. Boots(t, v) /\ ~At(t, "finish") /\ status[v] = "creating" /\ v \notin runningVMs
    BY <1>01, <2>1, <2>2
  <2>4. \A w \in VM \ {v} : fc'[w] = fc[w] /\ tap'[w] = tap[w]
    BY <1>0, <1>7 DEF BootFails, PartialBoot, TypeOK
  <2>5. CASE task[t].op = "wake"
    <3>1. Settle(t, v) /\ status' = [status EXCEPT ![v] = "error"]
      BY <1>7, <2>3, <2>5 DEF BootFails, MarkError, SetStatus, Row
    <3>2. /\ status'[v] = "error" /\ v \notin runningVMs'
          /\ OnlyVM(v) /\ UNCHANGED <<overLimit, poll>>
      BY <1>0, <1>7, <2>3, <2>4, <2>5, <3>1 DEF BootFails, OnlyVM, Same, TypeOK
    <3> QED BY <1>5, <2>3, <3>1, <3>2, BootLeavesRow
  <2>6. CASE task[t].op # "wake"
    <3>1. /\ Becomes(t, Idle) /\ status' = [status EXCEPT ![v] = "deleted"]
          /\ files' = [files EXCEPT ![v] = FALSE]
      BY <1>7, <2>6, TaskFields DEF BootFails
    <3>2. /\ status'[v] = "deleted" /\ v \notin runningVMs'
          /\ OnlyVM(v) /\ UNCHANGED <<overLimit, poll>>
      BY <1>0, <1>7, <2>3, <2>4, <2>6, <3>1 DEF BootFails, OnlyVM, Same, TypeOK
    <3> QED BY <2>3, <3>1, <3>2, BootLeavesRow DEF Becomes
  <2> QED BY <2>5, <2>6
<1> QED BY <1>1, <1>2, <1>3, <1>4, <1>6, <1>7 DEF Boot

LEMMA SnapshotSettled ==
    ASSUME Base, TakesAwake, NEW t \in Task, NEW v \in VM, task[t].vm = v, Snapshot(t, v)
    PROVE  SettledInv'
<1> USE DEF db, host, memory
<1>0. /\ TypeOK /\ Typed /\ Holds(v) /\ task[t] # Idle
      /\ \A w \in VM : ListIsFresh(w)
      /\ task[t].pc \in SnapPcs /\ Snaps(t, v)
  <2>1. task[t].pc \in SnapPcs
    BY DEF Snapshot, PauseGuest, CreateSnapshot, KillGuest, SnapshotDone, SnapshotFails,
           SnapshotCallFails, At, SnapPcs
  <2> QED BY <2>1, TypesHold, NoVMAssumption DEF Base, SettledInv, Holds, Snaps, Idle
<1>01. /\ Snapshotting(t) /\ task[t].op \in {"poll", "pause"} /\ task[t].op \in Serves[t]
       /\ task[t].op = "poll" \/ poll[t].todo = {}
  BY <1>0, SnapsServe DEF Base, SettledInv, AsServed
<1>02. \A u \in Task : Snaps(u, v) => u = t
  BY <1>01, OneSnapshotter DEF Snaps
<1>03. /\ ~At(t, "quiesce") \/ v \in runningVMs => status[v] = "running"
       /\ status[v] = "running" /\ ~At(t, "cleanup")
            => OnHost(v) /\ dnat[v] /\ v \in runningVMs
       /\ At(t, "cleanup") => ImageOnly(v)
  <2>1. ~At(t, "quiesce") \/ v \in runningVMs => status[v] = "running"
    BY <1>0 DEF Holds, KnownIsBooted, SnapsAwake, StaysAsleep
  <2>2. (\E u \in Task : Snaps(u, v) /\ At(u, "cleanup")) <=> At(t, "cleanup")
    BY <1>0, <1>02
  <2>3. At(t, "cleanup") => ~At(t, "quiesce")
    BY DEF At
  <2>4. status[v] = "running" => /\ v \in runningVMs /\ dnat[v]
                                 /\ IF At(t, "cleanup") THEN ImageOnly(v) ELSE OnHost(v)
    BY <1>0, <2>2 DEF Holds, RunningIsUp
  <2> QED BY <2>1, <2>3, <2>4
<1>1. ASSUME NEW p \in SnapPcs, GoTo(t, p), status[v] = "running", ~At(t, "cleanup"),
             IF p = "cleanup" THEN ImageOnly(v)' ELSE OnHost(v)',
             OnlyVM(v), UNCHANGED <<status, overLimit, dnat, runningVMs, poll>>
      PROVE  SettledInv'
  <2> DEFINE k == [task[t] EXCEPT !.pc = p]
  <2>1. k.vm = v /\ k.pc = p /\ k.op = task[t].op
    BY <1>0 DEF TypeOK
  <2>2. Becomes(t, k)
    BY <1>1, TaskFields
  <2> HIDE DEF k
  <2> QED BY <1>0, <1>01, <1>1, <2>1, <2>2, SnapGoesOn
<1>2. CASE PauseGuest(t, v)
  <2>1. At(t, "quiesce") /\ ~At(t, "cleanup") /\ status[v] = "running" /\ OnHost(v)
    BY <1>2, <1>03 DEF PauseGuest, At
  <2>2. OnHost(v)' /\ OnlyVM(v) /\ "snap" \in SnapPcs
    BY <1>0, <1>2, <2>1 DEF PauseGuest, OnHost, OnlyVM, Same, SnapPcs, TypeOK
  <2> QED BY <1>1, <1>2, <2>1, <2>2 DEF PauseGuest
<1>3. CASE CreateSnapshot(t, v)
  <2>1. At(t, "snap") /\ ~At(t, "cleanup") /\ status[v] = "running" /\ OnHost(v)
    BY <1>3, <1>03 DEF CreateSnapshot, At
  <2>2. OnHost(v)' /\ OnlyVM(v) /\ "kill" \in SnapPcs
    BY <1>0, <1>3, <2>1 DEF CreateSnapshot, OnHost, OnlyVM, Same, SnapPcs, TypeOK
  <2> QED BY <1>1, <1>3, <2>1, <2>2 DEF CreateSnapshot
<1>4. CASE KillGuest(t, v)
  <2>1. At(t, "kill") /\ ~At(t, "cleanup") /\ status[v] = "running"
    BY <1>4, <1>03 DEF KillGuest, At
  <2>2. ImageOnly(v)' /\ OnlyVM(v) /\ "cleanup" \in SnapPcs
    BY <1>0, <1>4 DEF KillGuest, ImageOnly, OnlyVM, Same, SnapPcs, TypeOK
  <2> QED BY <1>1, <1>4, <2>1, <2>2 DEF KillGuest
<1>5. ASSUME \/ Sleeps(v) /\ At(t, "cleanup")
             \/ StaysUp(v)
             \/ Same(v) /\ ~At(t, "cleanup"),
             OnlyVM(v),
             \/ task[t].op = "poll" /\ \E w : Scan(t, poll[t], w, ReleaseGuard(v, snapshottingSet))
             \/ task[t].op # "poll" /\ Return(t) /\ UNCHANGED <<overLimit, poll>>
      PROVE  SettledInv'
  <2>1. poll[t] \in PollLocals /\ ReleaseGuard(v, snapshottingSet) \in SUBSET VM
    BY <1>0 DEF Typed, ReleaseGuard
  <2>2. Picks(t, poll[t]) /\ OthersSame(t) /\ overLimit \subseteq overLimit'
    <3>1. CASE task[t].op = "poll"
      <4>1. PICK w : Scan(t, poll[t], w, ReleaseGuard(v, snapshottingSet))
        BY <1>5, <3>1
      <4> QED BY <1>0, <2>1, <4>1, ScanPicks
    <3>2. CASE task[t].op # "poll"
      <4>1. Becomes(t, Idle) /\ UNCHANGED <<overLimit, poll>>
        BY <1>5, <3>2, TaskFields
      <4>2. task'[t] = Idle /\ poll'[t].todo = {}
        BY <1>01, <3>2, <4>1 DEF Becomes
      <4> QED BY <4>1, <4>2 DEF Picks, OthersSame, Becomes
    <3> QED BY <3>1, <3>2
  <2>3. \A w \in poll[t].todo : poll[t].stage = "idle" => status'[w] = "running"
    BY <1>0, <1>5, <2>1 DEF ListIsFresh, OnlyVM, Same, PollLocals
  <2>4. task'[t] # Idle => "poll" \in Serves[t]
    <3>1. task[t].op # "poll" => task'[t] = Idle
      BY <1>5, TaskFields DEF Becomes
    <3> QED BY <1>01, <3>1
  <2> QED BY <1>0, <1>5, <2>1, <2>2, <2>3, <2>4, SnapEnds
<1>6. CASE SnapshotDone(t, v)
  <2>1. At(t, "cleanup") /\ status[v] = "running" /\ ImageOnly(v)
    BY <1>03, <1>6 DEF SnapshotDone, At
  <2>2. status' = [status EXCEPT ![v] = "snapshotted"] /\ dnat' = [dnat EXCEPT ![v] = FALSE]
    BY <1>0, <1>01, <1>6, <2>1 DEF SnapshotDone, SetStatus, DropDnat, Row, TypeOK
  <2>3. Sleeps(v) /\ OnlyVM(v)
    BY <1>0, <1>6, <2>1, <2>2 DEF SnapshotDone, Sleeps, ImageOnly, OnlyVM, Same, TypeOK
  <2>4. \/ task[t].op = "poll" /\ \E w : Scan(t, poll[t], w, ReleaseGuard(v, snapshottingSet))
        \/ task[t].op # "poll" /\ Return(t) /\ UNCHANGED <<overLimit, poll>>
    BY <1>6 DEF SnapshotDone
  <2> QED BY <1>5, <2>1, <2>3, <2>4
<1>7. CASE SnapshotFails(t, v)
  <2>1. SnapshotCallFails(t, v) /\ UNCHANGED <<status, tap, dnat, runningVMs>>
    BY <1>7 DEF SnapshotFails
  <2>2. \/ task[t].op = "poll" /\ \E w : Scan(t, poll[t], w, ReleaseGuard(v, snapshottingSet))
        \/ task[t].op # "poll" /\ Return(t) /\ UNCHANGED <<overLimit, poll>>
    BY <1>7 DEF SnapshotFails
  <2>3. OnlyVM(v) /\ ~At(t, "cleanup")
    BY <1>0, <2>1 DEF SnapshotCallFails, OnlyVM, Same, At, TypeOK
  <2>4. Same(v) \/ StaysUp(v)
    <3>1. CASE UNCHANGED <<fc, files>>
      BY <2>1, <3>1 DEF Same
    <3>2. CASE /\ At(t, "quiesce") /\ v \in runningVMs
               /\ fc' \in {fc, [fc EXCEPT ![v] = IF @ = "running" THEN "paused" ELSE @]}
      <4>1. OnHost(v) /\ status[v] = "running" /\ dnat[v]
        BY <1>03, <2>3, <3>2
      <4> QED BY <1>0, <2>1, <3>2, <4>1 DEF StaysUp, OnHost, TypeOK
    <3>3. CASE At(t, "snap") /\ UNCHANGED fc
      <4>1. ~At(t, "quiesce")
        BY <3>3 DEF At
      <4>2. OnHost(v) /\ status[v] = "running" /\ dnat[v] /\ v \in runningVMs
        BY <1>03, <2>3, <4>1
      <4> QED BY <2>1, <3>3, <4>2 DEF StaysUp, OnHost
    <3> QED BY <2>1, <3>1, <3>2, <3>3 DEF SnapshotCallFails
  <2> QED BY <1>5, <2>2, <2>3, <2>4
<1> QED BY <1>2, <1>3, <1>4, <1>6, <1>7 DEF Snapshot

LEMMA CloneSettled ==
    ASSUME Base, NEW t \in Task, NEW v \in VM, task[t].vm = v, Clone(t, v)
    PROVE  SettledInv'
<1> USE DEF db, host, memory
<1>0. /\ TypeOK /\ task[t] # Idle /\ task[t].op \in Serves[t]
      /\ ClonePcs \cap Working = {} /\ Idle.pc \notin Working
  BY NoVMAssumption
     DEF Base, SettledInv, AsServed, Idle, Working, ClonePcs, BootPcs, SnapPcs
<1>1. ASSUME task[t].pc \in ClonePcs,
             (\E p \in ClonePcs : GoTo(t, p)) \/ Return(t),
             \/ UNCHANGED fc
             \/ /\ fc[v] \in {"running", "paused"}
                /\ \E c \in {"running", "paused"} : fc' = [fc EXCEPT ![v] = c],
             UNCHANGED <<status, overLimit, files, tap, dnat, runningVMs, poll>>
      PROVE  SettledInv'
  <2>1. /\ task'[t].pc \notin Working /\ (task'[t] # Idle => task'[t].op \in Serves[t])
        /\ \A u \in Task : u # t => task'[u] = task[u]
    <3>1. CASE Return(t)
      BY <1>0, <3>1, TaskFields DEF Becomes
    <3>2. ASSUME NEW p \in ClonePcs, GoTo(t, p) PROVE <2>1
      BY <1>0, <3>2 DEF GoTo, TypeOK
    <3> QED BY <1>1, <3>1, <3>2
  <2>2. \/ UNCHANGED fc
        \/ /\ fc[v] \in {"running", "paused"} /\ fc'[v] \in {"running", "paused"}
           /\ \A w \in VM \ {v} : fc'[w] = fc[w]
    BY <1>0, <1>1 DEF TypeOK
  <2> QED BY <1>0, <1>1, <2>1, <2>2, Aside
<1>2. CASE CloneFreezes(t, v)
  BY <1>1, <1>2 DEF CloneFreezes, At, ClonePcs
<1>3. CASE CloneCopies(t, v)
  BY <1>1, <1>3 DEF CloneCopies, At, ClonePcs
<1>4. CASE CloneThaws(t, v)
  BY <1>1, <1>4 DEF CloneThaws, At, ClonePcs
<1>5. CASE CloneFails(t, v)
  BY <1>0, <1>1, <1>5 DEF CloneFails, At, ClonePcs, TypeOK
<1> QED BY <1>2, <1>3, <1>4, <1>5 DEF Clone

\* Nothing deletes in an orderly control plane.
LEMMA NoDeletes ==
    ASSUME Base, NEW t \in Task, NEW v \in VM, task[t].vm = v
    PROVE  ~Delete(t, v)
<1>1. task[t] # Idle
  BY NoVMAssumption DEF Idle
<1>2. task[t].op # "delete" /\ InPlace(task[t])
  BY <1>1 DEF Base, Orderly, SettledInv, AsServed, Safe, HandlersInPlace
<1>3. task[t].pc \notin {"hook", "stopping", "route"}
  BY <1>2 DEF InPlace, SnapPcs, ClonePcs
<1> QED BY <1>3 DEF Delete, DeleteUnknown, DeleteKnown, DeleteStop, DeleteRow, At

LEMMA RequestSettled ==
    ASSUME Base, TakesAwake, NEW t \in Task, Request(t)
    PROVE  SettledInv'
<1> USE DEF db, host, memory
<1>0. TypeOK /\ Typed
  BY TypesHold DEF Base
<1>1. CASE PollStart(t)
  <2> DEFINE p == [stage |-> "idle", seen |-> Listed, todo |-> Listed,
                   due |-> {v \in Listed : window[v] = "elapsed"}]
  <2>1. /\ p \in PollLocals /\ snapshottingSet \in SUBSET VM
        /\ \A w \in p.todo : w \in VM /\ status[w] = "running"
    BY <1>0 DEF PollLocals, Listed, Typed
  <2>2. /\ Scan(t, p, window, snapshottingSet) /\ task[t] = Idle /\ "poll" \in Serves[t]
        /\ UNCHANGED <<status, fc, files, tap, dnat, runningVMs>>
    BY <1>1 DEF PollStart
  <2> HIDE DEF p
  <2>3. Picks(t, p) /\ OthersSame(t) /\ overLimit \subseteq overLimit'
    BY <1>0, <2>1, <2>2, ScanPicks
  <2>4. \A w \in VM : Same(w)
    BY <2>2 DEF Same
  <2> QED BY <2>1, <2>2, <2>3, <2>4, SnapEnds
<1>2. ASSUME NEW v \in VM, CreateRequest(t, v) PROVE SettledInv'
  <2> DEFINE k == [op |-> "create", pc |-> "setup", vm |-> v]
  <2>1. /\ task[t] = Idle /\ "create" \in Serves[t] /\ Becomes(t, k) /\ status[v] = "unborn"
        /\ status' = [status EXCEPT ![v] = "creating"]
    BY <1>2, TaskFields DEF CreateRequest, Start
  <2>2. /\ status'[v] = "creating" /\ OnlyVM(v)
        /\ UNCHANGED <<overLimit, runningVMs, poll>>
    BY <1>0, <1>2, <2>1 DEF CreateRequest, OnlyVM, Same, TypeOK
  <2>3. k.vm = v /\ k.op = "create" /\ k.pc = "setup"
    OBVIOUS
  <2>4. ~files'[v]
    BY <1>2, <2>1 DEF CreateRequest, Base, SettledInv, Holds, ColdBoot
  <2> HIDE DEF k
  <2> QED BY <2>1, <2>2, <2>3, <2>4, BootStarts
<1>3. ASSUME NEW v \in VM, CloneRequest(t, v) PROVE SettledInv'
  <2>1. /\ Becomes(t, [op |-> "clone", pc |-> "freeze", vm |-> v])
        /\ task[t] = Idle /\ "clone" \in Serves[t]
    BY <1>3, TaskFields DEF CloneRequest, Start
  <2>2. task[t].pc \notin Working /\ "freeze" \notin Working
    BY <2>1 DEF Idle, Working, BootPcs, SnapPcs
  <2> QED BY <1>3, <2>1, <2>2, Aside DEF CloneRequest, Becomes
<1>4. ASSUME NEW v \in VM, SnapshotRequest(t, v) PROVE SettledInv'
  <2> DEFINE k == [op |-> "pause", pc |-> "quiesce", vm |-> v]
  <2>1. "stop" \notin Serves[t]
    BY DEF Base, Orderly
  <2>2. /\ task[t] = Idle /\ "pause" \in Serves[t] /\ status[v] = "running"
        /\ task' = [task EXCEPT ![t] = k]
    BY <1>4, <2>1 DEF SnapshotRequest, Start
  <2>3. Becomes(t, k) /\ Snapshotting(t)
    BY <2>2, TaskFields DEF Snapshotting
  <2>4. OnHost(v)
    <3>1. \A u \in Task : ~Snaps(u, v)
      BY <2>2, <2>3, OneSnapshotter, NoVMAssumption DEF Snaps, Idle
    <3> QED BY <2>2, <3>1 DEF Base, SettledInv, Holds, RunningIsUp
  <2>5. OnHost(v)' /\ OnlyVM(v) /\ UNCHANGED <<status, overLimit, dnat, runningVMs, poll>>
    BY <1>4, <2>4 DEF SnapshotRequest, OnlyVM, Same, OnHost
  <2>6. k.vm = v /\ k.op = "pause" /\ k.pc = "quiesce" /\ "quiesce" \in SnapPcs
    BY DEF SnapPcs
  <2> HIDE DEF k
  <2> QED BY <2>2, <2>3, <2>5, <2>6, SnapGoesOn
<1>5. ASSUME NEW v \in VM, DeleteRequest(t, v) PROVE FALSE
  BY <1>5 DEF DeleteRequest, Start, Base, Orderly
<1> QED BY <1>1, <1>2, <1>3, <1>4, <1>5, WakeSettled DEF Request

LEMMA OutsideSettled ==
    ASSUME Base, Environment
    PROVE  SettledInv'
<1> USE DEF db, host, memory
<1>1. CASE Relief
  BY <1>1, Unseen DEF Relief
<1>2. ASSUME NEW e \in VM, Elapse(e) PROVE SettledInv'
  <2>1. \A u \in Task : poll'[u].todo = poll[u].todo /\ poll'[u].stage = poll[u].stage
    BY <1>2, TypesHold DEF Elapse, Base, Typed, PollLocals
  <2> QED BY <1>2, <2>1, Unseen DEF Elapse
<1>3. ASSUME NEW v \in VM, GuestHalts(v) PROVE FALSE
  BY <1>3 DEF GuestHalts, Base, Orderly
<1> QED BY <1>1, <1>2, <1>3 DEF Environment

\* A restart keeps what is settled, and nothing else.
LEMMA RestartSettled == ASSUME Base, Restart PROVE SettledInv'
<1>0. /\ TypeOK
      /\ \A t \in Task : task'[t] = Idle /\ poll'[t] = NoPoll
      /\ UNCHANGED <<overLimit, fc, files, tap>>
      /\ runningVMs' = {v \in VM : status[v] = "running" /\ fc[v] # "none"}
      /\ \A v \in VM : status'[v] = IF status[v] = "running" /\ fc[v] = "none"
                                    THEN "stopped" ELSE status[v]
      /\ \A v \in VM : dnat'[v] = (dnat[v] \/ v \in runningVMs')
  BY DEF Restart, Base
<1>1. AsServed'
  BY <1>0 DEF AsServed, NoPoll
<1>2. ASSUME NEW v \in VM PROVE Holds(v)'
  <2>0. Holds(v) /\ v # NoVM /\ \A t \in Task : task'[t].vm # v
    BY <1>0, NoVMAssumption DEF Base, SettledInv, Idle
  <2>1. RunningIsUp(v)'
    BY <1>0, <2>0 DEF Holds, RunningIsUp, ImageOnly, OnHost, Snaps
  <2>2. AsleepIsDown(v)'
    BY <1>0, <2>0 DEF Holds, AsleepIsDown, ImageOnly
  <2>3. KnownIsBooted(v)'
    BY <1>0 DEF KnownIsBooted
  <2>4. BootHolds(v)' /\ ColdBoot(v)' /\ SnapsAwake(v)' /\ ListIsFresh(v)'
    BY <1>0, <2>0 DEF Holds, BootHolds, ColdBoot, SnapsAwake, ListIsFresh, Boots, Snaps, NoPoll
  <2> QED BY <2>1, <2>2, <2>3, <2>4 DEF Holds
<1> QED BY <1>1, <1>2 DEF SettledInv

LEMMA SettledStarts == Init => SettledInv
<1> SUFFICES ASSUME Init PROVE SettledInv
  OBVIOUS
<1>0. \A t \in Task : task[t] = Idle /\ poll[t] = NoPoll
  BY DEF Init
<1>1. AsServed
  BY <1>0 DEF AsServed, NoPoll
<1>2. ASSUME NEW v \in VM PROVE Holds(v)
  <2>1. \A t \in Task : task[t].vm # v
    BY <1>0, NoVMAssumption DEF Idle
  <2>2. RunningIsUp(v) /\ AsleepIsDown(v) /\ KnownIsBooted(v)
    BY <2>1 DEF Init, RunningIsUp, AsleepIsDown, KnownIsBooted, OnHost, ImageOnly, Snaps
  <2>3. BootHolds(v) /\ ColdBoot(v) /\ SnapsAwake(v) /\ ListIsFresh(v)
    BY <1>0, <2>1 DEF Init, BootHolds, ColdBoot, SnapsAwake, ListIsFresh, Boots, Snaps, NoPoll
  <2> QED BY <2>2, <2>3 DEF Holds
<1> QED BY <1>1, <1>2 DEF SettledInv

LEMMA SettledStep ==
    ASSUME Orderly, TypeOK, Safe, SettledInv, [Next]_vars, [TakesAwake]_vars
    PROVE  SettledInv'
<1>0. Base
  BY DEF Base
<1>1. CASE UNCHANGED vars
  BY <1>0, <1>1, Unseen DEF vars, db, host, memory
<1>2. CASE Next /\ TakesAwake
  <2>1. ASSUME NEW t \in Task, Request(t) PROVE SettledInv'
    BY <1>0, <1>2, <2>1, RequestSettled
  <2>2. ASSUME NEW t \in Task, Continue(t) PROVE SettledInv'
    BY <1>0, <1>2, <2>2, BootSettled, SnapshotSettled, CloneSettled, NoDeletes DEF Continue
  <2> QED BY <1>0, <1>2, <2>1, <2>2, OutsideSettled, RestartSettled DEF Next
<1> QED BY <1>1, <1>2

\* At rest the invariant says what Settled says.
LEMMA SettledWhenUntouched == ASSUME SettledInv PROVE Settled
<1> SUFFICES ASSUME NEW v \in VM, Untouched(v)
             PROVE  /\ status[v] = "running" =>
                          /\ v \in runningVMs /\ fc[v] \in {"running", "paused"}
                          /\ tap[v] /\ dnat[v]
                    /\ status[v] = "snapshotted" =>
                          fc[v] = "none" /\ files[v] /\ ~tap[v] /\ ~dnat[v]
                    /\ status[v] # "running" => v \notin runningVMs
  BY DEF Settled
<1>1. Holds(v) /\ \A t \in Task : ~Snaps(t, v) /\ ~Booted(t, v)
  BY DEF SettledInv, Untouched, Snaps, Booted
<1> QED BY <1>1 DEF Holds, RunningIsUp, AsleepIsDown, KnownIsBooted, OnHost, ImageOnly

\* Only the loops of a poll make a task a poll that has just taken a VM.
Takes(k) == k.op = "poll" /\ k.pc = "quiesce"

LEMMA PollTakes ==
    ASSUME TypeOK, Next, NEW t \in Task, task'[t] # task[t], Takes(task'[t])
    PROVE  \E p \in PollLocals :
              /\ Picks(t, p)
              /\ \/ UNCHANGED status /\ \A x \in p.seen \cup p.todo : status[x] = "running"
                 \/ \E c \in VM : Snaps(t, c) /\ (UNCHANGED status \/ SetStatus(c, "snapshotted"))
<1> USE DEF db, host, memory
<1>0. Typed /\ ~Takes(Idle)
  BY TypesHold DEF Takes, Idle
<1>1. ASSUME NEW u \in Task, NEW k, Becomes(u, k), ~Takes(k) PROVE FALSE
  BY <1>1 DEF Becomes
<1>2. ASSUME NEW u \in Task, NEW p, GoTo(u, p), p # "quiesce" PROVE FALSE
  BY <1>0, <1>2 DEF GoTo, Takes, Typed, Tasks
<1>3. ASSUME NEW u \in Task, Return(u) PROVE FALSE
  BY <1>0, <1>3 DEF Return, Typed, Tasks
<1>4. ASSUME NEW u \in Task, NEW o, NEW p, NEW v, o # "poll",
             task' = [task EXCEPT ![u] = [op |-> o, pc |-> p, vm |-> v]]
      PROVE  FALSE
  BY <1>0, <1>4 DEF Takes, Typed, Tasks
<1>5. task' # task
  OBVIOUS
<1>6. ASSUME NEW u \in Task, NEW v \in VM, EnsureVMRunning(u, v) PROVE FALSE
  <2>1. CASE StartWake(u, v)
    <3> DEFINE k == [op |-> "wake", vm |-> v, pc |-> IF files[v] THEN "load" ELSE "setup"]
    <3>1. Becomes(u, k) /\ ~Takes(k)
      BY <1>0, <2>1 DEF StartWake, Becomes, Takes, Typed, Tasks
    <3> HIDE DEF k
    <3> QED BY <1>1, <3>1
  <2>2. CASE JoinWake(u, v)
    BY <1>4, <2>2 DEF JoinWake
  <2> QED BY <1>5, <1>6, <2>1, <2>2
          DEF EnsureVMRunning, AlreadyRunning, StaleRunning, WakeRefused, WakeRejected
<1>7. ASSUME NEW u \in Task, NEW v \in VM, Boot(u, v) PROVE FALSE
  <2>1. ~Settle(u, v)
    BY <1>0 DEF Settle, Typed, Tasks
  <2>2. ~LaunchUnit(u, v) /\ ~LoadSnapshot(u, v) /\ ~StartGuest(u, v)
    BY <1>2 DEF LaunchUnit, LoadSnapshot, StartGuest
  <2>3. ~BootReady(u, v) /\ ~WakeFinish(u, v) /\ ~BootFails(u, v)
    BY <1>2, <1>3, <2>1 DEF BootReady, WakeFinish, BootFails
  <2> QED BY <1>7, <2>2, <2>3 DEF Boot
<1>8. ASSUME NEW u \in Task, NEW v \in VM, Clone(u, v) \/ Delete(u, v) PROVE FALSE
  BY <1>2, <1>3, <1>8
     DEF Clone, CloneFreezes, CloneCopies, CloneThaws, CloneFails,
         Delete, DeleteUnknown, DeleteKnown, DeleteStop, DeleteRow
<1>9. ASSUME NEW u \in Task, NEW v \in VM,
             CreateRequest(u, v) \/ CloneRequest(u, v) \/ SnapshotRequest(u, v)
                \/ DeleteRequest(u, v)
      PROVE  FALSE
  BY <1>4, <1>9 DEF CreateRequest, CloneRequest, SnapshotRequest, DeleteRequest
<1>10. ~Environment /\ ~Restart
  BY <1>0, <1>5 DEF Environment, Relief, Elapse, GuestHalts, Restart
<1>11. ASSUME NEW u \in Task, NEW p, NEW w, NEW guard, Scan(u, p, w, guard) PROVE u = t
  <2>1. \A v, q, w2 : Victim(u, v, q, w2, guard) => \A x \in Task \ {u} : task'[x] = task[x]
    BY <1>0 DEF Victim, Typed, Tasks
  <2>2. (\E v, q, w2 : Victim(u, v, q, w2, guard)) \/ Return(u)
    BY <1>11 DEF Scan, NextIdle, NextOverLimit, VisitOver, PollEnds
  <2> QED BY <1>3, <2>1, <2>2
<1>12. ASSUME NEW u \in Task, PollStart(u) PROVE 
         \E p \in PollLocals :
              /\ Picks(t, p)
              /\ \/ UNCHANGED status /\ \A x \in p.seen \cup p.todo : status[x] = "running"
                 \/ \E c \in VM : Snaps(t, c) /\ (UNCHANGED status \/ SetStatus(c, "snapshotted"))
  <2> DEFINE p == [stage |-> "idle", seen |-> Listed, todo |-> Listed,
                   due |-> {v \in Listed : window[v] = "elapsed"}]
  <2>1. /\ p \in PollLocals /\ snapshottingSet \in SUBSET VM
        /\ \A x \in p.seen \cup p.todo : status[x] = "running"
    BY <1>0 DEF PollLocals, Listed, Typed
  <2>2. Scan(u, p, window, snapshottingSet) /\ UNCHANGED status
    BY <1>12 DEF PollStart
  <2> HIDE DEF p
  <2>3. u = t
    BY <1>11, <2>2
  <2>4. Picks(t, p)
    BY <1>0, <2>1, <2>2, <2>3, ScanPicks
  <2> QED BY <2>1, <2>2, <2>4
<1>13. ASSUME NEW u \in Task, NEW v \in VM, task[u].vm = v, Snapshot(u, v) PROVE 
         \E p \in PollLocals :
              /\ Picks(t, p)
              /\ \/ UNCHANGED status /\ \A x \in p.seen \cup p.todo : status[x] = "running"
                 \/ \E c \in VM : Snaps(t, c) /\ (UNCHANGED status \/ SetStatus(c, "snapshotted"))
  <2>1. SnapshotDone(u, v) \/ SnapshotFails(u, v)
    BY <1>2, <1>13 DEF Snapshot, PauseGuest, CreateSnapshot, KillGuest
  <2>2. task[u].pc \in SnapPcs
    BY <2>1 DEF SnapshotDone, SnapshotFails, SnapshotCallFails, At, SnapPcs
  <2>3. UNCHANGED status \/ SetStatus(v, "snapshotted")
    BY <2>1 DEF SnapshotDone, SnapshotFails
  <2>4. PICK w : Scan(u, poll[u], w, ReleaseGuard(v, snapshottingSet))
    BY <1>3, <2>1 DEF SnapshotDone, SnapshotFails
  <2>5. u = t
    BY <1>11, <2>4
  <2>6. poll[t] \in PollLocals /\ ReleaseGuard(v, snapshottingSet) \in SUBSET VM
    BY <1>0 DEF Typed, ReleaseGuard
  <2>7. Picks(t, poll[t])
    BY <1>0, <2>4, <2>5, <2>6, ScanPicks
  <2> QED BY <1>13, <2>2, <2>3, <2>5, <2>6, <2>7 DEF Snaps
<1> QED BY <1>6, <1>7, <1>8, <1>9, <1>10, <1>12, <1>13 DEF Next, Request, Continue

-----------------------------------------------------------------------------
(* Every step is one of SleepCycle, or none.                               *)

LEMMA PhaseFacts ==
    ASSUME NEW v \in VM
    PROVE  /\ status[v] = "unborn"      => PhaseOf(v) = "absent"
           /\ status[v] = "creating"    => PhaseOf(v) = "booting"
           /\ status[v] = "running"     => PhaseOf(v) = "up"
           /\ status[v] = "snapshotted" => PhaseOf(v) = "asleep"
           /\ status'[v] = "creating"    => PhaseOf(v)' = "booting"
           /\ status'[v] = "running"     => PhaseOf(v)' = "up"
           /\ status'[v] = "snapshotted" => PhaseOf(v)' = "asleep"
           /\ status'[v] \in {"error", "deleted", "stopped"} => PhaseOf(v)' = "over"
           /\ status'[v] = status[v] => PhaseOf(v)' = PhaseOf(v)
BY DEF PhaseOf

LEMMA MemoryFacts ==
    ASSUME NEW v \in VM
    PROVE  /\ MemoryOf(v) \subseteq {"guest", "image"}
           /\ "guest" \in MemoryOf(v) <=> HasGuest(v)
           /\ "image" \in MemoryOf(v) <=> files[v]
           /\ MemoryOf(v)' \subseteq {"guest", "image"}
           /\ "guest" \in MemoryOf(v)' <=> HasGuest(v)'
           /\ "image" \in MemoryOf(v)' <=> files'[v]
BY DEF MemoryOf

\* The row, the unit and the image of the other VMs are as they were.
OthersRest(v) == \A w \in VM \ {v} : /\ status'[w] = status[w]
                                     /\ fc'[w] = fc[w] /\ files'[w] = files[w]

\* What a VM is to its user depends on these three alone.
LEMMA Moving ==
    ASSUME NEW v \in VM, OthersRest(v)
    PROVE  /\ \A from, to : PhaseOf(v) = from /\ PhaseOf(v)' = to
                               => Cycle!Moves(v, from, to)
           /\ \A in : PhaseOf(v) = in /\ PhaseOf(v)' = in => Cycle!Stays(v, in)
           /\ \A m : MemoryOf(v)' = m => Cycle!Keeps(v, m)
           /\ MemoryOf(v)' = MemoryOf(v) => UNCHANGED memories
           /\ memories[v] = MemoryOf(v)
<1>1. \A w \in VM \ {v} : PhaseOf(w)' = PhaseOf(w) /\ MemoryOf(w)' = MemoryOf(w)
  BY DEF OthersRest, PhaseOf, MemoryOf, HasGuest
<1>2. phases' = [phases EXCEPT ![v] = PhaseOf(v)']
  BY <1>1 DEF phases
<1>3. memories' = [memories EXCEPT ![v] = MemoryOf(v)']
  BY <1>1 DEF memories
<1>4. phases[v] = PhaseOf(v) /\ memories[v] = MemoryOf(v)
  BY DEF phases, memories
<1>5. PhaseOf(v)' = PhaseOf(v) => UNCHANGED phases
  BY <1>1 DEF phases
<1>6. MemoryOf(v)' = MemoryOf(v) => UNCHANGED memories
  BY <1>1 DEF memories
<1> QED BY <1>2, <1>3, <1>4, <1>5, <1>6 DEF Cycle!Moves, Cycle!Stays, Cycle!Keeps

Cycles == Cycle!Next \/ UNCHANGED <<phases, memories>>

\* Guests that are paused and resumed, and all that is not on the host.
LEMMA NoMove ==
    ASSUME UNCHANGED <<status, files>>, \A v \in VM : HasGuest(v)' <=> HasGuest(v)
    PROVE  Cycles
<1>1. \A v \in VM : PhaseOf(v)' = PhaseOf(v) /\ MemoryOf(v)' = MemoryOf(v)
  BY DEF PhaseOf, MemoryOf
<1> QED BY <1>1 DEF Cycles, phases, memories

LEMMA WakeCycles ==
    ASSUME Base, NEW t \in Task, NEW v \in VM, EnsureVMRunning(t, v)
    PROVE  Cycles
<1> USE DEF db, host, memory
<1>0. TypeOK /\ Holds(v)
  BY DEF Base, SettledInv
<1>1. CASE AlreadyRunning(t, v) \/ StaleRunning(t, v) \/ WakeRefused(t, v) \/ JoinWake(t, v)
  BY <1>1, NoMove DEF AlreadyRunning, StaleRunning, WakeRefused, JoinWake, HasGuest
<1>2. CASE StartWake(t, v)
  <2>1. /\ status[v] = "snapshotted" /\ status'[v] = "creating" /\ OthersRest(v)
        /\ HasGuest(v)' <=> HasGuest(v)
        /\ files' = files
    BY <1>0, <1>2 DEF StartWake, CanWake, SetStatus, Row, OthersRest, HasGuest, TypeOK
  <2>2. MemoryOf(v)' = MemoryOf(v)
    BY <2>1 DEF MemoryOf
  <2>3. Cycle!Wake(v)
    BY <2>1, <2>2, PhaseFacts, Moving DEF Cycle!Wake
  <2> QED BY <2>3 DEF Cycles, Cycle!Next
<1>3. CASE WakeRejected(t, v)
  <2>1. /\ status[v] = "snapshotted" /\ status'[v] = "error" /\ OthersRest(v)
        /\ UNCHANGED <<fc, files>>
    BY <1>0, <1>3 DEF WakeRejected, CanWake, SetStatus, Row, OthersRest, TypeOK
  <2>2. MemoryOf(v)' = MemoryOf(v)
    BY <2>1 DEF MemoryOf, HasGuest
  <2>3. Cycle!GiveUp(v)
    BY <2>1, <2>2, PhaseFacts, Moving DEF Cycle!GiveUp
  <2> QED BY <2>3 DEF Cycles, Cycle!Next
<1> QED BY <1>1, <1>2, <1>3 DEF EnsureVMRunning

LEMMA BootCycles ==
    ASSUME Base, NEW t \in Task, NEW v \in VM, task[t].vm = v, Boot(t, v)
    PROVE  Cycles
<1> USE DEF db, host, memory
<1>0. TypeOK /\ Holds(v)
  BY DEF Base, SettledInv
<1>01. ASSUME NEW p \in BootPcs \ {"finish"}, At(t, p)
       PROVE  /\ status[v] = "creating"
              /\ p \in {"ready", "probe"} => HasGuest(v)
              /\ p \in {"setup", "config", "ready"} => ~files[v]
  <2>1. Boots(t, v) /\ ~At(t, "finish") /\ (Booted(t, v) <=> p \in {"ready", "probe"})
    BY <1>01 DEF Boots, Booted, At
  <2>2. Afresh(t) <=> p \in {"setup", "config", "ready"}
    BY <1>01 DEF Afresh, At
  <2> QED BY <1>0, <2>1, <2>2 DEF Holds, BootHolds, ColdBoot, OnHost, HasGuest
<1>02. {"setup", "config", "ready", "load", "resume", "probe"} \subseteq BootPcs \ {"finish"}
  BY DEF BootPcs
<1>1. CASE LaunchUnit(t, v)
  BY <1>0, <1>1, NoMove DEF LaunchUnit, HasGuest, TypeOK
<1>2. CASE LoadSnapshot(t, v) \/ StartGuest(t, v)
  <2>1. /\ status[v] = "creating" /\ UNCHANGED <<status, files>>
        /\ OthersRest(v) /\ HasGuest(v)'
    BY <1>0, <1>01, <1>02, <1>2 DEF LoadSnapshot, StartGuest, OthersRest, HasGuest, TypeOK
  <2>2. MemoryOf(v)' = MemoryOf(v) \cup {"guest"}
    BY <2>1, MemoryFacts
  <2>3. Cycle!StartGuest(v)
    BY <2>1, <2>2, PhaseFacts, Moving DEF Cycle!StartGuest
  <2> QED BY <2>3 DEF Cycles, Cycle!Next
<1>3. CASE BootReady(t, v)
  <2>1. PICK p \in {"ready", "probe"} : At(t, p)
    BY <1>3 DEF BootReady, At
  <2>2. /\ status[v] = "creating" /\ HasGuest(v) /\ (p = "ready" => ~files[v])
    BY <1>01, <1>02, <2>1
  <2>3. ~files'[v]
    BY <1>0, <1>3, <2>1, <2>2 DEF BootReady, At, TypeOK
  <2>4. status'[v] = "running" /\ HasGuest(v)' /\ OthersRest(v)
    BY <1>0, <1>3, <2>2 DEF BootReady, SetStatus, Row, OthersRest, HasGuest, TypeOK
  <2>5. "guest" \in MemoryOf(v) /\ MemoryOf(v)' = {"guest"}
    BY <2>2, <2>3, <2>4, MemoryFacts
  <2>6. Cycle!ComeUp(v)
    BY <2>2, <2>4, <2>5, PhaseFacts, Moving DEF Cycle!ComeUp
  <2> QED BY <2>6 DEF Cycles, Cycle!Next
<1>4. CASE WakeFinish(t, v)
  BY <1>4, NoMove DEF WakeFinish, HasGuest
<1>5. CASE BootFails(t, v)
  <2>1. PICK p \in {"setup", "config", "load", "resume"} : At(t, p)
    BY <1>5 DEF BootFails, At
  <2>2. status[v] = "creating" /\ (p \in {"setup", "config"} => ~files[v])
    BY <1>01, <1>02, <2>1
  <2>3. /\ \A w \in VM \ {v} : fc'[w] = fc[w]
        /\ HasGuest(v) => HasGuest(v)'
    BY <1>0, <1>5, <2>1 DEF BootFails, PartialBoot, Feasible, At, HasGuest, TypeOK
  <2>4. task[t].op # "wake" => p \in {"setup", "config"}
    BY <2>1, NoVMAssumption DEF Base, Safe, HandlersInPlace, InPlace, At, Idle, SnapPcs, ClonePcs
  <2>5. /\ status'[v] \in {"error", "deleted"} /\ files'[v] = files[v] /\ OthersRest(v)
    <3>1. CASE task[t].op = "wake"
      <4>1. status' = [status EXCEPT ![v] = "error"] /\ UNCHANGED files
        BY <1>5, <2>2, <3>1 DEF BootFails, MarkError, SetStatus, Row
      <4> QED BY <1>0, <2>3, <4>1 DEF OthersRest, TypeOK
    <3>2. CASE task[t].op # "wake"
      <4>1. status' = [status EXCEPT ![v] = "deleted"] /\ files' = [files EXCEPT ![v] = FALSE]
        BY <1>5, <3>2 DEF BootFails
      <4>2. ~files[v]
        BY <2>2, <2>4, <3>2
      <4> QED BY <1>0, <2>3, <4>1, <4>2 DEF OthersRest, TypeOK
    <3> QED BY <3>1, <3>2
  <2>6. MemoryOf(v)' = MemoryOf(v) \/ MemoryOf(v)' = MemoryOf(v) \cup {"guest"}
    <3>1. CASE HasGuest(v) <=> HasGuest(v)'
      BY <2>5, <3>1, MemoryFacts
    <3>2. CASE HasGuest(v)' /\ ~HasGuest(v)
      BY <2>5, <3>2, MemoryFacts
    <3> QED BY <2>3, <3>1, <3>2
  <2>7. Cycle!GiveUp(v)
    BY <2>2, <2>5, <2>6, PhaseFacts, Moving DEF Cycle!GiveUp
  <2> QED BY <2>7 DEF Cycles, Cycle!Next
<1> QED BY <1>1, <1>2, <1>3, <1>4, <1>5 DEF Boot


LEMMA SnapshotCycles ==
    ASSUME Base, NEW t \in Task, NEW v \in VM, task[t].vm = v, Snapshot(t, v)
    PROVE  Cycles
<1> USE DEF db, host, memory
<1>0. /\ TypeOK /\ Holds(v) /\ Snaps(t, v) /\ task[t].op \in {"poll", "pause"}
  <2>1. task[t].pc \in SnapPcs
    BY DEF Snapshot, PauseGuest, CreateSnapshot, KillGuest, SnapshotDone, SnapshotFails,
           SnapshotCallFails, At, SnapPcs
  <2> QED BY <2>1, SnapsServe DEF Base, SettledInv, Snaps
<1>01. /\ ~At(t, "quiesce") => status[v] = "running"
       /\ At(t, "snap") \/ At(t, "kill") => HasGuest(v)
       /\ At(t, "cleanup") => ~HasGuest(v) /\ files[v]
  <2>1. \A u \in Task : Snaps(u, v) => u = t
    <3>1. Snapshotting(t)
      BY <1>0, SnapsServe DEF Snaps
    <3> QED BY <3>1, OneSnapshotter DEF Snaps
  <2>2. ~At(t, "quiesce") => status[v] = "running"
    BY <1>0 DEF Holds, SnapsAwake
  <2>3. (\E u \in Task : Snaps(u, v) /\ At(u, "cleanup")) <=> At(t, "cleanup")
    BY <1>0, <2>1
  <2>4. status[v] = "running" => IF At(t, "cleanup") THEN ImageOnly(v) ELSE OnHost(v)
    BY <1>0, <2>3 DEF Holds, RunningIsUp
  <2> QED BY <2>2, <2>4 DEF At, OnHost, ImageOnly, HasGuest
<1>1. CASE PauseGuest(t, v)
  BY <1>0, <1>1, NoMove DEF PauseGuest, HasGuest, TypeOK
\* The image appears, whether the call is answered or not.
<1>2. ASSUME At(t, "snap"), UNCHANGED <<status, fc>>, files' = [files EXCEPT ![v] = TRUE]
      PROVE  Cycles
  <2>1. /\ status[v] = "running" /\ HasGuest(v) /\ HasGuest(v)' /\ files'[v] /\ OthersRest(v)
    BY <1>0, <1>01, <1>2 DEF At, OthersRest, HasGuest, TypeOK
  <2>2. "guest" \in MemoryOf(v) /\ MemoryOf(v)' = MemoryOf(v) \cup {"image"}
    BY <2>1, MemoryFacts
  <2>3. Cycle!Save(v)
    BY <1>2, <2>1, <2>2, PhaseFacts, Moving DEF Cycle!Save
  <2> QED BY <2>3 DEF Cycles, Cycle!Next
<1>3. CASE CreateSnapshot(t, v)
  BY <1>2, <1>3 DEF CreateSnapshot
<1>4. CASE KillGuest(t, v)
  <2>1. /\ status[v] = "running" /\ UNCHANGED <<status, files>> /\ HasGuest(v) /\ files[v]
        /\ ~HasGuest(v)' /\ OthersRest(v)
    BY <1>0, <1>01, <1>4 DEF KillGuest, At, OthersRest, HasGuest, TypeOK
  <2>2. MemoryOf(v) = {"guest", "image"} /\ MemoryOf(v)' = {"image"}
    BY <2>1, MemoryFacts
  <2>3. Cycle!EndGuest(v)
    BY <2>1, <2>2, PhaseFacts, Moving DEF Cycle!EndGuest
  <2> QED BY <2>3 DEF Cycles, Cycle!Next
<1>5. CASE SnapshotDone(t, v)
  <2>1. status[v] = "running" /\ ~HasGuest(v) /\ files[v]
    BY <1>01, <1>5 DEF SnapshotDone, At
  <2>2. /\ status'[v] = "snapshotted" /\ UNCHANGED <<fc, files>> /\ OthersRest(v)
    BY <1>0, <1>5, <2>1 DEF SnapshotDone, SetStatus, Row, OthersRest, TypeOK
  <2>3. MemoryOf(v) = {"image"} /\ MemoryOf(v)' = {"image"}
    BY <2>1, <2>2, MemoryFacts DEF HasGuest
  <2>4. Cycle!FallAsleep(v)
    BY <2>1, <2>2, <2>3, PhaseFacts, Moving DEF Cycle!FallAsleep
  <2> QED BY <2>4 DEF Cycles, Cycle!Next
<1>6. CASE SnapshotFails(t, v)
  <2>1. SnapshotCallFails(t, v) /\ UNCHANGED status
    BY <1>6 DEF SnapshotFails
  <2>2. CASE UNCHANGED <<fc, files>>
    BY <2>1, <2>2, NoMove DEF HasGuest
  <2>3. CASE /\ fc' \in {fc, [fc EXCEPT ![v] = IF @ = "running" THEN "paused" ELSE @]}
             /\ UNCHANGED files
    BY <1>0, <2>1, <2>3, NoMove DEF HasGuest, TypeOK
  <2>4. CASE /\ At(t, "snap") /\ UNCHANGED fc
             /\ files' = [files EXCEPT ![v] = @ \/ fc[v] = "paused"]
    <3>1. files' = files \/ files' = [files EXCEPT ![v] = TRUE]
      <4>1. files \in [VM -> BOOLEAN] /\ files[v] \in BOOLEAN
        BY <1>0 DEF TypeOK
      <4>2. CASE fc[v] = "paused"
        <5>1. (files[v] \/ fc[v] = "paused") = TRUE
          BY <4>2
        <5> QED BY <2>4, <5>1
      <4>3. CASE fc[v] # "paused"
        <5>1. (files[v] \/ fc[v] = "paused") = files[v]
          BY <4>1, <4>3
        <5> QED BY <2>4, <4>1, <5>1
      <4> QED BY <4>2, <4>3
    <3> QED BY <1>2, <2>1, <2>2, <2>4, <3>1
  <2> QED BY <2>1, <2>2, <2>3, <2>4 DEF SnapshotCallFails
<1> QED BY <1>1, <1>3, <1>4, <1>5, <1>6 DEF Snapshot

LEMMA CloneCycles ==
    ASSUME Base, NEW t \in Task, NEW v \in VM, Clone(t, v)
    PROVE  Cycles
<1> USE DEF db, host, memory
<1>1. /\ UNCHANGED <<status, files>>
      /\ \A w \in VM : HasGuest(w)' <=> HasGuest(w)
  BY DEF Base, TypeOK, Clone, CloneFreezes, CloneCopies, CloneThaws, CloneFails, HasGuest
<1> QED BY <1>1, NoMove

LEMMA RequestCycles ==
    ASSUME Base, NEW t \in Task, Request(t)
    PROVE  Cycles
<1> USE DEF db, host, memory
<1>1. ASSUME NEW v \in VM, CreateRequest(t, v) PROVE Cycles
  <2>1. /\ status[v] = "unborn" /\ status'[v] = "creating" /\ UNCHANGED <<fc, files>>
        /\ OthersRest(v)
    BY <1>1 DEF CreateRequest, OthersRest, Base, TypeOK
  <2>2. MemoryOf(v)' = MemoryOf(v)
    BY <2>1 DEF MemoryOf, HasGuest
  <2>3. Cycle!Create(v)
    BY <2>1, <2>2, PhaseFacts, Moving DEF Cycle!Create
  <2> QED BY <2>3 DEF Cycles, Cycle!Next
<1>2. CASE UNCHANGED <<status, fc, files>>
  BY <1>2, NoMove DEF HasGuest
<1>3. \/ \E v \in VM : EnsureVMRunning(t, v) \/ CreateRequest(t, v)
      \/ UNCHANGED <<status, fc, files>>
  BY DEF Request, PollStart, CloneRequest, SnapshotRequest, DeleteRequest
<1> QED BY <1>1, <1>2, <1>3, WakeCycles

\* A restart is the end of the one VM that is between guest and row, if any.
LEMMA RestartCycles == ASSUME Base, Restart PROVE Cycles
<1>0. /\ UNCHANGED <<fc, files>>
      /\ \A v \in VM : status'[v] = IF status[v] = "running" /\ fc[v] = "none"
                                    THEN "stopped" ELSE status[v]
      /\ TypeOK
  BY DEF Restart, Base
<1>1. ASSUME NEW v \in VM, status[v] = "running", fc[v] = "none"
      PROVE  ImageOnly(v) /\ \E t \in Task : Snaps(t, v)
  BY <1>1 DEF Base, SettledInv, Holds, RunningIsUp, OnHost
<1>2. ASSUME NEW v \in VM, status[v] = "running", fc[v] = "none" PROVE Cycles
  <2>1. OthersRest(v)
    <3>1. PICK t \in Task : Snaps(t, v)
      BY <1>1, <1>2
    <3>2. \A u \in Task, w \in VM \ {v} : ~Snaps(u, w)
      <4>1. Snapshotting(t)
        BY <3>1, SnapsServe DEF Snaps
      <4> QED BY <3>1, <4>1, OneSnapshotter DEF Snaps
    <3> QED BY <1>0, <1>1, <3>2 DEF OthersRest
  <2>2. MemoryOf(v) = {"image"} /\ MemoryOf(v)' = {"image"}
    BY <1>0, <1>1, <1>2, MemoryFacts DEF ImageOnly, HasGuest
  <2>3. Cycle!Lapse(v)
    BY <1>0, <1>2, <2>1, <2>2, PhaseFacts, Moving DEF Cycle!Lapse
  <2> QED BY <2>3 DEF Cycles, Cycle!Next
<1>3. CASE \A v \in VM : ~(status[v] = "running" /\ fc[v] = "none")
  <2>1. status' = status
    BY <1>0, <1>3 DEF Restart, TypeOK
  <2> QED BY <1>0, <2>1, NoMove DEF HasGuest
<1> QED BY <1>2, <1>3

LEMMA CycleStep ==
    ASSUME Orderly, TypeOK, Safe, SettledInv, [Next]_vars
    PROVE  Cycles
<1> USE DEF db, host, memory
<1>0. Base
  BY DEF Base
<1>1. CASE UNCHANGED <<status, fc, files>>
  BY <1>1, NoMove DEF HasGuest
<1>2. ASSUME NEW t \in Task, Continue(t) PROVE Cycles
  BY <1>0, <1>2, BootCycles, SnapshotCycles, CloneCycles, NoDeletes DEF Continue
<1>3. CASE Environment
  <2>1. \A v \in VM : ~GuestHalts(v)
    BY DEF GuestHalts, Orderly
  <2> QED BY <1>1, <1>3, <2>1 DEF Environment, Relief, Elapse
<1>4. CASE UNCHANGED vars
  BY <1>1, <1>4 DEF vars
<1> QED BY <1>0, <1>2, <1>3, <1>4, RequestCycles, RestartCycles DEF Next

LEMMA CycleStarts == Init => Cycle!Init
<1> SUFFICES ASSUME Init PROVE Cycle!Init
  OBVIOUS
<1>1. phases \in [VM -> {"absent", "up", "asleep", "over"}]
  BY DEF Init, phases, PhaseOf
<1>2. ASSUME NEW v \in VM
      PROVE  MemoryOf(v) = CASE phases[v] = "up"     -> {"guest"}
                             [] phases[v] = "asleep" -> {"image"}
                             [] OTHER                -> {}
  <2>1. /\ phases[v] = "up" <=> status[v] = "running"
        /\ phases[v] = "asleep" <=> status[v] = "snapshotted"
    BY DEF Init, phases, PhaseOf
  <2>2. /\ HasGuest(v) <=> status[v] = "running"
        /\ files[v] <=> status[v] = "snapshotted"
    BY DEF Init, HasGuest
  <2> QED BY <2>1, <2>2, MemoryFacts
<1> QED BY <1>1, <1>2 DEF Cycle!Init, memories

\* A step of SleepCycle leaves the memory of every machine somewhere.
LEMMA CycleKeeps ==
    ASSUME [Cycle!Next]_<<phases, memories>>
    PROVE  \A v \in VM : memories[v] # {} => memories'[v] # {}
BY DEF Cycle!Next, Cycle!Create, Cycle!Wake, Cycle!StartGuest, Cycle!ComeUp, Cycle!GiveUp,
       Cycle!Save, Cycle!EndGuest, Cycle!FallAsleep, Cycle!Lapse, Cycle!Keeps, Cycle!Moves,
       Cycle!Stays, memories

-----------------------------------------------------------------------------
(* Without clones a guest that was paused for its image stays paused.      *)

\* No handler gets to an image by this step, and no guest with one on its way
\* is touched.
LEMMA LeftPaused ==
    ASSUME StaysPaused,
           \A t \in Task : task'[t] = task[t] \/ task'[t].pc \notin {"snap", "kill"},
           \A v \in VM : \/ fc'[v] = fc[v]
                         \/ \A t \in Task : Snaps(t, v) => At(t, "quiesce")
    PROVE  StaysPaused'
<1> SUFFICES ASSUME NEW t \in Task, NEW v \in VM,
                    task'[t].vm = v, task'[t].pc \in {"snap", "kill"}
             PROVE  fc'[v] = "paused"
  BY DEF StaysPaused
<1>1. task[t].vm = v /\ task[t].pc \in {"snap", "kill"}
  OBVIOUS
<1>2. Snaps(t, v) /\ ~At(t, "quiesce")
  BY <1>1 DEF Snaps, At, SnapPcs
<1> QED BY <1>1, <1>2 DEF StaysPaused

\* What a poll takes is only about to be snapshotted.
LEMMA PicksPlace ==
    ASSUME NEW t \in Task, NEW p, Picks(t, p)
    PROVE  task'[t].pc \notin {"snap", "kill"}
<1>1. ASSUME NEW x, task'[t] = [op |-> "poll", pc |-> "quiesce", vm |-> x]
      PROVE  task'[t].pc \notin {"snap", "kill"}
  BY <1>1
<1>2. CASE task'[t] = Idle
  BY <1>2 DEF Idle
<1> QED BY <1>1, <1>2 DEF Picks

LEMMA RequestPaused ==
    ASSUME Base, StaysPaused, NEW t \in Task, Request(t)
    PROVE  StaysPaused'
<1> USE DEF db, host, memory
<1>0. TypeOK /\ Typed
  BY TypesHold DEF Base
<1>1. CASE PollStart(t)
  <2> DEFINE p == [stage |-> "idle", seen |-> Listed, todo |-> Listed,
                   due |-> {v \in Listed : window[v] = "elapsed"}]
  <2>1. p \in PollLocals /\ snapshottingSet \in SUBSET VM
    BY <1>0 DEF PollLocals, Listed, Typed
  <2>2. Scan(t, p, window, snapshottingSet) /\ UNCHANGED fc
    BY <1>1 DEF PollStart
  <2> HIDE DEF p
  <2>3. Picks(t, p) /\ OthersSame(t)
    BY <1>0, <2>1, <2>2, ScanPicks
  <2>4. task'[t].pc \notin {"snap", "kill"}
    BY <2>3, PicksPlace
  <2> QED BY <2>2, <2>3, <2>4, LeftPaused DEF OthersSame
<1>2. ASSUME NEW v \in VM, EnsureVMRunning(t, v) PROVE StaysPaused'
  <2>1. /\ \A u \in Task : task'[u] = task[u] \/ task'[u].pc \in {"join", "load", "setup"}
        /\ \A w \in VM : fc'[w] = fc[w] \/ (w = v /\ status[v] = "snapshotted")
    <3>1. CASE StartWake(t, v)
      BY <1>0, <3>1 DEF StartWake, CanWake, TypeOK
    <3>2. CASE JoinWake(t, v)
      BY <1>0, <3>2 DEF JoinWake, TypeOK
    <3> QED BY <1>2, <3>1, <3>2
            DEF EnsureVMRunning, AlreadyRunning, StaleRunning, WakeRefused, WakeRejected
  <2>2. status[v] = "snapshotted" => \A u \in Task : Snaps(u, v) => At(u, "quiesce")
    BY DEF Base, SettledInv, Holds, SnapsAwake
  <2> QED BY <2>1, <2>2, LeftPaused
<1>3. ASSUME NEW v \in VM, \/ CreateRequest(t, v) \/ CloneRequest(t, v)
                           \/ SnapshotRequest(t, v) \/ DeleteRequest(t, v)
      PROVE  StaysPaused'
  <2>1. /\ \A u \in Task : task'[u] = task[u]
                           \/ task'[u].pc \in {"setup", "freeze", "quiesce", "hook"}
        /\ UNCHANGED fc
    BY <1>0, <1>3 DEF CreateRequest, CloneRequest, SnapshotRequest, DeleteRequest, TypeOK
  <2> QED BY <2>1, LeftPaused
<1> QED BY <1>1, <1>2, <1>3 DEF Request

LEMMA BootPaused ==
    ASSUME Base, StaysPaused, NEW t \in Task, NEW v \in VM, task[t].vm = v, Boot(t, v)
    PROVE  StaysPaused'
<1> USE DEF db, host, memory
<1>0. TypeOK
  BY DEF Base
<1>1. \A u \in Task : task'[u] = task[u] \/ task'[u].pc \in BootPcs \cup {"idle"}
  BY <1>0 DEF Boot, LaunchUnit, LoadSnapshot, StartGuest, BootReady, WakeFinish, BootFails,
              GoTo, Return, Settle, Idle, BootPcs, TypeOK
<1>2. \A w \in VM : fc'[w] = fc[w] \/ (w = v /\ Boots(t, v) /\ ~At(t, "finish"))
  BY <1>0 DEF Boot, LaunchUnit, LoadSnapshot, StartGuest, BootReady, WakeFinish, BootFails,
              PartialBoot, Boots, At, BootPcs, TypeOK
<1>3. Boots(t, v) /\ ~At(t, "finish") => \A u \in Task : ~Snaps(u, v)
  BY BootAlone
<1> QED BY <1>1, <1>2, <1>3, LeftPaused DEF BootPcs

LEMMA SnapshotPaused ==
    ASSUME Base, StaysPaused, NEW t \in Task, NEW v \in VM, task[t].vm = v, Snapshot(t, v)
    PROVE  StaysPaused'
<1> USE DEF db, host, memory
<1>0. TypeOK /\ Typed /\ task[t].pc \in SnapPcs
  BY TypesHold
     DEF Base, Snapshot, PauseGuest, CreateSnapshot, KillGuest, SnapshotDone, SnapshotFails,
         SnapshotCallFails, At, SnapPcs
<1>1. \A u \in Task \ {t} : task[u].pc \notin SnapPcs
  BY <1>0, SnapsServe, OneSnapshotter
<1>2. ASSUME \A u \in Task \ {t} : task'[u] = task[u],
             task'[t].pc \notin {"snap", "kill"} \/ (task'[t].vm = v /\ fc'[v] = "paused")
      PROVE  StaysPaused'
  BY <1>1, <1>2 DEF StaysPaused, SnapPcs
<1>3. CASE PauseGuest(t, v)
  BY <1>0, <1>2, <1>3 DEF PauseGuest, GoTo, TypeOK
<1>4. CASE CreateSnapshot(t, v)
  BY <1>0, <1>2, <1>4 DEF CreateSnapshot, GoTo, TypeOK
<1>5. CASE KillGuest(t, v)
  BY <1>0, <1>2, <1>5 DEF KillGuest, GoTo, TypeOK
<1>6. CASE SnapshotDone(t, v) \/ SnapshotFails(t, v)
  <2>1. CASE Return(t)
    BY <1>0, <1>2, <2>1 DEF Return, Idle, TypeOK
  <2>2. ASSUME NEW w, Scan(t, poll[t], w, ReleaseGuard(v, snapshottingSet)) PROVE StaysPaused'
    <3>1. poll[t] \in PollLocals /\ ReleaseGuard(v, snapshottingSet) \in SUBSET VM
      BY <1>0 DEF Typed, ReleaseGuard
    <3>2. Picks(t, poll[t]) /\ OthersSame(t)
      BY <1>0, <2>2, <3>1, ScanPicks
    <3>3. task'[t].pc \notin {"snap", "kill"}
      BY <3>2, PicksPlace
    <3> QED BY <1>2, <3>2, <3>3 DEF OthersSame
  <2> QED BY <1>6, <2>1, <2>2 DEF SnapshotDone, SnapshotFails
<1> QED BY <1>3, <1>4, <1>5, <1>6 DEF Snapshot

LEMMA PausedStep ==
    ASSUME Orderly, NoClones, TypeOK, Safe, SettledInv, StaysPaused, [Next]_vars
    PROVE  StaysPaused'
<1> USE DEF db, host, memory
<1>0. Base
  BY DEF Base
<1>1. CASE UNCHANGED <<fc, task>>
  BY <1>1, LeftPaused
<1>2. ASSUME NEW t \in Task, Continue(t) PROVE StaysPaused'
  <2>1. PICK v \in VM : task[t].vm = v /\ (Boot(t, v) \/ Snapshot(t, v) \/ Clone(t, v) \/ Delete(t, v))
    BY <1>2 DEF Continue
  <2>2. ~Clone(t, v)
    <3>1. task[t] # Idle
      BY <2>1, NoVMAssumption DEF Idle
    <3>2. task[t].op # "clone" /\ InPlace(task[t])
      BY <3>1 DEF NoClones, SettledInv, AsServed, Safe, HandlersInPlace
    <3> QED BY <3>2 DEF InPlace, Clone, CloneFreezes, CloneCopies, CloneThaws, CloneFails, At,
                        SnapPcs, ClonePcs
  <2> QED BY <1>0, <2>1, <2>2, BootPaused, SnapshotPaused, NoDeletes
<1>3. CASE Environment
  BY <1>1, <1>3 DEF Environment, Relief, Elapse, GuestHalts, Orderly
<1>4. CASE Restart
  BY <1>4, LeftPaused DEF Restart, Idle
<1>5. CASE UNCHANGED vars
  BY <1>1, <1>5 DEF vars
<1> QED BY <1>0, <1>2, <1>3, <1>4, <1>5, RequestPaused DEF Next

\* The guest is still paused when its unit is stopped.
LEMMA KillsPaused ==
    ASSUME TypeOK, Safe, StaysPaused,
           NEW t \in Task, At(t, "kill")
    PROVE  fc[task[t].vm] # "running"
<1>1. task[t] # Idle
  BY DEF At, Idle
<1> QED BY <1>1 DEF Safe, HandlersInPlace, StaysPaused, At

-----------------------------------------------------------------------------
(* The theorems.  Settled and the cycle need that the limit loop takes no  *)
(* VM that somebody may wake; two hypotheses bring that about.             *)

LEMMA SettledAlways ==
    ASSUME Orderly
    PROVE  Spec /\ [][TakesAwake]_vars => [](TypeOK /\ Safe /\ SettledInv)
<1>1. Init => TypeOK /\ Safe /\ SettledInv
  BY InitType, StartsSafe, SettledStarts
<1>2. TypeOK /\ Safe /\ SettledInv /\ [Next]_vars /\ [TakesAwake]_vars
         => TypeOK' /\ Safe' /\ SettledInv'
  BY TypeStep, SafeStep, SettledStep
<1> QED BY <1>1, <1>2, PTL DEF Spec

\* Nobody is over the limit: the second loop takes nothing.
LEMMA AwakeWithinLimit == Spec /\ []WithinLimit => [][TakesAwake]_vars
<1>1. TypeOK /\ [Next]_vars /\ WithinLimit' => [TakesAwake]_vars
  <2> SUFFICES ASSUME TypeOK, Next, WithinLimit', NEW t \in Task, NEW v \in VM,
                      task'[t] = [op |-> "poll", pc |-> "quiesce", vm |-> v],
                      task'[t] # task[t], poll'[t].stage = "limit"
               PROVE  FALSE
    BY DEF TakesAwake
  <2>1. Takes(task'[t]) /\ task'[t] # Idle
    BY DEF Takes, Idle
  <2>2. PICK p \in PollLocals : Picks(t, p)
    BY <2>1, PollTakes
  <2> QED BY <2>1, <2>2 DEF Picks, WithinLimit
<1>2. Spec => []TypeOK
  BY TypeCorrect
<1> QED BY <1>1, <1>2, PTL DEF Spec

\* There is one VM, and whoever is over the limit stays so: the poll takes that
\* VM a second time only when it has just put it to sleep.
LEMMA AwakeAlone ==
    ASSUME Orderly, NEW v, VM = {v}, "relief" \notin Env
    PROVE  Spec => [][TakesAwake]_vars
<1>1. Init => TypeOK /\ Safe /\ SettledInv
  BY InitType, StartsSafe, SettledStarts
<1>2. ASSUME TypeOK, Safe, SettledInv, [Next]_vars PROVE [TakesAwake]_vars
  <2> SUFFICES ASSUME Next, NEW t \in Task,
                      task'[t] = [op |-> "poll", pc |-> "quiesce", vm |-> v],
                      task'[t] # task[t]
               PROVE  status'[v] = "running" \/ StaysAsleep(v)'
    BY <1>2 DEF TakesAwake
  <2>1. Takes(task'[t]) /\ task'[t] # Idle /\ task'[t].vm = v
    BY DEF Takes, Idle
  <2>2. PICK p \in PollLocals :
              /\ Picks(t, p)
              /\ \/ UNCHANGED status /\ \A x \in p.seen \cup p.todo : status[x] = "running"
                 \/ \E c \in VM : Snaps(t, c) /\ (UNCHANGED status \/ SetStatus(c, "snapshotted"))
    BY <1>2, <2>1, PollTakes
  <2>3. v \in p.seen \cup p.todo
    BY <2>1, <2>2 DEF Picks
  <2>4. Snaps(t, v) => status[v] = "running" \/ status[v] = "snapshotted"
    BY <1>2 DEF SettledInv, Holds, SnapsAwake, StaysAsleep
  <2>5. SetStatus(v, "snapshotted") /\ Snaps(t, v) => status'[v] = "snapshotted"
    BY <1>2, <2>4 DEF SetStatus, Row, TypeOK
  <2> QED BY <2>2, <2>3, <2>4, <2>5 DEF StaysAsleep
<1>3. TypeOK /\ Safe /\ SettledInv /\ [Next]_vars => TypeOK' /\ Safe' /\ SettledInv'
  BY <1>2, TypeStep, SafeStep, SettledStep
<1>4. TypeOK /\ Safe /\ SettledInv /\ [Next]_vars => [TakesAwake]_vars
  BY <1>2
<1> QED BY <1>1, <1>3, <1>4, PTL DEF Spec

\* With one snapshotter, a control plane whose limit loop took only VMs that
\* still run leaves every VM settled, however many VMs, creations, clones,
\* wakes, failing calls and restarts there are (idle-monitor.ts:184 does not
\* look, and that is all that is missing).
THEOREM SettledIfAwake ==
    ASSUME Orderly
    PROVE  Spec /\ [][TakesAwake]_vars => []Settled
<1>1. Spec /\ [][TakesAwake]_vars => [](TypeOK /\ Safe /\ SettledInv)
  BY SettledAlways
<1>2. SettledInv => Settled
  BY SettledWhenUntouched
<1> QED BY <1>1, <1>2, PTL

\* As long as no owner goes over the data limit, no VM is left half asleep or
\* half awake: the first loop of the poll, the pause route, the wake, the
\* creation and the reconciliation agree with one another.
THEOREM SettledWithinLimit ==
    ASSUME Orderly
    PROVE  Spec /\ []WithinLimit => []Settled
<1>1. Spec /\ [][TakesAwake]_vars => []Settled
  BY SettledIfAwake
<1> QED BY <1>1, AwakeWithinLimit, PTL

\* The same for a control plane with one VM, over the limit or not, as long as
\* an owner who is over it stays so.
THEOREM SettledAlone ==
    ASSUME Orderly, NEW v, VM = {v}, "relief" \notin Env
    PROVE  Spec => []Settled
<1>1. Spec /\ [][TakesAwake]_vars => []Settled
  BY SettledIfAwake
<1>2. Spec => [][TakesAwake]_vars
  BY AwakeAlone
<1> QED BY <1>1, <1>2, PTL

\* Under the same hypothesis the control plane implements SleepCycle: between
\* the awaits of snapshotVM, restoreVM and createAndStartVM, and across calls
\* that fail and restarts, each VM goes through the cycle step by step.
THEOREM SleepsIfAwake ==
    ASSUME Orderly
    PROVE  Spec /\ [][TakesAwake]_vars => SleepsAsPromised
<1>1. Spec /\ [][TakesAwake]_vars => [](TypeOK /\ Safe /\ SettledInv)
  BY SettledAlways
<1>2. TypeOK /\ Safe /\ SettledInv /\ [Next]_vars => [Cycle!Next]_<<phases, memories>>
  BY CycleStep DEF Cycles
<1>3. Spec /\ [][TakesAwake]_vars => [][Cycle!Next]_<<phases, memories>>
  BY <1>1, <1>2, PTL DEF Spec
<1> QED BY <1>3, CycleStarts, PTL DEF Spec, SleepsAsPromised, Cycle!Spec

\* So it does as long as no owner goes over the data limit ...
THEOREM SleepsWithinLimit ==
    ASSUME Orderly
    PROVE  Spec /\ []WithinLimit => SleepsAsPromised
<1>1. Spec /\ [][TakesAwake]_vars => SleepsAsPromised
  BY SleepsIfAwake
<1> QED BY <1>1, AwakeWithinLimit, PTL

\* ... and with one VM, over the limit or not.
THEOREM SleepsAlone ==
    ASSUME Orderly, NEW v, VM = {v}, "relief" \notin Env
    PROVE  Spec => SleepsAsPromised
<1>1. Spec /\ [][TakesAwake]_vars => SleepsAsPromised
  BY SleepsIfAwake
<1>2. Spec => [][TakesAwake]_vars
  BY AwakeAlone
<1> QED BY <1>1, <1>2, PTL

\* A step of the cycle leaves the machine's memory somewhere.
LEMMA CycleIsKept == SleepsAsPromised => MemoryKept
<1>1. [Cycle!Next]_<<phases, memories>>
         => [\A v \in VM : memories[v] # {} => memories'[v] # {}]_<<phases, memories>>
  BY CycleKeeps
<1> QED BY <1>1, PTL DEF SleepsAsPromised, MemoryKept, Cycle!Spec, Cycle!Kept

\* So nobody loses what a machine had in its memory: there is a guest or an
\* image of it as long as the control plane runs, whichever snapshots, wakes
\* and restarts fail half-way (firecracker.ts:898 and wake.ts:215).
THEOREM MemoryIsKept ==
    ASSUME Orderly
    PROVE  Spec /\ [][TakesAwake]_vars => MemoryKept
<1>1. Spec /\ [][TakesAwake]_vars => SleepsAsPromised
  BY SleepsIfAwake
<1> QED BY <1>1, CycleIsKept, PTL

\* When nothing clones, the image a VM sleeps on is all there is of it: from the
\* image to the end of the unit its guest does not run on (firecracker.ts:751).
\* So it is the clone alone, resuming whatever it finds paused, that makes an
\* image older than its disk.
THEOREM ImageIsLastWithoutClones ==
    ASSUME Orderly, NoClones
    PROVE  Spec /\ [][TakesAwake]_vars => ImageIsLast
<1>1. Init => StaysPaused
  BY DEF Init, StaysPaused, Idle
<1>2. TypeOK /\ Safe /\ SettledInv /\ StaysPaused /\ [Next]_vars => StaysPaused'
  BY PausedStep
<1>3. TypeOK /\ Safe /\ StaysPaused
        => [\A t \in Task : At(t, "kill") /\ task'[t].pc = "cleanup"
              => fc[task[t].vm] # "running"]_vars
  BY KillsPaused
<1>4. Spec /\ [][TakesAwake]_vars => [](TypeOK /\ Safe /\ SettledInv)
  BY SettledAlways
<1> QED BY <1>1, <1>2, <1>3, <1>4, PTL DEF Spec, ImageIsLast
==========================================================================
