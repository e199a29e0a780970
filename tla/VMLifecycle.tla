---------------------------- MODULE VMLifecycle ----------------------------
(***************************************************************************)
(* The life of a VM in the control plane: creation, cloning, wake on       *)
(* request, the idle monitor's snapshots, explicit pause (HTTP) and stop   *)
(* (SSH), delete, and the restart of the control plane itself.             *)
(*                                                                         *)
(* The control plane is one Node process.  A task is one request handler   *)
(* or one run of the idle monitor's poll; it runs without interruption     *)
(* from one await to the next, so each action is the code between two      *)
(* awaits, together with the effect of the call it was waiting for.        *)
(*                                                                         *)
(* status and overLimit are in the database; fc, files, tap and dnat are   *)
(* the host.  Both survive a restart of the control plane; the other       *)
(* variables are its memory.                                               *)
(***************************************************************************)
EXTENDS Naturals, FiniteSets

CONSTANTS
    VM,           \* the VM ids the run may use; an id is never used twice
    Task,         \* the handlers that may be in flight at once
    Serves,       \* which operations a task may be an instance of
    Env,          \* what may happen outside: "fault", "halt", "relief"
    MaxRestarts,  \* bound on restarts of the control plane
    NoVM          \* not a VM

Handler == {"create", "clone", "wake", "poll", "pause", "stop", "delete"}

ASSUME ServesAssumption == Serves \in [Task -> SUBSET Handler]
ASSUME NoVMAssumption   == NoVM \notin VM
ASSUME BoundAssumption  == MaxRestarts \in Nat

VARIABLES
    status,           \* vms.status; "unborn" before, "deleted" after the row
    overLimit,        \* VMs whose owner is over the monthly data limit (in the DB)
    fc,               \* the systemd unit fc-<id>: its Firecracker and guest
    files,            \* snapshot/vmstate and snapshot/memory both exist
    tap,              \* the device tap-<id> exists
    dnat,             \* the DNAT rules to the guest are installed
    runningVMs,       \* firecracker.ts: VMs adopted in memory
    pendingWakes,     \* wake.ts: VMs with a wake promise
    snapshottingSet,  \* idle-monitor.ts: per-VM guard of the poll
    window,           \* idle-monitor.ts: trafficMap
    task,             \* what each task runs, where it is, and on which VM
    poll,             \* the local variables of a pollOnce in flight
    answer,           \* what ensureVMRunning answered in the last step
    restarts

host   == <<fc, files, tap, dnat>>
memory == <<runningVMs, pendingWakes, snapshottingSet, window>>
db     == <<status, overLimit>>
vars   == <<db, host, memory, task, poll, answer, restarts>>

Status   == {"unborn", "creating", "running", "snapshotted", "stopped",
             "error", "deleted"}
Unit     == {"none", "launched", "paused", "running"}
BootPcs  == {"setup", "config", "ready", "load", "resume", "probe", "finish"}
SnapPcs  == {"quiesce", "snap", "kill", "cleanup"}
ClonePcs == {"freeze", "copy", "thaw"}
Pcs      == BootPcs \cup SnapPcs \cup ClonePcs
            \cup {"idle", "join", "hook", "stopping", "route"}

Idle      == [op |-> "none", pc |-> "idle", vm |-> NoVM]
NoPoll    == [stage |-> "idle", seen |-> {}, todo |-> {}, due |-> {}]
NoAnswer  == [how |-> "none", vm |-> NoVM]
Row(v)    == status[v] \notin {"unborn", "deleted"}

\* A task boots v; a wake of v is on its way; a poll snapshots v.
Boots(t, v) == task[t].vm = v /\ task[t].pc \in BootPcs
Wakes(t, v) == Boots(t, v) /\ task[t].op = "wake"
Polls(t, v) == task[t].vm = v /\ task[t].pc \in SnapPcs /\ task[t].op = "poll"

Start(t, o, v)  == /\ task[t] = Idle
                   /\ o \in Serves[t]
                   /\ v \in VM
At(t, p)        == task[t].pc = p
GoTo(t, p)      == task' = [task EXCEPT ![t].pc = p]
Return(t)       == task' = [task EXCEPT ![t] = Idle]

\* Some definitions are preceded by a faulty variant that nothing uses: the
\* bug a change to that code could bring in, kept to show that the
\* properties notice it.

\* UPDATE vms SET status: nothing happens when the row is gone.
SetStatus(v, s) == status' = [status EXCEPT ![v] = IF Row(v) THEN s ELSE @]
Quiet           == answer' = NoAnswer

-----------------------------------------------------------------------------
(* ensureVMRunning: the outcomes decided before its first await.           *)

AnswerOk(v) == answer' = [how |-> "ok", vm |-> v]

\* Already in runningVMs: the idle window starts again, nothing else.
AlreadyRunning(t, v) ==
    /\ Start(t, "wake", v)
    /\ v \in runningVMs
    /\ window' = [window EXCEPT ![v] = "open"]
    /\ AnswerOk(v)
    /\ UNCHANGED <<db, host, runningVMs, pendingWakes, snapshottingSet,
                   task, poll>>

\* The row says running and no process is known: a warning, and the caller
\* is told that all is well.
StaleRunning(t, v) ==
    /\ Start(t, "wake", v)
    /\ v \notin runningVMs
    /\ status[v] = "running"
    /\ AnswerOk(v)
    /\ UNCHANGED <<db, host, memory, task, poll>>

\* No row, a state that cannot be woken, or a quota of the owner.
WakeRefused(t, v) ==
    /\ Start(t, "wake", v)
    /\ v \notin runningVMs
    /\ \/ ~Row(v) /\ answer' = [how |-> "no_vm", vm |-> v]
       \/ /\ status[v] \in {"creating", "stopped", "error"}
          /\ answer' = [how |-> "wrong_state", vm |-> v]
       \/ status[v] = "snapshotted" /\ answer' = [how |-> "quota", vm |-> v]
    /\ UNCHANGED <<db, host, memory, task, poll>>

\* Past those checks.  The RAM and disk quotas may pass or not.
CanWake(t, v) == /\ Start(t, "wake", v)
                 /\ v \notin runningVMs
                 /\ status[v] = "snapshotted"
                 /\ v \notin overLimit

\* Faulty: the map of promises is not consulted.
PendingForgotten(v) == FALSE

\* A promise of a wake of v is in the map.
Pending(v) == v \in pendingWakes

\* A wake of v is pending: wait for its promise.
JoinWake(t, v) ==
    /\ CanWake(t, v) /\ Pending(v)
    /\ task' = [task EXCEPT ![t] = [op |-> "wake", pc |-> "join", vm |-> v]]
    /\ Quiet
    /\ UNCHANGED <<db, host, memory, poll>>

\* Faulty: it looks where no snapshot is ever put.
LooksElsewhere(v) == FALSE

\* Both files of the snapshot exist.
HasSnapshot(v) == files[v]

\* doWake up to its first await: the row becomes creating; with the files
\* there, the TAP device and the unit are created on the spot.
StartWake(t, v) ==
    /\ CanWake(t, v) /\ ~Pending(v)
    /\ IF HasSnapshot(v)
       THEN /\ fc[v] = "none"
            /\ fc' = [fc EXCEPT ![v] = "launched"]
            /\ tap' = [tap EXCEPT ![v] = TRUE]
       ELSE UNCHANGED <<fc, tap>>
    /\ SetStatus(v, "creating")
    /\ pendingWakes' = pendingWakes \cup {v}
    /\ task' = [task EXCEPT ![t] = [op |-> "wake", vm |-> v,
                   pc |-> IF HasSnapshot(v) THEN "load" ELSE "setup"]]
    /\ Quiet
    /\ UNCHANGED <<overLimit, files, dnat, runningVMs, snapshottingSet, window, poll>>

\* The same when the unit fc-<id> is still there, and systemd-run throws, or
\* when one of the commands fails.
WakeRejected(t, v) ==
    /\ CanWake(t, v) /\ ~Pending(v)
    /\ HasSnapshot(v)
    /\ \/ fc[v] # "none" /\ tap' = [tap EXCEPT ![v] = TRUE]
       \/ "fault" \in Env /\ tap' \in {tap, [tap EXCEPT ![v] = TRUE]}
    /\ SetStatus(v, "error")
    /\ answer' = [how |-> "failed", vm |-> v]
    /\ UNCHANGED <<overLimit, fc, files, dnat, memory, task, poll>>

EnsureVMRunning(t, v) ==
    \/ AlreadyRunning(t, v) \/ StaleRunning(t, v) \/ WakeRefused(t, v)
    \/ JoinWake(t, v) \/ StartWake(t, v) \/ WakeRejected(t, v)

-----------------------------------------------------------------------------
(* Booting: createAndStartVM (setup, config, ready), restoreVM (load,      *)
(* resume, probe), and the rest of doWake (finish).                        *)

\* POST /vms, the SSH create, and a clone once it has its disk: the row, then
\* the boot in the background.
CreateRequest(t, v) ==
    /\ Start(t, "create", v)
    /\ status[v] = "unborn"
    /\ status' = [status EXCEPT ![v] = "creating"]
    /\ task' = [task EXCEPT ![t] = [op |-> "create", pc |-> "setup", vm |-> v]]
    /\ UNCHANGED <<overLimit, host, memory, poll>>

LaunchUnit(t, v) ==
    /\ At(t, "setup") /\ fc[v] = "none"
    /\ fc' = [fc EXCEPT ![v] = "launched"]
    /\ tap' = [tap EXCEPT ![v] = TRUE]
    /\ GoTo(t, "config")
    /\ UNCHANGED <<db, files, dnat, memory, poll>>

LoadSnapshot(t, v) ==
    /\ At(t, "load") /\ fc[v] = "launched" /\ files[v]
    /\ fc' = [fc EXCEPT ![v] = "paused"]
    /\ GoTo(t, "resume")
    /\ UNCHANGED <<db, files, tap, dnat, memory, poll>>

\* InstanceStart, or PATCH Resumed; then addDnat and runningVMs.set.
StartGuest(t, v) ==
    /\ \/ At(t, "config") /\ fc[v] = "launched" /\ GoTo(t, "ready")
       \/ At(t, "resume") /\ fc[v] \in {"paused", "running"} /\ GoTo(t, "probe")
    /\ fc' = [fc EXCEPT ![v] = "running"]
    /\ dnat' = [dnat EXCEPT ![v] = TRUE]
    /\ runningVMs' = runningVMs \cup {v}
    /\ UNCHANGED <<db, files, tap, pendingWakes, snapshottingSet, window, poll>>

\* waitForTcpReady returns, with or without an answer of the guest; a
\* restore unlinks the snapshot files; the row becomes running.
BootReady(t, v) ==
    /\ task[t].pc \in {"ready", "probe"}
    /\ files' = [files EXCEPT ![v] = @ /\ ~At(t, "probe")]
    /\ SetStatus(v, "running")
    /\ IF task[t].op = "wake" THEN GoTo(t, "finish") ELSE Return(t)
    /\ Quiet
    /\ UNCHANGED <<overLimit, fc, tap, dnat, memory, poll>>

\* Faulty: the joiners wait for something that never settles.
SettleLeaderOnly(t, v) ==
    /\ pendingWakes' = pendingWakes \ {v}
    /\ Return(t)

\* The leader's promise settles: the caller and every joiner return.
Settle(t, v) ==
    /\ pendingWakes' = pendingWakes \ {v}
    /\ task' = [u \in Task |->
                  IF u = t \/ (At(u, "join") /\ task[u].vm = v)
                  THEN Idle ELSE task[u]]

\* Faulty: the keys are sent again until the guest takes them.
FollowUpInsistent(t, v) == At(t, "finish") /\ fc[v] = "running"

\* The Caddy route and the missing keys are done; their errors are caught.
FollowUp(t, v) == At(t, "finish")

WakeFinish(t, v) ==
    /\ FollowUp(t, v)
    /\ window' = [window EXCEPT ![v] = "open"]
    /\ Settle(t, v)
    /\ AnswerOk(v)
    /\ UNCHANGED <<db, host, runningVMs, snapshottingSet, poll>>

\* What the next host call of a boot needs to succeed.
Feasible(t, v) ==
    CASE At(t, "setup")  -> fc[v] = "none"
      [] At(t, "load")   -> fc[v] = "launched" /\ files[v]
      [] At(t, "config") -> fc[v] = "launched"
      [] At(t, "resume") -> fc[v] \in {"paused", "running"}

\* How far the failing call may have got: nothing is rolled back.  The TAP
\* device is made next to the unit, so it may be there without it.
PartialBoot(t, v) ==
    \/ /\ UNCHANGED fc
       /\ tap' \in {tap, [tap EXCEPT ![v] = @ \/ At(t, "setup")]}
    \/ /\ "fault" \in Env /\ Feasible(t, v)
       /\ fc' = [fc EXCEPT ![v] = CASE At(t, "setup") -> "launched"
                                    [] At(t, "load")  -> "paused"
                                    [] OTHER          -> "running"]
       /\ tap' = [tap EXCEPT ![v] = TRUE]

\* The catch block of doWake.
MarkError(v) == SetStatus(v, "error")

\* A boot throws.  A wake marks the row error; a create deletes the row and
\* the data directory.  Neither stops the process it may have started.
BootFails(t, v) ==
    /\ task[t].pc \in {"setup", "config", "load", "resume"}
    /\ "fault" \in Env \/ ~Feasible(t, v)
    /\ PartialBoot(t, v)
    /\ IF task[t].op = "wake"
       THEN /\ MarkError(v)
            /\ Settle(t, v)
            /\ UNCHANGED files
            /\ answer' = [how |-> "failed", vm |-> v]
       ELSE /\ status' = [status EXCEPT ![v] = "deleted"]
            /\ files' = [files EXCEPT ![v] = FALSE]
            /\ Return(t)
            /\ Quiet
            /\ UNCHANGED pendingWakes
    /\ UNCHANGED <<overLimit, dnat, runningVMs, snapshottingSet, window, poll>>

-----------------------------------------------------------------------------
(* pollOnce of the idle monitor.  A record p holds the VMs it listed       *)
(* (seen), those its loop has yet to visit (todo), those whose window had  *)
(* elapsed when it read the clock (due), and which of its two loops runs.  *)

\* The windows after the loop visited R without snapshotting: a missing
\* entry is created; an elapsed one starts again (traffic, or keep-alive),
\* or stays as it is (idle, but being snapshotted already).
Sweeps(p, w, R, guard) ==
    { [u \in VM |->
          IF u \notin R \/ ~tap[u] THEN w[u]
          ELSE IF w[u] = "none" \/ (w[u] = "elapsed" /\ u \in p.due \ kept)
          THEN "open" ELSE w[u]] : kept \in SUBSET (R \cap guard) }

\* The VMs of S that no poll is snapshotting.
Unguarded(S, guard) == S \ guard

\* The finally block of both loops.
ReleaseGuard(v, guard) == guard \ {v}

Victim(t, v, p, w, guard) ==
    /\ poll' = [poll EXCEPT ![t] = p]
    /\ window' = w
    /\ snapshottingSet' = guard \cup {v}
    /\ task' = [task EXCEPT ![t] = [op |-> "poll", pc |-> "quiesce", vm |-> v]]

\* First loop: the next VM whose elapsed window shows it idle.
NextIdle(t, p, w, guard) ==
    /\ p.stage = "idle"
    /\ \E v \in Unguarded(p.todo, guard) :
        /\ tap[v] /\ w[v] = "elapsed" /\ v \in p.due
        /\ \E R \in SUBSET (p.todo \ {v}) : \E w2 \in Sweeps(p, w, R, guard) :
              Victim(t, v, [p EXCEPT !.todo = @ \ (R \cup {v})], w2, guard)
    /\ UNCHANGED overLimit

\* Between the loops the traffic of the listed VMs is recorded, and that may
\* bring their owners over the limit.
Record(p) == \E D \in SUBSET p.seen : overLimit' = overLimit \cup D

\* Second loop: the next listed VM of an owner who is over the limit when the
\* loop gets there.  It looks at neither the row, the TAP device nor the window.
VisitOver(t, p, w, guard) ==
    \E v \in Unguarded(p.todo \cap overLimit', guard), R \in SUBSET p.todo :
        /\ Unguarded(R \cap overLimit', guard) = {}
        /\ Victim(t, v, [p EXCEPT !.stage = "limit", !.todo = @ \ (R \cup {v})], w, guard)

NextOverLimit(t, p, w, guard) ==
    \/ /\ p.stage = "idle"
       /\ Record(p)
       /\ \E w2 \in Sweeps(p, w, p.todo, guard) :
             VisitOver(t, [p EXCEPT !.todo = p.seen], w2, guard)
    \/ /\ p.stage = "limit"
       /\ UNCHANGED overLimit
       /\ VisitOver(t, p, w, guard)

\* The end: windows of VMs that were not listed are dropped.
PollEnds(t, p, w, guard) ==
    /\ \E w2 \in IF p.stage = "idle" THEN Sweeps(p, w, p.todo, guard) ELSE {w} :
          window' = [u \in VM |-> IF u \in p.seen THEN w2[u] ELSE "none"]
    /\ \/ p.stage = "idle" /\ Record(p) /\ Unguarded(p.seen \cap overLimit', guard) = {}
       \/ /\ p.stage = "limit" /\ UNCHANGED overLimit
          /\ Unguarded(p.todo \cap overLimit, guard) = {}
    /\ snapshottingSet' = guard
    /\ poll' = [poll EXCEPT ![t] = NoPoll]
    /\ Return(t)

Scan(t, p, w, guard) ==
    \/ NextIdle(t, p, w, guard)
    \/ NextOverLimit(t, p, w, guard)
    \/ PollEnds(t, p, w, guard)

\* Faulty: every row is listed.
ListedRows == {v \in VM : Row(v)}

\* The query of pollOnce.
Listed == {v \in VM : status[v] = "running"}

\* setInterval fires: a poll starts even when an earlier one still runs.
PollStart(t) ==
    /\ task[t] = Idle
    /\ "poll" \in Serves[t]
    /\ Scan(t, [stage |-> "idle", seen |-> Listed, todo |-> Listed,
                due |-> {v \in Listed : window[v] = "elapsed"}],
            window, snapshottingSet)
    /\ UNCHANGED <<status, host, runningVMs, pendingWakes>>

-----------------------------------------------------------------------------
(* Snapshotting: prepareVMForSnapshot and snapshotVM, run by the poll, by  *)
(* the pause route and by the SSH stop command.                            *)

\* The pause route wants a running row; the stop command only wants a row.
SnapshotRequest(t, v) ==
    /\ \E o \in {"pause", "stop"} :
        /\ Start(t, o, v)
        /\ IF o = "pause" THEN status[v] = "running" ELSE Row(v)
        /\ task' = [task EXCEPT ![t] = [op |-> o, pc |-> "quiesce", vm |-> v]]
    /\ UNCHANGED <<db, host, memory, poll>>

\* After the connections were closed: PATCH Paused.
PauseGuest(t, v) ==
    /\ At(t, "quiesce")
    /\ v \in runningVMs /\ fc[v] \in {"running", "paused"}
    /\ fc' = [fc EXCEPT ![v] = "paused"]
    /\ GoTo(t, "snap")
    /\ UNCHANGED <<db, files, tap, dnat, memory, poll>>

\* PUT /snapshot/create, which wants a paused guest.
CreateSnapshot(t, v) ==
    /\ At(t, "snap") /\ fc[v] = "paused"
    /\ files' = [files EXCEPT ![v] = TRUE]
    /\ GoTo(t, "kill")
    /\ UNCHANGED <<db, fc, tap, dnat, memory, poll>>

\* The files are there: stop the unit fc-<id>, whichever process it is now.
KillGuest(t, v) ==
    /\ At(t, "kill") /\ files[v]
    /\ fc' = [fc EXCEPT ![v] = "none"]
    /\ tap' = [tap EXCEPT ![v] = FALSE]
    /\ GoTo(t, "cleanup")
    /\ UNCHANGED <<db, files, dnat, memory, poll>>

\* Faulty: the rules stay, and the wake proxy never sees a connection.
KeepDnat(v) == UNCHANGED dnat

\* removeDnat for both ports, when the row can still be read.
DropDnat(v) == dnat' = [dnat EXCEPT ![v] = @ /\ ~Row(v)]

\* The rules go if the row is still there; then the caller's part: the poll
\* and the pause route write the row, the stop command writes nothing.
SnapshotDone(t, v) ==
    /\ At(t, "cleanup")
    /\ DropDnat(v)
    /\ runningVMs' = runningVMs \ {v}
    /\ IF task[t].op = "stop" THEN UNCHANGED status ELSE SetStatus(v, "snapshotted")
    /\ IF task[t].op = "poll"
       THEN Scan(t, poll[t], [window EXCEPT ![v] = "none"],
                 ReleaseGuard(v, snapshottingSet))
       ELSE Return(t) /\ UNCHANGED <<overLimit, window, snapshottingSet, poll>>
    /\ UNCHANGED <<fc, files, tap, pendingWakes>>

\* A call to the API fails; the 30 s limit of curl leaves its effect in doubt.
SnapshotCallFails(t, v) ==
    \/ /\ \/ At(t, "quiesce") /\ (v \in runningVMs => fc[v] \in {"none", "launched"})
          \/ At(t, "snap") /\ fc[v] # "paused"
          \/ At(t, "kill") /\ ~files[v]
       /\ UNCHANGED <<fc, files>>
    \/ /\ "fault" \in Env /\ At(t, "quiesce") /\ v \in runningVMs
       /\ fc' \in {fc, [fc EXCEPT ![v] = IF @ = "running" THEN "paused" ELSE @]}
       /\ UNCHANGED files
    \/ /\ "fault" \in Env /\ At(t, "snap")
       /\ files' \in {files, [files EXCEPT ![v] = @ \/ fc[v] = "paused"]}
       /\ UNCHANGED fc

\* snapshotVM throws: the guest stays as it is, paused if it was paused.  The
\* first loop of the poll starts the window again; the others just report.
SnapshotFails(t, v) ==
    /\ SnapshotCallFails(t, v)
    /\ IF task[t].op = "poll"
       THEN Scan(t, poll[t],
                 IF poll[t].stage = "idle"
                 THEN [window EXCEPT ![v] = "open"] ELSE window,
                 ReleaseGuard(v, snapshottingSet))
       ELSE Return(t) /\ UNCHANGED <<overLimit, window, snapshottingSet, poll>>
    /\ UNCHANGED <<status, tap, dnat, runningVMs, pendingWakes>>

-----------------------------------------------------------------------------
(* Cloning, the source's side: cloneDisks stops a source that runs while   *)
(* its disk is copied.  The copy itself blocks the process.  What follows  *)
(* is the creation of another VM, which CreateRequest begins.              *)

\* POST /vms/:id/clone, as far as pauseVM
CloneRequest(t, v) ==
    /\ Start(t, "clone", v)
    /\ status[v] \in {"running", "snapshotted"} /\ v \in runningVMs
    /\ task' = [task EXCEPT ![t] = [op |-> "clone", pc |-> "freeze", vm |-> v]]
    /\ UNCHANGED <<db, host, memory, poll>>

\* pauseVM: PATCH Paused, and 200 ms
CloneFreezes(t, v) ==
    /\ At(t, "freeze") /\ fc[v] \in {"running", "paused"}
    /\ fc' = [fc EXCEPT ![v] = "paused"]
    /\ GoTo(t, "copy")
    /\ UNCHANGED <<db, files, tap, dnat, memory, poll>>

\* cp of the disk, and resumeVM up to its await: it throws when the VM has left
\* runningVMs, and the clone fails for that.
CloneCopies(t, v) ==
    /\ At(t, "copy")
    /\ IF v \in runningVMs THEN GoTo(t, "thaw") ELSE Return(t)
    /\ UNCHANGED <<db, host, memory, poll>>

\* PATCH Resumed, whoever paused the guest: the source is done with.
CloneThaws(t, v) ==
    /\ At(t, "thaw") /\ fc[v] \in {"running", "paused"}
    /\ fc' = [fc EXCEPT ![v] = "running"]
    /\ Return(t)
    /\ UNCHANGED <<db, files, tap, dnat, memory, poll>>

\* A PATCH fails, with or without its effect: nothing is undone.
CloneFails(t, v) ==
    /\ \/ At(t, "freeze") \/ At(t, "thaw")
    /\ \/ fc[v] \in {"none", "launched"} /\ UNCHANGED fc
       \/ /\ "fault" \in Env /\ fc[v] \in {"running", "paused"}
          /\ fc' \in {fc, [fc EXCEPT ![v] = IF At(t, "thaw") THEN "running" ELSE "paused"]}
    /\ Return(t)
    /\ UNCHANGED <<db, files, tap, dnat, memory, poll>>

-----------------------------------------------------------------------------
(* Deleting: the HTTP route and the SSH command.                           *)

DeleteRequest(t, v) ==
    /\ Start(t, "delete", v)
    /\ Row(v)
    /\ task' = [task EXCEPT ![t] = [op |-> "delete", pc |-> "hook", vm |-> v]]
    /\ UNCHANGED <<db, host, memory, poll>>

\* removeVMFull.  Only a VM in runningVMs is stopped, two seconds later.
DeleteUnknown(t, v) ==
    /\ At(t, "hook") /\ v \notin runningVMs
    /\ tap' = [tap EXCEPT ![v] = FALSE]
    /\ dnat' = [dnat EXCEPT ![v] = FALSE]
    /\ GoTo(t, "route")
    /\ UNCHANGED <<db, fc, files, memory, poll>>

DeleteKnown(t, v) ==
    /\ At(t, "hook") /\ v \in runningVMs
    /\ GoTo(t, "stopping")
    /\ UNCHANGED <<db, host, memory, poll>>

DeleteStop(t, v) ==
    /\ At(t, "stopping")
    /\ fc' = [fc EXCEPT ![v] = "none"]
    /\ tap' = [tap EXCEPT ![v] = FALSE]
    /\ dnat' = [dnat EXCEPT ![v] = FALSE]
    /\ runningVMs' = runningVMs \ {v}
    /\ GoTo(t, "route")
    /\ UNCHANGED <<db, files, pendingWakes, snapshottingSet, window, poll>>

\* After the Caddy route: the row and the data directory.
DeleteRow(t, v) ==
    /\ At(t, "route")
    /\ status' = [status EXCEPT ![v] = "deleted"]
    /\ files' = [files EXCEPT ![v] = FALSE]
    /\ Return(t)
    /\ UNCHANGED <<overLimit, fc, tap, dnat, memory, poll>>

-----------------------------------------------------------------------------
(* Time, the guest, and the control plane as a whole.                      *)

\* IDLE_TIMEOUT_MS passes on an open window; a poll that read the clock
\* before does not see it.
Elapse(v) ==
    /\ window[v] = "open"
    /\ window' = [window EXCEPT ![v] = "elapsed"]
    /\ poll' = [t \in Task |-> [poll[t] EXCEPT !.due = @ \ {v}]]
    /\ UNCHANGED <<db, host, runningVMs, pendingWakes, snapshottingSet, task>>

\* The guest powers off or its process dies; nobody is told.
GuestHalts(v) ==
    /\ "halt" \in Env
    /\ fc[v] # "none"
    /\ fc' = [fc EXCEPT ![v] = "none"]
    /\ UNCHANGED <<db, files, tap, dnat, memory, task, poll>>

\* The month ends, or the owner takes a larger plan.
Relief ==
    /\ "relief" \in Env
    /\ overLimit # {}
    /\ \E D \in SUBSET overLimit : overLimit' = D
    /\ UNCHANGED <<status, host, memory, task, poll>>

\* The process ends at any point and starts again: reconcileRunningVMs
\* adopts the processes of running rows and gives the other rows up.
Restart ==
    /\ restarts < MaxRestarts
    /\ restarts' = restarts + 1
    /\ runningVMs' = {v \in VM : status[v] = "running" /\ fc[v] # "none"}
    /\ status' = [v \in VM |-> IF status[v] = "running" /\ fc[v] = "none"
                               THEN "stopped" ELSE status[v]]
    /\ dnat' = [v \in VM |-> dnat[v] \/ v \in runningVMs']
    /\ pendingWakes' = {} /\ snapshottingSet' = {}
    /\ window' = [v \in VM |-> "none"]
    /\ task' = [t \in Task |-> Idle]
    /\ poll' = [t \in Task |-> NoPoll]
    /\ Quiet
    /\ UNCHANGED <<overLimit, fc, files, tap>>

-----------------------------------------------------------------------------
Boot(t, v) ==
    \/ Quiet /\ (LaunchUnit(t, v) \/ LoadSnapshot(t, v) \/ StartGuest(t, v))
    \/ BootReady(t, v) \/ WakeFinish(t, v) \/ BootFails(t, v)

Snapshot(t, v) == Quiet /\ ( \/ PauseGuest(t, v) \/ CreateSnapshot(t, v)
                             \/ KillGuest(t, v) \/ SnapshotDone(t, v)
                             \/ SnapshotFails(t, v) )

Clone(t, v) == Quiet /\ ( \/ CloneFreezes(t, v) \/ CloneCopies(t, v)
                          \/ CloneThaws(t, v) \/ CloneFails(t, v) )

Delete(t, v) == Quiet /\ ( \/ DeleteUnknown(t, v) \/ DeleteKnown(t, v)
                           \/ DeleteStop(t, v) \/ DeleteRow(t, v) )

Request(t) ==
    \/ PollStart(t) /\ Quiet
    \/ \E v \in VM : \/ EnsureVMRunning(t, v)
                     \/ Quiet /\ ( \/ CreateRequest(t, v)
                                   \/ CloneRequest(t, v)
                                   \/ SnapshotRequest(t, v)
                                   \/ DeleteRequest(t, v) )

\* The next step of a handler in flight.
Continue(t) == \E v \in VM : /\ task[t].vm = v
                             /\ \/ Boot(t, v) \/ Snapshot(t, v)
                                \/ Clone(t, v) \/ Delete(t, v)

Environment == Quiet /\ (Relief \/ \E v \in VM : Elapse(v) \/ GuestHalts(v))

\* A VM is not there yet, serves, sleeps, or was given up by a restart.
Init ==
    /\ status \in [VM -> {"unborn", "running", "snapshotted", "stopped"}]
    /\ overLimit = {}
    /\ fc    = [v \in VM |-> IF status[v] = "running" THEN "running" ELSE "none"]
    /\ files = [v \in VM |-> status[v] = "snapshotted"]
    /\ tap   = [v \in VM |-> status[v] = "running"]
    /\ dnat  = [v \in VM |-> status[v] = "running"]
    /\ runningVMs = {v \in VM : status[v] = "running"}
    /\ pendingWakes = {} /\ snapshottingSet = {}
    /\ window = [v \in VM |-> "none"]
    /\ task = [t \in Task |-> Idle]
    /\ poll = [t \in Task |-> NoPoll]
    /\ answer = NoAnswer
    /\ restarts = 0

Next ==
    \/ /\ \/ \E t \in Task : Request(t) \/ Continue(t)
          \/ Environment
       /\ UNCHANGED restarts
    \/ Restart

Spec == Init /\ [][Next]_vars

\* Every await of a handler ends: the Firecracker API, the shell commands and
\* the guest probes have timeouts.  Requests, time, faults and restarts need
\* not happen.
FairSpec == Spec /\ \A t \in Task : WF_vars(Continue(t) /\ UNCHANGED restarts)

-----------------------------------------------------------------------------
(* Properties.                                                             *)

\* The shape of the state.
TypeOK ==
    /\ status \in [VM -> Status]
    /\ overLimit \in SUBSET VM
    /\ fc \in [VM -> Unit]
    /\ files \in [VM -> BOOLEAN]
    /\ tap \in [VM -> BOOLEAN]
    /\ dnat \in [VM -> BOOLEAN]
    /\ runningVMs \in SUBSET VM
    /\ pendingWakes \in SUBSET VM
    /\ snapshottingSet \in SUBSET VM
    /\ window \in [VM -> {"none", "open", "elapsed"}]
    /\ task \in [Task -> [op : Handler \cup {"none"}, pc : Pcs, vm : VM \cup {NoVM}]]
    /\ poll \in [Task -> [stage : {"idle", "limit"}, seen : SUBSET VM,
                          todo : SUBSET VM, due : SUBSET VM]]
    /\ answer \in [how : {"none", "ok", "no_vm", "wrong_state", "quota", "failed"},
                   vm : VM \cup {NoVM}]
    /\ restarts \in 0..MaxRestarts

\* At most one handler boots a VM at a time, whatever is created, woken,
\* snapshotted and deleted around it: two would start the unit twice and
\* load one image into two guests.
BootExclusive ==
    \A v \in VM : \A t, u \in Task : Boots(t, v) /\ Boots(u, v) => t = u

\* The map of wake promises is never left behind and never missing: v is in
\* it exactly while one wake of v is on its way, so a failed wake does not
\* leave later callers waiting for ever.
PendingHasLeader ==
    \A v \in VM :
        v \in pendingWakes <=> \E t \in Task : Wakes(t, v)

\* Two polls may overlap (setInterval does not wait), yet they never
\* snapshot the same VM together, and the guard is given back every time.
PollExclusive ==
    /\ \A v \in VM : \A t, u \in Task : Polls(t, v) /\ Polls(u, v) => t = u
    /\ snapshottingSet = {v \in VM : \E t \in Task : Polls(t, v)}

\* While the control plane stays up, a row that says creating is being
\* created or woken by someone: no handler leaves it there, and no late
\* writer puts it there.
CreatingHasBooter ==
    restarts = 0 =>
        \A v \in VM : status[v] = "creating" => \E t \in Task : Boots(t, v)

\* The parts of the inductive invariant behind the four properties above.

\* A handler is in the steps of its own operation.
InPlace(k) ==
    \/ k.pc \in {"setup", "config", "ready"} /\ k.op \in {"create", "wake"}
    \/ k.pc \in {"load", "resume", "probe", "finish", "join"} /\ k.op = "wake"
    \/ k.pc \in SnapPcs /\ k.op \in {"poll", "pause", "stop"}
    \/ k.pc \in ClonePcs /\ k.op = "clone"
    \/ k.pc \in {"hook", "stopping", "route"} /\ k.op = "delete"

HandlersInPlace ==
    \A t \in Task : task[t] # Idle => task[t].vm \in VM /\ InPlace(task[t])

Creates(t, v) == Boots(t, v) /\ task[t].op = "create"

\* Only a VM that was created is worked on or listed by a poll.
WorkedOnExist ==
    \A t \in Task, v \in VM :
        task[t].vm = v \/ v \in poll[t].seen \cup poll[t].todo
            => status[v] # "unborn"

\* A VM under creation has no other row than creating, unless it was deleted,
\* and nobody that would write its row snapshots it or is about to: the end
\* of the creation is the only writer, and its "running" is never overtaken.
CreationUndisturbed ==
    \A t \in Task, v \in VM : Creates(t, v) =>
        /\ status[v] \in {"creating", "deleted"}
        /\ \A u \in Task :
              /\ v \notin poll[u].seen \cup poll[u].todo
              /\ task[u].vm = v /\ task[u].pc \in SnapPcs => task[u].op = "stop"

\* The row of a VM whose wake only has its route and keys to do is written.
FinishedIsWritten ==
    \A t \in Task, v \in VM :
        task[t].vm = v /\ task[t].pc = "finish" => status[v] # "creating"

\* All of this together is kept by every step: a creation or wake that is
\* under way stays the only one, known to the map of promises and visible
\* in the row.
LifecycleInv ==
    /\ TypeOK
    /\ HandlersInPlace
    /\ WorkedOnExist
    /\ CreationUndisturbed
    /\ FinishedIsWritten
    /\ BootExclusive
    /\ PendingHasLeader
    /\ PollExclusive
    /\ CreatingHasBooter

Untouched(v) == \A t \in Task : task[t].vm # v

\* When nobody works on a VM, its row, the host and the memory of the
\* control plane agree: what a poll, a pause, a wake or a creation leaves
\* behind, finished or failed, is what the next one expects to find.
Settled ==
    \A v \in VM : Untouched(v) =>
        /\ status[v] = "running" =>
              /\ v \in runningVMs /\ fc[v] \in {"running", "paused"}
              /\ tap[v] /\ dnat[v]
        /\ status[v] = "snapshotted" =>
              fc[v] = "none" /\ files[v] /\ ~tap[v] /\ ~dnat[v]
        /\ status[v] # "running" => v \notin runningVMs

\* What makes a control plane orderly: no guest dies by itself, nothing runs
\* the SSH stop command or a delete, and one handler at most snapshots, by the
\* pause route or by the poll.  Creations, clones, wakes, failing calls and
\* restarts are as many as they like.
Snapshotting(t) == Serves[t] \cap {"poll", "pause"} # {}

Orderly ==
    /\ "halt" \notin Env
    /\ \A t \in Task : Serves[t] \cap {"stop", "delete"} = {}
    /\ \A t, u \in Task : Snapshotting(t) /\ Snapshotting(u) => t = u

\* What the second loop of the poll does not look at: that the VM it takes
\* still runs, or else that nobody can wake it before the poll is done.
StaysAsleep(v) == status[v] = "snapshotted" /\ "relief" \notin Env

TakesAwake ==
    \A t \in Task, v \in VM :
        (/\ task'[t] = [op |-> "poll", pc |-> "quiesce", vm |-> v]
         /\ task'[t] # task[t] /\ poll'[t].stage = "limit")
        => status'[v] = "running" \/ StaysAsleep(v)'

\* No owner has used up the month's data.
WithinLimit == overLimit = {}

\* The parts of the inductive invariant behind Settled: what is true of a VM
\* while somebody works on it.

Snaps(t, v)  == task[t].vm = v /\ task[t].pc \in SnapPcs
Booted(t, v) == task[t].vm = v /\ task[t].pc \in {"ready", "probe"}
OnHost(v)    == fc[v] \in {"running", "paused"} /\ tap[v]
ImageOnly(v) == fc[v] = "none" /\ files[v] /\ ~tap[v]

\* A handler runs what it serves, and only a poll has a list.
AsServed ==
    \A t \in Task : /\ task[t] # Idle => task[t].op \in Serves[t]
                    /\ poll[t].todo # {} => task[t].op = "poll"

\* Until its snapshot has killed it, a VM whose row says running is there.
RunningIsUp(v) == status[v] = "running" =>
    /\ v \in runningVMs /\ dnat[v]
    /\ IF \E t \in Task : Snaps(t, v) /\ At(t, "cleanup")
       THEN ImageOnly(v) ELSE OnHost(v)

AsleepIsDown(v) == status[v] = "snapshotted" => ImageOnly(v) /\ ~dnat[v]

\* In memory are the VMs that run and those that a boot has just started.
KnownIsBooted(v) == v \in runningVMs =>
    \/ status[v] = "running"
    \/ status[v] = "creating" /\ \E t \in Task : Booted(t, v)

\* A boot has the row to itself, and what it did to the host lasts.
BootHolds(v) == \A t \in Task : Boots(t, v) /\ ~At(t, "finish") =>
    /\ status[v] = "creating"
    /\ At(t, "setup") \/ tap[v]
    /\ Booted(t, v) => OnHost(v) /\ dnat[v] /\ v \in runningVMs

\* Nothing starts afresh where there is an image to start from.
Afresh(t)   == task[t].pc \in {"setup", "config", "ready"}
ColdBoot(v) == /\ status[v] = "unborn" => ~files[v]
               /\ \A t \in Task : Boots(t, v) /\ Afresh(t) => ~files[v]

\* A snapshot is of a VM whose row says running, or gets nowhere: the limit
\* loop may take a VM that sleeps, and that nobody can wake meanwhile.
SnapsAwake(v) == \A t \in Task : Snaps(t, v) =>
    \/ status[v] = "running"
    \/ StaysAsleep(v) /\ v \in overLimit /\ At(t, "quiesce")

\* The list of the first loop is not stale: only the poll puts VMs to sleep.
ListIsFresh(v) == \A t \in Task : poll[t].stage = "idle" /\ v \in poll[t].todo =>
    status[v] = "running" /\ task[t].vm # v

Holds(v) == /\ RunningIsUp(v) /\ AsleepIsDown(v) /\ KnownIsBooted(v)
            /\ BootHolds(v) /\ ColdBoot(v) /\ SnapsAwake(v) /\ ListIsFresh(v)

SettledInv == AsServed /\ \A v \in VM : Holds(v)

\* What a VM is to its user: how far its row is, and where its memory is.
PhaseOf(v) ==
    CASE status[v] = "unborn"      -> "absent"
      [] status[v] = "creating"    -> "booting"
      [] status[v] = "running"     -> "up"
      [] status[v] = "snapshotted" -> "asleep"
      [] OTHER                     -> "over"

HasGuest(v) == fc[v] \in {"paused", "running"}
MemoryOf(v) == {m \in {"guest", "image"} : IF m = "guest" THEN HasGuest(v) ELSE files[v]}

phases   == [v \in VM |-> PhaseOf(v)]
memories == [v \in VM |-> MemoryOf(v)]

Cycle == INSTANCE SleepCycle WITH phase <- phases, memory <- memories

\* README.md:32, "VMs snapshot to disk after inactivity, restore on next
\* request": whatever polls, wakes, creations, clones and failures do to it,
\* a VM goes through the cycle of SleepCycle.  A snapshot ends no guest before
\* its image, a wake drops no image before its guest, none starts afresh over
\* one, and a failure is the end only of what it happened to.
SleepsAsPromised == Cycle!Spec

\* What a machine had in its memory is in a guest or in an image ever after.
MemoryKept == Cycle!Kept

\* A creation or a wake comes to an end, finished or failed.
BootEnds ==
    \A v \in VM : (\E t \in Task : Boots(t, v)) ~> (\A t \in Task : ~Boots(t, v))

\* What a handler holds up is released, however it ends: whoever joined its
\* wake gets an answer, and the poll gives back its guard on a VM, so that the
\* VM can sleep again later.
HoldsEnd ==
    /\ \A t \in Task : (task[t].pc = "join") ~> (task[t].pc # "join")
    /\ \A v \in VM : (v \in snapshottingSet) ~> (v \notin snapshottingSet)

\* wake.ts:57, "Ensures a VM is running before any operation proceeds": a
\* caller that is told "ok" finds a running guest.
WakeDelivers == answer.how = "ok" => fc[answer.vm] = "running"

\* wake.ts:70, "Coalesces concurrent wake requests for the same VM": nobody
\* is refused for the state of a VM whose wake is pending.
WakeCoalesces == answer.how = "wrong_state" => answer.vm \notin pendingWakes

\* README.md:32, "VMs snapshot to disk after inactivity, restore on next
\* request": a VM that sleeps has the image it is to be restored from.
AsleepHasImage ==
    \A v \in VM : Untouched(v) /\ status[v] = "snapshotted" => files[v]

\* firecracker.ts:718, "Pause / Resume (without snapshot, for disk copy)": the
\* disk that is copied is that of a guest that does not run.
CopyIsStill ==
    [][\A t \in Task : At(t, "copy") /\ task'[t].pc = "thaw"
         => fc[task[t].vm] # "running"]_vars

\* firecracker.ts:751, "let Firecracker fully quiesce before snapshotting": a
\* guest does not run on between its image and its end, or its disk would be
\* newer than its memory.
ImageIsLast ==
    [][\A t \in Task : At(t, "kill") /\ task'[t].pc = "cleanup"
         => fc[task[t].vm] # "running"]_vars

\* Only a clone resumes a guest that a snapshot has paused.
NoClones == \A t \in Task : "clone" \notin Serves[t]

StaysPaused ==
    \A t \in Task, v \in VM :
        task[t].vm = v /\ task[t].pc \in {"snap", "kill"} => fc[v] = "paused"

\* server.ts:200, VMs "should survive CP restarts (reconciled on next
\* startup)": a guest that has a row and runs is known after the restart.
RestartKeepsGuests ==
    [][restarts' > restarts =>
         \A v \in VM : Row(v) /\ fc[v] = "running" => v \in runningVMs']_vars
=============================================================================
