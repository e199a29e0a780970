--------------------------- MODULE GuestAccessProofs ---------------------------
(***************************************************************************)
(* For any number of connections, terminals, snapshots and failed wakes:    *)
(* who is in a session of a VM that sleeps came after the cleanup, and a     *)
(* suppression has a timer that lifts it.  For any users and keys: the       *)
(* proxy's cache agrees with the table, and keys reach the guest.            *)
(***************************************************************************)
EXTENDS MCGuestAccess, TLAPS

\* Who is in a session opened it after the cleanup.
Warned ==
  /\ \A c \in here : ssh[c] = "bridged" => c \in late
  /\ \A t \in Tabs : tab[t] \in Live => t \in late

\* A snapshot is taken of a VM that runs, and from its cleanup until the VM is
\* awake again nobody is in a session unwarned; the cleanup reaches everybody
\* because every connected client has an entry in activeConnections.
Sleepers ==
  /\ here = tracked
  /\ snap # "none" => vm \in {"up", "hung"}
  /\ snap = "engine" \/ vm \in {"asleep", "waking"} => Warned

\* Each timer is of a cleanup, and each cleanup of a snapshot.
Timers == /\ timers <= snaps
          /\ snap \in {"warn", "cut"} => timers < snaps

IInv == TypeOK /\ SuppressionLifted /\ Timers /\ Sleepers

LEMMA ConnectionsInit == Init => IInv
<1> SUFFICES ASSUME Init PROVE IInv
  OBVIOUS
<1>1. TypeOK
  <2>1. 0 \in 0..MaxSnaps /\ 0 \in 0..MaxFails
    BY ConnectionsAssumption
  <2>2. ssh \in [Clients -> {"off"}] /\ tab \in [Tabs -> {"idle"}]
    BY DEF Init
  <2> QED
    BY <2>1, <2>2 DEF Init, TypeOK
<1>2. Sleepers
  BY DEF Init, Sleepers, Warned, Live
<1> QED
  BY <1>1, <1>2 DEF Init, IInv, SuppressionLifted, Timers

-----------------------------------------------------------------------------
(* A wake is asked for by a session that wants to begin.                     *)

LEMMA AskFacts ==
  ASSUME TypeOK, \/ Running /\ UNCHANGED <<vm, fails>>
                 \/ Wakes
                 \/ Throws
  PROVE  /\ vm' \in {"up", "hung", "resumed", "lost", "asleep", "waking", "error"}
         /\ fails' \in 0..MaxFails
         /\ vm' = vm \/ (vm = "asleep" /\ vm' = "waking")
BY ConnectionsAssumption DEF TypeOK, Wakes, Throws

LEMMA ConnectUpstreamKeeps ==
  ASSUME IInv, NEW c \in Clients, ConnectUpstream(c)
  PROVE  IInv'
<1> USE DEF IInv
<1>1. /\ UNCHANGED <<snap, snaps, suppress, timers, here, tracked, tab, late>>
      /\ \/ Running /\ UNCHANGED <<vm, fails>>
         \/ Wakes
         \/ Throws
      /\ \E s \in {"dialing", "waking", "ready", "off"} : ssh' = [ssh EXCEPT ![c] = s]
      /\ needs' = needs \ {c} \/ needs' = needs \cup {c}
  BY DEF ConnectUpstream, hush, Closed
<1>2. /\ vm' \in {"up", "hung", "resumed", "lost", "asleep", "waking", "error"}
      /\ fails' \in 0..MaxFails
      /\ vm' = vm \/ (vm = "asleep" /\ vm' = "waking")
  BY <1>1, AskFacts
<1>3. TypeOK'
  BY <1>1, <1>2 DEF TypeOK, Pending, Waking
<1>4. Sleepers'
  BY <1>1, <1>2 DEF Sleepers, Warned, TypeOK
<1> QED
  BY <1>1, <1>3, <1>4 DEF SuppressionLifted, Timers

LEMMA ConnectsKeeps ==
  ASSUME IInv, NEW t \in Tabs, NEW from, Connects(t, from)
  PROVE  IInv'
<1> USE DEF IInv
<1>1. /\ UNCHANGED <<snap, snaps, suppress, timers, ssh, here, tracked, needs, late>>
      /\ \/ Running /\ UNCHANGED <<vm, fails>>
         \/ Wakes
         \/ Throws
      /\ \E s \in {"asking", "waits", "retry"} : tab' = [tab EXCEPT ![t] = s]
  BY DEF Connects, hush, conns
<1>2. /\ vm' \in {"up", "hung", "resumed", "lost", "asleep", "waking", "error"}
      /\ fails' \in 0..MaxFails
      /\ vm' = vm \/ (vm = "asleep" /\ vm' = "waking")
  BY <1>1, AskFacts
<1>3. TypeOK'
  BY <1>1, <1>2 DEF TypeOK, Live, Waits, Handled
<1>4. Sleepers'
  BY <1>1, <1>2 DEF Sleepers, Warned, TypeOK, Live
<1> QED
  BY <1>1, <1>3, <1>4 DEF SuppressionLifted, Timers

-----------------------------------------------------------------------------
(* The steps of a connection.                                                *)

LEMMA ClientStep ==
  ASSUME IInv, NEW c \in Clients,
         \/ Connect(c) \/ Open(c) \/ Woken(c) \/ Bridge(c)
         \/ UpstreamError(c) \/ SessionEnds(c) \/ Leave(c)
  PROVE  IInv'
<1> USE DEF IInv
<1>1. CASE Connect(c)
  <2>1. TypeOK'
    BY <1>1 DEF TypeOK, Connect, guest, hush
  <2>2. Sleepers'
    BY <1>1 DEF Sleepers, Warned, TypeOK, Connect, guest
  <2> QED
    BY <1>1, <2>1, <2>2 DEF Connect, guest, hush, SuppressionLifted, Timers
<1>2. CASE Open(c)
  BY <1>2, ConnectUpstreamKeeps DEF Open
<1>3. CASE Woken(c)
  <2>1. CASE ssh[c] = "rewoken" /\ ConnectUpstream(c)
    BY <2>1, ConnectUpstreamKeeps
  <2>2. CASE Dial(c)
    <3>1. TypeOK'
      BY <2>2 DEF TypeOK, Dial, guest, hush, Pending
    <3>2. Sleepers'
      BY <2>2 DEF Sleepers, Warned, TypeOK, Dial, guest
    <3> QED
      BY <2>2, <3>1, <3>2 DEF Dial, guest, hush, SuppressionLifted, Timers
  <2> QED
    BY <1>3, <2>1, <2>2 DEF Woken
<1>4. CASE Bridge(c)
  <2>1. TypeOK'
    BY <1>4 DEF TypeOK, Bridge, guest, hush
  <2>2. Sleepers'
    <3>1. vm' = "up" /\ snap' = snap /\ here' = here /\ tracked' = tracked
      BY <1>4 DEF Bridge, guest
    <3>2. ASSUME snap = "engine" PROVE Warned'
      <4>1. Warned
        BY <3>2 DEF Sleepers
      <4> QED
        BY <1>4, <3>2, <4>1 DEF Bridge, Warned, TypeOK
    <3> QED
      BY <3>1, <3>2 DEF Sleepers
  <2> QED
    BY <1>4, <2>1, <2>2 DEF Bridge, guest, hush, SuppressionLifted, Timers
<1>5. CASE UpstreamError(c)
  <2>1. /\ UNCHANGED <<snap, snaps, suppress, timers, here, tracked, needs, tab, late>>
        /\ \/ UNCHANGED <<vm, fails>>
           \/ Wakes
           \/ Throws
        /\ \E s \in {"dialing", "rewaking", "ready", "off"} : ssh' = [ssh EXCEPT ![c] = s]
    BY <1>5 DEF UpstreamError, hush, Closed
  <2>2. /\ vm' \in {"up", "hung", "resumed", "lost", "asleep", "waking", "error"}
        /\ fails' \in 0..MaxFails
        /\ vm' = vm \/ (vm = "asleep" /\ vm' = "waking")
    BY <2>1, AskFacts DEF TypeOK
  <2>3. TypeOK'
    BY <2>1, <2>2 DEF TypeOK, Pending, Waking
  <2>4. Sleepers'
    BY <2>1, <2>2 DEF Sleepers, Warned, TypeOK
  <2> QED
    BY <2>1, <2>3, <2>4 DEF SuppressionLifted, Timers
<1>6. CASE SessionEnds(c)
  <2>1. TypeOK'
    BY <1>6 DEF TypeOK, SessionEnds, Closed, guest, hush
  <2>2. Sleepers'
    BY <1>6 DEF Sleepers, Warned, TypeOK, SessionEnds, Closed, guest
  <2> QED
    BY <1>6, <2>1, <2>2 DEF SessionEnds, guest, hush, SuppressionLifted, Timers
<1>7. CASE Leave(c)
  <2>1. TypeOK'
    BY <1>7 DEF TypeOK, Leave, guest, hush
  <2>2. Sleepers'
    BY <1>7 DEF Sleepers, Warned, TypeOK, Leave, guest
  <2> QED
    BY <1>7, <2>1, <2>2 DEF Leave, guest, hush, SuppressionLifted, Timers
<1> QED
  BY <1>1, <1>2, <1>3, <1>4, <1>5, <1>6, <1>7

-----------------------------------------------------------------------------
(* The steps of a terminal.                                                  *)

LEMMA TabFacts ==
  ASSUME IInv, NEW t \in Tabs, NEW from,
         NEW to \in {"idle", "retry", "done", "deaf", "deafwaits"},
         TabStep(t, from, to), late' = late
  PROVE  IInv'
<1> USE DEF IInv
<1>1. TypeOK'
  BY DEF TypeOK, TabStep, guest, hush, conns, Live, Waits, Handled
<1>2. Sleepers'
  BY DEF Sleepers, Warned, TypeOK, TabStep, guest, conns, Live
<1> QED
  BY <1>1, <1>2 DEF TabStep, guest, hush, SuppressionLifted, Timers

LEMMA TabStepKeeps ==
  ASSUME IInv, NEW t \in Tabs,
         \/ Attach(t) \/ Reattach(t) \/ Spawn(t) \/ TurnAway(t)
         \/ ShellExits(t) \/ Lost(t) \/ Detach(t)
  PROVE  IInv'
<1>1. CASE Attach(t) \/ Reattach(t)
  BY <1>1, ConnectsKeeps DEF Attach, Reattach
<1>2. CASE Spawn(t)
  <2> USE DEF IInv
  <2>1. /\ UNCHANGED <<guest, hush, conns>>
        /\ \E s \in Live : tab' = [tab EXCEPT ![t] = s]
        /\ late' = IF snap = "engine" THEN late \cup {t} ELSE late \ {t}
        /\ Running
    BY <1>2 DEF Spawn, TabStep, Live
  <2>2. TypeOK'
    BY <2>1 DEF TypeOK, guest, hush, conns
  <2>3. Sleepers'
    <3>1. /\ vm' = vm /\ vm \notin {"asleep", "waking"}
          /\ snap' = snap /\ here' = here /\ tracked' = tracked
      BY <2>1 DEF guest, conns, Running
    <3>2. ASSUME snap = "engine" PROVE Warned'
      <4>1. Warned
        BY <3>2 DEF Sleepers
      <4> QED
        BY <2>1, <3>2, <4>1 DEF conns, Warned, TypeOK
    <3> QED
      BY <3>1, <3>2 DEF Sleepers
  <2> QED
    BY <2>1, <2>2, <2>3 DEF guest, hush, SuppressionLifted, Timers
<1>3. CASE TurnAway(t) \/ ShellExits(t) \/ Lost(t) \/ Detach(t)
  <2>1. \E from : \E to \in {"idle", "retry", "done", "deaf", "deafwaits"} :
          TabStep(t, from, to)
    BY <1>3, Zenon DEF TurnAway, ShellExits, Lost, Detach
  <2>2. late' = late
    BY <1>3 DEF TurnAway, ShellExits, Lost, Detach
  <2> QED
    BY <2>1, <2>2, TabFacts
<1> QED
  BY <1>1, <1>2, <1>3

-----------------------------------------------------------------------------
(* The steps of the VM.                                                      *)

LEMMA VMStep ==
  ASSUME IInv,
         \/ Resume \/ WakeDone \/ WakeFails \/ SnapStarts \/ HangUp \/ CleanUp
         \/ Pause \/ SnapDone \/ SnapFails \/ TimerFires
  PROVE  IInv'
<1> USE ConnectionsAssumption DEF IInv
<1>1. CASE Resume
  BY <1>1 DEF TypeOK, Resume, hush, conns, Sleepers, Warned, SuppressionLifted, Timers
<1>2. CASE WakeDone
  <2>1. TypeOK'
    BY <1>2 DEF TypeOK, WakeDone, Told, hush, Pending, Waking, Live, Waits, Handled
  <2>2. Sleepers'
    BY <1>2 DEF Sleepers, WakeDone
  <2> QED
    BY <1>2, <2>1, <2>2 DEF WakeDone, hush, SuppressionLifted, Timers
<1>3. CASE WakeFails
  <2>1. TypeOK'
    BY <1>3 DEF TypeOK, WakeFails, Closed, hush, Pending, Waking, Live, Waits, Handled
  <2>2. Sleepers'
    BY <1>3 DEF Sleepers, WakeFails
  <2> QED
    BY <1>3, <2>1, <2>2 DEF WakeFails, hush, SuppressionLifted, Timers
<1>4. CASE SnapStarts
  BY <1>4 DEF TypeOK, SnapStarts, hush, conns, Sleepers, SuppressionLifted, Timers
<1>5. CASE HangUp
  <2>1. TypeOK'
    BY <1>5 DEF TypeOK, HangUp, Closed, hush, Pending, Waking, Live, Waits, Handled
  <2>2. Sleepers'
    BY <1>5 DEF Sleepers, HangUp
  <2> QED
    BY <1>5, <2>1, <2>2 DEF HangUp, hush, SuppressionLifted, Timers
<1>6. CASE CleanUp
  <2>1. TypeOK'
    BY <1>6 DEF TypeOK, CleanUp, Suppressed, Timers, Cut, Live, Waits, Handled
  <2>2. here' = {} /\ tracked' = {}
    BY <1>6 DEF CleanUp, Cut, Sleepers
  <2>3. \A t \in Tabs : tab'[t] \notin Live
    BY <1>6 DEF CleanUp, Live
  <2>4. vm' \in {"up", "hung"}
    BY <1>6 DEF CleanUp, Sleepers
  <2>5. Sleepers'
    BY <2>2, <2>3, <2>4 DEF Sleepers, Warned
  <2>6. SuppressionLifted' /\ Timers'
    BY <1>6 DEF CleanUp, Suppressed, SuppressionLifted, Timers, TypeOK
  <2> QED
    BY <2>1, <2>5, <2>6
<1>7. CASE Pause
  BY <1>7 DEF TypeOK, Pause, hush, conns, Sleepers, Warned, SuppressionLifted, Timers
<1>8. CASE SnapDone
  BY <1>8 DEF TypeOK, SnapDone, hush, conns, Sleepers, Warned, SuppressionLifted, Timers
<1>9. CASE SnapFails
  BY <1>9 DEF TypeOK, SnapFails, hush, conns, Sleepers, Warned, SuppressionLifted, Timers
<1>10. CASE TimerFires
  <2>1. /\ UNCHANGED <<vm, snap, snaps, fails, ssh, here, tracked, needs, tab, late>>
        /\ timers' = timers - 1 /\ timers > 0 /\ suppress' = FALSE
    BY <1>10 DEF TimerFires, guest, conns
  <2>2. timers' \in 0..MaxSnaps /\ timers' <= timers
    BY <2>1 DEF TypeOK
  <2>3. TypeOK'
    BY <2>1, <2>2 DEF TypeOK
  <2>4. Sleepers'
    BY <2>1 DEF Sleepers, Warned
  <2>5. Timers'
    BY <2>1 DEF Timers, TypeOK
  <2> QED
    BY <2>1, <2>3, <2>4, <2>5 DEF SuppressionLifted
<1> QED
  BY <1>1, <1>2, <1>3, <1>4, <1>5, <1>6, <1>7, <1>8, <1>9, <1>10

-----------------------------------------------------------------------------

LEMMA ConnectionsStep == IInv /\ [Next]_vars => IInv'
<1> SUFFICES ASSUME IInv, [Next]_vars PROVE IInv'
  OBVIOUS
<1>1. CASE UNCHANGED vars
  BY <1>1 DEF IInv, TypeOK, SuppressionLifted, Timers, Sleepers, Warned,
              vars, guest, hush, conns
<1> QED
  BY <1>1, ClientStep, TabStepKeeps, VMStep DEF Next

LEMMA ConnectionsInvariant == Spec => []IInv
BY ConnectionsInit, ConnectionsStep, PTL DEF Spec

\* The state keeps its shape; there are never more timers than snapshots.
THEOREM ConnectionsTypeCorrect == Spec => []TypeOK
<1>1. IInv => TypeOK
  BY DEF IInv
<1> QED
  BY <1>1, ConnectionsInvariant, PTL

\* Who is in a session of a VM that has gone to sleep opened it after the
\* cleanup: disconnectSSHForVM and destroyTerminalsForVM miss nobody.
THEOREM CleanupReachesAll == Spec => []SleepersWarned
<1>1. IInv => SleepersWarned
  BY DEF IInv, Sleepers, Warned, SleepersWarned
<1> QED
  BY <1>1, ConnectionsInvariant, PTL

\* A VM in snapshotInProgress has a timer that will take it out.
THEOREM SuppressionHasTimer == Spec => []SuppressionLifted
<1>1. IInv => SuppressionLifted
  BY DEF IInv
<1> QED
  BY <1>1, ConnectionsInvariant, PTL

-----------------------------------------------------------------------------
(* The keys of users (SshKeys).                                              *)

\* The keys somebody is bringing to the guest: a push, or the sync, as long as
\* it has them on its list or among those it did not find.
Brought == {k \in Keys : K!Add(k) \in execs}
           \cup (IF sync = "asked" THEN listed
                 ELSE IF sync = "append" THEN missing ELSE {})

\* In a VM that runs or is being created no key gets lost; one that sleeps or
\* wakes is put right by the sync that is still to come.
NoKeyLost ==
  state \in {"new", "running"} /\ sync # "due" =>
    K!Wanted \subseteq file \cup excused \cup Brought

KeysInv == K!TypeOK /\ CacheAgrees /\ NoKeyLost

LEMMA KeysInit == K!Init => KeysInv
BY DEF K!Init, KeysInv, K!TypeOK, K!NoCache, CacheAgrees, K!CacheAgrees, NoKeyLost,
       K!Wanted, Brought

\* A user's keys change: what is new is pushed, excused, or left to a sync.
LEMMA PushKeeps ==
  ASSUME KeysInv, NEW u \in Users, NEW k \in Keys,
         db' = [db EXCEPT ![u] = @ \cup {k}], cache' = K!NoCache, K!Push(u, k),
         UNCHANGED <<members, state, file, envKeys, sync, listed, missing>>,
         link' \in {"none", "pending", "confirmed"}, told' = told
  PROVE  KeysInv'
<1>1. K!TypeOK'
  BY DEF KeysInv, K!TypeOK, K!Push, K!NoCache, K!Exec, K!Add
<1>2. CacheAgrees'
  BY DEF CacheAgrees, K!CacheAgrees, K!NoCache
<1>3. NoKeyLost'
  <2> SUFFICES ASSUME state \in {"new", "running"}, sync # "due", NEW x \in K!Wanted'
      PROVE x \in file' \cup excused' \cup Brought'
    BY DEF NoKeyLost
  <2>1. x \in K!Wanted \/ (x = k /\ u \in members)
    BY DEF KeysInv, K!TypeOK, K!Wanted
  <2>2. x \in Keys
    BY <2>1 DEF KeysInv, K!TypeOK, K!Wanted
  <2> QED
    BY <2>1, <2>2 DEF KeysInv, NoKeyLost, Brought, K!Push
<1> QED
  BY <1>1, <1>2, <1>3 DEF KeysInv

LEMMA AccountStep ==
  ASSUME KeysInv, NEW u \in Users,
         \/ \E k \in Keys : K!AddKey(u, k) \/ K!RemoveKey(u, k)
         \/ K!Confirm(u) \/ K!Grant(u) \/ K!Revoke(u)
  PROVE  KeysInv'
<1>1. ASSUME NEW k \in Keys, K!AddKey(u, k) PROVE KeysInv'
  BY <1>1, PushKeeps
     DEF K!AddKey, K!Invalidated, K!Guest, K!Terminal, KeysInv, K!TypeOK
<1>2. ASSUME NEW k \in Keys, K!RemoveKey(u, k) PROVE KeysInv'
  <2>1. K!TypeOK'
    BY <1>2 DEF KeysInv, K!TypeOK, K!RemoveKey, K!Pull, K!Exec, K!Remove, K!Invalidated,
                K!NoCache, K!Guest, K!Terminal
  <2>2. CacheAgrees'
    BY <1>2 DEF CacheAgrees, K!CacheAgrees, K!RemoveKey, K!Invalidated, K!NoCache
  <2>3. K!Wanted' \subseteq K!Wanted /\ Brought \subseteq Brought'
    BY <1>2 DEF KeysInv, K!TypeOK, K!Wanted, Brought, K!RemoveKey, K!Pull, K!Guest
  <2>4. NoKeyLost'
    BY <1>2, <2>3 DEF KeysInv, NoKeyLost, K!RemoveKey, K!Guest
  <2> QED
    BY <2>1, <2>2, <2>4 DEF KeysInv
<1>3. CASE K!Confirm(u)
  <2>1. CASE Offered \in db[u]
    BY <1>3, <2>1 DEF K!Confirm, KeysInv, K!TypeOK, CacheAgrees, K!CacheAgrees, NoKeyLost,
                      K!Wanted, Brought, K!Guest
  <2>2. CASE Offered \notin db[u]
    BY <1>3, <2>2, PushKeeps, OfferedAssumption DEF K!Confirm, K!Invalidated, K!Guest
  <2> QED
    BY <2>1, <2>2
<1>4. CASE K!Grant(u)
  <2>1. K!TypeOK' /\ CacheAgrees'
    BY <1>4 DEF K!Grant, KeysInv, K!TypeOK, CacheAgrees, K!CacheAgrees, K!Guest, K!Terminal
  <2>2. K!Wanted' = K!Wanted \cup db[u]
    BY <1>4 DEF K!Grant, K!Wanted, KeysInv, K!TypeOK
  <2>3. NoKeyLost'
    BY <1>4, <2>2 DEF K!Grant, KeysInv, NoKeyLost, Brought, K!Guest
  <2> QED
    BY <2>1, <2>3 DEF KeysInv
<1>5. CASE K!Revoke(u)
  BY <1>5 DEF K!Revoke, KeysInv, K!TypeOK, CacheAgrees, K!CacheAgrees, NoKeyLost,
              K!Wanted, Brought, K!Guest, K!Terminal
<1> QED
  BY <1>1, <1>2, <1>3, <1>4, <1>5

LEMMA GuestStep ==
  ASSUME KeysInv,
         \/ \E e \in K!Exec : K!ExecRuns(e) \/ K!ExecFails(e)
         \/ K!Created \/ K!Sleep \/ K!Wake \/ K!Woken
         \/ K!SyncStarts \/ K!SyncCompares \/ K!SyncEnds
  PROVE  KeysInv'
<1>1. db' = db /\ cache' = cache /\ members' = members
  BY DEF K!ExecRuns, K!ExecFails, K!Created, K!Sleep, K!Wake, K!Woken,
         K!SyncStarts, K!SyncCompares, K!SyncEnds
<1>2. CacheAgrees' /\ K!Wanted' = K!Wanted
  BY <1>1 DEF KeysInv, CacheAgrees, K!CacheAgrees, K!Wanted
<1>3. K!Wanted \subseteq Keys
  BY DEF K!Wanted, KeysInv, K!TypeOK
<1>4. ASSUME NEW e \in K!Exec, K!ExecRuns(e) \/ K!ExecFails(e) PROVE KeysInv'
  <2>1. K!TypeOK'
    BY <1>4 DEF KeysInv, K!TypeOK, K!ExecRuns, K!ExecFails, K!Exec, K!Guest, K!Terminal
  <2>2. \A k \in Keys : K!Add(k) = e => e.op = "add" /\ e.key = k
    BY DEF K!Add
  <2>3. NoKeyLost'
    BY <1>2, <1>3, <1>4, <2>2
       DEF KeysInv, NoKeyLost, Brought, K!ExecRuns, K!ExecFails, K!Guest
  <2> QED
    BY <1>2, <2>1, <2>3 DEF KeysInv
<1>5. CASE K!Created \/ K!Sleep \/ K!Wake \/ K!Woken
  <2>1. K!TypeOK'
    BY <1>5 DEF KeysInv, K!TypeOK, K!Created, K!Sleep, K!Wake, K!Woken, K!Terminal
  <2>2. NoKeyLost'
    BY <1>2, <1>5 DEF KeysInv, NoKeyLost, Brought, K!Created, K!Sleep, K!Wake, K!Woken
  <2> QED
    BY <1>2, <2>1, <2>2 DEF KeysInv
<1>6. CASE K!SyncStarts \/ K!SyncCompares \/ K!SyncEnds
  <2>1. K!TypeOK'
    BY <1>3, <1>6
       DEF KeysInv, K!TypeOK, K!SyncStarts, K!SyncCompares, K!SyncEnds, K!Terminal
  <2>2. NoKeyLost'
    BY <1>2, <1>6
       DEF KeysInv, NoKeyLost, Brought, K!SyncStarts, K!SyncCompares, K!SyncEnds
  <2> QED
    BY <1>2, <2>1, <2>2 DEF KeysInv
<1> QED
  BY <1>4, <1>5, <1>6

LEMMA KeysStep == KeysInv /\ [K!Next]_(K!vars) => KeysInv'
<1> SUFFICES ASSUME KeysInv, [K!Next]_(K!vars) PROVE KeysInv'
  OBVIOUS
<1>1. CASE K!Register \/ K!Expire \/ K!PollSees
  BY <1>1 DEF KeysInv, K!TypeOK, CacheAgrees, K!CacheAgrees, NoKeyLost, K!Wanted, Brought,
              K!Register, K!Expire, K!PollSees, K!Guest
<1>2. CASE K!Lookup
  BY <1>2 DEF KeysInv, K!TypeOK, CacheAgrees, K!CacheAgrees, NoKeyLost, K!Wanted, Brought,
              K!Lookup, K!Guest, K!Terminal
<1>3. CASE UNCHANGED K!vars
  BY <1>3 DEF KeysInv, K!TypeOK, CacheAgrees, K!CacheAgrees, NoKeyLost, K!Wanted, Brought,
              K!vars
<1> QED
  BY <1>1, <1>2, <1>3, AccountStep, GuestStep DEF K!Next

LEMMA KeysInvariant == K!Spec => []KeysInv
BY KeysInit, KeysStep, PTL DEF K!Spec

\* The SSH proxy recognises the keys of the table: whatever is added, removed or
\* confirmed for a terminal drops the cache that was filled before.
THEOREM CacheNeverStale == K!Spec => []CacheAgrees
<1>1. KeysInv => CacheAgrees
  BY DEF KeysInv
<1> QED
  BY <1>1, KeysInvariant, PTL

\* A running VM that nobody is talking to has the keys of its members, but for
\* those that are known to have been left out, for any users and keys and over any
\* number of sleeps, fresh boots and failed commands.
THEOREM KeysReachTheGuest == K!Spec => []KeysDelivered
<1>1. KeysInv => KeysDelivered
  BY DEF KeysInv, NoKeyLost, Brought, KeysDelivered, K!KeysDelivered, K!Quiet
<1> QED
  BY <1>1, KeysInvariant, PTL

\* The two components side by side are each what it is alone: what is proved of
\* one holds in their composition.
THEOREM SideBySide == FairBoth => Spec /\ K!Spec
<1>1. BothInit => Init /\ K!Init
  BY DEF BothInit
<1>2. [BothNext]_both => [Next]_vars
  BY DEF BothNext, InSessions, InKeys, both
<1>3. [BothNext]_both => [K!Next]_(K!vars)
  BY DEF BothNext, InSessions, InKeys, both, keys, K!vars
<1> QED
  BY <1>1, <1>2, <1>3, PTL DEF FairBoth, Spec, K!Spec

=============================================================================
