---------------------------- MODULE Connections ----------------------------
(***************************************************************************)
(* The sessions people have with a VM: SSH through the proxy                *)
(* (services/ssh-proxy.ts) and terminals of the dashboard                   *)
(* (routes/terminal.ts, terminal/pty-handler.ts, hooks/useTerminal.ts),      *)
(* over the snapshots that put the VM to sleep                               *)
(* (services/snapshot-cleanup.ts) and the wakes that they cause themselves.  *)
(*                                                                          *)
(* One VM, one channel per SSH connection.  Every handler runs up to its     *)
(* next await in one step, so a snapshot, a wake and the handlers of all     *)
(* sessions interleave at their awaits.                                      *)
(***************************************************************************)
EXTENDS Naturals

CONSTANTS Clients,  \* SSH connections
          Tabs,     \* terminals of the dashboard
          MaxSnaps, \* bounds the snapshots
          MaxFails  \* bounds the wakes that fail

ASSUME ConnectionsAssumption == Clients \cap Tabs = {} /\ {MaxSnaps, MaxFails} \subseteq Nat

VARIABLES vm,       \* "up"; in runningVMs without a guest that answers: "resumed",
                    \* not yet, "hung", not any more, "lost", with its row in error;
                    \* "asleep", "waking", "error": not in runningVMs
          snap,     \* the snapshot under way: warned, connections cut, in the engine
          suppress, \* the VM is in snapshotInProgress
          timers,   \* timers that will take it out again
          ssh,      \* per connection
          here,     \* connections whose client is connected
          tracked,  \* connections with an entry in activeConnections
          needs,    \* needsWake of the last connectUpstream
          tab,      \* per terminal
          late,     \* sessions opened after the cleanup of the last snapshot
          snaps, fails

guest == <<vm, snap, snaps, fails>>
hush  == <<suppress, timers>>
conns == <<ssh, here, tracked, needs>>
vars  == <<guest, hush, conns, tab, late>>

Running == vm \in {"up", "hung", "resumed", "lost"} \* isVmRunning

\* Connections whose handler waits for a wake, or has just been told it is over;
\* "re": to begin anew with connectUpstream.
Waking  == {"waking", "rewaking", "woken", "rewoken"}
Pending == Waking \cup {"dialing"}
Live    == {"open", "leaked"}    \* terminals with a PTY
Waits   == {"waits", "deafwaits"} \* whose handler waits for a wake
Handled == {"asking", "deaf"}    \* whose handler looks whether the VM runs
Seeking == {"asking", "waits", "retry"} \* that somebody looks at, without a shell

TypeOK ==
  /\ vm \in {"up", "hung", "resumed", "lost", "asleep", "waking", "error"}
  /\ snap \in {"none", "warn", "cut", "engine"}
  /\ suppress \in BOOLEAN /\ timers \in 0..MaxSnaps
  /\ ssh \in [Clients -> {"off", "ready", "bridged"} \cup Pending]
  /\ here \subseteq Clients /\ tracked \subseteq Clients /\ needs \subseteq Clients
  /\ tab \in [Tabs -> {"idle", "retry", "done"} \cup Live \cup Waits \cup Handled]
  /\ late \subseteq Clients \cup Tabs
  /\ snaps \in 0..MaxSnaps /\ fails \in 0..MaxFails

Init ==
  /\ vm \in {"up", "asleep"} /\ snap = "none"
  /\ suppress = FALSE /\ timers = 0
  /\ ssh = [c \in Clients |-> "off"]
  /\ here = {} /\ tracked = {} /\ needs = {}
  /\ tab = [t \in Tabs |-> "idle"]
  /\ late = {} /\ snaps = 0 /\ fails = 0

-----------------------------------------------------------------------------
(* SSH through the proxy.                                                   *)

\* What a closed channel leaves: the connection, if its client is still there.
Closed(c) == IF c \in here THEN "ready" ELSE "off"

\* Authentication and "ready"
Connect(c) ==
  /\ ssh[c] = "off"
  /\ ssh' = [ssh EXCEPT ![c] = "ready"]
  /\ here' = here \cup {c} /\ tracked' = tracked \cup {c}
  /\ UNCHANGED <<guest, hush, needs, tab, late>>

\* ensureVMRunning for a VM that does not run: it wakes the VM, if the plan
\* allows, and throws while another wakes it and after a wake has failed.
Wakes  == vm = "asleep" /\ vm' = "waking" /\ UNCHANGED fails
Throws == \/ vm \in {"waking", "error"} /\ UNCHANGED <<vm, fails>>
          \/ vm = "asleep" /\ fails < MaxFails /\ fails' = fails + 1 /\ UNCHANGED vm

\* connectUpstream; a channel whose VM cannot be woken is closed.
ConnectUpstream(c) ==
  /\ \/ /\ Running
        /\ ssh' = [ssh EXCEPT ![c] = "dialing"]
        /\ needs' = needs \ {c}
        /\ UNCHANGED <<vm, fails>>
     \/ /\ Wakes
        /\ ssh' = [ssh EXCEPT ![c] = "waking"]
        /\ needs' = needs \cup {c}
     \/ /\ Throws
        /\ ssh' = [ssh EXCEPT ![c] = Closed(c)]
        /\ needs' = needs \cup {c}
  /\ UNCHANGED <<snap, snaps, hush, here, tracked, tab, late>>

Open(c) == ssh[c] = "ready" /\ ConnectUpstream(c)

\* The VM was woken, whatever has become of it since, and of the client.
Dial(c) ==
  /\ ssh[c] = "woken"
  /\ ssh' = [ssh EXCEPT ![c] = "dialing"]
  /\ UNCHANGED <<guest, hush, here, tracked, needs, tab, late>>

\* Faulty: the retry forgets to connect once the VM is awake.
WokenOnce(c) == Dial(c)

Woken(c) == Dial(c) \/ (ssh[c] = "rewoken" /\ ConnectUpstream(c))

\* The guest's sshd answers and the channels are joined.
Bridge(c) ==
  /\ ssh[c] = "dialing" /\ vm = "up"
  /\ ssh' = [ssh EXCEPT ![c] = "bridged"]
  /\ late' = IF snap = "engine" THEN late \cup {c} ELSE late \ {c}
  /\ UNCHANGED <<guest, hush, here, tracked, needs, tab>>

\* handleUpstreamError.  retriedAfterSnapshot is never set: what runs, or is
\* taken for it, is dialled again at once.
UpstreamError(c) ==
  /\ ssh[c] \in {"dialing", "bridged"} /\ vm # "up"
  /\ IF suppress \/ c \in needs
     THEN ssh' = [ssh EXCEPT ![c] = Closed(c)] /\ UNCHANGED <<vm, fails>>
     ELSE \/ Running /\ ssh' = [ssh EXCEPT ![c] = "dialing"] /\ UNCHANGED <<vm, fails>>
          \/ Wakes /\ ssh' = [ssh EXCEPT ![c] = "rewaking"]
          \/ Throws /\ ssh' = [ssh EXCEPT ![c] = Closed(c)]
  /\ UNCHANGED <<snap, snaps, hush, here, tracked, needs, tab, late>>

\* The program in the guest ends, or the guest's sshd closes the session.
SessionEnds(c) ==
  /\ ssh[c] = "bridged" /\ vm = "up"
  /\ ssh' = [ssh EXCEPT ![c] = Closed(c)]
  /\ UNCHANGED <<guest, hush, here, tracked, needs, tab, late>>

\* Client "end": a session that is bridged ends with it, a handler that waits
\* goes on.
Leave(c) ==
  /\ c \in here
  /\ here' = here \ {c} /\ tracked' = tracked \ {c}
  /\ ssh' = [ssh EXCEPT ![c] = IF @ \in Pending THEN @ ELSE "off"]
  /\ UNCHANGED <<guest, hush, needs, tab, late>>

-----------------------------------------------------------------------------
(* Terminals.                                                               *)

TabStep(t, from, to) ==
  /\ tab[t] \in from
  /\ tab' = [tab EXCEPT ![t] = to]
  /\ UNCHANGED <<guest, hush, conns>>

\* connect(), by a new tab or by the timer of a connection that was lost, as far
\* as the handler's first wait; who may not wake the VM tries again.
Connects(t, from) ==
  /\ tab[t] \in from
  /\ \/ Running /\ tab' = [tab EXCEPT ![t] = "asking"] /\ UNCHANGED <<vm, fails>>
     \/ Wakes /\ tab' = [tab EXCEPT ![t] = "waits"]
     \/ Throws /\ tab' = [tab EXCEPT ![t] = "retry"]
  /\ UNCHANGED <<snap, snaps, hush, conns, late>>

Attach(t)   == Connects(t, {"idle", "done"})
Reattach(t) == Connects(t, {"retry"})

\* inspectVM: the VM runs and createTerminal spawns a PTY, whether or not the
\* socket is still open: its "close" has been and will not be again.
Spawn(t) ==
  /\ Running
  /\ TabStep(t, Handled, IF tab[t] = "asking" THEN "open" ELSE "leaked")
  /\ late' = IF snap = "engine" THEN late \cup {t} ELSE late \ {t}

\* inspectVM: it does not run any more.
TurnAway(t) ==
  /\ ~Running
  /\ TabStep(t, Handled, IF tab[t] = "asking" THEN "retry" ELSE "idle")
  /\ UNCHANGED late

\* The shell exits, or ssh gives up on the guest: a close the browser takes as
\* final.
ShellExits(t) ==
  /\ \/ TabStep(t, {"open"}, "done")
     \/ TabStep(t, {"leaked"}, "idle")
  /\ UNCHANGED late

\* The network fails the browser: the PTY is killed, the browser tries again.
Lost(t) == TabStep(t, {"open"}, "retry") /\ UNCHANGED late

\* The tab is left.
Detach(t) ==
  /\ \/ TabStep(t, {"open", "retry"}, "idle")
     \/ TabStep(t, {"asking"}, "deaf")
     \/ TabStep(t, {"waits"}, "deafwaits")
  /\ UNCHANGED late

-----------------------------------------------------------------------------
(* The VM.                                                                  *)

\* restoreVM adds the VM to runningVMs before the guest answers.
Resume ==
  /\ vm = "waking"
  /\ vm' = "resumed"
  /\ UNCHANGED <<snap, snaps, fails, hush, conns, tab, late>>

\* Faulty: who waits for a terminal is not told.
ToldSsh ==
  /\ ssh' = [c \in Clients |-> CASE ssh[c] = "waking"   -> "woken"
                                 [] ssh[c] = "rewaking" -> "rewoken"
                                 [] OTHER               -> ssh[c]]
  /\ UNCHANGED tab

\* The promise of the wake is fulfilled.
Told ==
  /\ ssh' = [c \in Clients |-> CASE ssh[c] = "waking"   -> "woken"
                                 [] ssh[c] = "rewaking" -> "rewoken"
                                 [] OTHER               -> ssh[c]]
  /\ tab' = [t \in Tabs |-> CASE tab[t] = "waits"     -> "asking"
                              [] tab[t] = "deafwaits" -> "deaf"
                              [] OTHER                -> tab[t]]

WakeDone ==
  /\ vm = "resumed"
  /\ vm' = "up"
  /\ Told
  /\ UNCHANGED <<snap, snaps, fails, hush, here, tracked, needs, late>>

\* The wake is rejected: the row is in error for good, though the VM stays in
\* runningVMs if it got there.
WakeFails ==
  /\ vm \in {"waking", "resumed"} /\ fails < MaxFails
  /\ vm' = IF vm = "waking" THEN "error" ELSE "lost"
  /\ fails' = fails + 1
  /\ ssh' = [c \in Clients |->
       IF ssh[c] \in {"waking", "rewaking"} THEN Closed(c) ELSE ssh[c]]
  /\ tab' = [t \in Tabs |-> CASE tab[t] = "waits"     -> "retry"
                              [] tab[t] = "deafwaits" -> "idle"
                              [] OTHER                -> tab[t]]
  /\ UNCHANGED <<snap, snaps, hush, here, tracked, needs, late>>

\* prepareVMForSnapshot: a message to whoever is in the guest, half a second
SnapStarts ==
  /\ vm \in {"up", "hung"} /\ snap = "none" /\ snaps < MaxSnaps
  /\ snap' = "warn" /\ snaps' = snaps + 1
  /\ UNCHANGED <<vm, fails, hush, conns, tab, late>>

\* The guest's sshd hangs up on its sessions, if it hears of it.
HangUp ==
  /\ snap = "warn"
  /\ snap' = "cut"
  /\ \/ UNCHANGED <<ssh, tab>>
     \/ /\ vm = "up"
        /\ ssh' = [c \in Clients |-> IF ssh[c] = "bridged" THEN Closed(c) ELSE ssh[c]]
        /\ tab' = [t \in Tabs |-> CASE tab[t] = "open"   -> "done"
                                    [] tab[t] = "leaked" -> "idle"
                                    [] OTHER             -> tab[t]]
  /\ UNCHANGED <<vm, snaps, fails, hush, here, tracked, needs, late>>

\* Faulty: a connection that was suppressed once is never asked again.
Forever == suppress' = TRUE /\ UNCHANGED timers

\* disconnectSSHForVM: no retries for five seconds
Suppressed == suppress' = TRUE /\ timers' = timers + 1

\* Faulty: only connections with an upstream of their own are ended.
CutBridgedOnly == {c \in tracked : ssh[c] = "bridged"}

\* The connections with an entry, at whatever point they are
Cut == tracked

\* disconnectSSHForVM, destroyTerminalsForVM: without an await in between
CleanUp ==
  /\ snap = "cut"
  /\ snap' = "engine"
  /\ Suppressed
  /\ here' = here \ Cut /\ tracked' = {} /\ late' = {}
  /\ ssh' = [c \in Clients |-> IF c \in Cut /\ ssh[c] \notin Waking THEN "off" ELSE ssh[c]]
  /\ tab' = [t \in Tabs |-> CASE tab[t] = "open"   -> "done"
                              [] tab[t] = "leaked" -> "idle"
                              [] OTHER             -> tab[t]]
  /\ UNCHANGED <<vm, snaps, fails, needs>>

\* snapshotVM pauses the guest, writes it to disk and kills it.  A failure
\* leaves it as it is.
Pause ==
  /\ snap = "engine" /\ vm = "up"
  /\ vm' = "hung"
  /\ UNCHANGED <<snap, snaps, fails, hush, conns, tab, late>>

SnapDone ==
  /\ snap = "engine" /\ vm = "hung"
  /\ vm' = "asleep" /\ snap' = "none"
  /\ UNCHANGED <<snaps, fails, hush, conns, tab, late>>

SnapFails ==
  /\ snap = "engine"
  /\ snap' = "none"
  /\ UNCHANGED <<vm, snaps, fails, hush, conns, tab, late>>

\* Any of the timers lifts the suppression, the latest cleanup's or an older.
TimerFires ==
  /\ timers > 0
  /\ timers' = timers - 1 /\ suppress' = FALSE
  /\ UNCHANGED <<guest, conns, tab, late>>

Next ==
  \/ \E c \in Clients : \/ Connect(c) \/ Open(c) \/ Woken(c) \/ Bridge(c)
                        \/ UpstreamError(c) \/ SessionEnds(c) \/ Leave(c)
  \/ \E t \in Tabs : \/ Attach(t) \/ Reattach(t) \/ Spawn(t) \/ TurnAway(t)
                     \/ ShellExits(t) \/ Lost(t) \/ Detach(t)
  \/ Resume \/ WakeDone \/ WakeFails \/ SnapStarts \/ HangUp \/ CleanUp
  \/ Pause \/ SnapDone \/ SnapFails \/ TimerFires

Spec == Init /\ [][Next]_vars

\* The event loop runs what is due; a network call succeeds or fails in the end.
FairSpec ==
  /\ Spec
  /\ \A c \in Clients : WF_vars(Woken(c)) /\ WF_vars(Bridge(c) \/ UpstreamError(c))
  /\ \A t \in Tabs : WF_vars(Reattach(t)) /\ WF_vars(Spawn(t) \/ TurnAway(t))
  /\ WF_vars(Resume) /\ WF_vars(WakeDone \/ WakeFails) /\ WF_vars(HangUp) /\ WF_vars(CleanUp)
  /\ WF_vars(Pause) /\ WF_vars(SnapDone \/ SnapFails) /\ WF_vars(TimerFires)

-----------------------------------------------------------------------------
(* What people can rely on.                                                 *)

\* "called before snapshot ... cleanly ends connections" (ssh-proxy.ts,
\* disconnectSSHForVM): who is in a session when the VM has gone to sleep opened
\* it after the cleanup, in the moment before the guest was paused.  It takes
\* every connection being tracked from "ready" to "end".
SleepersWarned ==
  vm \in {"asleep", "waking"} =>
    /\ \A c \in here : ssh[c] = "bridged" => c \in late
    /\ \A t \in Tabs : tab[t] \in Live => t \in late

\* A VM is never left in snapshotInProgress, where its clients would be closed
\* instead of waking it.
SuppressionLifted == suppress => timers > 0

\* Whoever asked for a session gets it or is told that there is none, unless the
\* guest stays silent in a VM that is still taken for running: the proxy then
\* wakes and dials for ever.
RequestsEnd ==
  <>[](vm \notin {"hung", "lost"}) =>
    \A c \in Clients : ssh[c] \in Pending ~> ssh[c] \notin Pending

\* A terminal that is connecting, or has lost its connection, gets a shell or is
\* left, unless a wake has put the row in error: neither snapshots nor wakes that
\* are refused or under way make the browser give up, nor any that fail once the
\* guest is resumed.
TabSettles ==
  \A t \in Tabs : tab[t] \in Seeking ~> (tab[t] \notin Seeking \/ vm = "error")

=============================================================================
