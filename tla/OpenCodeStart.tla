--------------------------- MODULE OpenCodeStart ---------------------------
(***************************************************************************)
(* Starting the OpenCode server of one VM: ensureRunning of the bridges,   *)
(* with its per-VM lock, and the readiness tracker.                        *)
(*                                                                         *)
(* init.sh launches the server at boot; trackVM, called when a creation or *)
(* a wake is done, polls its port.  Every session start, reconnect and     *)
(* provider listing calls ensureRunning on a bridge of its own; the lock   *)
(* is static.  A caller makes one call.  An action is the code between two *)
(* awaits, with the result of the HTTP request or SSH command awaited.     *)
(***************************************************************************)
EXTENDS FiniteSets, Naturals

CONSTANTS
    Caller,    \* the calls of ensureRunning
    Env,       \* what may happen: "fault" of a request or command,
               \* "exit" of a server process, "cold" boot at a wake
    Pgrep,     \* how a run of pgrep in the guest may end
    MaxWakes,  \* bound on the wakes of the VM
    Boot,      \* init.sh, as the launcher of a process
    NoCaller   \* not a caller

\* "works": pgrep's answer is right; "rejects": it fails, whatever runs;
\* "hangs": the command times out, and execInVM returns no output.
ASSUME PgrepAssumption  == Pgrep \subseteq {"works", "rejects", "hangs"}
ASSUME CallerAssumption == Boot \notin Caller /\ NoCaller \notin Caller \cup {Boot}
ASSUME WakesAssumption  == MaxWakes \in Nat

VARIABLES
    procs,     \* the opencode processes alive in the guest, by their launcher
    up,        \* the process that answers on the port, or NoCaller
    booting,   \* init.sh has not come to its launch
    tracked,   \* the status in the VM's tracker entry; "none" without entry
    waiters,   \* entry.waiters: callers of waitForReady to be resolved
    lock,      \* ensureLocks: the caller whose promise the VM maps to
    pc,        \* where each caller is
    seen,      \* processRunning of each caller
    wakes      \* counts wakes, for the bound

guest   == <<procs, up, booting>>
tracker == <<tracked, waiters>>
vars    == <<guest, tracker, lock, pc, seen, wakes>>

Done   == {"ok", "failed"}
Inside == {"fast", "tracker", "retry", "pgrep", "which", "launch", "poll", "look"}
Pcs    == {"idle", "waiting", "recheck"} \cup Inside \cup Done

At(c, p) == pc[c] = p

\* GET /session is answered; it fails.
Answers == up # NoCaller
Fails   == up = NoCaller \/ "fault" \in Env

-----------------------------------------------------------------------------
(* The lock.                                                               *)

\* Enter _ensureRunningInner, or wait for the promise of the one inside.
Acquire(c, next) ==
    IF lock = NoCaller
      THEN lock' = c /\ pc' = [pc EXCEPT ![c] = "fast"]
      ELSE lock' = lock /\ pc' = [pc EXCEPT ![c] = next]

\* Faulty variant: the entry goes, and the promise is never resolved.
ReleaseSilently(c, r) ==
    /\ lock' = NoCaller
    /\ pc' = [pc EXCEPT ![c] = r]

\* Faulty variant: the promise is that of the call inside, so that its failure
\* is everyone's.
ReleaseToAll(c, r) ==
    /\ lock' = NoCaller
    /\ pc' = [d \in Caller |-> IF d = c \/ (At(d, "waiting") /\ r = "failed") THEN r
                               ELSE IF At(d, "waiting") THEN "recheck"
                               ELSE pc[d]]

\* The finally block: everyone who awaits the promise wakes up.
Release(c, r) ==
    /\ lock' = NoCaller
    /\ pc' = [d \in Caller |-> IF d = c THEN r
                               ELSE IF At(d, "waiting") THEN "recheck"
                               ELSE pc[d]]

EnsureRunning(c) ==
    /\ At(c, "idle")
    /\ Acquire(c, "waiting")
    /\ UNCHANGED <<guest, tracker, seen, wakes>>

\* A waiter rides on the start it waited for, or goes round the loop.
Recheck(c) ==
    /\ At(c, "recheck")
    /\ \/ /\ Answers
          /\ pc' = [pc EXCEPT ![c] = "ok"]
          /\ UNCHANGED lock
       \/ Fails /\ Acquire(c, "waiting")
    /\ UNCHANGED <<guest, tracker, seen, wakes>>

-----------------------------------------------------------------------------
(* The tracker.                                                            *)

\* Callers in set D leave waitForReady.  Applies on top of pc.
Resumed(D) == [d \in Caller |-> IF d \in D /\ At(d, "tracker") THEN "retry" ELSE pc[d]]

\* setReady, at the end of a call that found the server: nobody waits for the
\* tracker then but the caller of waitForReady, who is inside himself.
MarkReady ==
    IF tracked \in {"starting", "unknown"}
      THEN tracked' = "ready" /\ waiters' = {}
      ELSE UNCHANGED tracker

\* What the entry says when nobody came up in time.
GaveUp == "unknown"

\* The poll loop connects, or its 30 s are over.
PollLoop ==
    /\ tracked = "starting"
    /\ \/ Answers /\ tracked' = "ready"
       \/ tracked' = GaveUp
    /\ waiters' = {}
    /\ pc' = Resumed(waiters)
    /\ UNCHANGED <<guest, lock, seen, wakes>>

\* trackVM: the old entry resolves its waiters and is replaced.
TrackVM == tracked' = "starting" /\ waiters' = {} /\ pc' = Resumed(waiters)

\* A snapshot and a wake: the processes come back with the image, or the VM
\* boots afresh.  doWake ends with trackVM.
Wake ==
    /\ wakes < MaxWakes
    /\ wakes' = wakes + 1
    /\ \/ UNCHANGED guest
       \/ "cold" \in Env /\ procs' = {} /\ up' = NoCaller /\ booting' = TRUE
    /\ TrackVM
    /\ UNCHANGED <<lock, seen>>

-----------------------------------------------------------------------------
(* _ensureRunningInner.                                                    *)

\* The request is answered: the call ends well.
Found(c) ==
    /\ Answers
    /\ MarkReady
    /\ Release(c, "ok")

FastPath(c) ==
    /\ At(c, "fast")
    /\ \/ Found(c)
       \/ /\ Fails
          /\ IF tracked = "starting"
               THEN /\ waiters' = waiters \cup {c}
                    /\ pc' = [pc EXCEPT ![c] = "tracker"]
               ELSE waiters' = waiters /\ pc' = [pc EXCEPT ![c] = "pgrep"]
          /\ UNCHANGED <<tracked, lock>>
    /\ UNCHANGED <<guest, seen, wakes>>

\* The 15 s of waitForReady.  The timer looks for the wrong function in
\* entry.waiters and leaves the caller's entry there.
WaitTimeout(c) ==
    /\ At(c, "tracker")
    /\ pc' = [pc EXCEPT ![c] = "retry"]
    /\ UNCHANGED <<guest, tracker, lock, seen, wakes>>

Retry(c) ==
    /\ At(c, "retry")
    /\ \/ Found(c)
       \/ /\ Fails
          /\ pc' = [pc EXCEPT ![c] = "pgrep"]
          /\ UNCHANGED <<tracker, lock>>
    /\ UNCHANGED <<guest, seen, wakes>>

\* Faulty variant: nobody looks for a running process.
LookAway(c) == At(c, "pgrep") /\ pc' = [pc EXCEPT ![c] = "which"]

\* No output, or a rejection, is taken for "not running".
Look(c) ==
    /\ At(c, "pgrep")
    /\ IF "works" \in Pgrep /\ procs # {}
         THEN \/ pc' = [pc EXCEPT ![c] = "poll"]
              \/ Pgrep # {"works"} /\ pc' = [pc EXCEPT ![c] = "which"]
         ELSE pc' = [pc EXCEPT ![c] = "which"]

CheckProcess(c) ==
    /\ Look(c)
    /\ seen' = [seen EXCEPT ![c] = pc'[c] = "poll"]
    /\ UNCHANGED <<guest, tracker, lock, wakes>>

Which(c) ==
    /\ At(c, "which")
    /\ \/ pc' = [pc EXCEPT ![c] = "launch"] /\ UNCHANGED lock
       \/ "fault" \in Env /\ Release(c, "failed")
    /\ UNCHANGED <<guest, tracker, seen, wakes>>

\* The command returns, or times out and is taken to have returned: poll.  It
\* is rejected: throw.  Without its return nobody knows whether it ran.
Launch(c) ==
    /\ At(c, "launch")
    /\ \/ procs' = procs \cup {c}
       \/ "fault" \in Env /\ procs' = procs
    /\ \/ pc' = [pc EXCEPT ![c] = "poll"] /\ UNCHANGED lock
       \/ "fault" \in Env /\ Release(c, "failed")
    /\ UNCHANGED <<up, booting, tracker, seen, wakes>>

\* One round of the poll: answered, or on to the next, with a look at the
\* process as long as it has not been seen.
Poll(c) ==
    /\ At(c, "poll")
    /\ \/ Found(c)
       \/ /\ Fails /\ ~seen[c]
          /\ pc' = [pc EXCEPT ![c] = "look"]
          /\ UNCHANGED <<tracker, lock>>
    /\ UNCHANGED <<guest, seen, wakes>>

\* A pgrep that finds nothing exits with code 1, execInVM rejects, and the
\* catch drops the rejection: only a command that times out, with no output,
\* ends the call with "process exited".
PollLook(c) ==
    /\ At(c, "look")
    /\ \/ /\ "works" \in Pgrep
          /\ seen' = [seen EXCEPT ![c] = procs # {}]
          /\ pc' = [pc EXCEPT ![c] = "poll"]
          /\ UNCHANGED lock
       \/ /\ "rejects" \in Pgrep
          /\ pc' = [pc EXCEPT ![c] = "poll"]
          /\ UNCHANGED <<lock, seen>>
       \/ "hangs" \in Pgrep /\ Release(c, "failed") /\ UNCHANGED seen
    /\ UNCHANGED <<guest, tracker, wakes>>

Deadline(c) ==
    /\ At(c, "poll")
    /\ Release(c, "failed")
    /\ UNCHANGED <<guest, tracker, seen, wakes>>

-----------------------------------------------------------------------------
(* The guest.                                                              *)

BootLaunch ==
    /\ booting
    /\ booting' = FALSE
    /\ procs' = procs \cup {Boot}
    /\ UNCHANGED <<up, tracker, lock, pc, seen, wakes>>

\* A process takes the port; one that finds it taken exits.
ServerUp ==
    /\ \E p \in procs :
          \/ up = NoCaller /\ up' = p /\ procs' = procs
          \/ up \notin {p, NoCaller} /\ up' = up /\ procs' = procs \ {p}
    /\ UNCHANGED <<booting, tracker, lock, pc, seen, wakes>>

ServerExits ==
    /\ "exit" \in Env
    /\ \E p \in procs :
          /\ procs' = procs \ {p}
          /\ up' = IF up = p THEN NoCaller ELSE up
    /\ UNCHANGED <<booting, tracker, lock, pc, seen, wakes>>

-----------------------------------------------------------------------------
\* The VM has been woken or created and is tracked, or the control plane has
\* restarted since and has forgotten it.
Init ==
    /\ booting \in BOOLEAN
    /\ procs \in IF booting THEN {{}} ELSE {{}, {Boot}}
    /\ up \in procs \cup {NoCaller}
    /\ tracked \in {"none", "starting"}
    /\ waiters = {}
    /\ lock = NoCaller
    /\ pc = [c \in Caller |-> "idle"]
    /\ seen = [c \in Caller |-> FALSE]
    /\ wakes = 0

Continue(c) ==
    \/ Recheck(c) \/ FastPath(c) \/ Retry(c) \/ CheckProcess(c) \/ Which(c)
    \/ Launch(c) \/ Poll(c) \/ PollLook(c)

CallerNext(c) ==
    EnsureRunning(c) \/ Continue(c) \/ WaitTimeout(c) \/ Deadline(c)

GuestNext == BootLaunch \/ ServerUp \/ ServerExits

Next == PollLoop \/ Wake \/ GuestNext \/ \E c \in Caller : CallerNext(c)

Spec == Init /\ [][Next]_vars

\* Requests and commands return, timers fire.  The deadline is looked at once
\* in every round, so rounds do not go on for ever: strong fairness.
FairSpec ==
    /\ Spec
    /\ \A c \in Caller : /\ WF_vars(Continue(c))
                         /\ WF_vars(WaitTimeout(c))
                         /\ SF_vars(Deadline(c))
-----------------------------------------------------------------------------
(* Properties.                                                             *)

\* The state keeps its shape; a caller who is told "ok" or "failed" is done.
TypeOK ==
    /\ procs \subseteq Caller \cup {Boot}
    /\ up \in procs \cup {NoCaller}
    /\ booting \in BOOLEAN
    /\ tracked \in {"none", "starting", "ready", "unknown"}
    /\ waiters \subseteq Caller
    /\ lock \in Caller \cup {NoCaller}
    /\ pc \in [Caller -> Pcs]
    /\ seen \in [Caller -> BOOLEAN]
    /\ wakes \in 0..MaxWakes

\* ensureLocks names whoever is inside _ensureRunningInner, and a caller waits
\* only for somebody who is inside: callers who wake up together cannot all go
\* in, and no promise is left behind.
LockTells ==
    \A c \in Caller : /\ pc[c] \in Inside <=> lock = c
                      /\ At(c, "waiting") => lock # NoCaller

\* A caller of waitForReady stands in the entry of the VM, and the entry is
\* still starting: no change of the tracker strands him until his own timer.
WaitersHeld ==
    \A c \in Caller : At(c, "tracker") => tracked = "starting" /\ c \in waiters

\* The lock keeps callers from running servers of their own side by side.
OneSpawn == Cardinality(procs \cap Caller) <= 1

\* Every call of ensureRunning returns or throws.
CallersReturn ==
    \A c \in Caller : ~At(c, "idle") ~> pc[c] \in Done

\* ensureRunning does what StartOnce promises.
StateOf(c) ==
    IF pc[c] \in Inside THEN "trying"
    ELSE IF pc[c] \in {"waiting", "recheck"} THEN "asked"
    ELSE pc[c]

callState == [c \in Caller |-> StateOf(c)]

Promise == INSTANCE StartOnce WITH state <- callState

KeepsPromise == Promise!Spec
============================================================================
