--------------------------- MODULE AgentSessions ---------------------------
(***************************************************************************)
(* The agent sessions of one VM: rows with a status, bridges that carry    *)
(* the messages of a session to its agent and the agent's events back, and *)
(* the map from sessions to bridges, which only lives in memory.           *)
(*                                                                         *)
(* A task is a request in flight, or the background part of createSession. *)
(* Archive, teardown and the events run in one piece.  ensureRunning, the  *)
(* first await of a start and a reconnect, is the subject of OpenCodeStart.*)
(* Messages and their text are left out; a session's status is what        *)
(* everybody reads.                                                        *)
(***************************************************************************)
EXTENDS FiniteSets

CONSTANTS
    Session,   \* the sessions the run may create
    Codex,     \* those of them whose agent is Codex; the others are OpenCode
    Bridge,    \* bounds the bridges that exist at a time
    Task,      \* bounds the tasks in flight
    Envs,      \* the environments to be considered, each a set of what may
               \* happen outside, below
    NoBridge,  \* not a bridge
    NoSession  \* not a session

\* "start", "reconnect": these fail; "post": an HTTP request to the agent
\* fails; "exit": a Codex process dies; "early": archive and teardown come
\* while tasks are in flight.
ASSUME EnvAssumption ==
    Envs \subseteq SUBSET {"start", "reconnect", "post", "exit", "early"}
ASSUME NoneAssumption == NoBridge \notin Bridge /\ NoSession \notin Session
ASSUME CodexAssumption == Codex \subseteq Session

VARIABLES
    status,   \* agent_sessions.status, "none" before the row
    thread,   \* agent_sessions.thread_id is set
    active,   \* activeSessions
    stage,    \* how far each bridge has come
    owner,    \* the session whose listener a bridge has
    torn,     \* the bridge was destroyed by destroyBridgesForVM
    task,     \* what each task runs, where it is, and on what
    env       \* the environment of this behaviour

rows    == <<status, thread>>
bridges == <<stage, owner, torn>>
vars    == <<rows, active, bridges, task, env>>

\* "new": start or reconnect is on its way; "up": connected, with the agent's
\* session; "loose": connected, without; "exiting": killed, the exit event is
\* still to come; "down": not connected.
Stage  == {"new", "up", "loose", "exiting", "down"}
Status == {"none", "idle", "busy", "error", "archived"}
Pcs    == {"idle", "start", "agentsMd", "reconnect", "post", "abort"}

Idle == [pc |-> "idle", s |-> NoSession, b |-> NoBridge, prompt |-> FALSE]

At(t, p)       == task[t].pc = p
GoTo(t, p)     == task' = [task EXCEPT ![t].pc = p]
Return(t)      == task' = [task EXCEPT ![t] = Idle]
SetStatus(s, v) == status' = [status EXCEPT ![s] = v]
SetStage(b, g) == stage' = [stage EXCEPT ![b] = g]

\* A bridge nothing refers to.
Free(b) ==
    /\ stage[b] = "down"
    /\ \A s \in Session : active[s] # b
    /\ \A t \in Task : task[t].b # b

\* new OpenCodeBridge, new CodexBridge, and its listener.
NewBridge(b, s) ==
    /\ Free(b)
    /\ SetStage(b, "new")
    /\ owner' = [owner EXCEPT ![b] = s]
    /\ torn' = [torn EXCEPT ![b] = FALSE]

\* Faulty variant: the bridge is left to itself.
LeftAlone(b) == stage[b]

\* destroy(): the stream is aborted, a process is killed.  An OpenCode bridge
\* that is still starting notices nothing.
Destroyed(b) ==
    IF owner[b] \in Codex
      THEN IF stage[b] = "down" THEN "down" ELSE "exiting"
      ELSE IF stage[b] = "new" THEN "new" ELSE "down"

\* The VM the bridge talks to may go away under it.
Cut(b, kind) == kind \in env \/ torn[b]

-----------------------------------------------------------------------------
(* createSession and its background part.                                  *)

CreateSession(t, s, b, prompt) ==
    /\ task[t] = Idle
    /\ status[s] = "none"
    /\ SetStatus(s, IF prompt THEN "busy" ELSE "idle")
    /\ NewBridge(b, s)
    /\ active' = [active EXCEPT ![s] = b]
    /\ task' = [task EXCEPT ![t] = [pc |-> "start", s |-> s, b |-> b, prompt |-> prompt]]
    /\ UNCHANGED <<thread, env>>

\* The session is ready, and with a prompt the message follows: an OpenCode
\* session gets its AGENTS.md first, a Codex message is not waited for.
StartReturns(t) ==
    LET s == task[t].s
        b == task[t].b
    IN  /\ At(t, "start")
        /\ s \in Codex => stage[b] = "new"
        /\ thread' = [thread EXCEPT ![s] = TRUE]
        /\ SetStage(b, "up")
        /\ IF task[t].prompt /\ s \notin Codex
             THEN SetStatus(s, "idle") /\ GoTo(t, "agentsMd")
             ELSE SetStatus(s, IF task[t].prompt THEN "busy" ELSE "idle") /\ Return(t)
        /\ UNCHANGED <<active, owner, torn, env>>

\* Faulty variant: a start that fails is waited for all the same.
InitErrorIgnored(t) == UNCHANGED <<status, active, task>>

\* The catch: whatever bridge the session has now is forgotten.
InitError(t) ==
    /\ SetStatus(task[t].s, "error")
    /\ active' = [active EXCEPT ![task[t].s] = NoBridge]
    /\ Return(t)

StartFails(t) ==
    LET b == task[t].b
    IN  /\ At(t, "start")
        /\ Cut(b, "start") \/ (task[t].s \in Codex /\ stage[b] # "new")
        /\ InitError(t)
        /\ SetStage(b, IF stage[b] = "new" THEN "down" ELSE stage[b])
        /\ UNCHANGED <<thread, owner, torn, env>>

\* AGENTS.md is written, or not; sendMessage needs the agent's session.
PromptSent(t) ==
    /\ At(t, "agentsMd")
    /\ IF stage[task[t].b] = "up"
         THEN SetStatus(task[t].s, "busy") /\ GoTo(t, "post") /\ UNCHANGED active
         ELSE InitError(t)
    /\ UNCHANGED <<thread, bridges, env>>

-----------------------------------------------------------------------------
(* sendMessage, with tryReconnect.                                         *)

\* A session that has been with its agent can be taken up again.
Reconnects(s) == status[s] # "archived" /\ thread[s] /\ s \notin Codex

\* Faulty variant: the bridge is registered once it is connected.
HoldLater(s, b) == UNCHANGED active

\* tryReconnect registers the bridge before it connects.
Hold(s, b) == active' = [active EXCEPT ![s] = b]

\* The message is stored and the row busy; without the agent's session the
\* bridge throws, and Codex is not waited for.
SendMessage(t, s) ==
    /\ task[t] = Idle
    /\ active[s] # NoBridge
    /\ SetStatus(s, "busy")
    /\ IF stage[active[s]] = "up" /\ s \notin Codex
         THEN task' = [task EXCEPT ![t] = [Idle EXCEPT !.pc = "post", !.s = s, !.b = active[s]]]
         ELSE UNCHANGED task
    /\ UNCHANGED <<thread, active, bridges, env>>

TryReconnect(t, s, b) ==
    /\ task[t] = Idle
    /\ status[s] # "none"
    /\ active[s] = NoBridge
    /\ Reconnects(s)
    /\ NewBridge(b, s)
    /\ Hold(s, b)
    /\ task' = [task EXCEPT ![t] = [Idle EXCEPT !.pc = "reconnect", !.s = s, !.b = b]]
    /\ UNCHANGED <<rows, env>>

\* Faulty variant: the bridge has its session, but no event stream.
Deaf == "down"

\* connectSSE, with the agent's session known.
Connected == "up"

ReconnectReturns(t) ==
    /\ At(t, "reconnect")
    /\ SetStage(task[t].b, Connected)
    /\ SetStatus(task[t].s, "busy")
    /\ GoTo(t, "post")
    /\ UNCHANGED <<thread, active, owner, torn, env>>

\* The entry in activeSessions stays.
ReconnectFails(t) ==
    /\ At(t, "reconnect")
    /\ Cut(task[t].b, "reconnect")
    /\ SetStage(task[t].b, "down")
    /\ Return(t)
    /\ UNCHANGED <<rows, active, owner, torn, env>>

\* The agent has answered the message.
PostReturns(t) ==
    /\ At(t, "post")
    /\ Return(t)
    /\ UNCHANGED <<rows, active, bridges, env>>

\* A prompt that fails is a start that failed; another message just throws.
PostFails(t) ==
    /\ At(t, "post")
    /\ Cut(task[t].b, "post")
    /\ IF task[t].prompt THEN InitError(t)
                         ELSE Return(t) /\ UNCHANGED <<status, active>>
    /\ UNCHANGED <<thread, bridges, env>>

-----------------------------------------------------------------------------
(* interrupt, archive, teardown, restart.                                  *)

\* A Codex turn is interrupted by a notification, an OpenCode one by a request
\* that is waited for.
Interrupt(t, s) ==
    /\ task[t] = Idle
    /\ active[s] # NoBridge
    /\ IF stage[active[s]] = "up" /\ s \notin Codex
         THEN /\ task' = [task EXCEPT ![t] = [Idle EXCEPT !.pc = "abort", !.s = s, !.b = active[s]]]
              /\ UNCHANGED status
         ELSE SetStatus(s, "idle") /\ UNCHANGED task
    /\ UNCHANGED <<thread, active, bridges, env>>

\* When the request fails the bridge connects anew, destroyed or not.
Interrupted(t) ==
    LET b == task[t].b
    IN  /\ At(t, "abort")
        /\ \/ UNCHANGED stage
           \/ Cut(b, "post") /\ SetStage(b, IF stage[b] = "up" THEN "up" ELSE "loose")
        /\ SetStatus(task[t].s, "idle")
        /\ Return(t)
        /\ UNCHANGED <<thread, active, owner, torn, env>>

\* Nothing is in flight for the session, or nobody cares.
Calm(s) == "early" \in env \/ \A t \in Task : task[t].s # s

ArchiveSession(s) ==
    /\ status[s] # "none"
    /\ Calm(s)
    /\ SetStatus(s, "archived")
    /\ IF active[s] = NoBridge
         THEN UNCHANGED <<active, stage>>
         ELSE active' = [active EXCEPT ![s] = NoBridge] /\ SetStage(active[s], Destroyed(active[s]))
    /\ UNCHANGED <<thread, owner, torn, task, env>>

\* Before a snapshot: all bridges of the VM.
DestroyBridgesForVM ==
    LET held == {active[s] : s \in Session} \ {NoBridge}
    IN  /\ held # {}
        /\ \A s \in Session : Calm(s)
        /\ active' = [s \in Session |-> NoBridge]
        /\ stage' = [b \in Bridge |-> IF b \in held THEN Destroyed(b) ELSE stage[b]]
        /\ torn' = [b \in Bridge |-> torn[b] \/ b \in held]
        /\ UNCHANGED <<rows, owner, task, env>>

\* The control plane stops, in whatever it is doing, and starts again.
Restart ==
    /\ active' = [s \in Session |-> NoBridge]
    /\ stage' = [b \in Bridge |-> "down"]
    /\ task' = [t \in Task |-> Idle]
    /\ UNCHANGED <<rows, owner, torn, env>>

-----------------------------------------------------------------------------
(* handleEvent.                                                            *)

Hears(b) == stage[b] \in {"up", "loose"}

\* A turn ends.  An error that came before stays.
Completed(s) == SetStatus(s, IF status[s] = "error" THEN "error" ELSE "idle")

TurnCompleted(b) ==
    /\ Hears(b)
    /\ Completed(owner[b])
    /\ UNCHANGED <<thread, active, bridges, task, env>>

\* An error marks a busy session only.
Failed(s) == SetStatus(s, IF status[s] = "busy" THEN "error" ELSE status[s])

\* From the agent, or from a Codex request that is never answered.
ErrorEvent(b) ==
    /\ \/ Hears(b)
       \/ owner[b] \in Codex /\ stage[b] = "down" /\ active[owner[b]] = b
    /\ Failed(owner[b])
    /\ UNCHANGED <<thread, active, bridges, task, env>>

\* The exit of a Codex process, killed or not.
ProcessExit(b) ==
    /\ owner[b] \in Codex
    /\ stage[b] = "exiting" \/ ("exit" \in env /\ stage[b] \in {"new", "up"})
    /\ Failed(owner[b])
    /\ SetStage(b, "down")
    /\ UNCHANGED <<thread, active, owner, torn, task, env>>

-----------------------------------------------------------------------------
Init ==
    /\ status = [s \in Session |-> "none"]
    /\ thread = [s \in Session |-> FALSE]
    /\ active = [s \in Session |-> NoBridge]
    /\ stage = [b \in Bridge |-> "down"]
    /\ owner = [b \in Bridge |-> NoSession]
    /\ torn = [b \in Bridge |-> FALSE]
    /\ task = [t \in Task |-> Idle]
    /\ env \in Envs

Begin(t) ==
    \E s \in Session :
        \/ SendMessage(t, s)
        \/ Interrupt(t, s)
        \/ \E b \in Bridge :
              \/ TryReconnect(t, s, b)
              \/ \E prompt \in BOOLEAN : CreateSession(t, s, b, prompt)

Continue(t) ==
    \/ StartReturns(t) \/ StartFails(t) \/ PromptSent(t)
    \/ ReconnectReturns(t) \/ ReconnectFails(t)
    \/ PostReturns(t) \/ PostFails(t) \/ Interrupted(t)

Event(b) == TurnCompleted(b) \/ ErrorEvent(b) \/ ProcessExit(b)

Next ==
    \/ \E t \in Task : Begin(t) \/ Continue(t)
    \/ \E s \in Session : ArchiveSession(s)
    \/ \E b \in Bridge : Event(b)
    \/ DestroyBridgesForVM
    \/ Restart

Spec == Init /\ [][Next]_vars

\* Requests to the guest return or fail.
FairSpec == Spec /\ \A t \in Task : WF_vars(Continue(t))
-----------------------------------------------------------------------------
(* Properties.                                                             *)

\* The state keeps its shape.
TypeOK ==
    /\ status \in [Session -> Status]
    /\ thread \in [Session -> BOOLEAN]
    /\ active \in [Session -> Bridge \cup {NoBridge}]
    /\ stage \in [Bridge -> Stage]
    /\ owner \in [Bridge -> Session \cup {NoSession}]
    /\ torn \in [Bridge -> BOOLEAN]
    /\ task \in [Task -> [pc : Pcs, s : Session \cup {NoSession},
                          b : Bridge \cup {NoBridge}, prompt : BOOLEAN]]
    /\ env \in Envs

\* Archive and teardown wait for what is in flight, and requests to a bridge
\* that is up are answered.  Without this the next three do not hold: a start,
\* reconnect or interrupt that returns after its bridge was destroyed makes the
\* bridge listen again and writes its own status, and the catch of a failed
\* prompt forgets a bridge that goes on listening.
Orderly == env \cap {"early", "post"} = {}

\* An agent's event reaches a session once: however many messages are sent to
\* a session without a bridge, and whatever start, reconnect and restart they
\* meet, one bridge listens for it.
OneListener ==
    Orderly => \A b1, b2 \in Bridge :
                  Hears(b1) /\ Hears(b2) /\ owner[b1] = owner[b2] => b1 = b2

\* A message goes to the agent through a bridge that listens for the answer.
PostIsHeard ==
    Orderly => \A t \in Task : At(t, "post") => Hears(task[t].b)

\* Nothing takes a session out of the archive: no event, no answer that comes
\* late, no message.
ArchivedStays ==
    [][Orderly => \A s \in Session :
                     status[s] = "archived" => status'[s] = "archived"]_vars

\* An archived session has no bridge, and no message gives it one, in whatever
\* order things come.
ArchivedInactive ==
    \A s \in Session : status[s] = "archived" => active[s] = NoBridge

\* Every request, and the background part of every creation, comes to an end.
TasksEnd == \A t \in Task : task[t] # Idle ~> task[t] = Idle

\* The teardown before a snapshot marks no session: one whose bridges at work,
\* if any, were all torn down does not become an error.
TeardownMarksNoError ==
    [][\A s \in Session :
          /\ \E b \in Bridge : owner[b] = s /\ torn[b]
          /\ \A b \in Bridge : owner[b] = s /\ stage[b] # "down" => torn[b]
          /\ status'[s] = "error"
          => status[s] = "error"]_vars
============================================================================
