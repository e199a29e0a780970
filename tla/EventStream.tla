----------------------------- MODULE EventStream -----------------------------
(***************************************************************************)
(* What becomes of the turns of one agent session: the agent's events on    *)
(* their way through the bridge (agents/opencode-bridge.ts, codex-bridge.ts) *)
(* and handleEvent of agents/manager.ts into the rows of the session.  The   *)
(* agent is external: an OpenCode server whose events come over a stream     *)
(* that breaks, ends and is opened anew, one that sends the older            *)
(* message.part.delta events, or a Codex process that writes lines and dies. *)
(***************************************************************************)
EXTENDS Naturals, Sequences, FiniteSets

CONSTANTS Kinds,       \* of "opencode", "legacy" and "codex"
          MaxTurns,    \* bounds the messages sent
          MaxItems,    \* bounds what the agent says in all of them
          MaxStreams,  \* bounds the connections of a bridge
          MaxWire      \* bounds the events under way

ASSUME EventAssumption ==
  /\ Kinds \subseteq {"opencode", "legacy", "codex"}
  /\ {MaxTurns, MaxItems, MaxStreams, MaxWire} \subseteq Nat \ {0}

VARIABLES kind,     \* the agent of the session
          agent,    \* what the agent is doing
          queued,   \* messages it has accepted and not begun
          item,     \* the part it is at, <<"none", n>> between two
          said,     \* the parts it has finished, in order
          failed,   \* the agent has reported an error
          wire,     \* its events on their way to the bridge
          streams,  \* the connections of the bridge, oldest first
          up,       \* the session has a bridge
          knows,    \* messageRoles has the user's message of these turns
          think,    \* reasoningParts
          calls,    \* turn/start requests of Codex that are not answered
          abort,    \* an interrupt waits for the agent
          pend,     \* pendingText: the parts whose deltas it holds
          log,      \* the agent's messages in agent_messages
          status,   \* agent_sessions.status
          sent,     \* messages sent so far
          lost      \* an event did not arrive

theAgent == <<agent, queued, item, said, failed>>
link     == <<wire, streams, up, lost>>
bridge   == <<knows, think>>
rows     == <<pend, log, status>>
vars     == <<kind, theAgent, link, bridge, calls, abort, rows, sent>>

Nothing == item[1] = "none"
Current == Len(streams)
Open    == {i \in 1..Current : streams[i] = "open"}

TypeOK ==
  /\ kind \in Kinds
  /\ agent \in {"off", "begin", "on", "aborted", "end"}
  /\ queued \in 0..MaxTurns /\ sent \in 0..MaxTurns /\ calls \in 0..MaxTurns
  /\ item \in {"none", "text", "reason", "tool"} \X (0..MaxItems)
  /\ said \in Seq({"text", "reason", "tool"} \X (1..MaxItems))
  /\ streams \in Seq({"connecting", "open", "failed", "over"})
  /\ {failed, up, abort, lost} \subseteq BOOLEAN
  /\ status \in {"idle", "busy", "error"}

Init ==
  /\ kind \in Kinds
  /\ agent = "off" /\ queued = 0 /\ item = <<"none", 0>> /\ said = <<>>
  /\ failed = FALSE
  /\ wire = <<>> /\ up = TRUE /\ lost = FALSE
  /\ streams = IF kind = "codex" THEN <<"open">> ELSE <<"connecting">>
  /\ knows = {} /\ think = {}
  /\ calls = 0 /\ abort = FALSE
  /\ pend = {} /\ log = <<>> /\ status = "idle"
  /\ sent = 0

-----------------------------------------------------------------------------
(* The agent.                                                               *)

\* An event goes to everybody who listens; nobody keeps it for later.
Emit(events) ==
  /\ Len(wire) + Len(events) <= MaxWire
  /\ wire' = IF Open = {} THEN wire
             ELSE wire \o (IF Cardinality(Open) = 1 THEN events ELSE events \o events)
  /\ lost' = (lost \/ Open = {})
  /\ UNCHANGED <<kind, streams, up, bridge, calls, abort, rows, sent>>

Event(e, i) == <<[ev |-> e, item |-> i]>>

\* A turn begins with the user's message itself, which OpenCode echoes: who it
\* is from, and then its text.
AgentBegins ==
  /\ agent = "off" /\ queued > 0
  /\ queued' = queued - 1
  /\ LET message == <<"user", sent - queued + 1>>
     IN  IF kind = "codex" THEN agent' = "on" /\ Emit(Event("busy", item))
         ELSE agent' = "begin" /\ Emit(Event("role", message) \o Event("final", message))
  /\ UNCHANGED <<item, said, failed>>

AgentBusy ==
  /\ agent = "begin"
  /\ agent' = "on"
  /\ Emit(Event("busy", item))
  /\ UNCHANGED <<queued, item, said, failed>>

\* A part is announced and, unless it is a tool, streams.
AgentStarts(k) ==
  /\ agent = "on" /\ Nothing /\ item[2] < MaxItems
  /\ item' = <<k, item[2] + 1>>
  /\ Emit(Event("open", item') \o (IF k = "tool" THEN <<>> ELSE Event("delta", item')))
  /\ UNCHANGED <<agent, queued, said, failed>>

\* Codex has no final state of its reasoning.
AgentFinishes ==
  /\ agent = "on" /\ ~Nothing
  /\ item' = <<"none", item[2]>>
  /\ IF kind = "codex" /\ item[1] = "reason" THEN UNCHANGED said /\ Emit(<<>>)
     ELSE said' = Append(said, item) /\ Emit(Event("final", item))
  /\ UNCHANGED <<agent, queued, failed>>

\* An error ends a turn; so does an abort, in the middle of a part.
AgentFails ==
  /\ agent = "aborted" \/ (agent = "on" /\ Nothing)
  /\ agent' = "end"
  /\ failed' = TRUE
  /\ item' = <<"none", item[2]>>
  /\ Emit(Event("error", item'))
  /\ UNCHANGED <<queued, said>>

\* session.status idle, and session.idle on top of it
AgentEnds ==
  /\ agent \in {"on", "end"} /\ Nothing
  /\ agent' = "off"
  /\ Emit(IF kind = "codex" THEN Event("idle", item)
          ELSE Event("idle", item) \o Event("idle", item))
  /\ UNCHANGED <<queued, item, said, failed>>

-----------------------------------------------------------------------------
(* The bridge's connection.                                                 *)

\* Faulty: the connection before is left open.
LeftOpen(s) == s

\* Aborting a connection ends it and the retry it may be waiting for.
Closed(s) == [i \in 1..Len(s) |-> "over"]

\* connectSSE: what was under way on the old connection is gone.
ConnectSSE ==
  /\ Current < MaxStreams
  /\ streams' = Append(Closed(streams), "connecting")
  /\ wire' = <<>>
  /\ lost' = (lost \/ wire # <<>>)

StreamOpens(i) ==
  /\ streams[i] = "connecting"
  /\ streams' = [streams EXCEPT ![i] = "open"]
  /\ UNCHANGED <<kind, theAgent, wire, up, lost, bridge, calls, abort, rows, sent>>

\* An error on the stream, which leaves the row alone, and a retry in 2 s
StreamFails(i) ==
  /\ kind # "codex"
  /\ streams[i] \in {"connecting", "open"}
  /\ streams' = [streams EXCEPT ![i] = "failed"]
  /\ wire' = <<>> /\ lost' = (lost \/ wire # <<>>)
  /\ UNCHANGED <<kind, theAgent, up, bridge, calls, abort, rows, sent>>

StreamRetries(i) ==
  /\ streams[i] = "failed"
  /\ ConnectSSE
  /\ UNCHANGED <<kind, theAgent, up, bridge, calls, abort, rows, sent>>

\* The server closes the stream: readSSE returns, and nobody opens another.
StreamEnds(i) ==
  /\ kind # "codex"
  /\ streams[i] = "open" /\ wire = <<>>
  /\ streams' = [streams EXCEPT ![i] = "over"]
  /\ UNCHANGED <<kind, theAgent, wire, up, lost, bridge, calls, abort, rows, sent>>

\* readSSE keeps no event over two chunks: one whose blank line comes with
\* the next chunk is dropped.
Torn ==
  /\ kind # "codex"
  /\ wire # <<>>
  /\ wire' = Tail(wire)
  /\ lost' = TRUE
  /\ UNCHANGED <<kind, theAgent, streams, up, bridge, calls, abort, rows, sent>>

-----------------------------------------------------------------------------
(* handleSSEEvent, mapCodexEvent and handleEvent.                           *)

\* message.part.updated: parts of the user's messages are dropped, a delta
\* says what it is part of.
MessagePart(e) ==
  IF e.item[1] = "user" THEN IF e.item[2] \in knows THEN "nothing" ELSE "message.completed"
  ELSE IF e.ev = "delta" THEN IF e.item[1] = "text" THEN "message.delta" ELSE "nothing"
  ELSE IF e.item[1] = "text" THEN "message.completed" ELSE "part.completed"

\* message.part.delta of older versions: what is not known to be reasoning is
\* taken for text.
PartDelta(e) == IF e.item \in think THEN "nothing" ELSE "message.delta"

\* session.status, session.idle, session.error
SessionEvent(e) ==
  CASE e.ev = "idle"  -> "turn.completed"
    [] e.ev = "error" -> "error"
    [] OTHER          -> "nothing"

HandleSSEEvent(e) ==
  CASE e.ev = "final" -> MessagePart(e)
    [] e.ev = "delta" -> IF kind = "legacy" THEN PartDelta(e) ELSE MessagePart(e)
    [] OTHER          -> SessionEvent(e)

MapCodexEvent(e) ==
  CASE e.ev = "idle"  -> "turn.completed"
    [] e.ev = "error" -> "error"
    [] e.ev = "delta" /\ e.item[1] = "text" -> "message.delta"
    [] e.ev = "final" -> IF e.item[1] = "text" THEN "message.completed" ELSE "part.completed"
    [] OTHER -> "nothing"

\* What the bridge makes of an event
Meaning(e) == IF kind = "codex" THEN MapCodexEvent(e) ELSE HandleSSEEvent(e)

\* Faulty: the deltas of a completed message are kept.
Kept == pend

\* pendingText after a completed message
Cleared == {}

\* Text that was streamed and never completed is stored at the end of the turn.
Flushed(p) == IF p = {} THEN log ELSE Append(log, [full |-> FALSE, items |-> p])

\* Faulty: a completed turn leaves the row alone.
AfterTurnSame == status

\* A completed turn does not overwrite an error.
AfterTurn == IF status = "error" THEN "error" ELSE "idle"

\* Faulty: an error is only passed on to the browsers.
Unmarked == status

\* Only a busy session can fail.
Marked == IF status = "busy" THEN "error" ELSE status

HandleEvent(m, i) ==
  /\ log' = CASE m \in {"message.completed", "part.completed"} ->
                   Append(log, [full |-> TRUE, items |-> {i}])
              [] m = "turn.completed" -> Flushed(pend)
              [] OTHER -> log
  /\ pend' = CASE m = "message.delta" -> pend \cup {i}
               [] m = "message.completed" -> Cleared
               [] m = "turn.completed" -> {}
               [] OTHER -> pend
  /\ status' = CASE m = "turn.completed" -> AfterTurn
                 [] m = "error" -> Marked
                 [] OTHER -> status

Deliver ==
  /\ wire # <<>>
  /\ LET e == Head(wire)
     IN  /\ HandleEvent(Meaning(e), e.item)
         /\ knows' = IF e.ev = "role" THEN knows \cup {e.item[2]} ELSE knows
         /\ think' = IF e.ev # "role" /\ e.item[1] = "reason" THEN think \cup {e.item} ELSE think
  /\ wire' = Tail(wire)
  /\ UNCHANGED <<kind, theAgent, streams, up, lost, calls, abort, sent>>

-----------------------------------------------------------------------------
(* The manager.                                                             *)

\* sendMessage.  OpenCode is posted the message and queues it; a Codex process
\* that is gone is written to all the same.  A session that has lost its bridge
\* gets another, whose stream need not be there when the turn begins.
SendMessage ==
  /\ sent < MaxTurns
  /\ up \/ kind # "codex"
  /\ sent' = sent + 1
  /\ status' = "busy" /\ pend' = {}
  /\ up' = TRUE
  /\ IF up THEN UNCHANGED <<streams, wire, lost, bridge>>
           ELSE ConnectSSE /\ knows' = {} /\ think' = {}
  /\ IF kind = "codex" /\ Open = {} THEN UNCHANGED queued ELSE queued' = queued + 1
  /\ calls' = IF kind = "codex" THEN calls + 1 ELSE calls
  /\ UNCHANGED <<kind, agent, item, said, failed, abort, log>>

\* Codex answers turn/start.
CallAnswered ==
  /\ calls > 0 /\ Open # {}
  /\ calls' = calls - 1
  /\ UNCHANGED <<kind, theAgent, link, bridge, abort, rows, sent>>

\* A request that nobody answers rejects after 30 s, and turn_error follows.
CallTimesOut ==
  /\ calls > 0
  /\ calls' = calls - 1
  /\ status' = Marked
  /\ UNCHANGED <<kind, theAgent, link, bridge, abort, pend, log, sent>>

\* The process exits; cleanup rejects what is pending.
ProcessExit ==
  /\ kind = "codex" /\ Open # {}
  /\ streams' = Closed(streams)
  /\ wire' = <<>> /\ lost' = TRUE
  /\ calls' = 0
  /\ status' = Marked
  /\ agent' = "off" /\ queued' = 0 /\ item' = <<"none", item[2]>>
  /\ UNCHANGED <<kind, said, failed, up, bridge, abort, pend, log, sent>>

Aborted == IF agent \in {"begin", "on"} THEN "aborted" ELSE agent

\* interrupt: a notification to Codex, a request to OpenCode
Interrupt ==
  /\ up /\ ~abort
  /\ IF kind = "codex" THEN status' = "idle" /\ agent' = Aborted /\ UNCHANGED abort
     ELSE abort' = TRUE /\ UNCHANGED <<status, agent>>
  /\ UNCHANGED <<kind, queued, item, said, failed, link, bridge, calls, pend, log, sent>>

\* The request has been answered, or has failed and the stream is opened anew.
Interrupted ==
  /\ abort
  /\ abort' = FALSE
  /\ status' = "idle"
  /\ \/ agent' = Aborted /\ UNCHANGED <<streams, wire, lost>>
     \/ ConnectSSE /\ UNCHANGED agent
  /\ UNCHANGED <<kind, queued, item, said, failed, up, bridge, calls, pend, log, sent>>

\* The control plane restarts; the row keeps its status.
Restart ==
  /\ up
  /\ up' = FALSE
  /\ streams' = Closed(streams)
  /\ wire' = <<>> /\ lost' = TRUE
  /\ calls' = 0 /\ abort' = FALSE
  /\ pend' = {}
  /\ IF kind = "codex" THEN agent' = "off" /\ queued' = 0 /\ item' = <<"none", item[2]>>
     ELSE UNCHANGED <<agent, queued, item>>
  /\ UNCHANGED <<kind, said, failed, bridge, log, status, sent>>

AgentStep ==
  \/ AgentBegins \/ AgentBusy
  \/ \E k \in {"text", "reason", "tool"} : AgentStarts(k)
  \/ AgentFinishes \/ AgentFails \/ AgentEnds

Next ==
  \/ AgentStep \/ Deliver \/ Torn
  \/ \E i \in 1..Current :
       StreamOpens(i) \/ StreamFails(i) \/ StreamRetries(i) \/ StreamEnds(i)
  \/ SendMessage \/ CallAnswered \/ CallTimesOut \/ ProcessExit
  \/ Interrupt \/ Interrupted \/ Restart

Spec == Init /\ [][Next]_vars

\* While a Codex agent is at work, its lines are unread or a request is not
\* answered, something of this goes on: the agent, the reading, the timeout.
CodexStep == kind = "codex" /\ (AgentStep \/ Deliver \/ CallTimesOut)

FairSpec == Spec /\ WF_vars(CodexStep)

-----------------------------------------------------------------------------
(* What the conversation can be trusted with.                               *)

\* Nothing the agent said is in the history twice, in full or in pieces,
\* whatever events get lost, however often the stream is opened anew and
\* although every turn of OpenCode is reported as completed twice.  Only
\* reasoning whose announcement was lost may come as text as well.
NothingTwice ==
  \A m, n \in 1..Len(log) : m # n =>
    \A i \in log[m].items \cap log[n].items : i[1] = "reason" /\ lost

\* How many of the first n messages are stored in full
Place(n) == Cardinality({k \in 1..n : log[k].full})

\* As long as no event is lost, the history is what the agent said, in order
\* and without the user's own words, but for what is still under way; what it
\* holds in pieces was text the agent broke off.
HistoryFaithful ==
  ~lost /\ wire = <<>> =>
    /\ Place(Len(log)) = Len(said)
    /\ \A n \in 1..Len(log) :
         IF log[n].full THEN log[n].items = {said[Place(n)]}
         ELSE \A i \in log[n].items : i[1] = "text" /\ \A k \in 1..Len(said) : said[k] # i

\* When the agent has come to rest and nothing was lost, the session is not
\* busy, and it is marked only if the agent, or a request to it, failed.
StatusSettles ==
  ~lost /\ wire = <<>> /\ agent = "off" /\ queued = 0 /\ calls = 0 =>
    /\ status # "busy"
    /\ status = "error" /\ kind # "codex" => failed

\* A Codex session is not busy for ever, even when its process is dead: while
\* it has a bridge, the turn ends, the process exits or the request times out.
BusyEnds == kind = "codex" /\ status = "busy" ~> status # "busy" \/ ~up

=============================================================================
