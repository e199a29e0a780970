----------------------------- MODULE AgentPanel -----------------------------
(***************************************************************************)
(* One browser that shows the agent sessions of a local VM                   *)
(* (dashboard components/AgentTab.tsx and hooks/useAgentSocket.ts) against   *)
(* the routes of routes/agents.ts and the hub that broadcasts the agents'    *)
(* events.  Requests are answered in any order; events come in order, over a *)
(* socket of their own, and those sent while it is not open are gone.        *)
(*                                                                          *)
(* What the panel shows is rebuilt from the answer to a load and then kept   *)
(* up with the events.  skew records that something has happened which the   *)
(* panel does not notice, until the next load that nothing interferes with.  *)
(***************************************************************************)
EXTENDS Naturals, Sequences

CONSTANTS Old,       \* sessions there are when the panel opens
          New,       \* sessions that may be created
          NoSession, \* no session
          MaxLog,    \* bounds the messages of a session
          MaxReqs,   \* bounds the requests in flight
          MaxQueue,  \* bounds the events in flight
          MaxActs    \* bounds what the user does and how often the socket is lost

Sessions == Old \cup New

ASSUME PanelAssumption ==
  /\ Old \cap New = {} /\ NoSession \notin Sessions
  /\ {MaxLog, MaxReqs, MaxQueue, MaxActs} \subseteq Nat \ {0}

VARIABLES there,    \* sessions with a row that is not archived
          busy,     \* sessions whose row is busy
          stored,   \* number of messages stored
          spoke,    \* sessions with a message of the agent
          boot,     \* sessions createSession is starting, with or without a prompt
          run,      \* sessions whose agent is in a turn
          ask,      \* sessions whose agent waits for an approval
          queue,    \* events on the socket
          sock,     \* the browser's socket
          reqs,     \* its requests
          list, active, view, uiBusy, creating, timer, sending, cards,
          skew,     \* the panel has missed something
          acts      \* the acts so far

sessionRows == <<there, busy, stored, spoke, boot, run, ask>>
panel       == <<list, active, view, uiBusy, creating, timer, sending, cards>>
panelVars   == <<sessionRows, queue, sock, reqs, panel, skew, acts>>

Free == [op |-> "free", s |-> NoSession, at |-> "sent", stored |-> 0, busy |-> FALSE,
         init |-> FALSE, ask |-> FALSE, hit |-> FALSE]

Slots    == 1..MaxReqs
Request(op, s) == [Free EXCEPT !.op = op, !.s = s]
Pick(s, S, b)  == IF b THEN S \cup {s} ELSE S \ {s}

PanelTypeOK ==
  /\ {there, busy, spoke, run, ask, list} \subseteq SUBSET Sessions
  /\ stored \in [Sessions -> 0..MaxLog]
  /\ boot \in [Sessions -> {"new", "no", "bare", "prompt"}]
  /\ sock \in {"none", "open", "gap", "closed"}
  /\ active \in Sessions \cup {NoSession}
  /\ view \in Seq(Sessions \X Nat) /\ cards \subseteq Sessions
  /\ {uiBusy, creating, timer, sending, skew} \subseteq BOOLEAN
  /\ acts \in 0..MaxActs

PanelInit ==
  /\ there = Old /\ busy = {} /\ spoke = Old /\ run = {} /\ ask = {}
  /\ stored = [s \in Sessions |-> IF s \in Old THEN 1 ELSE 0]
  /\ boot = [s \in Sessions |-> IF s \in Old THEN "no" ELSE "new"]
  /\ queue = <<>> /\ sock = "none"
  /\ reqs = [i \in Slots |-> IF i = 1 THEN Request("list", NoSession) ELSE Free]
  /\ list = {} /\ active = NoSession /\ view = <<>>
  /\ uiBusy = FALSE /\ creating = FALSE /\ timer = FALSE /\ sending = FALSE
  /\ cards = {} /\ skew = FALSE /\ acts = 0

-----------------------------------------------------------------------------
(* The control plane.                                                       *)

\* wsHub.broadcast: whoever has no open socket gets nothing.
Broadcast(s, e) ==
  /\ Len(queue) < MaxQueue
  /\ IF sock = "open" THEN queue' = Append(queue, [s |-> s, ev |-> e]) /\ UNCHANGED skew
     ELSE UNCHANGED queue /\ skew' = (skew \/ s = active)
  /\ UNCHANGED <<sock, panel>>

InQueue(s) == \E n \in 1..Len(queue) : queue[n].s = s

\* An event nobody hears makes the answers under way out of date.
Hit(s)     == [i \in Slots |-> IF reqs[i].s = s THEN [reqs[i] EXCEPT !.hit = TRUE]
                                               ELSE reqs[i]]
Passed(s)  == IF sock = "open" THEN reqs ELSE Hit(s)
Unheard(s) == reqs' = Passed(s)

\* The bridge is up.  With a prompt the agent's turn begins.
Started(s) ==
  /\ boot[s] \in {"bare", "prompt"}
  /\ boot' = [boot EXCEPT ![s] = "no"]
  /\ IF boot[s] = "prompt" THEN busy' = busy \cup {s} /\ run' = run \cup {s}
                           ELSE busy' = busy \ {s} /\ UNCHANGED run
  /\ Broadcast(s, IF boot[s] = "prompt" THEN "started" ELSE "ready")
  /\ Unheard(s)
  /\ UNCHANGED <<there, stored, spoke, ask>>

StartFails(s) ==
  /\ boot[s] \in {"bare", "prompt"}
  /\ boot' = [boot EXCEPT ![s] = "no"]
  /\ busy' = busy \ {s}
  /\ Broadcast(s, "failed")
  /\ Unheard(s)
  /\ UNCHANGED <<there, stored, spoke, run, ask>>

AgentSays(s) ==
  /\ s \in run \ ask /\ stored[s] < MaxLog
  /\ stored' = [stored EXCEPT ![s] = @ + 1]
  /\ spoke' = spoke \cup {s}
  /\ Broadcast(s, "said")
  /\ Unheard(s)
  /\ UNCHANGED <<there, busy, boot, run, ask>>

AgentAsks(s) ==
  /\ s \in run \ ask
  /\ ask' = ask \cup {s}
  /\ Broadcast(s, "asked")
  /\ Unheard(s)
  /\ UNCHANGED <<there, busy, stored, spoke, boot, run>>

\* The turn is completed, or ends in an error.
TurnEnds(s) ==
  /\ s \in run
  /\ run' = run \ {s} /\ ask' = ask \ {s} /\ busy' = busy \ {s}
  /\ Broadcast(s, "ended")
  /\ Unheard(s)
  /\ UNCHANGED <<there, stored, spoke, boot>>

\* createSession: the row, the prompt and the news of it
CreateRow(s, prompt) ==
  /\ boot[s] = "new"
  /\ there' = there \cup {s}
  /\ boot' = [boot EXCEPT ![s] = prompt]
  /\ busy' = Pick(s, busy, prompt = "prompt")
  /\ stored' = [stored EXCEPT ![s] = IF prompt = "prompt" THEN 1 ELSE 0]
  /\ Broadcast(s, IF prompt = "prompt" THEN "created" ELSE "createdBare")
  /\ UNCHANGED <<spoke, run, ask>>

\* Somebody else creates a session: another browser, or POST /vms with a prompt.
CreateElsewhere(s) ==
  \E prompt \in {"bare", "prompt"} : CreateRow(s, prompt) /\ Unheard(s)

-----------------------------------------------------------------------------
(* The routes.                                                              *)

Served(i, r) == reqs' = [reqs EXCEPT ![i] = r]

\* GET sessions/:sid reads row and messages first.  An event that is still on
\* the socket adds its message a second time, and what is still asked of the
\* session is not in the answer.
ServeLoad(i) ==
  LET s == reqs[i].s
  IN  /\ reqs[i].op = "load" /\ reqs[i].at = "sent"
      /\ Served(i, [reqs[i] EXCEPT !.at = "read", !.stored = stored[s], !.busy = s \in busy,
                                   !.init = s \in busy \ spoke,
                                   !.hit = \/ InQueue(s)
                                           \/ \E j \in Slots : /\ reqs[j].s = s
                                                               /\ reqs[j].op # "load"])
      /\ UNCHANGED <<sessionRows, queue, sock, panel, skew>>

\* Then it asks the agent what is pending.
ServePending(i) ==
  /\ reqs[i].op = "load" /\ reqs[i].at = "read"
  /\ Served(i, [reqs[i] EXCEPT !.at = "done", !.ask = reqs[i].s \in ask])
  /\ UNCHANGED <<sessionRows, queue, sock, panel, skew>>

ServeList(i) ==
  /\ reqs[i].op = "list" /\ reqs[i].at = "sent"
  /\ Served(i, [reqs[i] EXCEPT !.at = "done", !.s = CHOOSE s \in there \cup {NoSession} :
                                                     there = {} \/ s \in there])
  /\ UNCHANGED <<sessionRows, queue, sock, panel, skew>>

\* POST message: the message is stored, the row busy, and the agent's turn
\* begins.  The answer comes now or, from OpenCode, at the end of the turn.
ServeSend(i) ==
  LET s == reqs[i].s
  IN  /\ reqs[i].op = "send" /\ reqs[i].at = "sent"
      /\ s \in there /\ s \notin run /\ boot[s] = "no" /\ stored[s] < MaxLog
      /\ busy' = busy \cup {s} /\ run' = run \cup {s}
      /\ stored' = [stored EXCEPT ![s] = @ + 1]
      /\ Broadcast(s, "started")
      /\ reqs' = [Passed(s) EXCEPT ![i] = [reqs[i] EXCEPT !.at = "done"]]
      /\ UNCHANGED <<there, spoke, boot, ask>>

\* POST stop: the row is idle at once, the turn ends in its own time.
ServeStop(i) ==
  /\ reqs[i].op = "stop" /\ reqs[i].at = "sent"
  /\ busy' = busy \ {reqs[i].s}
  /\ Served(i, [reqs[i] EXCEPT !.at = "done"])
  /\ UNCHANGED <<there, stored, spoke, boot, run, ask, queue, sock, panel, skew>>

\* POST approval, to the agent of the session that is active in the panel
ServeReply(i) ==
  /\ reqs[i].op = "reply" /\ reqs[i].at = "sent"
  /\ ask' = ask \ {reqs[i].s}
  /\ Served(i, [reqs[i] EXCEPT !.at = "done"])
  /\ UNCHANGED <<there, busy, stored, spoke, boot, run, queue, sock, panel, skew>>

ServeCreate(i) ==
  /\ reqs[i].op \in {"bare", "prompt"} /\ reqs[i].at = "sent"
  /\ CreateRow(reqs[i].s, reqs[i].op)
  /\ reqs' = [Passed(reqs[i].s) EXCEPT ![i] = [reqs[i] EXCEPT !.at = "done"]]

ServeArchive(i) ==
  LET s == reqs[i].s
  IN  /\ reqs[i].op = "archive" /\ reqs[i].at = "sent"
      /\ there' = there \ {s} /\ busy' = busy \ {s} /\ run' = run \ {s}
      /\ ask' = ask \ {s} /\ boot' = [boot EXCEPT ![s] = "no"]
      /\ Served(i, [reqs[i] EXCEPT !.at = "done"])
      /\ UNCHANGED <<stored, spoke, queue, sock, panel, skew>>

Serve(i) ==
  \/ ServeLoad(i) \/ ServePending(i) \/ ServeList(i) \/ ServeSend(i) \/ ServeStop(i)
  \/ ServeReply(i) \/ ServeCreate(i) \/ ServeArchive(i)

-----------------------------------------------------------------------------
(* The socket.                                                              *)

\* connectToCP: once there has been a socket, even one that is closed for
\* good, there is never another.
Connected(k) == IF k = "none" THEN "open" ELSE k

\* The connection is lost; the browser comes back after a while.
SocketDrops ==
  /\ sock = "open"
  /\ sock' = "gap"
  /\ queue' = <<>> /\ skew' = (skew \/ queue # <<>>)
  /\ reqs' = [i \in Slots |-> [reqs[i] EXCEPT !.hit = @ \/ InQueue(reqs[i].s)]]
  /\ UNCHANGED <<sessionRows, panel>>

SocketReturns ==
  /\ sock = "gap"
  /\ sock' = "open"
  /\ UNCHANGED <<sessionRows, queue, reqs, panel, skew>>

\* closeConnectionsForVM, before a snapshot: a close the browser accepts
SocketCloses ==
  /\ sock = "open" /\ run = {} /\ queue = <<>>
  /\ sock' = "closed"
  /\ UNCHANGED <<sessionRows, queue, reqs, panel, skew>>

-----------------------------------------------------------------------------
(* What the browser does with answers.                                      *)

Others(i) == [reqs EXCEPT ![i] = Free]

\* The effect on activeSessionId: a load, for which a slot must be free.
Activate(s, rs) ==
  /\ active' = s
  /\ IF s = active \/ s = NoSession THEN reqs' = rs
     ELSE \E j \in Slots : rs[j] = Free /\ reqs' = [rs EXCEPT ![j] = Request("load", s)]

Numbered(s, n) == [k \in 1..n |-> <<s, k>>]

\* Faulty: the answer is applied, but for the approvals.
NoCards(r) == {}

\* The cards a load restores
Restored(r) == IF r.ask THEN {r.s} ELSE {}

\* The answer to a load is applied, whatever is active by now.
AnswerLoad(i) ==
  LET r == reqs[i]
  IN  /\ r.op = "load" /\ r.at = "done"
      /\ view' = Numbered(r.s, r.stored)
      /\ uiBusy' = r.busy
      /\ creating' = r.init
      /\ cards' = Restored(r)
      /\ sock' = Connected(sock)
      /\ skew' = (r.hit \/ r.s # active \/ Connected(sock) # "open")
      /\ reqs' = Others(i)
      /\ UNCHANGED <<sessionRows, queue, list, active, timer, sending>>

\* The sessions at the time; the first is active unless one is already.
AnswerList(i) ==
  /\ reqs[i].op = "list" /\ reqs[i].at = "done"
  /\ list' = IF reqs[i].s = NoSession THEN {} ELSE Old \cup {reqs[i].s}
  /\ Activate(IF active = NoSession THEN reqs[i].s ELSE active, Others(i))
  /\ UNCHANGED <<sessionRows, queue, sock, view, uiBusy, creating, timer, sending, cards, skew>>

\* The message has been taken; or not, which makes the panel show an error
\* whatever is active, while its own message stays.
AnswerSend(i) ==
  /\ reqs[i].op = "send"
  /\ \/ reqs[i].at = "done" /\ UNCHANGED <<uiBusy, skew>>
     \/ uiBusy' = FALSE /\ skew' = TRUE
  /\ sending' = FALSE
  /\ reqs' = Others(i)
  /\ UNCHANGED <<sessionRows, queue, sock, list, active, view, creating, timer, cards>>

AnswerStop(i) ==
  /\ reqs[i].op = "stop" /\ reqs[i].at = "done"
  /\ uiBusy' = FALSE
  /\ skew' = (skew \/ reqs[i].hit \/ reqs[i].s # active)
  /\ reqs' = Others(i)
  /\ UNCHANGED <<sessionRows, queue, sock, list, active, view, creating, timer, sending, cards>>

\* The card that was answered goes, wherever it is now.
AnswerReply(i) ==
  /\ reqs[i].op = "reply" /\ reqs[i].at = "done"
  /\ cards' = cards \ {reqs[i].s}
  /\ skew' = (skew \/ reqs[i].hit)
  /\ reqs' = Others(i)
  /\ UNCHANGED <<sessionRows, queue, sock, list, active, view, uiBusy, creating, timer, sending>>

\* The session is there and starting.
AnswerCreate(i) ==
  LET r == reqs[i]
  IN  /\ r.op \in {"bare", "prompt"} /\ r.at = "done"
      /\ list' = list \cup {r.s}
      /\ Activate(r.s, Others(i))
      /\ view' = IF r.op = "prompt" THEN <<<<r.s, 0>>>> ELSE <<>>
      /\ uiBusy' = TRUE /\ cards' = {}
      /\ timer' = TRUE
      /\ sock' = Connected(sock)
      /\ skew' = (skew \/ r.hit \/ active # r.s)
      /\ UNCHANGED <<sessionRows, queue, creating, sending>>

\* 30 s after the answer: whatever is being initialized by now has timed out.
TimerFires ==
  /\ timer
  /\ timer' = FALSE
  /\ creating' = FALSE
  /\ uiBusy' = (uiBusy /\ ~creating)
  /\ skew' = (skew \/ creating)
  /\ UNCHANGED <<sessionRows, queue, sock, reqs, list, active, view, sending, cards>>

\* Another session of the list becomes active; the status stays until it is
\* loaded.
AnswerArchive(i) ==
  LET r == reqs[i]
  IN  /\ r.op = "archive" /\ r.at = "done"
      /\ list' = list \ {r.s}
      /\ \E s \in IF list \ {r.s} = {} THEN {NoSession} ELSE list \ {r.s} : Activate(s, Others(i))
      /\ view' = <<>> /\ cards' = {}
      /\ skew' = TRUE
      /\ UNCHANGED <<sessionRows, queue, sock, uiBusy, creating, timer, sending>>

Answer(i) ==
  \/ AnswerLoad(i) \/ AnswerList(i) \/ AnswerSend(i) \/ AnswerStop(i)
  \/ AnswerReply(i) \/ AnswerCreate(i) \/ AnswerArchive(i)

-----------------------------------------------------------------------------
(* What it does with events.                                                *)

\* Faulty: events are not asked for their session.
ForAnybody(s) == TRUE

\* Events of the other sessions are dropped.
ForMe(s) == s = active

\* session.created makes the session active, over whatever was; the listener
\* clears nothing.
HearCreated(e) ==
  /\ list' = list \cup {e.s}
  /\ Activate(e.s, reqs)
  /\ creating' = TRUE /\ uiBusy' = TRUE
  /\ view' = IF e.ev = "created" THEN <<<<e.s, 0>>>> ELSE view
  /\ skew' = TRUE
  /\ UNCHANGED <<timer, cards>>

HearOther(e) ==
  /\ reqs' = [i \in Slots |-> IF reqs[i].s = e.s /\ reqs[i].at # "sent"
                               THEN [reqs[i] EXCEPT !.hit = TRUE] ELSE reqs[i]]
  /\ IF ~ForMe(e.s) THEN UNCHANGED <<view, uiBusy, creating, timer, cards>>
     ELSE /\ view' = IF e.ev = "said" THEN Append(view, <<e.s, Len(view) + 1>>) ELSE view
          /\ uiBusy' = CASE e.ev = "started" -> TRUE
                         [] e.ev \in {"ended", "ready", "failed"} -> FALSE
                         [] OTHER -> uiBusy
          /\ creating' = (creating /\ e.ev \in {"asked", "ended"})
          /\ timer' = (timer /\ ~(creating /\ e.ev \in {"started", "said"})
                             /\ e.ev \notin {"ready", "failed"})
          /\ cards' = IF e.ev = "asked" THEN cards \cup {e.s} ELSE cards
  /\ UNCHANGED <<list, active, skew>>

Hear ==
  /\ queue # <<>>
  /\ LET e == Head(queue)
     IN  IF e.ev \in {"created", "createdBare"} THEN HearCreated(e) ELSE HearOther(e)
  /\ queue' = Tail(queue)
  /\ UNCHANGED <<sessionRows, sock, sending>>

-----------------------------------------------------------------------------
(* The user.                                                                *)

\* What a request is to change, an answer already under way does not know.
Ask(op) ==
  \E i \in Slots : reqs[i] = Free /\ reqs' = [Hit(active) EXCEPT ![i] = Request(op, active)]

\* A click on a session in the sidebar, the active one included, clears the
\* panel; the command palette leaves the status as it is.
Select(s, palette) ==
  /\ s \in list
  /\ Activate(s, reqs)
  /\ cards' = {}
  /\ IF palette THEN UNCHANGED <<uiBusy, creating>> ELSE uiBusy' = FALSE /\ creating' = FALSE
  /\ skew' = TRUE
  /\ UNCHANGED <<sessionRows, queue, sock, list, view, timer, sending>>

Send ==
  /\ active # NoSession
  /\ ~sending /\ ~creating /\ ~uiBusy
  /\ Len(view) < MaxLog
  /\ view' = Append(view, <<active, 0>>)
  /\ uiBusy' = TRUE /\ sending' = TRUE
  /\ Ask("send")
  /\ UNCHANGED <<sessionRows, queue, sock, list, active, creating, timer, cards, skew>>

Stop ==
  /\ active # NoSession /\ uiBusy
  /\ Ask("stop")
  /\ UNCHANGED <<sessionRows, queue, sock, panel, skew>>

Reply(s) ==
  /\ s \in cards /\ active # NoSession
  /\ Ask("reply")
  /\ UNCHANGED <<sessionRows, queue, sock, panel, skew>>

Create(s, prompt) ==
  /\ boot[s] = "new" /\ ~creating
  /\ creating' = TRUE
  /\ \E i \in Slots : reqs[i] = Free /\ reqs' = [reqs EXCEPT ![i] = Request(prompt, s)]
  /\ UNCHANGED <<sessionRows, queue, sock, list, active, view, uiBusy, timer, sending, cards, skew>>

Archive ==
  /\ active # NoSession
  /\ Ask("archive")
  /\ UNCHANGED <<sessionRows, queue, sock, panel, skew>>

Act ==
  /\ acts < MaxActs
  /\ acts' = acts + 1
  /\ \/ \E s \in Sessions :
          \/ CreateElsewhere(s) \/ Reply(s)
          \/ \E palette \in BOOLEAN : Select(s, palette)
          \/ \E prompt \in {"bare", "prompt"} : Create(s, prompt)
     \/ SocketDrops \/ SocketCloses \/ Send \/ Stop \/ Archive

Happen ==
  /\ \/ \E s \in Sessions : \/ Started(s) \/ StartFails(s)
                            \/ AgentSays(s) \/ AgentAsks(s) \/ TurnEnds(s)
     \/ \E i \in Slots : Serve(i) \/ Answer(i)
     \/ SocketReturns \/ Hear \/ TimerFires
  /\ UNCHANGED acts

PanelNext == Act \/ Happen

PanelSpec == PanelInit /\ [][PanelNext]_panelVars

-----------------------------------------------------------------------------
(* What the user can rely on.                                               *)

Quiet == queue = <<>> /\ \A i \in Slots : reqs[i] = Free

\* When nothing is in flight, the panel shows the active session as it is:
\* all of its messages, whether its agent is at work, and a card for what the
\* agent is waiting for.
PanelCurrent ==
  Quiet /\ ~skew /\ active # NoSession =>
    /\ Len(view) = stored[active] /\ \A n \in 1..Len(view) : view[n][1] = active
    /\ (active \in busy => uiBusy) /\ (uiBusy => active \in busy \cup run)
    /\ {active} \cap ask \subseteq cards

\* An answer to an approval is sent for the active session, so every card must
\* be one of that session, at any time and not only when all is quiet.
CardsBelong == ~skew => cards \subseteq {active}

=============================================================================
