------------------------------- MODULE Panels -------------------------------
(***************************************************************************)
(* The tabs of a VM's page that ask the server for what they show: firewall *)
(* rules (FirewallPanel.tsx), people with access (AccessPanel.tsx),         *)
(* terminals (TerminalTab.tsx) and files (FilesTab.tsx), over their routes. *)
(* One tab is mounted at a time.  Leaving it drops what it knows, not what  *)
(* it asked for; answers come in any order; others change the same things.  *)
(***************************************************************************)
EXTENDS Naturals, Sequences, FiniteSets, SequencesExt

CONSTANTS Items,   \* rules, or people
          Dirs, Root,
          None,
          MaxTerm, \* bound: the number of the last terminal
          MaxReqs  \* bound: requests under way

VARIABLES tab,      \* the tab that is mounted
          stored,   \* rules and people in the database
          shown,    \* the list in a panel
          ready,    \* the tab is past its spinner
          saving,   \* FirewallPanel's buttons are off
          missed,   \* the list changed behind the panel's back
          sessions, \* tmux sessions in the VM: 0 is "main", n is "term-n"
          tabs, active, counter, \* terminals: tabs, activeTab, nextCounter
          dirs,     \* directories of the tree
          reading,  \* fileLoading
          reqs      \* requests under way

lists     == <<shown, saving, missed>>
terminals == <<tabs, active, counter>>
files     == <<dirs, reading>>
vars      == <<tab, stored, ready, lists, sessions, terminals, files, reqs>>

Lists == {"firewall", "access"}
Slots == 1..MaxReqs
NoDir == [there |-> FALSE, loading |-> FALSE, expanded |-> FALSE]

\* What a request asks of the server, about what, and what came of it
Requests ==
  [op : {"list", "save", "grant", "revoke", "sessions", "kill", "dir", "file"},
   arg : Lists \cup (SUBSET Items) \cup (0..MaxTerm) \cup Dirs \cup {None},
   at : {"sent", "back"}, mine : BOOLEAN,
   saw : (SUBSET Items) \cup (SUBSET (0..MaxTerm)) \cup {None},
   old : BOOLEAN, done : BOOLEAN, ok : BOOLEAN]

Request(op, arg) == [op |-> op, arg |-> arg, at |-> "sent", mine |-> TRUE,
                     saw |-> None, old |-> FALSE, done |-> FALSE, ok |-> FALSE]
Is(i, op) == reqs[i] # None /\ reqs[i].op = op
Mine(i)   == reqs[i] # None /\ reqs[i].mine

Init ==
  /\ tab = "none" /\ ready = FALSE
  /\ stored = [l \in Lists |-> {}]
  /\ shown = {} /\ saving = FALSE /\ missed = FALSE
  /\ sessions \in SUBSET (0..MaxTerm)
  /\ tabs = <<>> /\ active = 0 /\ counter = 1
  /\ dirs = [d \in Dirs |-> NoDir] /\ reading = FALSE
  /\ reqs = [i \in Slots |-> None]

Free == {i \in Slots : reqs[i] = None}
Send(op, arg) == Free # {} /\ reqs' = [reqs EXCEPT ![Min(Free)] = Request(op, arg)]
Drop(i) == reqs' = [reqs EXCEPT ![i] = None]

-----------------------------------------------------------------------------
(* The server.                                                              *)

\* The list an answer tells the panel about
ListOf(r) == IF r.op = "list" THEN r.arg ELSE IF r.op = "save" THEN "firewall" ELSE None

\* Lists that are on their way to the panel are of before the change.
Outdated(l, rs) ==
  [i \in Slots |-> IF rs[i] # None /\ rs[i].at = "back" /\ ListOf(rs[i]) = l
                   THEN [rs[i] EXCEPT !.old = TRUE] ELSE rs[i]]

\* The answer to request i: it was done or refused; a fetch may fail after all.
Back(i, done, saw, ok) ==
  [reqs EXCEPT ![i].at = "back", ![i].done = done, ![i].saw = saw, ![i].ok = ok]

\* GET /vms/:id/firewall, /access, /files, /files/read, /terminal/sessions
Reads ==
  \E i \in Slots, ok \in BOOLEAN :
    /\ reqs[i] # None /\ reqs[i].at = "sent"
    /\ reqs[i].op \in {"list", "sessions", "dir", "file"}
    /\ reqs' = Back(i, ok, CASE reqs[i].op = "list"     -> stored[reqs[i].arg]
                             [] reqs[i].op = "sessions" -> sessions
                             [] OTHER                   -> None, ok)
    /\ UNCHANGED <<tab, stored, ready, lists, sessions, terminals, files>>

\* POST /vms/:id/firewall replaces the rules, POST /vms/:id/access adds somebody
\* or removes somebody.
Writes ==
  \E i \in Slots, done \in BOOLEAN, ok \in BOOLEAN :
    LET r == reqs[i]
        l == IF r.op = "save" THEN "firewall" ELSE "access"
    IN  /\ r # None /\ r.at = "sent" /\ r.op \in {"save", "grant", "revoke"}
        /\ ok => done
        /\ IF done
           THEN /\ stored' = [stored EXCEPT ![l] = CASE r.op = "save"  -> r.arg
                                                     [] r.op = "grant" -> @ \cup r.arg
                                                     [] OTHER          -> @ \ r.arg]
                /\ reqs' = [Outdated(l, reqs) EXCEPT ![i] = Back(i, TRUE, None, ok)[i]]
                /\ missed' = (missed \/ (tab = l /\ ~r.mine))
           ELSE reqs' = Back(i, FALSE, None, FALSE) /\ UNCHANGED <<stored, missed>>
        /\ UNCHANGED <<tab, ready, shown, saving, sessions, terminals, files>>

\* DELETE /vms/:id/terminal/sessions/:name
Kills ==
  \E i \in Slots, done \in BOOLEAN :
    /\ Is(i, "kill") /\ reqs[i].at = "sent"
    /\ sessions' = IF done THEN sessions \ {reqs[i].arg} ELSE sessions
    /\ reqs' = Back(i, done, None, done)
    /\ UNCHANGED <<tab, stored, ready, lists, terminals, files>>

\* Somebody else's panel, or another tab of the browser.
OthersChange(l, S) ==
  /\ stored[l] # S
  /\ stored' = [stored EXCEPT ![l] = S]
  /\ reqs' = Outdated(l, reqs)
  /\ missed' = (missed \/ tab = l)
  /\ UNCHANGED <<tab, ready, shown, saving, sessions, terminals, files>>

-----------------------------------------------------------------------------
(* Tabs come and go.                                                        *)

Mount(t) ==
  /\ tab = "none" /\ tab' = t
  /\ CASE t = "terminal" -> Send("sessions", None)
       [] t = "files"    -> Send("dir", Root)
       [] OTHER          -> Send("list", t)
  /\ dirs' = IF t = "files" THEN [dirs EXCEPT ![Root] = [there |-> TRUE, loading |-> TRUE,
                                                         expanded |-> TRUE]]
                            ELSE dirs
  /\ ready' = (t = "files")
  /\ UNCHANGED <<stored, lists, sessions, terminals, reading>>

\* What was asked is done all the same, though nobody hears of it.
Leave ==
  /\ tab # "none" /\ tab' = "none" /\ ready' = FALSE
  /\ shown' = {} /\ saving' = FALSE /\ missed' = FALSE
  /\ tabs' = <<>> /\ active' = 0 /\ counter' = 1
  /\ dirs' = [d \in Dirs |-> NoDir] /\ reading' = FALSE
  /\ reqs' = [i \in Slots |->
       IF reqs[i] # None /\ reqs[i].at = "sent"
          /\ reqs[i].op \in {"save", "grant", "revoke", "kill"}
       THEN [reqs[i] EXCEPT !.mine = FALSE] ELSE None]
  /\ UNCHANGED <<stored, sessions>>

\* An answer for a tab that was left.
Unheard(i) ==
  /\ reqs[i] # None /\ reqs[i].at = "back" /\ ~reqs[i].mine
  /\ Drop(i)
  /\ UNCHANGED <<tab, stored, ready, lists, sessions, terminals, files>>

-----------------------------------------------------------------------------
(* Lists: rules are saved as the panel has them, people one by one.         *)

\* loadRules, loadAccess
Loaded(i) ==
  /\ Is(i, "list") /\ reqs[i].at = "back"
  /\ ready' = TRUE
  /\ IF reqs[i].ok THEN shown' = reqs[i].saw /\ missed' = reqs[i].old
                   ELSE missed' = TRUE /\ UNCHANGED shown
  /\ Drop(i)
  /\ UNCHANGED <<tab, stored, saving, sessions, terminals, files>>

\* handleAdd, handleRemove of FirewallPanel
Save(x) ==
  /\ tab = "firewall" /\ ready /\ ~saving
  /\ saving' = TRUE
  /\ Send("save", IF x \in shown THEN shown \ {x} ELSE shown \cup {x})
  /\ UNCHANGED <<tab, stored, ready, shown, missed, sessions, terminals, files>>

\* Faulty: the panel shows the new rules whether or not they were accepted.
SavedAnyway(i) == shown' = reqs[i].arg /\ missed' = reqs[i].old

\* What the answer to a save makes of the list
SavedList(i) ==
  IF reqs[i].ok THEN shown' = reqs[i].arg /\ missed' = reqs[i].old
                ELSE missed' = (missed \/ reqs[i].done) /\ UNCHANGED shown

Saved(i) ==
  /\ Is(i, "save") /\ Mine(i) /\ reqs[i].at = "back"
  /\ SavedList(i)
  /\ saving' = FALSE
  /\ Drop(i)
  /\ UNCHANGED <<tab, stored, ready, sessions, terminals, files>>

\* handleInvite, handleRoleChange, handleRevoke of AccessPanel
Change(op, x) ==
  /\ tab = "access" /\ ready
  /\ (op = "revoke") <=> (x \in shown)
  /\ Send(op, {x})
  /\ UNCHANGED <<tab, stored, ready, lists, sessions, terminals, files>>

Changed(i) ==
  /\ (Is(i, "grant") \/ Is(i, "revoke")) /\ Mine(i) /\ reqs[i].at = "back"
  /\ IF reqs[i].ok
     THEN reqs' = [reqs EXCEPT ![i] = Request("list", "access")] /\ UNCHANGED missed
     ELSE Drop(i) /\ missed' = (missed \/ reqs[i].done)
  /\ UNCHANGED <<tab, stored, ready, shown, saving, sessions, terminals, files>>

-----------------------------------------------------------------------------
(* Terminals.                                                               *)

\* Choosing a tab mounts its terminal, whose tmux makes the session if need be.
Attached(n) == sessions' = sessions \cup {n}

\* Faulty: off by one.
PastOf(S) == {n \in S : n > 1}

\* A set of numbers from the least to the greatest, as tmux lists sessions in
\* the order of their names and a filter keeps what it keeps in its order
InOrder(S) ==
  {s \in [1..Cardinality(S) -> S] : \A j, k \in DOMAIN s : j < k => s[j] < s[k]}

\* fetchSessions; the numbers from which the counter keeps clear
Numbered(S) == {n \in S : n >= 1}

Fetched(i) ==
  /\ Is(i, "sessions") /\ reqs[i].at = "back"
  /\ ready' = TRUE
  /\ LET found == IF reqs[i].ok THEN reqs[i].saw ELSE {}
     IN  /\ tabs' \in IF found = {} THEN {<<0>>} ELSE InOrder(found)
         /\ active' = Head(tabs')
         /\ counter' = 1 + Max(Numbered(found) \cup {0})
         /\ Attached(active')
  /\ Drop(i)
  /\ UNCHANGED <<tab, stored, lists, files>>

AddTab ==
  /\ tab = "terminal" /\ ready /\ counter <= MaxTerm
  /\ counter' = counter + 1
  /\ tabs' = Append(tabs, counter) /\ active' = counter
  /\ Attached(counter)
  /\ UNCHANGED <<tab, stored, ready, lists, files, reqs>>

Choose(n) ==
  /\ tab = "terminal" /\ ready /\ n \in ToSet(tabs) /\ n # active
  /\ active' = n /\ Attached(n)
  /\ UNCHANGED <<tab, stored, ready, lists, tabs, counter, files, reqs>>

CloseTab(n) ==
  /\ tab = "terminal" /\ ready /\ n \in ToSet(tabs)
  /\ Send("kill", n)
  /\ UNCHANGED <<tab, stored, ready, lists, sessions, terminals, files>>

\* closeTab goes on, whatever the answer: the nearest tab takes the place of the
\* active one.  The last one leaves "main", whose terminal is not made anew if it
\* was "main" itself.
Closed(i) ==
  /\ Is(i, "kill") /\ Mine(i) /\ reqs[i].at = "back"
  /\ LET n    == reqs[i].arg
         keep == {k \in DOMAIN tabs : tabs[k] # n}
         at   == CHOOSE k \in 1..Len(tabs) + 1 : k = Len(tabs) + 1 \/ tabs[k] = n
     IN  IF keep = {}
         THEN /\ tabs' = <<0>> /\ active' = 0
              /\ IF n = 0 THEN UNCHANGED sessions ELSE Attached(0)
         ELSE /\ \E order \in InOrder(keep) :
                   tabs' = [k \in DOMAIN order |-> tabs[order[k]]]
              /\ active' = IF active # n THEN active
                           ELSE tabs'[IF at <= Len(tabs') THEN at ELSE Len(tabs')]
              /\ IF active' = active THEN UNCHANGED sessions ELSE Attached(active')
  /\ Drop(i)
  /\ UNCHANGED <<tab, stored, ready, lists, counter, files>>

\* A shell ends, here or elsewhere.
SessionEnds(n) ==
  /\ n \in sessions
  /\ sessions' = sessions \ {n}
  /\ UNCHANGED <<tab, stored, ready, lists, terminals, files, reqs>>

-----------------------------------------------------------------------------
(* Files.                                                                   *)

LoadDir(d, ds) ==
  /\ dirs' = [ds EXCEPT ![d] = [there |-> TRUE, loading |-> TRUE, expanded |-> TRUE]]
  /\ Send("dir", d)

\* toggleDir, of a directory in the tree
Toggle(d) ==
  /\ tab = "files" /\ d # Root /\ dirs[Root].there /\ ~dirs[Root].loading
  /\ IF dirs[d].expanded
     THEN dirs' = [dirs EXCEPT ![d].expanded = FALSE] /\ UNCHANGED reqs
     ELSE LoadDir(d, dirs)
  /\ UNCHANGED <<tab, stored, ready, lists, sessions, terminals, reading>>

\* The button clears the tree; directories that were asked for come back.
Refresh ==
  /\ tab = "files"
  /\ LoadDir(Root, [d \in Dirs |-> NoDir])
  /\ UNCHANGED <<tab, stored, ready, lists, sessions, terminals, reading>>

\* Faulty: what has been closed meanwhile is left as it is.
OnlyExpanded(d) == IF dirs[d].expanded THEN [dirs[d] EXCEPT !.loading = FALSE] ELSE dirs[d]

\* What an answer or an error makes of a directory
Listed(d) == [there |-> TRUE, loading |-> FALSE, expanded |-> TRUE]

DirAnswer(i) ==
  /\ Is(i, "dir") /\ reqs[i].at = "back"
  /\ dirs' = [dirs EXCEPT ![reqs[i].arg] = Listed(reqs[i].arg)]
  /\ Drop(i)
  /\ UNCHANGED <<tab, stored, ready, lists, sessions, terminals, reading>>

\* handleFileClick
OpenFile ==
  /\ tab = "files" /\ dirs[Root].there /\ ~dirs[Root].loading
  /\ reading' = TRUE
  /\ Send("file", None)
  /\ UNCHANGED <<tab, stored, ready, lists, sessions, terminals, dirs>>

FileAnswer(i) ==
  /\ Is(i, "file") /\ reqs[i].at = "back"
  /\ reading' = FALSE
  /\ Drop(i)
  /\ UNCHANGED <<tab, stored, ready, lists, sessions, terminals, dirs>>

-----------------------------------------------------------------------------
Next ==
  \/ \E t \in Lists \cup {"terminal", "files"} : Mount(t)
  \/ Leave \/ Reads \/ Writes \/ Kills
  \/ \E l \in Lists, S \in SUBSET Items : OthersChange(l, S)
  \/ \E i \in Slots : \/ Unheard(i) \/ Loaded(i) \/ Saved(i) \/ Changed(i) \/ Fetched(i)
                      \/ Closed(i) \/ DirAnswer(i) \/ FileAnswer(i)
  \/ \E x \in Items : Save(x) \/ Change("grant", x) \/ Change("revoke", x)
  \/ AddTab \/ \E n \in 0..MaxTerm : Choose(n) \/ CloseTab(n) \/ SessionEnds(n)
  \/ \E d \in Dirs : Toggle(d)
  \/ Refresh \/ OpenFile

Spec == Init /\ [][Next]_vars

-----------------------------------------------------------------------------
(* A panel that waits for nothing shows what the database has, unless       *)
(* others changed it since, an answer was lost, or one overtook another.    *)
PanelAgrees ==
  (tab \in Lists /\ ready /\ ~missed /\ \A i \in Slots : ~Mine(i))
    => shown = stored[tab]

(* Terminals have names of their own, also when tabs are added and closed   *)
(* while others are being closed, and one that is there is active.          *)
TabsSound ==
  (tab = "terminal" /\ ready) =>
    Cardinality(ToSet(tabs)) = Len(tabs) /\ active \in ToSet(tabs)

(* What shows a spinner waits for an answer that is still to come, however  *)
(* often it was opened and closed.                                          *)
SpinnersEnd ==
  /\ \A d \in Dirs : dirs[d].loading => \E i \in Slots : Is(i, "dir") /\ reqs[i].arg = d
  /\ reading => \E i \in Slots : Is(i, "file")
=============================================================================
