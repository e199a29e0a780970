------------------------ MODULE AgentSessionsProofs ------------------------
(***************************************************************************)
(* For every set of sessions, bridges and tasks: an archived session has   *)
(* no bridge; and as long as archive and teardown wait for what is in      *)
(* flight, one bridge listens for a session, messages go where the answer  *)
(* is heard, and the archive is for good.                                  *)
(***************************************************************************)
EXTENDS AgentSessions, TLAPS

\* The bridge of a session in the map is the session's own.
MapSound ==
    /\ \A s \in Session : active[s] # NoBridge => owner[active[s]] = s
    /\ \A s \in Session : status[s] = "none" => active[s] = NoBridge
    /\ \A t \in Task : IF task[t].pc = "idle"
                         THEN task[t].s = NoSession /\ task[t].b = NoBridge
                         ELSE task[t].s \in Session /\ task[t].b \in Bridge

\* What is in flight for a session goes through the bridge in the map, and
\* while that bridge starts nothing else does.
TaskAttached(t) ==
    task[t].pc # "idle" =>
        /\ active[task[t].s] = task[t].b
        /\ ~torn[task[t].b]
        /\ task[t].pc \in {"agentsMd", "post", "abort"} =>
              task[t].s \notin Codex /\ stage[task[t].b] = "up"
        /\ task[t].pc \in {"start", "reconnect"} =>
              /\ stage[task[t].b] \notin {"up", "loose"}
              /\ task[t].s \notin Codex => stage[task[t].b] = "new"
              /\ \A u \in Task : task[u].b = task[t].b => u = t
        /\ task[t].pc = "reconnect" => task[t].s \notin Codex

\* A bridge that listens, or will, is in the map, and who starts is waited for.
BridgeAttached(b) ==
    /\ stage[b] \in {"new", "up", "loose"} => 
          owner[b] \in Session /\ active[owner[b]] = b /\ ~torn[b]
    /\ stage[b] = "new" /\ owner[b] \notin Codex =>
          \E t \in Task : task[t].b = b /\ task[t].pc \in {"start", "reconnect"}

\* What holds in every environment, and what holds in an orderly one.
Shaped   == TypeOK /\ ArchivedInactive /\ MapSound
Attached == Orderly => /\ \A t \in Task : TaskAttached(t)
                       /\ \A b \in Bridge : BridgeAttached(b)

\* The inductive invariant.
IInv == Shaped /\ Attached

-----------------------------------------------------------------------------
(* The invariant.                                                          *)

LEMMA InitIInv == Init => IInv
  BY NoneAssumption
     DEF Init, IInv, Shaped, Attached, TypeOK, ArchivedInactive, MapSound, TaskAttached,
         BridgeAttached, Idle, Status, Stage, Pcs

TaskRecords == [pc : Pcs, s : Session \cup {NoSession}, b : Bridge \cup {NoBridge},
                prompt : BOOLEAN]

\* A task that moves on, returns, or is given its work.
LEMMA GoToTask ==
    ASSUME TypeOK, NEW t \in Task, NEW p \in Pcs, GoTo(t, p)
    PROVE  /\ task' \in [Task -> TaskRecords]
           /\ task'[t].pc = p /\ task'[t].s = task[t].s /\ task'[t].b = task[t].b
           /\ \A u \in Task : u # t => task'[u] = task[u]
  BY DEF TypeOK, GoTo, TaskRecords

LEMMA ReturnTask ==
    ASSUME TypeOK, NEW t \in Task, Return(t)
    PROVE  /\ task' \in [Task -> TaskRecords]
           /\ task'[t].pc = "idle" /\ task'[t].s = NoSession /\ task'[t].b = NoBridge
           /\ \A u \in Task : u # t => task'[u] = task[u]
  BY DEF TypeOK, Return, Idle, TaskRecords, Pcs

\* What an orderly environment does not do.
LEMMA OrderlyEnv == Orderly => "early" \notin env /\ "post" \notin env
  BY DEF Orderly

\* What a task does keeps the invariant.
LEMMA TaskKeeps ==
    ASSUME IInv, NEW t \in Task, Begin(t) \/ Continue(t)
    PROVE  Shaped' /\ Attached'
  <1> USE NoneAssumption DEF IInv, Shaped, SetStatus, SetStage, At, rows, bridges
  <1>0. Orderly' <=> Orderly
    BY DEF Begin, Continue, CreateSession, StartReturns, StartFails, PromptSent, SendMessage,
           TryReconnect, ReconnectReturns, ReconnectFails, PostReturns, PostFails, Interrupt,
           Interrupted, Orderly
  <1>1. ASSUME NEW s \in Session, NEW b \in Bridge, NEW prompt \in BOOLEAN,
               CreateSession(t, s, b, prompt)
        PROVE  Shaped' /\ Attached'
    <2>1. /\ task' \in [Task -> TaskRecords]
          /\ task'[t].pc = "start" /\ task'[t].s = s /\ task'[t].b = b
          /\ \A u \in Task : u # t => task'[u] = task[u]
      BY <1>1 DEF TypeOK, CreateSession, Idle, Pcs, TaskRecords
    <2>2. TypeOK'
      BY <1>1, <2>1 DEF CreateSession, NewBridge, Free, TypeOK, Status, Stage, TaskRecords
    <2>3. ArchivedInactive' /\ MapSound'
      BY <1>1, <2>1 DEF CreateSession, NewBridge, Free, TypeOK, ArchivedInactive, MapSound
    <2>4. ASSUME Orderly, NEW u \in Task
          PROVE  TaskAttached(u)'
      BY <1>1, <2>1, <2>4, OrderlyEnv
         DEF CreateSession, NewBridge, Free, TypeOK, MapSound, TaskAttached, Attached,
             BridgeAttached
    <2>5. ASSUME Orderly, NEW c \in Bridge
          PROVE  BridgeAttached(c)'
      <3>1. /\ BridgeAttached(c) /\ TaskAttached(t)
            /\ "early" \notin env /\ "post" \notin env
        BY <2>5, OrderlyEnv DEF Attached
      <3>2. stage'[c] \in {"new", "up", "loose"} =>
               owner'[c] \in Session /\ active'[owner'[c]] = c /\ ~torn'[c]
        BY <1>1, <2>1, <3>1
           DEF CreateSession, NewBridge, Free, TypeOK, MapSound, TaskAttached,
               BridgeAttached
      <3>3. ASSUME stage'[c] = "new", owner'[c] \notin Codex
            PROVE  \E w \in Task : task'[w].b = c /\ task'[w].pc \in {"start", "reconnect"}
        <4>1. CASE c = b
          BY <2>1, <4>1
        <4>2. CASE c # b
          <5>1. PICK w \in Task : task[w].b = c /\ task[w].pc \in {"start", "reconnect"}
            BY <1>1, <3>1, <3>3, <4>2
               DEF CreateSession, NewBridge, Free, TypeOK, BridgeAttached
          <5>2. task[t].pc = "idle"
            BY <1>1 DEF CreateSession, NewBridge, Free, Idle
          <5>3. QED
            BY <2>1, <5>1, <5>2
        <4>3. QED
          BY <4>1, <4>2
      <3>4. QED
        BY <3>2, <3>3 DEF BridgeAttached
    <2>6. QED
      BY <1>0, <2>2, <2>3, <2>4, <2>5 DEF Shaped, Attached
  <1>2. CASE StartReturns(t)
    <2>1. CASE task[t].prompt /\ task[t].s \notin Codex
      <3>1. /\ task' \in [Task -> TaskRecords]
            /\ task'[t].pc = "agentsMd" /\ task'[t].s = task[t].s /\ task'[t].b = task[t].b
            /\ \A u \in Task : u # t => task'[u] = task[u]
        BY <1>2, <2>1, GoToTask DEF StartReturns, Pcs
      <3>2. TypeOK'
        BY <1>2, <2>1, <3>1 DEF StartReturns, TypeOK, Status, Stage, TaskRecords
      <3>3. ArchivedInactive' /\ MapSound'
        BY <1>2, <2>1, <3>1 DEF StartReturns, TypeOK, ArchivedInactive, MapSound
      <3>4. ASSUME Orderly, NEW u \in Task
            PROVE  TaskAttached(u)'
        <4>1. /\ TaskAttached(u) /\ TaskAttached(t)
              /\ "early" \notin env /\ "post" \notin env
          BY <3>4, OrderlyEnv DEF Attached
        <4>2. CASE u = t
          BY <1>2, <2>1, <3>1, <4>1, <4>2 DEF StartReturns, TypeOK, MapSound, TaskAttached
        <4>3. CASE u # t
          BY <1>2, <2>1, <3>1, <4>1, <4>3 DEF StartReturns, TypeOK, MapSound, TaskAttached
        <4>4. QED
          BY <4>2, <4>3
      <3>5. ASSUME Orderly, NEW c \in Bridge
            PROVE  BridgeAttached(c)'
        BY <1>2, <2>1, <3>1, <3>5, OrderlyEnv
           DEF StartReturns, TypeOK, MapSound, TaskAttached, BridgeAttached, Attached
      <3>6. QED
        BY <1>0, <3>2, <3>3, <3>4, <3>5 DEF Shaped, Attached
    <2>2. CASE ~task[t].prompt \/ task[t].s \in Codex
      <3>1. /\ task' \in [Task -> TaskRecords]
            /\ task'[t].pc = "idle" /\ task'[t].s = NoSession /\ task'[t].b = NoBridge
            /\ \A u \in Task : u # t => task'[u] = task[u]
        BY <1>2, <2>2, ReturnTask DEF StartReturns, Pcs
      <3>2. TypeOK'
        BY <1>2, <2>2, <3>1 DEF StartReturns, TypeOK, Status, Stage, TaskRecords
      <3>3. ArchivedInactive' /\ MapSound'
        BY <1>2, <2>2, <3>1 DEF StartReturns, TypeOK, ArchivedInactive, MapSound
      <3>4. ASSUME Orderly, NEW u \in Task
            PROVE  TaskAttached(u)'
        <4>1. /\ TaskAttached(u) /\ TaskAttached(t)
              /\ "early" \notin env /\ "post" \notin env
          BY <3>4, OrderlyEnv DEF Attached
        <4>2. CASE u = t
          BY <1>2, <2>2, <3>1, <4>1, <4>2 DEF StartReturns, TypeOK, MapSound, TaskAttached
        <4>3. CASE u # t
          BY <1>2, <2>2, <3>1, <4>1, <4>3 DEF StartReturns, TypeOK, MapSound, TaskAttached
        <4>4. QED
          BY <4>2, <4>3
      <3>5. ASSUME Orderly, NEW c \in Bridge
            PROVE  BridgeAttached(c)'
        <4>1. /\ BridgeAttached(c) /\ TaskAttached(t)
              /\ "early" \notin env /\ "post" \notin env
          BY <3>5, OrderlyEnv DEF Attached
        <4>2. stage'[c] \in {"new", "up", "loose"} =>
                 owner'[c] \in Session /\ active'[owner'[c]] = c /\ ~torn'[c]
          BY <1>2, <2>2, <3>1, <4>1
             DEF StartReturns, TypeOK, MapSound, TaskAttached, BridgeAttached
        <4>3. ASSUME stage'[c] = "new", owner'[c] \notin Codex
              PROVE  \E w \in Task : task'[w].b = c /\ task'[w].pc \in {"start", "reconnect"}
          BY <1>2, <2>2, <3>1, <4>1, <4>3
             DEF StartReturns, TypeOK, MapSound, TaskAttached, BridgeAttached
        <4>4. QED
          BY <4>2, <4>3 DEF BridgeAttached
      <3>6. QED
        BY <1>0, <3>2, <3>3, <3>4, <3>5 DEF Shaped, Attached
    <2>3. QED
      BY <2>1, <2>2
  <1>3. CASE StartFails(t)
    <2>1. /\ task' \in [Task -> TaskRecords]
          /\ task'[t].pc = "idle" /\ task'[t].s = NoSession /\ task'[t].b = NoBridge
          /\ \A u \in Task : u # t => task'[u] = task[u]
      BY <1>3, ReturnTask DEF StartFails, InitError, Pcs
    <2>2. TypeOK'
      BY <1>3, <2>1 DEF StartFails, InitError, Cut, TypeOK, Status, Stage, TaskRecords
    <2>3. ArchivedInactive' /\ MapSound'
      BY <1>3, <2>1 DEF StartFails, InitError, Cut, TypeOK, ArchivedInactive, MapSound
    <2>4. ASSUME Orderly, NEW u \in Task
          PROVE  TaskAttached(u)'
      <3>1. /\ TaskAttached(u) /\ TaskAttached(t)
            /\ "early" \notin env /\ "post" \notin env
        BY <2>4, OrderlyEnv DEF Attached
      <3>2. CASE u = t
        BY <1>3, <2>1, <3>1, <3>2
           DEF StartFails, InitError, Cut, TypeOK, MapSound, TaskAttached
      <3>3. CASE u # t
        BY <1>3, <2>1, <3>1, <3>3
           DEF StartFails, InitError, Cut, TypeOK, MapSound, TaskAttached
      <3>4. QED
        BY <3>2, <3>3
    <2>5. ASSUME Orderly, NEW c \in Bridge
          PROVE  BridgeAttached(c)'
      BY <1>3, <2>1, <2>5, OrderlyEnv
         DEF StartFails, InitError, Cut, TypeOK, MapSound, TaskAttached, BridgeAttached,
             Attached
    <2>6. QED
      BY <1>0, <2>2, <2>3, <2>4, <2>5 DEF Shaped, Attached
  <1>4. CASE PromptSent(t)
    <2>1. CASE stage[task[t].b] = "up"
      <3>1. /\ task' \in [Task -> TaskRecords]
            /\ task'[t].pc = "post" /\ task'[t].s = task[t].s /\ task'[t].b = task[t].b
            /\ \A u \in Task : u # t => task'[u] = task[u]
        BY <1>4, <2>1, GoToTask DEF PromptSent, Pcs
      <3>2. TypeOK'
        BY <1>4, <2>1, <3>1 DEF PromptSent, InitError, TypeOK, Status, Stage, TaskRecords
      <3>3. ArchivedInactive' /\ MapSound'
        BY <1>4, <2>1, <3>1 DEF PromptSent, InitError, TypeOK, ArchivedInactive, MapSound
      <3>4. ASSUME Orderly, NEW u \in Task
            PROVE  TaskAttached(u)'
        <4>1. /\ TaskAttached(u) /\ TaskAttached(t)
              /\ "early" \notin env /\ "post" \notin env
          BY <3>4, OrderlyEnv DEF Attached
        <4>2. CASE u = t
          BY <1>4, <2>1, <3>1, <4>1, <4>2
             DEF PromptSent, InitError, TypeOK, MapSound, TaskAttached
        <4>3. CASE u # t
          BY <1>4, <2>1, <3>1, <4>1, <4>3
             DEF PromptSent, InitError, TypeOK, MapSound, TaskAttached
        <4>4. QED
          BY <4>2, <4>3
      <3>5. ASSUME Orderly, NEW c \in Bridge
            PROVE  BridgeAttached(c)'
        BY <1>4, <2>1, <3>1, <3>5, OrderlyEnv
           DEF PromptSent, InitError, TypeOK, MapSound, TaskAttached, BridgeAttached,
               Attached
      <3>6. QED
        BY <1>0, <3>2, <3>3, <3>4, <3>5 DEF Shaped, Attached
    <2>2. CASE stage[task[t].b] # "up"
      <3>1. /\ task' \in [Task -> TaskRecords]
            /\ task'[t].pc = "idle" /\ task'[t].s = NoSession /\ task'[t].b = NoBridge
            /\ \A u \in Task : u # t => task'[u] = task[u]
        BY <1>4, <2>2, ReturnTask DEF PromptSent, InitError, Pcs
      <3>2. TypeOK'
        BY <1>4, <2>2, <3>1 DEF PromptSent, InitError, TypeOK, Status, Stage, TaskRecords
      <3>3. ArchivedInactive' /\ MapSound'
        BY <1>4, <2>2, <3>1 DEF PromptSent, InitError, TypeOK, ArchivedInactive, MapSound
      <3>4. ASSUME Orderly, NEW u \in Task
            PROVE  TaskAttached(u)'
        BY <1>4, <2>2, <3>1, <3>4, OrderlyEnv
           DEF PromptSent, InitError, TypeOK, MapSound, TaskAttached, Attached,
               BridgeAttached
      <3>5. ASSUME Orderly, NEW c \in Bridge
            PROVE  BridgeAttached(c)'
        BY <1>4, <2>2, <3>1, <3>5, OrderlyEnv
           DEF PromptSent, InitError, TypeOK, MapSound, TaskAttached, BridgeAttached,
               Attached
      <3>6. QED
        BY <1>0, <3>2, <3>3, <3>4, <3>5 DEF Shaped, Attached
    <2>3. QED
      BY <2>1, <2>2
  <1>5. ASSUME NEW s \in Session, SendMessage(t, s)
        PROVE  Shaped' /\ Attached'
    <2>1. CASE stage[active[s]] = "up" /\ s \notin Codex
      <3>0. /\ active[s] \in Bridge
            /\ task' = [task EXCEPT ![t] =
                           [Idle EXCEPT !.pc = "post", !.s = s, !.b = active[s]]]
        BY <1>5, <2>1 DEF SendMessage, TypeOK
      <3>1. /\ task' \in [Task -> TaskRecords]
            /\ task'[t].pc = "post" /\ task'[t].s = s /\ task'[t].b = active[s]
            /\ \A u \in Task : u # t => task'[u] = task[u]
        BY <3>0 DEF TypeOK, Idle, Pcs, TaskRecords
      <3>2. TypeOK'
        BY <1>5, <2>1, <3>1, <3>0 DEF SendMessage, TypeOK, Status, Stage, TaskRecords
      <3>3. ArchivedInactive' /\ MapSound'
        BY <1>5, <2>1, <3>1, <3>0 DEF SendMessage, TypeOK, ArchivedInactive, MapSound
      <3>4. ASSUME Orderly, NEW u \in Task
            PROVE  TaskAttached(u)'
        <4>1. /\ TaskAttached(u) /\ TaskAttached(t) /\ BridgeAttached(active[s])
              /\ "early" \notin env /\ "post" \notin env
          BY <3>4, <3>0, OrderlyEnv DEF Attached
        <4>2. CASE u = t
          BY <1>5, <2>1, <3>1, <3>0, <4>1, <4>2
             DEF SendMessage, TypeOK, MapSound, TaskAttached, BridgeAttached
        <4>3. CASE u # t
          BY <1>5, <2>1, <3>1, <3>0, <4>1, <4>3
             DEF SendMessage, TypeOK, MapSound, TaskAttached
        <4>4. QED
          BY <4>2, <4>3
      <3>5. ASSUME Orderly, NEW c \in Bridge
            PROVE  BridgeAttached(c)'
        <4>1. /\ BridgeAttached(c) /\ TaskAttached(t)
              /\ "early" \notin env /\ "post" \notin env
          BY <3>5, OrderlyEnv DEF Attached
        <4>2. stage'[c] \in {"new", "up", "loose"} =>
                 owner'[c] \in Session /\ active'[owner'[c]] = c /\ ~torn'[c]
          BY <1>5, <2>1, <3>1, <3>0, <4>1
             DEF SendMessage, TypeOK, MapSound, TaskAttached, BridgeAttached
        <4>3. ASSUME stage'[c] = "new", owner'[c] \notin Codex
              PROVE  \E w \in Task : task'[w].b = c /\ task'[w].pc \in {"start", "reconnect"}
          <5>1. PICK w \in Task : task[w].b = c /\ task[w].pc \in {"start", "reconnect"}
            BY <1>5, <2>1, <4>1, <4>3 DEF SendMessage, TypeOK, BridgeAttached
          <5>2. task[t].pc = "idle"
            BY <1>5, <2>1 DEF SendMessage, Idle
          <5>3. QED
            BY <3>1, <5>1, <5>2
        <4>4. QED
          BY <4>2, <4>3 DEF BridgeAttached
      <3>6. QED
        BY <1>0, <3>2, <3>3, <3>4, <3>5 DEF Shaped, Attached
    <2>2. CASE stage[active[s]] # "up" \/ s \in Codex
      <3>1. UNCHANGED task
        BY <1>5, <2>2 DEF SendMessage
      <3>2. TypeOK'
        BY <1>5, <2>2, <3>1 DEF SendMessage, TypeOK, Status, Stage, TaskRecords
      <3>3. ArchivedInactive' /\ MapSound'
        BY <1>5, <2>2, <3>1 DEF SendMessage, TypeOK, ArchivedInactive, MapSound
      <3>4. ASSUME Orderly, NEW u \in Task
            PROVE  TaskAttached(u)'
        BY <1>5, <2>2, <3>1, <3>4, OrderlyEnv
           DEF SendMessage, TypeOK, MapSound, TaskAttached, Attached, BridgeAttached
      <3>5. ASSUME Orderly, NEW c \in Bridge
            PROVE  BridgeAttached(c)'
        BY <1>5, <2>2, <3>1, <3>5, OrderlyEnv
           DEF SendMessage, TypeOK, MapSound, TaskAttached, BridgeAttached, Attached
      <3>6. QED
        BY <1>0, <3>2, <3>3, <3>4, <3>5 DEF Shaped, Attached
    <2>3. QED
      BY <2>1, <2>2
  <1>6. ASSUME NEW s \in Session, NEW b \in Bridge, TryReconnect(t, s, b)
        PROVE  Shaped' /\ Attached'
    <2>1. /\ task' \in [Task -> TaskRecords]
          /\ task'[t].pc = "reconnect" /\ task'[t].s = s /\ task'[t].b = b
          /\ \A u \in Task : u # t => task'[u] = task[u]
      BY <1>6 DEF TypeOK, TryReconnect, Idle, Pcs, TaskRecords
    <2>2. TypeOK'
      BY <1>6, <2>1
         DEF TryReconnect, NewBridge, Free, Hold, Reconnects, TypeOK, Status, Stage,
             TaskRecords
    <2>3. ArchivedInactive' /\ MapSound'
      BY <1>6, <2>1
         DEF TryReconnect, NewBridge, Free, Hold, Reconnects, TypeOK, ArchivedInactive,
             MapSound
    <2>4. ASSUME Orderly, NEW u \in Task
          PROVE  TaskAttached(u)'
      BY <1>6, <2>1, <2>4, OrderlyEnv
         DEF TryReconnect, NewBridge, Free, Hold, Reconnects, TypeOK, MapSound,
             TaskAttached, Attached, BridgeAttached
    <2>5. ASSUME Orderly, NEW c \in Bridge
          PROVE  BridgeAttached(c)'
      <3>1. /\ BridgeAttached(c) /\ TaskAttached(t)
            /\ "early" \notin env /\ "post" \notin env
        BY <2>5, OrderlyEnv DEF Attached
      <3>2. stage'[c] \in {"new", "up", "loose"} =>
               owner'[c] \in Session /\ active'[owner'[c]] = c /\ ~torn'[c]
        BY <1>6, <2>1, <3>1
           DEF TryReconnect, NewBridge, Free, Hold, Reconnects, TypeOK, MapSound,
               TaskAttached, BridgeAttached
      <3>3. ASSUME stage'[c] = "new", owner'[c] \notin Codex
            PROVE  \E w \in Task : task'[w].b = c /\ task'[w].pc \in {"start", "reconnect"}
        <4>1. CASE c = b
          BY <2>1, <4>1
        <4>2. CASE c # b
          <5>1. PICK w \in Task : task[w].b = c /\ task[w].pc \in {"start", "reconnect"}
            BY <1>6, <3>1, <3>3, <4>2
               DEF TryReconnect, NewBridge, Free, Hold, Reconnects, TypeOK,
                   BridgeAttached
          <5>2. task[t].pc = "idle"
            BY <1>6 DEF TryReconnect, NewBridge, Free, Hold, Reconnects, Idle
          <5>3. QED
            BY <2>1, <5>1, <5>2
        <4>3. QED
          BY <4>1, <4>2
      <3>4. QED
        BY <3>2, <3>3 DEF BridgeAttached
    <2>6. QED
      BY <1>0, <2>2, <2>3, <2>4, <2>5 DEF Shaped, Attached
  <1>7. CASE ReconnectReturns(t)
    <2>1. /\ task' \in [Task -> TaskRecords]
          /\ task'[t].pc = "post" /\ task'[t].s = task[t].s /\ task'[t].b = task[t].b
          /\ \A u \in Task : u # t => task'[u] = task[u]
      BY <1>7, GoToTask DEF ReconnectReturns, Pcs
    <2>2. TypeOK'
      BY <1>7, <2>1 DEF ReconnectReturns, Connected, TypeOK, Status, Stage, TaskRecords
    <2>3. ArchivedInactive' /\ MapSound'
      BY <1>7, <2>1 DEF ReconnectReturns, Connected, TypeOK, ArchivedInactive, MapSound
    <2>4. ASSUME Orderly, NEW u \in Task
          PROVE  TaskAttached(u)'
      <3>1. /\ TaskAttached(u) /\ TaskAttached(t)
            /\ "early" \notin env /\ "post" \notin env
        BY <2>4, OrderlyEnv DEF Attached
      <3>2. CASE u = t
        BY <1>7, <2>1, <3>1, <3>2
           DEF ReconnectReturns, Connected, TypeOK, MapSound, TaskAttached
      <3>3. CASE u # t
        BY <1>7, <2>1, <3>1, <3>3
           DEF ReconnectReturns, Connected, TypeOK, MapSound, TaskAttached
      <3>4. QED
        BY <3>2, <3>3
    <2>5. ASSUME Orderly, NEW c \in Bridge
          PROVE  BridgeAttached(c)'
      BY <1>7, <2>1, <2>5, OrderlyEnv
         DEF ReconnectReturns, Connected, TypeOK, MapSound, TaskAttached, BridgeAttached,
             Attached
    <2>6. QED
      BY <1>0, <2>2, <2>3, <2>4, <2>5 DEF Shaped, Attached
  <1>8. CASE ReconnectFails(t)
    <2>1. /\ task' \in [Task -> TaskRecords]
          /\ task'[t].pc = "idle" /\ task'[t].s = NoSession /\ task'[t].b = NoBridge
          /\ \A u \in Task : u # t => task'[u] = task[u]
      BY <1>8, ReturnTask DEF ReconnectFails, Pcs
    <2>2. TypeOK'
      BY <1>8, <2>1 DEF ReconnectFails, Cut, TypeOK, Status, Stage, TaskRecords
    <2>3. ArchivedInactive' /\ MapSound'
      BY <1>8, <2>1 DEF ReconnectFails, Cut, TypeOK, ArchivedInactive, MapSound
    <2>4. ASSUME Orderly, NEW u \in Task
          PROVE  TaskAttached(u)'
      BY <1>8, <2>1, <2>4, OrderlyEnv
         DEF ReconnectFails, Cut, TypeOK, MapSound, TaskAttached, Attached,
             BridgeAttached
    <2>5. ASSUME Orderly, NEW c \in Bridge
          PROVE  BridgeAttached(c)'
      BY <1>8, <2>1, <2>5, OrderlyEnv
         DEF ReconnectFails, Cut, TypeOK, MapSound, TaskAttached, BridgeAttached,
             Attached
    <2>6. QED
      BY <1>0, <2>2, <2>3, <2>4, <2>5 DEF Shaped, Attached
  <1>9. CASE PostReturns(t)
    <2>1. /\ task' \in [Task -> TaskRecords]
          /\ task'[t].pc = "idle" /\ task'[t].s = NoSession /\ task'[t].b = NoBridge
          /\ \A u \in Task : u # t => task'[u] = task[u]
      BY <1>9, ReturnTask DEF PostReturns, Pcs
    <2>2. TypeOK'
      BY <1>9, <2>1 DEF PostReturns, TypeOK, Status, Stage, TaskRecords
    <2>3. ArchivedInactive' /\ MapSound'
      BY <1>9, <2>1 DEF PostReturns, TypeOK, ArchivedInactive, MapSound
    <2>4. ASSUME Orderly, NEW u \in Task
          PROVE  TaskAttached(u)'
      BY <1>9, <2>1, <2>4, OrderlyEnv
         DEF PostReturns, TypeOK, MapSound, TaskAttached, Attached, BridgeAttached
    <2>5. ASSUME Orderly, NEW c \in Bridge
          PROVE  BridgeAttached(c)'
      BY <1>9, <2>1, <2>5, OrderlyEnv
         DEF PostReturns, TypeOK, MapSound, TaskAttached, BridgeAttached, Attached
    <2>6. QED
      BY <1>0, <2>2, <2>3, <2>4, <2>5 DEF Shaped, Attached
  <1>10. CASE PostFails(t)
    <2>1. CASE task[t].prompt
      <3>1. /\ task' \in [Task -> TaskRecords]
            /\ task'[t].pc = "idle" /\ task'[t].s = NoSession /\ task'[t].b = NoBridge
            /\ \A u \in Task : u # t => task'[u] = task[u]
        BY <1>10, <2>1, ReturnTask DEF PostFails, InitError, Pcs
      <3>2. TypeOK'
        <4>1. /\ status' \in [Session -> Status]
              /\ active' \in [Session -> Bridge \cup {NoBridge}]
          BY <1>10, <2>1 DEF PostFails, InitError, TypeOK, Status
        <4>2. QED
          BY <1>10, <3>1, <4>1 DEF PostFails, TypeOK, TaskRecords
      <3>3. ArchivedInactive' /\ MapSound'
        BY <1>10, <2>1, <3>1
           DEF PostFails, InitError, Cut, TypeOK, ArchivedInactive, MapSound
      <3>4. ASSUME Orderly, NEW u \in Task
            PROVE  TaskAttached(u)'
        BY <1>10, <2>1, <3>1, <3>4, OrderlyEnv
           DEF PostFails, InitError, Cut, TypeOK, MapSound, TaskAttached, Attached,
               BridgeAttached
      <3>5. ASSUME Orderly, NEW c \in Bridge
            PROVE  BridgeAttached(c)'
        BY <1>10, <2>1, <3>1, <3>5, OrderlyEnv
           DEF PostFails, InitError, Cut, TypeOK, MapSound, TaskAttached, BridgeAttached,
               Attached
      <3>6. QED
        BY <1>0, <3>2, <3>3, <3>4, <3>5 DEF Shaped, Attached
    <2>2. CASE ~task[t].prompt
      <3>1. /\ task' \in [Task -> TaskRecords]
            /\ task'[t].pc = "idle" /\ task'[t].s = NoSession /\ task'[t].b = NoBridge
            /\ \A u \in Task : u # t => task'[u] = task[u]
        BY <1>10, <2>2, ReturnTask DEF PostFails, Pcs
      <3>2. TypeOK'
        BY <1>10, <2>2, <3>1
           DEF PostFails, InitError, Cut, TypeOK, Status, Stage, TaskRecords
      <3>3. ArchivedInactive' /\ MapSound'
        BY <1>10, <2>2, <3>1
           DEF PostFails, InitError, Cut, TypeOK, ArchivedInactive, MapSound
      <3>4. ASSUME Orderly, NEW u \in Task
            PROVE  TaskAttached(u)'
        BY <1>10, <2>2, <3>1, <3>4, OrderlyEnv
           DEF PostFails, InitError, Cut, TypeOK, MapSound, TaskAttached, Attached,
               BridgeAttached
      <3>5. ASSUME Orderly, NEW c \in Bridge
            PROVE  BridgeAttached(c)'
        BY <1>10, <2>2, <3>1, <3>5, OrderlyEnv
           DEF PostFails, InitError, Cut, TypeOK, MapSound, TaskAttached, BridgeAttached,
               Attached
      <3>6. QED
        BY <1>0, <3>2, <3>3, <3>4, <3>5 DEF Shaped, Attached
    <2>3. QED
      BY <2>1, <2>2
  <1>11. ASSUME NEW s \in Session, Interrupt(t, s)
        PROVE  Shaped' /\ Attached'
    <2>1. CASE stage[active[s]] = "up" /\ s \notin Codex
      <3>0. /\ active[s] \in Bridge
            /\ task' = [task EXCEPT ![t] =
                           [Idle EXCEPT !.pc = "abort", !.s = s, !.b = active[s]]]
        BY <1>11, <2>1 DEF Interrupt, TypeOK
      <3>1. /\ task' \in [Task -> TaskRecords]
            /\ task'[t].pc = "abort" /\ task'[t].s = s /\ task'[t].b = active[s]
            /\ \A u \in Task : u # t => task'[u] = task[u]
        BY <3>0 DEF TypeOK, Idle, Pcs, TaskRecords
      <3>2. TypeOK'
        BY <1>11, <2>1, <3>1, <3>0 DEF Interrupt, TypeOK, Status, Stage, TaskRecords
      <3>3. ArchivedInactive' /\ MapSound'
        BY <1>11, <2>1, <3>1, <3>0 DEF Interrupt, TypeOK, ArchivedInactive, MapSound
      <3>4. ASSUME Orderly, NEW u \in Task
            PROVE  TaskAttached(u)'
        <4>1. /\ TaskAttached(u) /\ TaskAttached(t) /\ BridgeAttached(active[s])
              /\ "early" \notin env /\ "post" \notin env
          BY <3>4, <3>0, OrderlyEnv DEF Attached
        <4>2. CASE u = t
          BY <1>11, <2>1, <3>1, <3>0, <4>1, <4>2
             DEF Interrupt, TypeOK, MapSound, TaskAttached, BridgeAttached
        <4>3. CASE u # t
          BY <1>11, <2>1, <3>1, <3>0, <4>1, <4>3
             DEF Interrupt, TypeOK, MapSound, TaskAttached
        <4>4. QED
          BY <4>2, <4>3
      <3>5. ASSUME Orderly, NEW c \in Bridge
            PROVE  BridgeAttached(c)'
        <4>1. /\ BridgeAttached(c) /\ TaskAttached(t)
              /\ "early" \notin env /\ "post" \notin env
          BY <3>5, OrderlyEnv DEF Attached
        <4>2. stage'[c] \in {"new", "up", "loose"} =>
                 owner'[c] \in Session /\ active'[owner'[c]] = c /\ ~torn'[c]
          BY <1>11, <2>1, <3>1, <3>0, <4>1
             DEF Interrupt, TypeOK, MapSound, TaskAttached, BridgeAttached
        <4>3. ASSUME stage'[c] = "new", owner'[c] \notin Codex
              PROVE  \E w \in Task : task'[w].b = c /\ task'[w].pc \in {"start", "reconnect"}
          <5>1. PICK w \in Task : task[w].b = c /\ task[w].pc \in {"start", "reconnect"}
            BY <1>11, <2>1, <4>1, <4>3 DEF Interrupt, TypeOK, BridgeAttached
          <5>2. task[t].pc = "idle"
            BY <1>11, <2>1 DEF Interrupt, Idle
          <5>3. QED
            BY <3>1, <5>1, <5>2
        <4>4. QED
          BY <4>2, <4>3 DEF BridgeAttached
      <3>6. QED
        BY <1>0, <3>2, <3>3, <3>4, <3>5 DEF Shaped, Attached
    <2>2. CASE stage[active[s]] # "up" \/ s \in Codex
      <3>1. UNCHANGED task
        BY <1>11, <2>2 DEF Interrupt
      <3>2. TypeOK'
        BY <1>11, <2>2, <3>1 DEF Interrupt, TypeOK, Status, Stage, TaskRecords
      <3>3. ArchivedInactive' /\ MapSound'
        BY <1>11, <2>2, <3>1 DEF Interrupt, TypeOK, ArchivedInactive, MapSound
      <3>4. ASSUME Orderly, NEW u \in Task
            PROVE  TaskAttached(u)'
        BY <1>11, <2>2, <3>1, <3>4, OrderlyEnv
           DEF Interrupt, TypeOK, MapSound, TaskAttached, Attached, BridgeAttached
      <3>5. ASSUME Orderly, NEW c \in Bridge
            PROVE  BridgeAttached(c)'
        BY <1>11, <2>2, <3>1, <3>5, OrderlyEnv
           DEF Interrupt, TypeOK, MapSound, TaskAttached, BridgeAttached, Attached
      <3>6. QED
        BY <1>0, <3>2, <3>3, <3>4, <3>5 DEF Shaped, Attached
    <2>3. QED
      BY <2>1, <2>2
  <1>12. CASE Interrupted(t)
    <2>1. /\ task' \in [Task -> TaskRecords]
          /\ task'[t].pc = "idle" /\ task'[t].s = NoSession /\ task'[t].b = NoBridge
          /\ \A u \in Task : u # t => task'[u] = task[u]
      BY <1>12, ReturnTask DEF Interrupted, Pcs
    <2>2. TypeOK'
      BY <1>12, <2>1 DEF Interrupted, Cut, TypeOK, Status, Stage, TaskRecords
    <2>3. ArchivedInactive' /\ MapSound'
      BY <1>12, <2>1 DEF Interrupted, Cut, TypeOK, ArchivedInactive, MapSound
    <2>4. ASSUME Orderly, NEW u \in Task
          PROVE  TaskAttached(u)'
      <3>1. /\ TaskAttached(u) /\ TaskAttached(t)
            /\ "early" \notin env /\ "post" \notin env
        BY <2>4, OrderlyEnv DEF Attached
      <3>2. CASE u = t
        BY <1>12, <2>1, <3>1, <3>2 DEF Interrupted, Cut, TypeOK, MapSound, TaskAttached
      <3>3. CASE u # t
        BY <1>12, <2>1, <3>1, <3>3 DEF Interrupted, Cut, TypeOK, MapSound, TaskAttached
      <3>4. QED
        BY <3>2, <3>3
    <2>5. ASSUME Orderly, NEW c \in Bridge
          PROVE  BridgeAttached(c)'
      BY <1>12, <2>1, <2>5, OrderlyEnv
         DEF Interrupted, Cut, TypeOK, MapSound, TaskAttached, BridgeAttached, Attached
    <2>6. QED
      BY <1>0, <2>2, <2>3, <2>4, <2>5 DEF Shaped, Attached
  <1>13. QED
    BY <1>1, <1>2, <1>3, <1>4, <1>5, <1>6, <1>7, <1>8, <1>9, <1>10, <1>11, <1>12
       DEF Begin, Continue

\* A bridge that is destroyed does not listen, unless it was starting and
\* somebody waits for it.
LEMMA DestroyedIsQuiet ==
    ASSUME TypeOK, NEW b \in Bridge
    PROVE  /\ Destroyed(b) \in Stage
           /\ Destroyed(b) \in {"new", "up", "loose"} =>
                 stage[b] = "new" /\ owner[b] \notin Codex
  <1>1. stage[b] \in Stage
    BY DEF TypeOK
  <1>2. QED
    BY <1>1 DEF Destroyed, Stage

\* Archive, teardown, a restart and the agents' events keep it too.
LEMMA ArchiveKeeps ==
    ASSUME IInv, NEW s \in Session, ArchiveSession(s)
    PROVE  IInv'
  <1> USE NoneAssumption DEF IInv, Shaped, SetStatus, SetStage
  <1>1. Orderly' <=> Orderly
    BY DEF ArchiveSession, Orderly
  <1>2. TypeOK'
    BY DEF ArchiveSession, Destroyed, TypeOK, Status, Stage
  <1>3. ArchivedInactive' /\ MapSound'
    BY DEF ArchiveSession, TypeOK, ArchivedInactive, MapSound
  <1>4. ASSUME Orderly
        PROVE  \A t \in Task : task[t].s # s
    BY <1>4, OrderlyEnv DEF ArchiveSession, Calm
  <1>5. ASSUME Orderly, NEW t \in Task
        PROVE  TaskAttached(t)'
    BY <1>4, <1>5 DEF ArchiveSession, Attached, TaskAttached, TypeOK, MapSound
  <1>6. ASSUME Orderly, NEW b \in Bridge
        PROVE  BridgeAttached(b)'
    <2>1. BridgeAttached(b) /\ \A t \in Task : TaskAttached(t)
      BY <1>6 DEF Attached
    <2>2. CASE active[s] = b
      <3>1. ~(stage[b] = "new" /\ owner[b] \notin Codex)
        BY <1>4, <1>6, <2>1, <2>2 DEF BridgeAttached, TaskAttached, MapSound
      <3>2. stage'[b] \notin {"new", "up", "loose"}
        BY <2>2, <3>1, DestroyedIsQuiet DEF ArchiveSession, TypeOK
      <3>3. QED
        BY <3>2 DEF BridgeAttached
    <2>3. CASE active[s] # b
      BY <2>1, <2>3 DEF ArchiveSession, BridgeAttached, TypeOK, MapSound
    <2>4. QED
      BY <2>2, <2>3
  <1>7. QED
    BY <1>1, <1>2, <1>3, <1>5, <1>6 DEF Attached

LEMMA TeardownKeeps ==
    ASSUME IInv, DestroyBridgesForVM
    PROVE  IInv'
  <1> USE NoneAssumption DEF IInv, Shaped
  <1>1. Orderly' <=> Orderly
    BY DEF DestroyBridgesForVM, Orderly
  <1>2. TypeOK'
    <2>1. \A b \in Bridge : Destroyed(b) \in Stage /\ stage[b] \in Stage
      BY DestroyedIsQuiet DEF TypeOK
    <2>2. stage' \in [Bridge -> Stage]
      BY <2>1 DEF DestroyBridgesForVM
    <2>3. active' \in [Session -> Bridge \cup {NoBridge}] /\ torn' \in [Bridge -> BOOLEAN]
      BY DEF DestroyBridgesForVM
    <2>4. QED
      BY <2>2, <2>3 DEF DestroyBridgesForVM, TypeOK, rows
  <1>3. ArchivedInactive' /\ MapSound'
    BY DEF DestroyBridgesForVM, TypeOK, ArchivedInactive, MapSound, rows
  <1>4. ASSUME Orderly
        PROVE  \A t \in Task : task[t].pc = "idle"
    BY <1>4, OrderlyEnv DEF DestroyBridgesForVM, Calm, MapSound
  <1>5. ASSUME Orderly, NEW t \in Task
        PROVE  TaskAttached(t)'
    BY <1>4, <1>5 DEF DestroyBridgesForVM, TaskAttached
  <1>6. ASSUME Orderly, NEW b \in Bridge
        PROVE  BridgeAttached(b)'
    <2>1. BridgeAttached(b)
      BY <1>6 DEF Attached
    <2>2. stage'[b] \notin {"new", "up", "loose"}
      <3>1. ~(stage[b] = "new" /\ owner[b] \notin Codex)
        BY <1>4, <1>6, <2>1 DEF BridgeAttached
      <3>2. CASE b \in {active[s] : s \in Session} \ {NoBridge}
        BY <3>1, <3>2, DestroyedIsQuiet DEF DestroyBridgesForVM
      <3>3. CASE b \notin {active[s] : s \in Session} \ {NoBridge}
        <4>1. stage'[b] = stage[b]
          BY <3>3 DEF DestroyBridgesForVM
        <4>2. QED
          BY <2>1, <3>3, <4>1 DEF BridgeAttached
      <3>4. QED
        BY <3>2, <3>3
    <2>3. QED
      BY <2>2 DEF BridgeAttached
  <1>7. QED
    BY <1>1, <1>2, <1>3, <1>5, <1>6 DEF Attached

LEMMA RestartKeeps ==
    ASSUME IInv, Restart
    PROVE  IInv'
  BY DEF IInv, Shaped, Attached, Restart, TypeOK, ArchivedInactive, MapSound, TaskAttached,
         BridgeAttached, Orderly, Idle, Pcs, Stage, rows

LEMMA EventKeeps ==
    ASSUME IInv, NEW b \in Bridge, Event(b)
    PROVE  IInv'
  <1> USE NoneAssumption DEF IInv, Shaped, SetStatus, SetStage
  <1>1. Orderly' <=> Orderly
    BY DEF Event, TurnCompleted, ErrorEvent, ProcessExit, Orderly
  <1>2. TypeOK'
    BY DEF Event, TurnCompleted, ErrorEvent, ProcessExit, Completed, Failed, TypeOK,
           Status, Stage, bridges
  <1>3. ArchivedInactive' /\ MapSound'
    BY DEF Event, TurnCompleted, ErrorEvent, ProcessExit, Completed, Failed, TypeOK,
           ArchivedInactive, MapSound, bridges
  <1>4. ASSUME Orderly
        PROVE  /\ \A t \in Task : TaskAttached(t)'
               /\ \A c \in Bridge : BridgeAttached(c)'
    BY <1>4 DEF Event, TurnCompleted, ErrorEvent, ProcessExit, TypeOK, MapSound, Attached,
                TaskAttached, BridgeAttached, bridges
  <1>5. QED
    BY <1>1, <1>2, <1>3, <1>4 DEF Attached

LEMMA NextKeeps == IInv /\ [Next]_vars => IInv'
  <1>1. SUFFICES ASSUME IInv, [Next]_vars
                 PROVE  IInv'
    OBVIOUS
  <1>2. CASE UNCHANGED vars
    BY <1>1, <1>2
       DEF IInv, Shaped, Attached, TypeOK, ArchivedInactive, MapSound, TaskAttached,
           BridgeAttached, Orderly, vars, rows, bridges
  <1>3. QED
    BY <1>1, <1>2, TaskKeeps, ArchiveKeeps, TeardownKeeps, RestartKeeps, EventKeeps
       DEF Next, IInv

\* The invariant holds in every reachable state.
THEOREM AgentsSafe == Spec => []IInv
  BY InitIInv, NextKeeps, PTL DEF Spec

-----------------------------------------------------------------------------
(* The properties of the runs.                                             *)

\* The state keeps its shape.
THEOREM AgentsTypeCorrect == Spec => []TypeOK
  BY AgentsSafe, PTL DEF IInv, Shaped

\* An archived session has no bridge, in whatever order things come.
THEOREM ArchivedHaveNoBridge == Spec => []ArchivedInactive
  BY AgentsSafe, PTL DEF IInv, Shaped

\* Bridges that hear are in the map, under the session they belong to.
LEMMA OneListenerFollows == IInv => OneListener
  BY DEF IInv, Attached, BridgeAttached, OneListener, Hears

\* An agent's event reaches its session once.
THEOREM EventsArriveOnce == Spec => []OneListener
  BY AgentsSafe, OneListenerFollows, PTL

LEMMA PostIsHeardFollows == IInv => PostIsHeard
  BY DEF IInv, Shaped, Attached, TaskAttached, MapSound, PostIsHeard, Hears, At

\* The answer to a message is listened for.
THEOREM AnswersAreHeard == Spec => []PostIsHeard
  BY AgentsSafe, PostIsHeardFollows, PTL

\* A session that is archived has no task and no listener, and nobody else
\* writes its status.
LEMMA ArchivedIsLeftAlone ==
    ASSUME IInv, [Next]_vars, Orderly, NEW s \in Session, status[s] = "archived"
    PROVE  status'[s] = "archived"
  <1>1. active[s] = NoBridge /\ status \in [Session -> Status]
    BY DEF IInv, Shaped, ArchivedInactive, TypeOK
  <1>2. \A t \in Task : task[t].pc # "idle" => task[t].s # s
    BY <1>1, NoneAssumption DEF IInv, Shaped, MapSound, Attached, TaskAttached
  <1>3. \A b \in Bridge : Hears(b) => owner[b] # s
    BY <1>1, NoneAssumption DEF IInv, Attached, BridgeAttached, Hears
  <1>4. CASE \E t \in Task : Begin(t)
    <2>1. PICK t \in Task, r \in Session :
             \/ SendMessage(t, r) \/ Interrupt(t, r)
             \/ \E b \in Bridge :
                   TryReconnect(t, r, b) \/ \E prompt \in BOOLEAN : CreateSession(t, r, b, prompt)
      BY <1>4 DEF Begin
    <2>2. CASE SendMessage(t, r) \/ Interrupt(t, r)
      BY <1>1, <2>2 DEF SendMessage, Interrupt, SetStatus
    <2>3. CASE \E b \in Bridge : TryReconnect(t, r, b)
      BY <2>3 DEF TryReconnect, rows
    <2>4. CASE \E b \in Bridge, prompt \in BOOLEAN : CreateSession(t, r, b, prompt)
      BY <1>1, <2>4 DEF CreateSession, SetStatus
    <2>5. QED
      BY <2>1, <2>2, <2>3, <2>4
  <1>5. CASE \E t \in Task : Continue(t)
    BY <1>1, <1>2, <1>5
       DEF Continue, StartReturns, StartFails, PromptSent, ReconnectReturns, ReconnectFails,
           PostReturns, PostFails, Interrupted, InitError, SetStatus, At, rows
  <1>6. CASE \E b \in Bridge : Event(b)
    BY <1>1, <1>3, <1>6
       DEF Event, TurnCompleted, ErrorEvent, ProcessExit, Completed, Failed, SetStatus
  <1>7. CASE \/ \E r \in Session : ArchiveSession(r)
             \/ DestroyBridgesForVM \/ Restart \/ UNCHANGED vars
    BY <1>1, <1>7 DEF ArchiveSession, DestroyBridgesForVM, Restart, SetStatus, rows, vars
  <1>8. QED
    BY <1>4, <1>5, <1>6, <1>7 DEF Next

\* Nothing takes a session out of the archive.
THEOREM ArchiveIsFinal == Spec => ArchivedStays
  <1>1. IInv /\ [Next]_vars =>
           [Orderly => \A s \in Session :
                          status[s] = "archived" => status'[s] = "archived"]_vars
    BY ArchivedIsLeftAlone
  <1>2. QED
    BY <1>1, AgentsSafe, PTL DEF Spec, ArchivedStays
============================================================================
