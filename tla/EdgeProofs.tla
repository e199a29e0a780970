----------------------------- MODULE EdgeProofs -----------------------------
(***************************************************************************)
(* For any number of VMs, slots and restarts: the state of Edge keeps its   *)
(* shape, a VM that runs is filtered by its own rules, one that is gone     *)
(* listens to nothing, and a connection to one that sleeps reaches it.      *)
(***************************************************************************)
EXTENDS Edge, TLAPS

Status == {"new", "creating", "running", "snapshotted", "stopped", "error", "gone"}

\* Closing sockets leaves the table as it is otherwise.
LEMMA ClosingFacts ==
  ASSUME TypeOK, NEW v \in VMs, NEW old
  PROVE  /\ Closing(v, old) \in [Slots \X Kinds -> VMs \cup {NoVM}]
         /\ \A e \in Slots \X Kinds :
              Closing(v, old)[e] \in {holder[e], NoVM}
         /\ Kinds \subseteq old => \A e \in Slots \X Kinds : Closing(v, old)[e] # v
<1>1. DOMAIN holder = Slots \X Kinds
  BY DEF TypeOK
<1>2. \A e \in Slots \X Kinds : e[2] \in Kinds
  OBVIOUS
<1>3. v # NoVM
  BY EdgeAssumption
<1> QED
  BY <1>1, <1>2, <1>3 DEF Closing, TypeOK

\* Binding gives sockets to the VM they are bound for, and to nobody else.
LEMMA BindFacts ==
  ASSUME TypeOK, NEW v \in VMs, NEW s \in Slots, NEW old, NEW new \in SUBSET Kinds,
         Bind(v, s, old, new)
  PROVE  /\ holder' \in [Slots \X Kinds -> VMs \cup {NoVM}]
         /\ \A e \in Slots \X Kinds : holder'[e] \in {holder[e], NoVM, v}
         /\ bare' \in [VMs -> SUBSET Kinds]
<1>1. DOMAIN holder = Slots \X Kinds
  BY DEF TypeOK
<1> DEFINE free == Closing(v, old)
<1>2. /\ free \in [Slots \X Kinds -> VMs \cup {NoVM}]
      /\ \A e \in Slots \X Kinds : free[e] \in {holder[e], NoVM}
  BY ClosingFacts
<1>3. /\ holder' = [e \in DOMAIN holder |->
                      IF e[1] = s /\ e[2] \in new /\ free[e] = NoVM THEN v ELSE free[e]]
      /\ bare' = [bare EXCEPT ![v] = (@ \ new) \cup
                     {k \in new : free[<<s, k>>] \in leaky \cup {w \in VMs : row[w] = "error"}}]
  BY Zenon DEF Bind
<1> HIDE DEF free
<1>4. holder' \in [Slots \X Kinds -> VMs \cup {NoVM}]
  BY <1>1, <1>2, <1>3
<1>5. \A e \in Slots \X Kinds : holder'[e] \in {holder[e], NoVM, v}
  BY <1>1, <1>2, <1>3
<1>6. bare' \in [VMs -> SUBSET Kinds]
  BY <1>3 DEF TypeOK
<1> QED
  BY <1>4, <1>5, <1>6

\* A row is written only while there is one.
LEMMA SetRowFacts ==
  ASSUME TypeOK, NEW v \in VMs, NEW s \in Status \ {"new"}, SetRow(v, s)
  PROVE  /\ row' \in [VMs -> Status]
         /\ \A w \in VMs \ {v} : row'[w] = row[w]
         /\ row'[v] = IF Exists(v) THEN s ELSE row[v]
BY DEF TypeOK, SetRow, Exists, Status

-----------------------------------------------------------------------------
(* The state keeps its shape.                                               *)

LEMMA EdgeTypeInit == Init => TypeOK
BY DEF Init, TypeOK, Rules

LEMMA EdgeTypeStep == TypeOK /\ [Next]_vars => TypeOK'
<1> SUFFICES ASSUME TypeOK, [Next]_vars PROVE TypeOK'
  OBVIOUS
<1> USE DEF Status
<1>1. ASSUME NEW v \in VMs, NEW s \in Slots, Create(v, s) \/ Clone(v, s) \/ CreateVM(v, s)
      PROVE  TypeOK'
  <2>1. ASSUME NEW how \in {"http", "clone", "ssh"}, Insert(v, s, how)
        PROVE  /\ row' \in [VMs -> Status] /\ slot' \in [VMs -> Slots]
               /\ rules' \in [VMs -> Rules]
               /\ job' \in [VMs -> {"none", "http", "clone", "ssh", "wake", "resumed"}]
               /\ del' \in [VMs -> {"none", "engine", "route"}]
               /\ mem' \subseteq VMs /\ nat' \subseteq VMs
               /\ chain' \in [VMs -> Rules \cup {"none"}]
               /\ missed' \subseteq VMs /\ leaky' \subseteq VMs
    BY <2>1 DEF TypeOK, Insert
  <2>2. CASE Create(v, s) \/ Clone(v, s)
    <3>1. Bind(v, s, Kinds, {"app", "ssh"}) /\ {"app", "ssh"} \in SUBSET Kinds
      BY <2>2 DEF Create, Clone, Kinds
    <3>2. /\ holder' \in [Slots \X Kinds -> VMs \cup {NoVM}]
          /\ bare' \in [VMs -> SUBSET Kinds]
      BY <3>1, BindFacts
    <3> QED
      BY <2>1, <2>2, <3>2 DEF TypeOK, Create, Clone
  <2>3. CASE CreateVM(v, s)
    BY <2>1, <2>3 DEF TypeOK, CreateVM
  <2> QED
    BY <1>1, <2>2, <2>3
<1>2. ASSUME NEW v \in VMs, Created(v) PROVE TypeOK'
  <2>1. row' \in [VMs -> Status]
    BY <1>2, SetRowFacts DEF Created
  <2>2. LaunchRules(v) \in Rules
    BY DEF LaunchRules, TypeOK, Rules
  <2> QED
    BY <1>2, <2>1, <2>2 DEF TypeOK, Created, AddNat, Filtered, proxy
<1>3. ASSUME NEW v \in VMs, CreateFails(v) PROVE TypeOK'
  <2>1. row' \in [VMs -> Status]
    BY <1>3, SetRowFacts DEF CreateFails
  <2> QED
    BY <1>3, <2>1 DEF TypeOK, CreateFails, proxy
<1>4. ASSUME NEW v \in VMs, Sleep(v) PROVE TypeOK'
  <2>1. row' \in [VMs -> Status]
    BY <1>4, SetRowFacts DEF Sleep
  <2> QED
    BY <1>4, <2>1 DEF TypeOK, Sleep, RemoveNat, Unfiltered, proxy
<1>5. ASSUME NEW v \in VMs, Wake(v) PROVE TypeOK'
  <2>1. row' \in [VMs -> Status]
    BY <1>5, SetRowFacts DEF Wake
  <2> QED
    BY <1>5, <2>1 DEF TypeOK, Wake, proxy
<1>6. ASSUME NEW v \in VMs, Resumed(v) PROVE TypeOK'
  BY <1>6 DEF TypeOK, Resumed, AddNat, Filtered, rows, proxy
<1>7. ASSUME NEW v \in VMs, Woken(v) PROVE TypeOK'
  <2>1. row' \in [VMs -> Status]
    BY <1>7, SetRowFacts DEF Woken
  <2> QED
    BY <1>7, <2>1 DEF TypeOK, Woken, proxy
<1>8. ASSUME NEW v \in VMs, WakeFails(v) PROVE TypeOK'
  <2>1. row' \in [VMs -> Status]
    BY <1>8, SetRowFacts DEF WakeFails
  <2> QED
    BY <1>8, <2>1 DEF TypeOK, WakeFails, proxy
<1>9. ASSUME NEW v \in VMs, NEW r \in Rules, SetRules(v, r) PROVE TypeOK'
  <2>1. Bind(v, slot[v], Six, PortsOf(r)) /\ PortsOf(r) \in SUBSET Kinds /\ slot[v] \in Slots
    BY <1>9 DEF SetRules, PortsOf, Kinds, TypeOK
  <2>2. /\ holder' \in [Slots \X Kinds -> VMs \cup {NoVM}]
        /\ bare' \in [VMs -> SUBSET Kinds]
    BY <2>1, BindFacts
  <2> QED
    BY <1>9, <2>2 DEF TypeOK, SetRules, ApplyRules, Filtered
<1>10. ASSUME NEW v \in VMs, Delete(v) \/ DeleteVMCmd(v) PROVE TypeOK'
  <2>1. CASE Delete(v)
    <3>1. holder' \in [Slots \X Kinds -> VMs \cup {NoVM}] /\ bare' = bare
      BY <2>1, ClosingFacts DEF Delete, Unbind
    <3> QED
      BY <2>1, <3>1 DEF TypeOK, Delete, DeleteStarts, rows
  <2>2. CASE DeleteVMCmd(v)
    BY <2>2 DEF TypeOK, DeleteVMCmd, DeleteStarts, rows, proxy
  <2> QED
    BY <1>10, <2>1, <2>2
<1>11. ASSUME NEW v \in VMs, Removed(v) PROVE TypeOK'
  BY <1>11 DEF TypeOK, Removed, RemoveNat, Unfiltered, rows, proxy
<1>12. ASSUME NEW v \in VMs, Deleted(v) PROVE TypeOK'
  <2>1. row' \in [VMs -> Status]
    BY <1>12, SetRowFacts DEF Deleted
  <2> QED
    BY <1>12, <2>1 DEF TypeOK, Deleted, proxy
<1>13. ASSUME NEW dead \in SUBSET {v \in VMs : row[v] = "running"}, Restart(dead)
       PROVE  TypeOK'
  <2>1. row' \in [VMs -> Status] /\ mem' \subseteq VMs /\ nat' \subseteq VMs
    BY <1>13 DEF Restart, TypeOK
  <2>2. holder' \in [Slots \X Kinds -> VMs \cup {NoVM}] /\ bare' \in [VMs -> SUBSET Kinds]
    BY <1>13 DEF Restart, Proxied, TypeOK
  <2> QED
    BY <1>13, <2>1, <2>2 DEF TypeOK, Restart
<1>14. CASE UNCHANGED vars
  BY <1>14 DEF TypeOK, vars, rows, proxy
<1>15. ASSUME NEW v \in VMs, NEW k \in Kinds, Knock(v, k) PROVE \E w \in VMs : Wake(w)
  BY <1>15 DEF Knock
<1> QED
  BY <1>1, <1>2, <1>3, <1>4, <1>5, <1>6, <1>7, <1>8, <1>9, <1>10, <1>11, <1>12, <1>13,
     <1>14, <1>15 DEF Next

(* The state has its shape in every reachable state of any instance.        *)
THEOREM EdgeTypeCorrect == Spec => []TypeOK
BY EdgeTypeInit, EdgeTypeStep, PTL DEF Spec


-----------------------------------------------------------------------------
(* The firewall.                                                            *)

\* Nothing is under way for a VM that is not there yet; what boots is not in
\* runningVMs; and a creation over HTTP has the default rules in its row, as
\* long as nobody saved others.
FirewallInv ==
  \A v \in VMs :
    /\ row[v] = "new" => rules[v] = "ssh" /\ job[v] = "none" /\ v \notin mem
    /\ job[v] \in {"http", "clone", "ssh"} => v \notin mem
    /\ job[v] = "http" /\ v \notin missed => rules[v] = "ssh"
    /\ v \in mem /\ Exists(v) /\ v \notin missed => chain[v] = rules[v]

LEMMA FirewallInit == Init => FirewallInv
BY DEF Init, FirewallInv, Exists

LEMMA FirewallStep == TypeOK /\ FirewallInv /\ [Next]_vars => FirewallInv'
<1> SUFFICES ASSUME TypeOK, FirewallInv, [Next]_vars PROVE FirewallInv'
  OBVIOUS
<1>1. ASSUME NEW v \in VMs, NEW s \in Slots, Create(v, s) \/ Clone(v, s) \/ CreateVM(v, s)
      PROVE  FirewallInv'
  <2>1. ASSUME NEW how \in {"http", "clone", "ssh"}, Insert(v, s, how)
        PROVE  FirewallInv'
    BY <2>1 DEF Insert, TypeOK, FirewallInv, Exists
  <2> QED
    BY <1>1, <2>1 DEF Create, Clone, CreateVM
<1>2. ASSUME NEW v \in VMs, Created(v) PROVE FirewallInv'
  <2>1. row[v] # "new"
    BY <1>2 DEF Created, FirewallInv
  <2> QED
    BY <1>2, <2>1 DEF Created, SetRow, AddNat, Filtered, LaunchRules, TypeOK, FirewallInv,
                      Exists
<1>3. ASSUME NEW v \in VMs, CreateFails(v) PROVE FirewallInv'
  BY <1>3 DEF CreateFails, SetRow, TypeOK, FirewallInv, Exists
<1>4. ASSUME NEW v \in VMs, Sleep(v) PROVE FirewallInv'
  BY <1>4 DEF Sleep, SetRow, Unfiltered, TypeOK, FirewallInv, Exists
<1>5. ASSUME NEW v \in VMs, Wake(v) PROVE FirewallInv'
  BY <1>5 DEF Wake, SetRow, TypeOK, FirewallInv, Exists
<1>6. ASSUME NEW v \in VMs, Resumed(v) PROVE FirewallInv'
  BY <1>6 DEF Resumed, Filtered, rows, TypeOK, FirewallInv, Exists
<1>7. ASSUME NEW v \in VMs, Woken(v) PROVE FirewallInv'
  BY <1>7 DEF Woken, SetRow, TypeOK, FirewallInv, Exists
<1>8. ASSUME NEW v \in VMs, WakeFails(v) PROVE FirewallInv'
  BY <1>8 DEF WakeFails, SetRow, TypeOK, FirewallInv, Exists
<1>9. ASSUME NEW v \in VMs, NEW r \in Rules, SetRules(v, r) PROVE FirewallInv'
  BY <1>9 DEF SetRules, ApplyRules, Filtered, TypeOK, FirewallInv, Exists
<1>10. ASSUME NEW v \in VMs, Delete(v) \/ DeleteVMCmd(v) PROVE FirewallInv'
  BY <1>10 DEF Delete, DeleteVMCmd, DeleteStarts, rows, FirewallInv, Exists
<1>11. ASSUME NEW v \in VMs, Removed(v) PROVE FirewallInv'
  BY <1>11 DEF Removed, Unfiltered, rows, TypeOK, FirewallInv, Exists
<1>12. ASSUME NEW v \in VMs, Deleted(v) PROVE FirewallInv'
  BY <1>12 DEF Deleted, SetRow, TypeOK, FirewallInv, Exists
<1>13. ASSUME NEW dead \in SUBSET {v \in VMs : row[v] = "running"}, Restart(dead)
       PROVE  FirewallInv'
  BY <1>13 DEF Restart, TypeOK, FirewallInv, Exists
<1>14. CASE UNCHANGED vars
  BY <1>14 DEF vars, rows, FirewallInv, Exists
<1>15. ASSUME NEW v \in VMs, NEW k \in Kinds, Knock(v, k) PROVE \E w \in VMs : Wake(w)
  BY <1>15 DEF Knock
<1> QED
  BY <1>1, <1>2, <1>3, <1>4, <1>5, <1>6, <1>7, <1>8, <1>9, <1>10, <1>11, <1>12, <1>13,
     <1>14, <1>15 DEF Next

(* A VM in runningVMs is filtered by the rules in its row, whenever they    *)
(* were saved, but for those that were saved while POST /vms created it.    *)
THEOREM RunningAreFiltered == Spec => []FirewallCurrent
<1>1. TypeOK /\ FirewallInv => FirewallCurrent
  BY DEF FirewallInv, FirewallCurrent, TypeOK
<1>2. Init => TypeOK /\ FirewallInv
  BY EdgeTypeInit, FirewallInit
<1>3. TypeOK /\ FirewallInv /\ [Next]_vars => (TypeOK /\ FirewallInv)'
  BY EdgeTypeStep, FirewallStep
<1> QED
  BY <1>1, <1>2, <1>3, PTL DEF Spec

-----------------------------------------------------------------------------
(* The listeners.                                                           *)

\* A VM whose deletion is under way has no listeners left, and no deletion
\* is under way of what is not there yet.
ProxyInv ==
  /\ ProxiesGo
  /\ \A v \in VMs : row[v] = "new" => del[v] = "none"
  /\ \A v \in VMs \ leaky : del[v] # "none" => \A e \in Slots \X Kinds : holder[e] # v

LEMMA ProxyInit == Init => ProxyInv
BY EdgeAssumption DEF Init, ProxyInv, ProxiesGo

LEMMA ProxyStep == TypeOK /\ ProxyInv /\ [Next]_vars => ProxyInv'
<1> SUFFICES ASSUME TypeOK, ProxyInv, [Next]_vars PROVE ProxyInv'
  OBVIOUS
<1> USE DEF Status
<1>0. NoVM \notin VMs /\ DOMAIN holder = Slots \X Kinds
  BY EdgeAssumption DEF TypeOK
<1>1. ASSUME NEW v \in VMs, NEW s \in Slots, Create(v, s) \/ Clone(v, s) \/ CreateVM(v, s)
      PROVE  ProxyInv'
  <2>1. ASSUME NEW how \in {"http", "clone", "ssh"}, Insert(v, s, how)
        PROVE  /\ row[v] = "new" /\ row' = [row EXCEPT ![v] = "creating"]
               /\ del' = del /\ leaky' = leaky
    BY <2>1 DEF Insert
  <2>2. /\ row[v] = "new" /\ row' = [row EXCEPT ![v] = "creating"]
        /\ del' = del /\ leaky' = leaky
    BY <1>1, <2>1 DEF Create, Clone, CreateVM
  <2>3. /\ DOMAIN holder' = Slots \X Kinds
        /\ \A e \in Slots \X Kinds : holder'[e] \in {holder[e], NoVM, v}
    <3>1. CASE Create(v, s) \/ Clone(v, s)
      <4>1. Bind(v, s, Kinds, {"app", "ssh"}) /\ {"app", "ssh"} \in SUBSET Kinds
        BY <3>1 DEF Create, Clone, Kinds
      <4> QED
        BY <4>1, BindFacts
    <3>2. CASE CreateVM(v, s)
      BY <1>0, <3>2 DEF CreateVM
    <3> QED
      BY <1>1, <3>1, <3>2
  <2> QED
    BY <1>0, <2>2, <2>3 DEF TypeOK, ProxyInv, ProxiesGo, Exists
<1>2. ASSUME NEW v \in VMs, NEW s \in Status \ {"new", "gone"}, SetRow(v, s),
             UNCHANGED <<del, holder, leaky>>
      PROVE  ProxyInv'
  BY <1>0, <1>2 DEF SetRow, TypeOK, ProxyInv, ProxiesGo, Exists
<1>3. ASSUME NEW v \in VMs, Created(v) \/ Sleep(v) \/ Wake(v) \/ Woken(v) \/ WakeFails(v)
      PROVE  ProxyInv'
  BY <1>2, <1>3 DEF Created, Sleep, Wake, Woken, WakeFails, proxy
<1>4. ASSUME NEW v \in VMs, CreateFails(v) PROVE ProxyInv'
  BY <1>0, <1>4 DEF CreateFails, SetRow, proxy, TypeOK, ProxyInv, ProxiesGo, Exists
<1>5. ASSUME NEW v \in VMs, Resumed(v) PROVE ProxyInv'
  BY <1>5 DEF Resumed, rows, proxy, ProxyInv, ProxiesGo, Exists
<1>6. ASSUME NEW v \in VMs, NEW r \in Rules, SetRules(v, r) PROVE ProxyInv'
  <2>1. Bind(v, slot[v], Six, PortsOf(r)) /\ PortsOf(r) \in SUBSET Kinds /\ slot[v] \in Slots
    BY <1>6 DEF SetRules, PortsOf, Kinds, TypeOK
  <2>2. /\ DOMAIN holder' = Slots \X Kinds
        /\ \A e \in Slots \X Kinds : holder'[e] \in {holder[e], NoVM, v}
    BY <2>1, BindFacts
  <2>3. /\ Exists(v) /\ row' = row /\ del' = del
        /\ leaky' = IF del[v] = "none" THEN leaky ELSE leaky \cup {v}
    BY <1>6 DEF SetRules
  <2> QED
    BY <1>0, <2>2, <2>3 DEF ProxyInv, ProxiesGo, Exists
<1>7. ASSUME NEW v \in VMs, Delete(v) PROVE ProxyInv'
  <2>1. /\ DOMAIN holder' = Slots \X Kinds
        /\ \A e \in Slots \X Kinds : holder'[e] \in {holder[e], NoVM} /\ holder'[e] # v
    BY <1>7, ClosingFacts DEF Delete, Unbind
  <2>2. /\ Exists(v) /\ row' = row /\ leaky' = leaky
        /\ del' = [del EXCEPT ![v] = "engine"]
    BY <1>7 DEF Delete, DeleteStarts, rows
  <2> QED
    BY <1>0, <2>1, <2>2 DEF TypeOK, ProxyInv, ProxiesGo, Exists
<1>8. ASSUME NEW v \in VMs, DeleteVMCmd(v) PROVE ProxyInv'
  BY <1>0, <1>8 DEF DeleteVMCmd, DeleteStarts, rows, proxy, TypeOK, ProxyInv, ProxiesGo, Exists
<1>9. ASSUME NEW v \in VMs, Removed(v) PROVE ProxyInv'
  BY <1>0, <1>9 DEF Removed, rows, proxy, TypeOK, ProxyInv, ProxiesGo, Exists
<1>10. ASSUME NEW v \in VMs, Deleted(v) PROVE ProxyInv'
  BY <1>0, <1>10 DEF Deleted, SetRow, proxy, TypeOK, ProxyInv, ProxiesGo, Exists
<1>11. ASSUME NEW dead \in SUBSET {v \in VMs : row[v] = "running"}, Restart(dead)
       PROVE  ProxyInv'
  <2>1. /\ DOMAIN holder' = Slots \X Kinds
        /\ \A e \in Slots \X Kinds, v \in VMs : holder'[e] = v =>
             e[2] \in Listening(v, row'[v])
    BY <1>0, <1>11 DEF Restart, Proxied
  <2>2. \A v \in VMs : Listening(v, row'[v]) # {} => Exists(v)'
    BY DEF Listening, Exists
  <2>3. /\ \A v \in VMs : del'[v] = "none"
        /\ \A v \in VMs : row'[v] = "new" => row[v] = "new"
    BY <1>11 DEF Restart
  <2> QED
    BY <2>1, <2>2, <2>3 DEF ProxyInv, ProxiesGo
<1>12. CASE UNCHANGED vars
  BY <1>12 DEF vars, rows, proxy, ProxyInv, ProxiesGo, Exists
<1>13. ASSUME NEW v \in VMs, NEW k \in Kinds, Knock(v, k) PROVE \E w \in VMs : Wake(w)
  BY <1>13 DEF Knock
<1> QED
  BY <1>1, <1>3, <1>4, <1>5, <1>6, <1>7, <1>8, <1>9, <1>10, <1>11, <1>12, <1>13 DEF Next

(* No server of a VM that is gone holds a socket, unless the code left it   *)
(* one: a deletion over SSH, a creation that failed, rules saved during the *)
(* deletion.                                                                *)
THEOREM DeletedDoNotListen == Spec => []ProxiesGo
<1>1. Init => TypeOK /\ ProxyInv
  BY EdgeTypeInit, ProxyInit
<1>2. TypeOK /\ ProxyInv /\ [Next]_vars => (TypeOK /\ ProxyInv)'
  BY EdgeTypeStep, ProxyStep
<1>3. ProxyInv => ProxiesGo
  BY DEF ProxyInv
<1> QED
  BY <1>1, <1>2, <1>3, PTL DEF Spec

-----------------------------------------------------------------------------
(* Waking on a connection.                                                   *)

InUse(v) == row[v] \in {"creating", "running", "snapshotted", "stopped"}

\* No two VMs in use have the same ports.
Alone == \A v, w \in VMs : InUse(v) /\ InUse(w) /\ slot[v] = slot[w] => v = w

\* A boot works on a row that says so, unless it was deleted; who is asleep or
\* not yet there has no NAT rules.
BootsOnly ==
  \A v \in VMs :
    /\ job[v] # "none" => row[v] \in {"creating", "gone"}
    /\ row[v] \in {"new", "snapshotted"} => v \notin nat

\* A socket is on the ports of the VM that has it; one that is neither in use nor
\* in error left it behind.
HeldByFew ==
  \A e \in Slots \X Kinds, v \in VMs : holder[e] = v =>
    /\ slot[v] = e[1] /\ row[v] # "new"
    /\ InUse(v) \/ row[v] = "error" \/ v \in leaky

\* What is in use has the sockets it wants, awake or not.
OwnSockets ==
  \A v \in VMs : InUse(v) /\ del[v] = "none" =>
    \A k \in WantedOf(v) : holder[<<slot[v], k>>] = v

WakeInv == Alone /\ BootsOnly /\ HeldByFew /\ OwnSockets

LEMMA WakeInit == Init => WakeInv
BY EdgeAssumption
   DEF Init, WakeInv, Alone, BootsOnly, HeldByFew, OwnSockets, InUse

LEMMA WantedKinds == ASSUME TypeOK, NEW v \in VMs PROVE WantedOf(v) \subseteq Kinds
BY DEF WantedOf, PortsOf, Kinds

\* What binds nothing and brings nothing into use leaves the sockets in order, if
\* what goes out of use without an error holds none or is known to leak.
LEMMA QuietStep ==
  ASSUME TypeOK, WakeInv, TypeOK', UNCHANGED <<slot, rules, holder, bare>>,
         leaky \subseteq leaky',
         \A v \in VMs : InUse(v)' => InUse(v),
         \A v \in VMs : row'[v] = "new" => row[v] = "new",
         \A v \in VMs : InUse(v)' /\ del'[v] = "none" => del[v] = "none",
         \A v \in VMs : InUse(v) \/ row[v] = "error" =>
           \/ InUse(v)' \/ row'[v] = "error" \/ v \in leaky'
           \/ \A e \in Slots \X Kinds : holder[e] # v
  PROVE  Alone' /\ HeldByFew' /\ OwnSockets'
<1>1. Alone'
  BY DEF WakeInv, Alone
<1>2. HeldByFew'
  BY DEF WakeInv, HeldByFew
<1>3. ASSUME NEW v \in VMs PROVE WantedOf(v)' = WantedOf(v)
  BY DEF WantedOf
<1>4. OwnSockets'
  BY <1>3 DEF WakeInv, OwnSockets
<1> QED
  BY <1>1, <1>2, <1>4

LEMMA BootsStep == TypeOK /\ BootsOnly /\ [Next]_vars => BootsOnly'
<1> SUFFICES ASSUME TypeOK, BootsOnly, [Next]_vars PROVE BootsOnly'
  OBVIOUS
<1>1. ASSUME NEW v \in VMs, NEW s \in Slots, Create(v, s) \/ Clone(v, s) \/ CreateVM(v, s)
      PROVE  BootsOnly'
  <2>1. ASSUME NEW how \in {"http", "clone", "ssh"}, Insert(v, s, how)
        PROVE  BootsOnly'
    BY <2>1 DEF Insert, TypeOK, BootsOnly
  <2> QED
    BY <1>1, <2>1 DEF Create, Clone, CreateVM
<1>2. ASSUME NEW v \in VMs, Created(v) \/ Woken(v) PROVE BootsOnly'
  BY <1>2 DEF Created, Woken, SetRow, Exists, AddNat, TypeOK, BootsOnly
<1>3. ASSUME NEW v \in VMs, CreateFails(v) \/ WakeFails(v) \/ Wake(v) PROVE BootsOnly'
  BY <1>3 DEF CreateFails, WakeFails, Wake, SetRow, Exists, TypeOK, BootsOnly
<1>4. ASSUME NEW v \in VMs, Sleep(v) PROVE BootsOnly'
  BY <1>4 DEF Sleep, SetRow, Exists, RemoveNat, TypeOK, BootsOnly
<1>5. ASSUME NEW v \in VMs, Resumed(v) PROVE BootsOnly'
  BY <1>5 DEF Resumed, AddNat, rows, TypeOK, BootsOnly
<1>6. ASSUME NEW v \in VMs, NEW r \in Rules, SetRules(v, r) PROVE BootsOnly'
  BY <1>6 DEF SetRules, BootsOnly
<1>7. ASSUME NEW v \in VMs, Delete(v) \/ DeleteVMCmd(v) PROVE BootsOnly'
  BY <1>7 DEF Delete, DeleteVMCmd, DeleteStarts, rows, BootsOnly
<1>8. ASSUME NEW v \in VMs, Removed(v) PROVE BootsOnly'
  BY <1>8 DEF Removed, RemoveNat, rows, BootsOnly
<1>9. ASSUME NEW v \in VMs, Deleted(v) PROVE BootsOnly'
  BY <1>9 DEF Deleted, SetRow, Exists, TypeOK, BootsOnly
<1>10. ASSUME NEW dead \in SUBSET {v \in VMs : row[v] = "running"}, Restart(dead)
       PROVE  BootsOnly'
  BY <1>10 DEF Restart, TypeOK, BootsOnly
<1>11. CASE UNCHANGED vars
  BY <1>11 DEF vars, rows, BootsOnly
<1>12. ASSUME NEW v \in VMs, NEW k \in Kinds, Knock(v, k) PROVE \E w \in VMs : Wake(w)
  BY <1>12 DEF Knock
<1> QED
  BY <1>1, <1>2, <1>3, <1>4, <1>5, <1>6, <1>7, <1>8, <1>9, <1>10, <1>11, <1>12 DEF Next

\* The steps in which no socket is bound or closed.
LEMMA StatusKeeps ==
  ASSUME TypeOK, ProxyInv, WakeInv, TypeOK', NEW v \in VMs,
         \/ Created(v) \/ CreateFails(v) \/ Sleep(v) \/ Wake(v) \/ Resumed(v) \/ Woken(v)
         \/ WakeFails(v) \/ DeleteVMCmd(v) \/ Removed(v) \/ Deleted(v)
  PROVE  Alone' /\ HeldByFew' /\ OwnSockets'
<1> USE DEF WakeInv
<1>1. CASE Created(v) \/ Woken(v) \/ Sleep(v) \/ Wake(v) \/ WakeFails(v)
  <2>1. /\ UNCHANGED <<slot, rules, holder, bare, del, leaky>>
        /\ \E s \in {"running", "snapshotted", "creating", "error"} : SetRow(v, s)
        /\ row[v] \notin {"new", "error"}
    BY <1>1 DEF Created, Woken, Sleep, Wake, WakeFails, proxy, BootsOnly
  <2>2. \A w \in VMs :
          /\ InUse(w)' => InUse(w)
          /\ row'[w] = "new" => row[w] = "new"
          /\ InUse(w) \/ row[w] = "error" => InUse(w)' \/ row'[w] = "error"
    BY <2>1 DEF SetRow, Exists, InUse, TypeOK
  <2> QED
    BY <2>1, <2>2, QuietStep
<1>2. CASE CreateFails(v)
  <2>1. /\ UNCHANGED <<slot, rules, holder, bare, del>>
        /\ leaky' = leaky \cup {v} /\ SetRow(v, "gone")
    BY <1>2 DEF CreateFails, proxy
  <2>2. \A w \in VMs :
          /\ InUse(w)' => InUse(w)
          /\ row'[w] = "new" => row[w] = "new"
          /\ InUse(w) \/ row[w] = "error" => InUse(w)' \/ row'[w] = "error" \/ w \in leaky'
    BY <2>1 DEF SetRow, Exists, InUse, TypeOK
  <2> QED
    BY <2>1, <2>2, QuietStep
<1>3. CASE Resumed(v)
  <2>1. UNCHANGED <<row, slot, rules, holder, bare, del, leaky>>
    BY <1>3 DEF Resumed, rows, proxy
  <2> QED
    BY <2>1, QuietStep DEF InUse
<1>4. CASE DeleteVMCmd(v)
  <2>1. /\ UNCHANGED <<row, slot, rules, holder, bare>>
        /\ leaky \subseteq leaky' /\ del' = [del EXCEPT ![v] = "engine"]
    BY <1>4 DEF DeleteVMCmd, DeleteStarts, rows, proxy
  <2>2. \A w \in VMs : del'[w] = "none" => del[w] = "none"
    BY <2>1 DEF TypeOK
  <2> QED
    BY <2>1, <2>2, QuietStep DEF InUse
<1>5. CASE Removed(v)
  <2>1. /\ UNCHANGED <<row, slot, rules, holder, bare, leaky>>
        /\ del' = [del EXCEPT ![v] = "route"]
    BY <1>5 DEF Removed, rows, proxy
  <2>2. \A w \in VMs : del'[w] = "none" => del[w] = "none"
    BY <2>1 DEF TypeOK
  <2> QED
    BY <2>1, <2>2, QuietStep DEF InUse
<1>6. CASE Deleted(v)
  <2>1. /\ UNCHANGED <<slot, rules, holder, bare, leaky>>
        /\ SetRow(v, "gone") /\ del' = [del EXCEPT ![v] = "none"] /\ del[v] = "route"
    BY <1>6 DEF Deleted, proxy
  <2>2. \A w \in VMs :
          /\ InUse(w)' => InUse(w) /\ w # v
          /\ row'[w] = "new" => row[w] = "new"
          /\ InUse(w) \/ row[w] = "error" => InUse(w)' \/ row'[w] = "error" \/ w = v
    BY <2>1 DEF SetRow, Exists, InUse, TypeOK
  <2>3. v \in leaky' \/ \A e \in Slots \X Kinds : holder[e] # v
    BY <2>1 DEF ProxyInv
  <2>4. \A w \in VMs : InUse(w)' /\ del'[w] = "none" => del[w] = "none"
    BY <2>1, <2>2 DEF TypeOK
  <2> QED
    BY <2>1, <2>2, <2>3, <2>4, QuietStep
<1> QED
  BY <1>1, <1>2, <1>3, <1>4, <1>5, <1>6

\* Who is in use gets what it wants of its ports, or finds there what a failure
\* or a deletion left; nobody else in use is on them.
LEMMA BindOwns ==
  ASSUME TypeOK, NEW v \in VMs, NEW s \in Slots, NEW old \in SUBSET Kinds,
         NEW new \in SUBSET Kinds, new \subseteq old, Bind(v, s, old, new),
         HeldByFew, \A w \in VMs \ {v} : InUse(w) => slot[w] # s
  PROVE  \A k \in Kinds :
           /\ k \in new \ bare'[v] => holder'[<<s, k>>] = v
           /\ k \notin old => holder'[<<s, k>>] = holder[<<s, k>>]
           /\ k \notin new => (k \in bare'[v] <=> k \in bare[v])
<1> DEFINE free == Closing(v, old)
<1>1. /\ holder' = [e \in DOMAIN holder |->
                      IF e[1] = s /\ e[2] \in new /\ free[e] = NoVM THEN v ELSE free[e]]
      /\ bare' = [bare EXCEPT ![v] = (@ \ new) \cup
                     {k \in new : free[<<s, k>>] \in leaky \cup {w \in VMs : row[w] = "error"}}]
  BY Zenon DEF Bind
<1>2. \A e \in Slots \X Kinds :
        /\ free[e] = IF holder[e] = v /\ e[2] \in old THEN NoVM ELSE holder[e]
        /\ holder[e] \in VMs \cup {NoVM}
  BY DEF Closing, TypeOK
<1>3. bare'[v] = (bare[v] \ new) \cup
                 {k \in new : free[<<s, k>>] \in leaky \cup {w \in VMs : row[w] = "error"}}
  BY <1>1 DEF TypeOK
<1> HIDE DEF free
<1> SUFFICES ASSUME NEW k \in Kinds
             PROVE  /\ k \in new \ bare'[v] => holder'[<<s, k>>] = v
                    /\ k \notin old => holder'[<<s, k>>] = holder[<<s, k>>]
                    /\ k \notin new => (k \in bare'[v] <=> k \in bare[v])
  OBVIOUS
<1> DEFINE e == <<s, k>>
<1>4. e \in Slots \X Kinds /\ e[1] = s /\ e[2] = k
  OBVIOUS
<1>5. holder'[e] = IF k \in new /\ free[e] = NoVM THEN v ELSE free[e]
  BY <1>1, <1>4 DEF TypeOK
<1>6. free[e] = IF holder[e] = v /\ k \in old THEN NoVM ELSE holder[e]
  BY <1>2, <1>4
<1>7. k \in new /\ free[e] # NoVM => k \in bare'[v]
  <2> SUFFICES ASSUME k \in new, free[e] # NoVM PROVE k \in bare'[v]
    OBVIOUS
  <2>1. PICK w \in VMs \ {v} : free[e] = w /\ holder[e] = w
    BY <1>2, <1>4, <1>6
  <2>2. slot[w] = s /\ (InUse(w) \/ row[w] = "error" \/ w \in leaky)
    BY <1>4, <2>1 DEF HeldByFew
  <2> QED
    BY <1>3, <2>1, <2>2
<1> QED
  BY <1>3, <1>5, <1>6, <1>7

\* What others have is left to them.
LEMMA BindSpares ==
  ASSUME TypeOK, NEW v \in VMs, NEW s \in Slots, NEW old \in SUBSET Kinds,
         NEW new \in SUBSET Kinds, Bind(v, s, old, new), NEW w \in VMs \ {v},
         NEW e \in Slots \X Kinds
  PROVE  /\ holder[e] = w <=> holder'[e] = w
         /\ bare'[w] = bare[w]
<1> DEFINE free == Closing(v, old)
<1>1. /\ holder' = [d \in DOMAIN holder |->
                      IF d[1] = s /\ d[2] \in new /\ free[d] = NoVM THEN v ELSE free[d]]
      /\ bare' = [bare EXCEPT ![v] = (@ \ new) \cup
                     {k \in new : free[<<s, k>>] \in leaky \cup {u \in VMs : row[u] = "error"}}]
  BY Zenon DEF Bind
<1>2. free[e] = IF holder[e] = v /\ e[2] \in old THEN NoVM ELSE holder[e]
  BY DEF Closing, TypeOK
<1> HIDE DEF free
<1>3. holder'[e] = IF e[1] = s /\ e[2] \in new /\ free[e] = NoVM THEN v ELSE free[e]
  BY <1>1 DEF TypeOK
<1>4. w # NoVM
  BY EdgeAssumption
<1>5. bare'[w] = bare[w]
  BY <1>1 DEF TypeOK
<1> QED
  BY <1>2, <1>3, <1>4, <1>5

LEMMA InsertKeeps ==
  ASSUME TypeOK, FirewallInv, WakeInv, TypeOK', NEW v \in VMs, NEW s \in Slots,
         Create(v, s) \/ Clone(v, s) \/ CreateVM(v, s)
  PROVE  Alone' /\ HeldByFew' /\ OwnSockets'
<1> USE DEF WakeInv
<1>1. PICK how \in {"http", "clone", "ssh"} : Insert(v, s, how)
  BY DEF Create, Clone, CreateVM
<1>2. /\ row[v] = "new" /\ row' = [row EXCEPT ![v] = "creating"]
      /\ slot' = [slot EXCEPT ![v] = s] /\ UNCHANGED <<rules, del, leaky>>
      /\ \A w \in VMs \ {v} : InUse(w) => slot[w] # s
  BY <1>1 DEF Insert, FreeSlot, Exists, InUse
<1>3. /\ ~InUse(v) /\ InUse(v)' /\ slot'[v] = s
      /\ \A w \in VMs \ {v} : /\ InUse(w)' <=> InUse(w)
                              /\ slot'[w] = slot[w] /\ row'[w] = row[w]
                              /\ rules'[w] = rules[w]
  BY <1>2 DEF TypeOK, InUse
<1>4. /\ \A w \in VMs \ {v}, e \in Slots \X Kinds : holder[e] = w <=> holder'[e] = w
      /\ \A w \in VMs \ {v} : bare'[w] = bare[w]
      /\ \A e \in Slots \X Kinds : holder'[e] = v => e[1] = s
      /\ \A k \in WantedOf(v)' : holder'[<<s, k>>] = v
  <2>1. CASE Create(v, s) \/ Clone(v, s)
    <3> DEFINE new == {"app", "ssh"}
    <3>1. Bind(v, s, Kinds, new) /\ new \in SUBSET Kinds /\ Kinds \in SUBSET Kinds
      BY <2>1 DEF Create, Clone, Kinds
    <3>2. /\ \A w \in VMs \ {v}, e \in Slots \X Kinds : holder[e] = w <=> holder'[e] = w
          /\ \A w \in VMs \ {v} : bare'[w] = bare[w]
      <4>1. <<s, "app">> \in Slots \X Kinds
        BY DEF Kinds
      <4> QED
        BY <3>1, <4>1, BindSpares
    <3>3. \A e \in Slots \X Kinds : holder'[e] = v => e[1] = s
      <4> DEFINE free == Closing(v, Kinds)
      <4>1. holder' = [e \in DOMAIN holder |->
                         IF e[1] = s /\ e[2] \in new /\ free[e] = NoVM THEN v ELSE free[e]]
        BY <3>1, Zenon DEF Bind
      <4>2. \A e \in Slots \X Kinds : free[e] \in {holder[e], NoVM}
        BY ClosingFacts
      <4> HIDE DEF free
      <4>3. \A e \in Slots \X Kinds : holder[e] # v
        BY <1>2 DEF HeldByFew
      <4> QED
        BY <4>1, <4>2, <4>3, EdgeAssumption DEF TypeOK
    <3>4. \A k \in Kinds : k \in new \ bare'[v] => holder'[<<s, k>>] = v
      BY <1>2, <3>1, BindOwns
    <3>5. WantedOf(v)' \subseteq new \ bare'[v]
      BY <1>2 DEF FirewallInv, WantedOf, PortsOf
    <3> QED
      BY <3>1, <3>2, <3>3, <3>4, <3>5 DEF Kinds
  <2>2. CASE CreateVM(v, s)
    <3>1. holder' = holder /\ bare' = [bare EXCEPT ![v] = Kinds]
      BY <2>2 DEF CreateVM
    <3>2. WantedOf(v)' = {}
      BY <3>1 DEF WantedOf, PortsOf, Kinds, TypeOK
    <3> QED
      BY <1>2, <3>1, <3>2 DEF TypeOK, HeldByFew
  <2> QED
    BY <2>1, <2>2
<1>5. Alone'
  BY <1>2, <1>3 DEF Alone
<1>6. HeldByFew'
  <2> SUFFICES ASSUME NEW e \in Slots \X Kinds, NEW w \in VMs, holder'[e] = w
               PROVE  /\ slot'[w] = e[1] /\ row'[w] # "new"
                      /\ InUse(w)' \/ row'[w] = "error" \/ w \in leaky'
    BY DEF HeldByFew
  <2>1. CASE w = v
    BY <1>3, <1>4, <2>1 DEF InUse
  <2>2. CASE w # v
    BY <1>2, <1>3, <1>4, <2>2 DEF HeldByFew
  <2> QED
    BY <2>1, <2>2
<1>7. OwnSockets'
  <2> SUFFICES ASSUME NEW w \in VMs, InUse(w)', del'[w] = "none", NEW k \in WantedOf(w)'
               PROVE  holder'[<<slot'[w], k>>] = w
    BY DEF OwnSockets
  <2>1. CASE w = v
    BY <1>3, <1>4, <2>1
  <2>2. CASE w # v
    <3>1. WantedOf(w)' = WantedOf(w)
      BY <1>3, <1>4, <2>2 DEF WantedOf
    <3>2. <<slot[w], k>> \in Slots \X Kinds
      BY <3>1, WantedKinds DEF TypeOK
    <3> QED
      BY <1>2, <1>3, <1>4, <2>2, <3>1, <3>2 DEF OwnSockets
  <2> QED
    BY <2>1, <2>2
<1> QED
  BY <1>5, <1>6, <1>7

LEMMA SetRulesKeeps ==
  ASSUME TypeOK, WakeInv, TypeOK', NEW v \in VMs, NEW r \in Rules, SetRules(v, r)
  PROVE  Alone' /\ HeldByFew' /\ OwnSockets'
<1> USE DEF WakeInv
<1> DEFINE new == PortsOf(r)
<1>1. /\ Exists(v) /\ UNCHANGED <<row, slot, del>>
      /\ rules' = [rules EXCEPT ![v] = r] /\ leaky \subseteq leaky'
      /\ Bind(v, slot[v], Six, new)
  BY DEF SetRules
<1>2. /\ slot[v] \in Slots /\ Six \in SUBSET Kinds /\ new \in SUBSET Kinds /\ new \subseteq Six
      /\ rules'[v] = r
  BY <1>1 DEF TypeOK, Six, Kinds, PortsOf
<1>3. \A w \in VMs : InUse(w)' <=> InUse(w)
  BY <1>1 DEF InUse
<1>4. \A w \in VMs \ {v}, e \in Slots \X Kinds :
        (holder[e] = w <=> holder'[e] = w) /\ bare'[w] = bare[w]
  BY <1>1, <1>2, BindSpares
<1>5. Alone'
  BY <1>1, <1>3 DEF Alone
<1>6. HeldByFew'
  <2> SUFFICES ASSUME NEW e \in Slots \X Kinds, NEW w \in VMs, holder'[e] = w
               PROVE  /\ slot'[w] = e[1] /\ row'[w] # "new"
                      /\ InUse(w)' \/ row'[w] = "error" \/ w \in leaky'
    BY DEF HeldByFew
  <2>1. CASE w = v /\ holder[e] # v
    <3>1. e[1] = slot[v]
      BY <1>1, <1>2, <2>1, BindFacts, EdgeAssumption DEF Bind, Closing, TypeOK
    <3> QED
      BY <1>1, <1>3, <2>1, <3>1 DEF Exists, InUse, TypeOK
  <2>2. CASE w # v \/ holder[e] = v
    BY <1>1, <1>3, <1>4, <2>2 DEF HeldByFew
  <2> QED
    BY <2>1, <2>2
<1>7. OwnSockets'
  <2> SUFFICES ASSUME NEW w \in VMs, InUse(w)', del'[w] = "none", NEW k \in WantedOf(w)'
               PROVE  holder'[<<slot'[w], k>>] = w
    BY DEF OwnSockets
  <2>1. CASE w = v
    <3>1. k \in Kinds /\ k \notin bare'[v] /\ k \in {"app"} \cup new
      BY <1>2, <2>1 DEF WantedOf, PortsOf, Kinds
    <3>2. \A u \in VMs \ {v} : InUse(u) => slot[u] # slot[v]
      BY <1>3, <2>1 DEF Alone
    <3>3. /\ k \in new \ bare'[v] => holder'[<<slot[v], k>>] = v
          /\ k \notin Six => holder'[<<slot[v], k>>] = holder[<<slot[v], k>>]
          /\ k \notin new => (k \in bare'[v] <=> k \in bare[v])
      BY <1>1, <1>2, <3>1, <3>2, BindOwns
    <3>4. CASE k \in new
      BY <1>1, <2>1, <3>1, <3>3, <3>4
    <3>5. CASE k \notin new
      <4>1. k = "app" /\ k \in WantedOf(v)
        BY <3>1, <3>3, <3>5 DEF WantedOf
      <4>2. holder[<<slot[v], k>>] = v
        BY <1>1, <1>3, <2>1, <4>1 DEF OwnSockets
      <4> QED
        BY <1>1, <2>1, <3>3, <4>1, <4>2 DEF Six
    <3> QED
      BY <3>4, <3>5
  <2>2. CASE w # v
    <3>1. <<slot[w], "app">> \in Slots \X Kinds
      BY DEF TypeOK, Kinds
    <3>2. WantedOf(w)' = WantedOf(w)
      BY <1>1, <1>4, <2>2, <3>1 DEF WantedOf, TypeOK
    <3>3. <<slot[w], k>> \in Slots \X Kinds
      BY <3>2, WantedKinds DEF TypeOK
    <3> QED
      BY <1>1, <1>3, <1>4, <2>2, <3>2, <3>3 DEF OwnSockets
  <2> QED
    BY <2>1, <2>2
<1> QED
  BY <1>5, <1>6, <1>7

LEMMA DeleteKeeps ==
  ASSUME TypeOK, WakeInv, TypeOK', NEW v \in VMs, Delete(v)
  PROVE  Alone' /\ HeldByFew' /\ OwnSockets'
<1> USE DEF WakeInv
<1>1. /\ UNCHANGED <<row, slot, rules, bare, leaky>>
      /\ del' = [del EXCEPT ![v] = "engine"]
      /\ holder' = [e \in DOMAIN holder |->
                      IF holder[e] = v /\ e[2] \in Kinds THEN NoVM ELSE holder[e]]
  BY DEF Delete, DeleteStarts, Unbind, Closing, rows
<1>2. \A e \in Slots \X Kinds :
        holder'[e] = IF holder[e] = v THEN NoVM ELSE holder[e]
  BY <1>1 DEF TypeOK
<1>3. \A w \in VMs : /\ InUse(w)' <=> InUse(w)
                     /\ WantedOf(w)' = WantedOf(w)
                     /\ del'[w] = "none" => w # v /\ del[w] = "none"
  BY <1>1 DEF InUse, WantedOf, TypeOK
<1>4. Alone'
  BY <1>1, <1>3 DEF Alone
<1>5. HeldByFew'
  BY <1>1, <1>2, <1>3, EdgeAssumption DEF HeldByFew
<1>6. OwnSockets'
  <2> SUFFICES ASSUME NEW w \in VMs, InUse(w)', del'[w] = "none", NEW k \in WantedOf(w)'
               PROVE  holder'[<<slot'[w], k>>] = w
    BY DEF OwnSockets
  <2>1. holder[<<slot[w], k>>] = w /\ w # v
    BY <1>3 DEF OwnSockets
  <2>2. <<slot[w], k>> \in Slots \X Kinds
    BY <1>3, WantedKinds DEF TypeOK
  <2> QED
    BY <1>1, <1>2, <2>1, <2>2
<1> QED
  BY <1>4, <1>5, <1>6

LEMMA RestartKeeps ==
  ASSUME TypeOK, WakeInv, TypeOK', NEW dead \in SUBSET {v \in VMs : row[v] = "running"},
         Restart(dead)
  PROVE  Alone' /\ HeldByFew' /\ OwnSockets'
<1> USE DEF WakeInv
<1> DEFINE Claims(e) == {v \in VMs : slot[v] = e[1] /\ e[2] \in Listening(v, row'[v])}
<1>1. /\ UNCHANGED <<slot, rules>>
      /\ row' = [v \in VMs |-> IF v \in dead THEN "stopped" ELSE row[v]]
      /\ bare' = [v \in VMs |-> bare[v] \ Listening(v, row'[v])]
      /\ holder' = [e \in DOMAIN holder |->
           IF Claims(e) = {} THEN NoVM ELSE CHOOSE v \in Claims(e) : TRUE]
  BY DEF Restart, Proxied
<1>2. \A v \in VMs : /\ InUse(v)' <=> InUse(v)
                     /\ row'[v] = "new" => row[v] = "new"
                     /\ Listening(v, row'[v]) = IF InUse(v)
                                                THEN {"app"} \cup PortsOf(rules[v]) ELSE {}
  BY <1>1 DEF InUse, Listening, TypeOK
<1>3. Alone'
  BY <1>1, <1>2 DEF Alone
<1>4. ASSUME NEW e \in Slots \X Kinds, NEW v \in Claims(e)
      PROVE  /\ InUse(v) /\ slot[v] = e[1]
             /\ Claims(e) = {v}
  <2>1. \A w \in Claims(e) : w \in VMs /\ InUse(w) /\ slot[w] = e[1]
    BY <1>2
  <2>2. \A w \in Claims(e) : w = v
    BY <2>1 DEF Alone
  <2> HIDE DEF Claims
  <2> QED
    BY <2>1, <2>2
<1>5. \A e \in Slots \X Kinds :
        holder'[e] = IF Claims(e) = {} THEN NoVM ELSE CHOOSE v \in Claims(e) : TRUE
  BY <1>1 DEF TypeOK
<1>6. \A e \in Slots \X Kinds, v \in VMs : holder'[e] = v <=> v \in Claims(e)
  <2> SUFFICES ASSUME NEW e \in Slots \X Kinds, NEW v \in VMs
               PROVE  holder'[e] = v <=> v \in Claims(e)
    OBVIOUS
  <2> HIDE DEF Claims
  <2>1. CASE Claims(e) = {}
    BY <1>5, <2>1, EdgeAssumption
  <2>2. ASSUME NEW w \in Claims(e) PROVE holder'[e] = v <=> v \in Claims(e)
    <3>1. Claims(e) = {w}
      BY <1>4
    <3>2. holder'[e] = w
      BY <1>5, <3>1
    <3> QED
      BY <3>1, <3>2
  <2> QED
    BY <2>1, <2>2
<1>7. HeldByFew'
  <2> SUFFICES ASSUME NEW e \in Slots \X Kinds, NEW v \in VMs, holder'[e] = v
               PROVE  slot'[v] = e[1] /\ row'[v] # "new" /\ InUse(v)'
    BY DEF HeldByFew
  <2>1. InUse(v) /\ slot[v] = e[1]
    BY <1>4, <1>6
  <2> QED
    BY <1>1, <1>2, <2>1 DEF InUse
<1>8. OwnSockets'
  <2> SUFFICES ASSUME NEW w \in VMs, InUse(w)', NEW k \in WantedOf(w)'
               PROVE  holder'[<<slot'[w], k>>] = w
    BY DEF OwnSockets
  <2>1. k \in Listening(w, row'[w])
    BY <1>1, <1>2 DEF WantedOf
  <2>2. <<slot[w], k>> \in Slots \X Kinds
    BY WantedKinds, <2>1, <1>2 DEF TypeOK, PortsOf, Kinds
  <2>3. w \in Claims(<<slot[w], k>>)
    BY <2>1
  <2> QED
    BY <1>1, <1>6, <2>2, <2>3
<1> QED
  BY <1>3, <1>7, <1>8

LEMMA WakeStep == TypeOK /\ FirewallInv /\ ProxyInv /\ WakeInv /\ [Next]_vars => WakeInv'
<1> SUFFICES ASSUME TypeOK, FirewallInv, ProxyInv, WakeInv, [Next]_vars
             PROVE  Alone' /\ HeldByFew' /\ OwnSockets'
  BY BootsStep DEF WakeInv
<1>1. TypeOK'
  BY EdgeTypeStep
<1>2. ASSUME NEW v \in VMs,
             \/ Created(v) \/ CreateFails(v) \/ Sleep(v) \/ Wake(v) \/ Resumed(v) \/ Woken(v)
             \/ WakeFails(v) \/ DeleteVMCmd(v) \/ Removed(v) \/ Deleted(v)
      PROVE  Alone' /\ HeldByFew' /\ OwnSockets'
  BY <1>1, <1>2, StatusKeeps
<1>3. ASSUME NEW v \in VMs, NEW s \in Slots, Create(v, s) \/ Clone(v, s) \/ CreateVM(v, s)
      PROVE  Alone' /\ HeldByFew' /\ OwnSockets'
  BY <1>1, <1>3, InsertKeeps
<1>4. ASSUME NEW v \in VMs, NEW r \in Rules, SetRules(v, r)
      PROVE  Alone' /\ HeldByFew' /\ OwnSockets'
  BY <1>1, <1>4, SetRulesKeeps
<1>5. ASSUME NEW v \in VMs, Delete(v) PROVE Alone' /\ HeldByFew' /\ OwnSockets'
  BY <1>1, <1>5, DeleteKeeps
<1>6. ASSUME NEW dead \in SUBSET {v \in VMs : row[v] = "running"}, Restart(dead)
      PROVE  Alone' /\ HeldByFew' /\ OwnSockets'
  BY <1>1, <1>6, RestartKeeps
<1>7. CASE UNCHANGED vars
  <2>1. UNCHANGED <<row, slot, rules, holder, bare, del, leaky>>
    BY <1>7 DEF vars, rows, proxy
  <2> QED
    BY <1>1, <2>1, QuietStep DEF InUse
<1>8. ASSUME NEW v \in VMs, NEW k \in Kinds, Knock(v, k) PROVE \E w \in VMs : Wake(w)
  BY <1>8 DEF Knock
<1> QED
  BY <1>2, <1>3, <1>4, <1>5, <1>6, <1>7, <1>8 DEF Next

(* A connection to a sleeping VM reaches the VM's own listener, which wakes  *)
(* it, over any sequence of creations, rules, deletions and restarts.        *)
THEOREM ConnectionsWake == Spec => []WakeOnConnect
<1>1. TypeOK /\ WakeInv => WakeOnConnect
  <2> SUFFICES ASSUME TypeOK, WakeInv, NEW v \in VMs, row[v] = "snapshotted",
                      del[v] = "none", ~Haunted(v), NEW k \in WantedOf(v)
               PROVE  Reached(v, k) = {v} /\ v \notin nat
    BY DEF WakeOnConnect
  <2> USE DEF WakeInv
  <2>1. v \notin nat /\ InUse(v)
    BY DEF BootsOnly, InUse
  <2>2. holder[<<slot[v], k>>] = v
    BY <2>1 DEF OwnSockets
  <2>3. ASSUME NEW w \in nat, slot[w] = slot[v] PROVE FALSE
    <3>1. w \in VMs /\ w # v
      BY <2>1, <2>3 DEF TypeOK
    <3>2. row[w] \notin {"error", "gone"}
      BY <2>3, <3>1 DEF Haunted
    <3>3. row[w] # "new"
      BY <2>3, <3>1 DEF BootsOnly
    <3>4. InUse(w)
      BY <3>1, <3>2, <3>3 DEF InUse, TypeOK
    <3> QED
      BY <2>1, <2>3, <3>1, <3>4 DEF Alone
  <2>4. {w \in nat : slot[w] = slot[v]} = {}
    BY <2>3
  <2> QED
    BY <2>1, <2>2, <2>4 DEF Reached
<1>2. Init => TypeOK /\ FirewallInv /\ ProxyInv /\ WakeInv
  BY EdgeTypeInit, FirewallInit, ProxyInit, WakeInit
<1>3. TypeOK /\ FirewallInv /\ ProxyInv /\ WakeInv /\ [Next]_vars =>
        (TypeOK /\ FirewallInv /\ ProxyInv /\ WakeInv)'
  BY EdgeTypeStep, FirewallStep, ProxyStep, WakeStep
<1> QED
  BY <1>1, <1>2, <1>3, PTL DEF Spec

=============================================================================
