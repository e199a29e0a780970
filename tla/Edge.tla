-------------------------------- MODULE Edge --------------------------------
(***************************************************************************)
(* How the world reaches a VM without Caddy's help: the wake-on-connect     *)
(* listeners of services/wake-proxy.ts against the NAT rules and the        *)
(* per-VM ip6tables chain of services/firecracker.ts, as creations, clones, *)
(* wakes, snapshots, deletions, the firewall route and a restart of the     *)
(* control plane set them.  What a VM goes through in between is            *)
(* VMLifecycle's; here a part of its life is one step unless somebody may   *)
(* change the edge in the middle of it.                                     *)
(***************************************************************************)
EXTENDS Naturals, FiniteSets

CONSTANTS VMs,      \* identifiers, each drawn once
          NoVM,     \* no VM
          Slots     \* host ports and IPv6 address, allocated together here

ASSUME EdgeAssumption == NoVM \notin VMs

VARIABLES row,      \* vms.status; "new" before the VM, "gone" after it
          slot,     \* the ports and the address of its row
          rules,    \* vms.firewall_rules: SSH only, or another TCP port too
          job,      \* the creation or wake under way
          del,      \* how far a deletion is
          mem,      \* VMs in runningVMs
          nat,      \* VMs whose DNAT and IPv6 NAT rules are set
          chain,    \* the rules in the VM's ip6tables chain
          holder,   \* which VM's server, if any, has the socket
          missed,   \* rules saved when a creation had its own with it
          bare,     \* listeners nobody has bound for the VM, or that found their port
                    \* held by a VM that failed or was deleted
          leaky     \* VMs that may leave listeners behind

rows  == <<row, slot, rules>>
proxy == <<holder, bare>>
vars  == <<rows, job, del, mem, nat, chain, proxy, missed, leaky>>

Kinds == {"app", "ssh", "rule"}  \* host ports; port 22 and a rule's port over IPv6
Rules == {"ssh", "open"}

TypeOK ==
  /\ row \in [VMs -> {"new", "creating", "running", "snapshotted", "stopped",
                      "error", "gone"}]
  /\ slot \in [VMs -> Slots]
  /\ rules \in [VMs -> Rules]
  /\ job \in [VMs -> {"none", "http", "clone", "ssh", "wake", "resumed"}]
  /\ del \in [VMs -> {"none", "engine", "route"}]
  /\ mem \subseteq VMs /\ nat \subseteq VMs
  /\ chain \in [VMs -> Rules \cup {"none"}]
  /\ holder \in [Slots \X Kinds -> VMs \cup {NoVM}]
  /\ missed \subseteq VMs /\ leaky \subseteq VMs
  /\ bare \in [VMs -> SUBSET Kinds]

Exists(v) == row[v] \notin {"new", "gone"}

-----------------------------------------------------------------------------
(* The listeners.                                                           *)

\* collectPorts: port 22 and every TCP rule
PortsOf(r) == IF r = "open" THEN {"ssh", "rule"} ELSE {"ssh"}

Six == {"ssh", "rule"}

\* Faulty: sockets of the old ports are forgotten, not closed.
Forgetting(v, old) == holder

\* The sockets of v among these kinds, closed
Closing(v, old) ==
  [e \in DOMAIN holder |-> IF holder[e] = v /\ e[2] \in old THEN NoVM ELSE holder[e]]

\* bindWakeProxy and bindAppWakeProxy: the old servers are closed, and a new
\* one that finds its port in use is kept without a socket and not tried again.
Bind(v, s, old, new) ==
  LET free == Closing(v, old)
  IN  /\ holder' = [e \in DOMAIN holder |->
                      IF e[1] = s /\ e[2] \in new /\ free[e] = NoVM THEN v ELSE free[e]]
      /\ bare' = [bare EXCEPT ![v] = (@ \ new) \cup
                     {k \in new : free[<<s, k>>] \in leaky \cup {w \in VMs : row[w] = "error"}}]

\* unbindWakeProxy and unbindAppWakeProxy
Unbind(v) ==
  /\ holder' = Closing(v, Kinds)
  /\ UNCHANGED bare

\* addDnat, addIpv6Nat: a rule that is there is not added twice.
AddNat(v) == nat' = nat \cup {v}

\* removeDnat, removeIpv6Nat: every copy of the rules
RemoveNat(v) == nat' = nat \ {v}

\* applyIpv6FirewallRules: the chain is flushed and filled again.
Filtered(v, r) == [chain EXCEPT ![v] = r]

\* removeIpv6FirewallRules
Unfiltered(v) == [chain EXCEPT ![v] = "none"]

\* Who gets a connection to an endpoint of v: a guest for which the host
\* rewrites it, otherwise the socket's owner, which wakes its own VM.
Reached(v, k) ==
  LET guests == {w \in nat : slot[w] = slot[v]}
  IN  IF guests # {} THEN guests ELSE {holder[<<slot[v], k>>]}

Init ==
  /\ row = [v \in VMs |-> "new"]
  /\ slot \in [VMs -> Slots] /\ \A v, w \in VMs : slot[v] = slot[w]
  /\ rules = [v \in VMs |-> "ssh"]
  /\ job = [v \in VMs |-> "none"] /\ del = [v \in VMs |-> "none"]
  /\ mem = {} /\ nat = {}
  /\ chain = [v \in VMs |-> "none"]
  /\ bare = [v \in VMs |-> {}]
  /\ holder = [e \in Slots \X Kinds |-> NoVM]
  /\ missed = {} /\ leaky = {}

-----------------------------------------------------------------------------
(* Creation and cloning.                                                    *)

\* Faulty: a VM that sleeps does not need its ports.
FreeSlotAwake(s) == \A w \in VMs : row[w] \in {"creating", "running"} => slot[w] # s

\* No row that counts has the ports: rows in error do not count.
FreeSlot(s) == \A w \in VMs : Exists(w) /\ row[w] # "error" => slot[w] # s

\* insertVM, on ports that no row had when they were allocated
Insert(v, s, how) ==
  /\ row[v] = "new"
  /\ FreeSlot(s)
  /\ row' = [row EXCEPT ![v] = "creating"]
  /\ slot' = [slot EXCEPT ![v] = s]
  /\ job' = [job EXCEPT ![v] = how]
  /\ UNCHANGED <<rules, del, mem, nat, chain, missed, leaky>>

\* POST /vms binds the listeners, without any rules for lack of them.
Create(v, s) == Insert(v, s, "http") /\ Bind(v, s, Kinds, {"app", "ssh"})

\* So does a clone.
Clone(v, s) == Insert(v, s, "clone") /\ Bind(v, s, Kinds, {"app", "ssh"})

\* The SSH command and the terminal menu do not.
CreateVM(v, s) ==
  /\ Insert(v, s, "ssh")
  /\ bare' = [bare EXCEPT ![v] = Kinds]
  /\ UNCHANGED holder

\* UPDATE vms SET status
SetRow(v, s) == row' = [row EXCEPT ![v] = IF Exists(v) THEN s ELSE @]

\* The rules of a launch: POST /vms hands over the defaults, everybody else
\* lets the engine read the row.
LaunchRules(v) == IF job[v] = "http" THEN "ssh" ELSE rules[v]

\* createAndStartVM sets NAT, chain and runningVMs in one go and returns.
Created(v) ==
  /\ job[v] \in {"http", "clone", "ssh"}
  /\ mem' = mem \cup {v} /\ AddNat(v)
  /\ chain' = Filtered(v, LaunchRules(v))
  /\ SetRow(v, "running")
  /\ job' = [job EXCEPT ![v] = "none"]
  /\ UNCHANGED <<slot, rules, del, proxy, missed, leaky>>

\* The row is taken back; the listeners of POST /vms and of a clone stay.
CreateFails(v) ==
  /\ job[v] \in {"http", "clone", "ssh"}
  /\ SetRow(v, "gone")
  /\ job' = [job EXCEPT ![v] = "none"]
  /\ leaky' = leaky \cup {v}
  /\ UNCHANGED <<slot, rules, del, mem, nat, chain, proxy, missed>>

-----------------------------------------------------------------------------
(* Sleeping and waking.                                                     *)

\* snapshotVM removes NAT and chain and forgets the VM in one go.
Sleep(v) ==
  /\ row[v] = "running" /\ job[v] = "none" /\ v \in mem
  /\ mem' = mem \ {v} /\ RemoveNat(v)
  /\ chain' = Unfiltered(v)
  /\ SetRow(v, "snapshotted")
  /\ missed' = missed \ {v}
  /\ UNCHANGED <<slot, rules, job, del, proxy, leaky>>

Wake(v) ==
  /\ row[v] = "snapshotted" /\ job[v] = "none"
  /\ SetRow(v, "creating")
  /\ job' = [job EXCEPT ![v] = "wake"]
  /\ UNCHANGED <<slot, rules, del, mem, nat, chain, proxy, missed, leaky>>

\* bridgeAfterWake, for a connection to an endpoint of v
Knock(v, k) == \E w \in Reached(v, k) \cap VMs : w \notin nat /\ Wake(w)

\* restoreVM, or a fresh boot: NAT, the rules in the row, runningVMs
Resumed(v) ==
  /\ job[v] = "wake"
  /\ mem' = mem \cup {v} /\ AddNat(v)
  /\ chain' = Filtered(v, rules[v])
  /\ job' = [job EXCEPT ![v] = "resumed"]
  /\ UNCHANGED <<rows, del, proxy, missed, leaky>>

Woken(v) ==
  /\ job[v] = "resumed"
  /\ SetRow(v, "running")
  /\ job' = [job EXCEPT ![v] = "none"]
  /\ UNCHANGED <<slot, rules, del, mem, nat, chain, proxy, missed, leaky>>

WakeFails(v) ==
  /\ job[v] \in {"wake", "resumed"}
  /\ SetRow(v, "error")
  /\ job' = [job EXCEPT ![v] = "none"]
  /\ UNCHANGED <<slot, rules, del, mem, nat, chain, proxy, missed, leaky>>

-----------------------------------------------------------------------------
(* Routes of the owner.                                                     *)

\* Faulty: a running VM keeps its chain until it is restored.
KeepChain(v, r) == UNCHANGED <<chain, missed>>

\* Rules of a VM that is not running wait for its next boot, which in a
\* creation is already under way with its own.
ApplyRules(v, r) ==
  /\ chain' = IF v \in mem THEN Filtered(v, r) ELSE chain
  /\ missed' = IF v \in mem THEN missed \ {v}
               ELSE IF job[v] = "http" THEN missed \cup {v} ELSE missed

\* POST /vms/:id/firewall
SetRules(v, r) ==
  /\ Exists(v)
  /\ rules' = [rules EXCEPT ![v] = r]
  /\ ApplyRules(v, r)
  /\ Bind(v, slot[v], Six, PortsOf(r))
  /\ leaky' = IF del[v] = "none" THEN leaky ELSE leaky \cup {v}
  /\ UNCHANGED <<row, slot, job, del, mem, nat>>

\* A deletion is let through and the teardown begins.
DeleteStarts(v) ==
  /\ Exists(v) /\ del[v] = "none"
  /\ del' = [del EXCEPT ![v] = "engine"]
  /\ UNCHANGED <<rows, job, mem, nat, chain, missed>>

\* DELETE /vms/:id closes the listeners first.
Delete(v) == DeleteStarts(v) /\ Unbind(v) /\ UNCHANGED leaky

\* The SSH command never does.
DeleteVMCmd(v) == DeleteStarts(v) /\ leaky' = leaky \cup {v} /\ UNCHANGED proxy

\* removeVMFull has stopped the VM and removed its rules; removeRoute is
\* awaited next.
Removed(v) ==
  /\ del[v] = "engine"
  /\ mem' = mem \ {v} /\ RemoveNat(v)
  /\ chain' = Unfiltered(v)
  /\ del' = [del EXCEPT ![v] = "route"]
  /\ UNCHANGED <<rows, job, proxy, missed, leaky>>

Deleted(v) ==
  /\ del[v] = "route"
  /\ SetRow(v, "gone")
  /\ del' = [del EXCEPT ![v] = "none"]
  /\ UNCHANGED <<slot, rules, job, mem, nat, chain, proxy, missed, leaky>>

\* The ports a VM with this status listens to
Listening(v, status) ==
  IF status \in {"new", "error", "gone"} THEN {} ELSE {"app"} \cup PortsOf(rules[v])

\* initWakeProxies, of all rows not in error: the first VM on a port gets it.
Proxied(status) ==
  /\ bare' = [v \in VMs |-> bare[v] \ Listening(v, status[v])]
  /\ holder' = [e \in DOMAIN holder |->
       LET claims == {v \in VMs : slot[v] = e[1] /\ e[2] \in Listening(v, status[v])}
       IN  IF claims = {} THEN NoVM ELSE CHOOSE v \in claims : TRUE]

\* The control plane restarts and reconcileRunningVMs finds these VMs dead.
\* Nobody takes rules of other VMs away.
Restart(dead) ==
  /\ row' = [v \in VMs |-> IF v \in dead THEN "stopped" ELSE row[v]]
  /\ mem' = {v \in VMs : row[v] = "running"} \ dead
  /\ nat' = nat \cup mem'
  /\ chain' = [v \in VMs |-> IF v \in mem' THEN rules[v] ELSE chain[v]]
  /\ Proxied(row')
  /\ job' = [v \in VMs |-> "none"] /\ del' = [v \in VMs |-> "none"]
  /\ missed' = {} /\ leaky' = {}
  /\ UNCHANGED <<slot, rules>>

Next ==
  \/ \E v \in VMs :
       \/ \E s \in Slots : Create(v, s) \/ Clone(v, s) \/ CreateVM(v, s)
       \/ Created(v) \/ CreateFails(v)
       \/ Sleep(v) \/ Wake(v) \/ \E k \in Kinds : Knock(v, k)
       \/ Resumed(v) \/ Woken(v) \/ WakeFails(v)
       \/ \E r \in Rules : SetRules(v, r)
       \/ Delete(v) \/ DeleteVMCmd(v) \/ Removed(v) \/ Deleted(v)
  \/ \E dead \in SUBSET {v \in VMs : row[v] = "running"} : Restart(dead)

Spec == Init /\ [][Next]_vars

-----------------------------------------------------------------------------
(* What the edge promises.                                                  *)

\* A VM that runs is filtered by the rules in its row, whenever they were
\* saved, unless that was while POST /vms was creating it.
FirewallCurrent ==
  \A v \in mem : Exists(v) /\ v \notin missed => chain[v] = rules[v]

WantedOf(v) == ({"app"} \cup PortsOf(rules[v])) \ bare[v]

\* The rules of a VM that failed or was deleted in the middle of a boot stay.
Haunted(v) == \E w \in nat \ {v} : slot[w] = slot[v] /\ row[w] \in {"error", "gone"}

\* A connection to a sleeping VM finds the VM's own listener on its host port
\* and on every port its rules open, over any sequence of binds, rebinds,
\* deletions and restarts, unless a listener or a NAT rule that a failure or a
\* deletion left behind was there first.
WakeOnConnect ==
  \A v \in VMs : row[v] = "snapshotted" /\ del[v] = "none" /\ ~Haunted(v) =>
    \A k \in WantedOf(v) : Reached(v, k) = {v} /\ v \notin nat

\* A VM that is gone listens to nothing, unless it was deleted over SSH, its
\* creation failed, or its rules were saved during its deletion.
ProxiesGo ==
  \A e \in DOMAIN holder, v \in VMs \ leaky : holder[e] = v => Exists(v)

=============================================================================
