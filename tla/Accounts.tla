------------------------------ MODULE Accounts ------------------------------
(***************************************************************************)
(* Who may do what with a VM, and how much of a plan its owner uses: the    *)
(* tables vms and vm_access as the routes of routes/vms.ts and              *)
(* routes/access.ts, the SSH commands and the wake service read and write   *)
(* them.  better-sqlite3 is synchronous, so a handler is one step up to its *)
(* next await.  The awaits that matter here are the copy of the disks of a  *)
(* clone, the questions of the terminal menu, the boot of a VM and the       *)
(* teardown of a deletion.                                                   *)
(***************************************************************************)
EXTENDS Integers, FiniteSets

CONSTANTS Users,    \* accounts
          VMs,      \* identifiers a create or a clone may draw
          Nobody,   \* no user
          Mem,      \* memory of each VM, in units of the plan
          Disk,     \* disk of each VM
          MaxRam,   \* plan limit on the memory of running VMs
          MaxDisk,  \* plan limit on the disk of all VMs
          Lesser    \* the roles a grant may give: editor, viewer

ASSUME AccountsAssumption ==
  /\ Nobody \notin Users
  /\ IsFiniteSet(VMs)
  /\ Mem \in [VMs -> Nat] /\ Disk \in [VMs -> Nat]
  /\ MaxRam \in Nat /\ MaxDisk \in Nat
  /\ Lesser \subseteq {"editor", "viewer"}

VARIABLES row,      \* vms.status, or "none" when there is no row
          owner,    \* vms.owner_id
          role,     \* vm_access: the role of each user on each VM
          job,      \* the menu, creation, copy or wake under way for the VM
          deleting, \* VMs with a deletion between its check and its end
          late,     \* VMs that were inserted when they no longer fitted
          demoted   \* VMs whose owner granted himself a lesser role

vars == <<row, owner, role, job, deleting, late, demoted>>

Roles == {"none", "owner"} \cup Lesser
Rows  == {"none", "creating", "running", "snapshotted", "stopped", "error"}
Jobs  == {"none", "menu", "copy", "create", "clone", "wake"}

TypeOK ==
  /\ row \in [VMs -> Rows]
  /\ owner \in [VMs -> Users \cup {Nobody}]
  /\ role \in [VMs -> [Users -> Roles]]
  /\ job \in [VMs -> Jobs]
  /\ deleting \subseteq VMs
  /\ late \subseteq VMs
  /\ demoted \subseteq VMs

Init ==
  /\ row = [v \in VMs |-> "none"]
  /\ owner = [v \in VMs |-> Nobody]
  /\ role = [v \in VMs |-> [u \in Users |-> "none"]]
  /\ job = [v \in VMs |-> "none"]
  /\ deleting = {}
  /\ late = {}
  /\ demoted = {}

-----------------------------------------------------------------------------
(* The sums of the quota queries: both join vm_access on the role owner.    *)

Owned(u) == {v \in VMs : row[v] # "none" /\ role[v][u] = "owner"}

\* Faulty: a VM that is coming up is not counted
ProvisionedUp(u) == {v \in Owned(u) : row[v] = "running"}

Provisioned(u) == {v \in Owned(u) : row[v] \in {"running", "creating"}}

Stored(u) == {v \in Owned(u) : row[v] # "error"}

\* What the VMs of a set have of a resource, unit by unit
Units(size, S) == UNION {{v} \X (1..size[v]) : v \in S}

\* The sums, as the number of units
MemOf(S)  == Cardinality(Units(Mem, S))
DiskOf(S) == Cardinality(Units(Disk, S))

\* What a create and a clone ask before they allocate anything.
Fits(u, v) ==
  /\ MemOf(Provisioned(u)) + Mem[v] <= MaxRam
  /\ DiskOf(Stored(u)) + Disk[v] <= MaxDisk

\* What a wake asks: the memory with the VM, the disk as it is.
WakeFits(v) ==
  /\ MemOf(Provisioned(owner[v])) + Mem[v] <= MaxRam
  /\ DiskOf(Stored(owner[v])) <= MaxDisk

-----------------------------------------------------------------------------
(* Creation and cloning.                                                    *)

\* An identifier nobody has used: nanoid draws six characters.
Fresh(v) == row[v] = "none" /\ job[v] = "none" /\ v \notin deleting

\* UPDATE vms SET status, which does nothing when the row is gone
SetRow(v, s) == row' = [row EXCEPT ![v] = IF @ = "none" THEN @ ELSE s]

SetJob(v, j) == job' = [job EXCEPT ![v] = j]

\* insertVM with status creating, and grantAccess of the owner right after it
Insert(u, v, j) ==
  /\ row' = [row EXCEPT ![v] = "creating"]
  /\ owner' = [owner EXCEPT ![v] = u]
  /\ role' = [role EXCEPT ![v][u] = "owner"]
  /\ SetJob(v, j)
  /\ UNCHANGED <<deleting, demoted>>

\* POST /vms and the SSH command: checks, allocation and insertion happen in
\* one go, since the engine of this repository allocates synchronously.
Create(u, v) ==
  /\ Fresh(v)
  /\ Fits(u, v)
  /\ Insert(u, v, "create")
  /\ UNCHANGED late

\* showCreateVM of the terminal menu offers the sizes that fit, and the default
\* disk when none does, and asks for a name, the sizes and a repository.
MenuAsks(u, v) ==
  /\ Fresh(v)
  /\ MemOf(Provisioned(u)) + Mem[v] <= MaxRam
  /\ \/ DiskOf(Stored(u)) + Disk[v] <= MaxDisk
     \/ \A w \in VMs : DiskOf(Stored(u)) + Disk[w] > MaxDisk
  /\ SetJob(v, "menu")
  /\ owner' = [owner EXCEPT ![v] = u]
  /\ UNCHANGED <<row, role, deleting, late, demoted>>

\* POST /vms/:id/clone up to the copy of the disks.  Any role on the source
\* will do, and the quota asked is the requester's, who gets the copy.
CloneCheck(u, s, v) ==
  /\ Fresh(v)
  /\ row[s] \in {"running", "snapshotted"} /\ role[s][u] # "none"
  /\ Mem[v] = Mem[s] /\ Disk[v] = Disk[s]
  /\ Fits(u, v)
  /\ SetJob(v, "copy")
  /\ owner' = [owner EXCEPT ![v] = u]
  /\ UNCHANGED <<row, role, deleting, late, demoted>>

\* What was asked before the wait is not asked again.
Overtaken(v) == IF Fits(owner[v], v) THEN late ELSE late \cup {v}

\* The disks are copied, and the row is inserted.
CloneInsert(v) ==
  /\ job[v] = "copy"
  /\ late' = Overtaken(v)
  /\ Insert(owner[v], v, "clone")

\* The last question is answered, and the row is inserted.
MenuInsert(v) ==
  /\ job[v] = "menu"
  /\ late' = Overtaken(v)
  /\ Insert(owner[v], v, "create")

\* cloneDisks or insertVM throws, or the user leaves the menu: there was no row
\* and there will be none.
GivesUp(v) ==
  /\ job[v] \in {"copy", "menu"}
  /\ SetJob(v, "none")
  /\ owner' = [owner EXCEPT ![v] = Nobody]
  /\ UNCHANGED <<row, role, deleting, late, demoted>>

BootDone(v) ==
  /\ job[v] \in {"create", "clone", "wake"}
  /\ SetRow(v, "running")
  /\ SetJob(v, "none")
  /\ UNCHANGED <<owner, role, deleting, late, demoted>>

\* Faulty: deleteVM without revokeAllAccess
EraseRow(v) ==
  /\ row' = [row EXCEPT ![v] = "none"]
  /\ owner' = [owner EXCEPT ![v] = Nobody]
  /\ late' = late \ {v}
  /\ demoted' = demoted \ {v}
  /\ UNCHANGED role

\* revokeAllAccess, then deleteVM
Erase(v) ==
  /\ row' = [row EXCEPT ![v] = "none"]
  /\ owner' = [owner EXCEPT ![v] = Nobody]
  /\ role' = [role EXCEPT ![v] = [u \in Users |-> "none"]]
  /\ late' = late \ {v}
  /\ demoted' = demoted \ {v}

\* A creation that fails takes its row and its access entries away.
CreateFails(v) ==
  /\ job[v] \in {"create", "clone"}
  /\ Erase(v)
  /\ SetJob(v, "none")
  /\ UNCHANGED deleting

-----------------------------------------------------------------------------
(* Sleeping and waking.                                                     *)

\* ensureVMRunning: whoever asks, the owner's plan decides.
Wake(v) ==
  /\ row[v] = "snapshotted"
  /\ WakeFits(v)
  /\ SetRow(v, "creating")
  /\ SetJob(v, "wake")
  /\ UNCHANGED <<owner, role, deleting, late, demoted>>

\* A wake that fails leaves the row in error, and the access as it was.
WakeFails(v) ==
  /\ job[v] = "wake"
  /\ SetRow(v, "error")
  /\ SetJob(v, "none")
  /\ UNCHANGED <<owner, role, deleting, late, demoted>>

\* The pause route is the owner's; the poll lists only VMs that have one.
Sleep(v) ==
  /\ row[v] = "running"
  /\ \E u \in Users : role[v][u] = "owner"
  /\ SetRow(v, "snapshotted")
  /\ UNCHANGED <<owner, role, job, deleting, late, demoted>>

\* Startup: a running row without a process becomes snapshotted or stopped,
\* and what handlers had under way is gone with the old process.
Restart ==
  /\ \E dead \in SUBSET {v \in VMs : row[v] = "running"} :
       \E imaged \in SUBSET dead :
         row' = [v \in VMs |-> IF v \notin dead THEN row[v]
                               ELSE IF v \in imaged THEN "snapshotted" ELSE "stopped"]
  /\ owner' = [v \in VMs |-> IF row[v] = "none" THEN Nobody ELSE owner[v]]
  /\ job' = [v \in VMs |-> "none"]
  /\ deleting' = {}
  /\ UNCHANGED <<role, late, demoted>>

-----------------------------------------------------------------------------
(* Deletion and access.                                                     *)

\* Faulty: any access is enough
Visits(u, v) == row[v] # "none" /\ role[v][u] # "none"

Manages(u, v) == row[v] # "none" /\ role[v][u] = "owner"

\* DELETE /vms/:id checks the role, whatever the VM is doing, and then awaits
\* the hook, the teardown and the proxy.
DeleteCheck(u, v) ==
  /\ Manages(u, v)
  /\ v \notin deleting
  /\ deleting' = deleting \cup {v}
  /\ UNCHANGED <<row, owner, role, job, late, demoted>>

DeleteRow(v) ==
  /\ v \in deleting
  /\ Erase(v)
  /\ deleting' = deleting \ {v}
  /\ UNCHANGED job

\* POST /vms/:id/access with a role: INSERT OR REPLACE of the target's entry,
\* the caller's own included.
Grant(u, v, t, r) ==
  /\ Manages(u, v)
  /\ role' = [role EXCEPT ![v][t] = r]
  /\ demoted' = IF t = u THEN demoted \cup {v} ELSE demoted
  /\ UNCHANGED <<row, owner, job, deleting, late>>

\* The same route without a role.
Revoke(u, v, t) ==
  /\ Manages(u, v)
  /\ role[v][t] # "owner"
  /\ role' = [role EXCEPT ![v][t] = "none"]
  /\ UNCHANGED <<row, owner, job, deleting, late, demoted>>

Next ==
  \/ \E u \in Users, v \in VMs :
       \/ Create(u, v) \/ MenuAsks(u, v)
       \/ \E s \in VMs : CloneCheck(u, s, v)
       \/ DeleteCheck(u, v)
       \/ \E t \in Users : Revoke(u, v, t) \/ \E r \in Lesser : Grant(u, v, t, r)
  \/ \E v \in VMs :
       \/ CloneInsert(v) \/ MenuInsert(v) \/ GivesUp(v)
       \/ BootDone(v) \/ CreateFails(v)
       \/ Wake(v) \/ WakeFails(v) \/ Sleep(v)
       \/ DeleteRow(v)
  \/ Restart

Spec == Init /\ [][Next]_vars

-----------------------------------------------------------------------------
(* What the tables promise.                                                 *)

\* The VMs an owner has running or coming up stay within the memory of his
\* plan, and all he has within its disk, except for clones and menus whose check
\* was out of date by the time of the insertion: nothing else that handlers do
\* between each other's awaits, no wake, failed boot, restart or change of role,
\* passes the limits.
WithinPlan ==
  \A u \in Users :
    /\ MemOf(Provisioned(u) \ late) <= MaxRam
    /\ DiskOf(Stored(u) \ late) <= MaxDisk

\* Every VM is owned by the user who created it and by nobody else, unless he
\* demoted himself; the poll's INNER JOIN lists a VM only through that entry,
\* so a VM without it would run unmetered and never sleep.
OwnerKnown ==
  \A v \in VMs : row[v] # "none" =>
    LET owners == {u \in Users : role[v][u] = "owner"}
    IN  IF v \in demoted THEN owners = {} ELSE owners = {owner[v]}

\* No entry of vm_access outlives its VM: neither a grant made while the VM is
\* being deleted nor the rollback of a failed creation leaves one behind.
AccessNeedsRow ==
  \A v \in VMs, u \in Users : role[v][u] # "none" => row[v] # "none"

=============================================================================
