---------------------------- MODULE PortAllocator ----------------------------
(***************************************************************************)
(* Host resources of a new VM: its three ports, its vsock CID and its      *)
(* public IPv6 address, from allocateResources to the row in the database. *)
(*                                                                         *)
(* Ports and CID are reserved in memory for a while, because the row that  *)
(* will hold them is only inserted after an await.  The three port maps    *)
(* and the CID map change together and their values differ by a constant,  *)
(* so a reservation is the offset from the bases.  Addresses are not       *)
(* reserved.                                                               *)
(***************************************************************************)
EXTENDS Integers

CONSTANTS
    Request,    \* requests that create a VM, and by that the VMs
    Serves,     \* which kind a request may have
    Offsets,    \* how many offsets the port ranges have
    Pool,       \* how many public addresses the pool has
    TTL,        \* RESERVATION_TTL_MS, in ticks
    MaxTime,    \* bound on the clock
    MaxRestarts \* bound on restarts of the control plane

Kind == {"http", "ssh", "clone"}

ASSUME ServesAssumption == Serves \in [Request -> SUBSET Kind]
ASSUME SizesAssumption  == Offsets \in Nat /\ Pool \in Nat
ASSUME TimesAssumption  == TTL \in Nat \ {0} /\ MaxTime \in Nat /\ MaxRestarts \in Nat

VARIABLES
    inflight,   \* offset -> when its reservation expires, 0 when there is none
    req,        \* where each request is, and its local variables
    row,        \* the status of the row of the request's VM
    late,       \* history: rows that came to live without a valid reservation
    now,
    restarts

allocVars == <<inflight, req, row, late, now, restarts>>

Offset  == 0 .. Offsets - 1
Address == 1 .. Pool
NoAddress == 0          \* no pool address left: the internal one is used
Live(q) == row[q] \in {"creating", "active"}    \* status != 'error'

\* r has allocated and not inserted; "until" is when its reservation ends.
Holds(r)      == req[r].pc \in {"allocated", "copying"}
Unexpired(r)  == Holds(r) /\ now < req[r].until

\* Faulty: a reservation ends a tick early.
PrunedEarly(m) == [i \in Offset |-> IF now + 1 >= m[i] THEN 0 ELSE m[i]]

Pruned(m) == [i \in Offset |-> IF now >= m[i] THEN 0 ELSE m[i]]

\* Faulty: only the rows of VMs that are up count.
ActiveOffsets == {req[q].offset : q \in {p \in Request : row[p] = "active"}}

\* getUsedPorts, getUsedCids and getUsedIpv6: the rows that are not in error.
UsedOffsets   == {req[q].offset : q \in {p \in Request : Live(p)}}
UsedAddresses == {req[q].addr : q \in {p \in Request : Live(p)}}

Taken(i, m) == i \in UsedOffsets \/ m[i] # 0

\* releaseReservation.
Released(i) == [inflight EXCEPT ![i] = 0]

\* The request is over; what it wrote into the row stays.
Over(r) == req' = [req EXCEPT ![r].pc = "done", ![r].kind = "http", ![r].until = 0]

-----------------------------------------------------------------------------
\* allocateResources: the first free offset, reserved, and the first address
\* of the pool that no row has.
Allocate(r) ==
    /\ req[r].pc = "idle"
    /\ \E k \in Serves[r], i \in Offset, a \in Address \cup {NoAddress} :
        /\ ~Taken(i, Pruned(inflight))
        /\ \A j \in Offset : j < i => Taken(j, Pruned(inflight))
        /\ IF a = NoAddress
           THEN Address \subseteq UsedAddresses
           ELSE a \notin UsedAddresses /\ \A b \in Address : b < a => b \in UsedAddresses
        /\ inflight' = [Pruned(inflight) EXCEPT ![i] = now + TTL]
        /\ req' = [req EXCEPT ![r] =
                     [kind |-> k, pc |-> IF k = "clone" THEN "copying" ELSE "allocated",
                      offset |-> i, addr |-> a, until |-> now + TTL]]
    /\ UNCHANGED <<row, late, now, restarts>>

\* Every offset is taken: the request fails.
AllocateFails(r) ==
    /\ req[r].pc = "idle"
    /\ \A i \in Offset : Taken(i, Pruned(inflight))
    /\ inflight' = Pruned(inflight)
    /\ Over(r)
    /\ UNCHANGED <<row, late, now, restarts>>

\* The SSH create finds no GitHub token, or the copy of the disks fails: the
\* request ends and the reservation stays.
GivesUp(r) ==
    /\ \/ req[r].pc = "allocated" /\ req[r].kind = "ssh"
       \/ req[r].pc = "copying"
    /\ Over(r)
    /\ UNCHANGED <<inflight, row, late, now, restarts>>

\* The unique indexes on the ports and the CID, over the rows not in error.
IndexAllows(r) == \A q \in Request : Live(q) => req[q].offset # req[r].offset

\* The end of the insertion: only POST /vms releases what it reserved.
AfterInsert(r) ==
    /\ inflight' = IF req[r].kind = "http" THEN Released(req[r].offset) ELSE inflight
    /\ Over(r)

\* insertVM.  A clone gets here when its disks are copied.
Insert(r) ==
    /\ Holds(r) /\ IndexAllows(r)
    /\ row' = [row EXCEPT ![r] = "creating"]
    /\ late' = IF Unexpired(r) THEN late ELSE late \cup {r}
    /\ AfterInsert(r)
    /\ UNCHANGED <<now, restarts>>

\* insertVM throws: an index refuses the offset, or the name is taken.
InsertFails(r) ==
    /\ Holds(r)
    /\ AfterInsert(r)
    /\ UNCHANGED <<row, late, now, restarts>>

-----------------------------------------------------------------------------
(* The row afterwards.                                                     *)

Settles(r) ==
    /\ row[r] = "creating"
    /\ row' = [row EXCEPT ![r] = "active"]
    /\ UNCHANGED <<inflight, req, late, now, restarts>>

\* A wake fails: the row no longer holds its resources.
Errs(r) ==
    /\ row[r] = "active"
    /\ row' = [row EXCEPT ![r] = "error"]
    /\ UNCHANGED <<inflight, req, late, now, restarts>>

\* A snapshot that was under way writes its status over the error.
Revives(r) ==
    /\ row[r] = "error" /\ IndexAllows(r)
    /\ row' = [row EXCEPT ![r] = "active"]
    /\ late' = late \cup {r}
    /\ UNCHANGED <<inflight, req, now, restarts>>

\* Deleted by the user, or by a creation that failed.
Deletes(r) ==
    /\ row[r] \in {"creating", "active", "error"}
    /\ row' = [row EXCEPT ![r] = "deleted"]
    /\ UNCHANGED <<inflight, req, late, now, restarts>>

\* Between allocation and insertion a create only passes through a resolved
\* promise, which takes no time; a clone pauses a guest and copies disks.
Tick ==
    /\ now < MaxTime
    /\ \A r \in Request : req[r].pc # "allocated"
    /\ now' = now + 1
    /\ UNCHANGED <<inflight, req, row, late, restarts>>

\* The reservations and the requests in flight are lost, the rows are not.
Restart ==
    /\ restarts < MaxRestarts
    /\ restarts' = restarts + 1
    /\ inflight' = [i \in Offset |-> 0]
    /\ req' = [r \in Request |-> IF req[r].pc = "idle" THEN req[r]
                                 ELSE [req[r] EXCEPT !.pc = "done", !.kind = "http", !.until = 0]]
    /\ UNCHANGED <<row, late, now>>

AllocInit ==
    /\ inflight = [i \in Offset |-> 0]
    /\ req = [r \in Request |-> [kind |-> "http", pc |-> "idle", offset |-> 0,
                                 addr |-> NoAddress, until |-> 0]]
    /\ row = [r \in Request |-> "none"]
    /\ late = {}
    /\ now = 0
    /\ restarts = 0

AllocNext ==
    \/ \E r \in Request :
          \/ Allocate(r) \/ AllocateFails(r) \/ GivesUp(r)
          \/ Insert(r) \/ InsertFails(r)
          \/ Settles(r) \/ Errs(r) \/ Revives(r) \/ Deletes(r)
    \/ Tick \/ Restart

AllocSpec == AllocInit /\ [][AllocNext]_allocVars

-----------------------------------------------------------------------------
\* The address of a guest in 172.16.0.0/16: its last two octets.
VSOCK_CID_START  == 3
VSOCK_CID_MAX    == 65535
VM_IP_BASE_OCTET == 2
cidToVmIp(cid) == LET offset == cid - VSOCK_CID_START + VM_IP_BASE_OCTET
                  IN  <<offset \div 256, offset % 256>>

-----------------------------------------------------------------------------
(* Properties.                                                             *)

\* The shape of the state.
AllocTypeOK ==
    /\ inflight \in [Offset -> Nat]
    /\ req \in [Request -> [kind : Kind, pc : {"idle", "allocated", "copying", "done"},
                            offset : Nat, addr : Address \cup {NoAddress}, until : Nat]]
    /\ row \in [Request -> {"none", "creating", "active", "error", "deleted"}]
    /\ late \in SUBSET Request
    /\ now \in Nat
    /\ restarts \in Nat

\* port-allocator.ts:19, "Prevents concurrent allocateResources() calls from
\* returning the same port": two requests whose reservations have not run
\* out never hold the same ports, though one may release what it no longer
\* owns, and a third may have held them before.
ReservedAlone ==
    \A r, q \in Request : Unexpired(r) /\ Unexpired(q) /\ r # q
                             => req[r].offset # req[q].offset

\* A request in time is never beaten to its ports by a row, except by the row
\* of a clone whose copy took longer than the reservation lasts, or by a row
\* that left the error state: otherwise insertVM cannot fail on the indexes.
RowsRespectReservations ==
    \A r, q \in Request : Unexpired(r) /\ Live(q) /\ req[q].offset = req[r].offset
                             => q \in late

\* A reservation that counts is in the map under its own expiry: what
\* releases or prunes it earlier would give the ports away.
ReservationsInMap ==
    \A r \in Request : Unexpired(r) => inflight[req[r].offset] = req[r].until

\* ipv6-pool.ts:7, "Each VM gets one address from the pool": no two rows
\* have the same public address.
AddressesDistinct ==
    \A r, q \in Request : Live(r) /\ Live(q) /\ req[r].addr = req[q].addr
                             => r = q \/ req[r].addr = NoAddress

\* What else the proof of the three properties needs: a row comes after the
\* request, only a clone takes time, and a create is never late.
InFlight ==
    \A r \in Request :
        /\ req[r].pc # "done" => row[r] = "none"
        /\ req[r].pc = "copying" => req[r].kind = "clone"
        /\ req[r].pc = "allocated" => now < req[r].until
=============================================================================
