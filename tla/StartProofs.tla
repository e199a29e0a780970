---------------------------- MODULE StartProofs ----------------------------
(***************************************************************************)
(* Two things a VM begins with, which share nothing but this module.        *)
(*                                                                         *)
(* PortAllocator, for any number of requests, ports and addresses, and for  *)
(* clones of any duration: two requests never hold the same ports.          *)
(*                                                                         *)
(* OpenCodeStart, for every number of callers: the state keeps its shape,   *)
(* the lock tells who is inside, nobody is stranded at the tracker, and the *)
(* whole does what StartOnce promises, whatever fails and whatever pgrep    *)
(* says; and one server is running if pgrep answers right.                  *)
(***************************************************************************)
EXTENDS PortAllocator, OpenCodeStart, FiniteSetTheorems, TLAPS

-----------------------------------------------------------------------------
(* Reserving ports.                                                        *)

Locals == [kind : Kind, pc : {"idle", "allocated", "copying", "done"},
           offset : Nat, addr : Address \cup {NoAddress}, until : Nat]

\* A request in flight holds an offset of the range.
InRange == \A r \in Request : Holds(r) => req[r].offset \in Offset

\* Only request r changes, and it changes to k.
Becomes(r, k) == req' = [req EXCEPT ![r] = k]

Ended(r) == [req[r] EXCEPT !.pc = "done", !.kind = "http", !.until = 0]

LEMMA OverIsEnded ==
    ASSUME AllocTypeOK, NEW r \in Request, Over(r)
    PROVE  /\ Becomes(r, Ended(r)) /\ Ended(r) \in Locals
           /\ Ended(r).pc = "done" /\ Ended(r).offset = req[r].offset
BY DEF AllocTypeOK, Over, Becomes, Ended, Locals, Kind

LEMMA PrunedType == ASSUME AllocTypeOK PROVE Pruned(inflight) \in [Offset -> Nat]
BY DEF AllocTypeOK, Pruned

LEMMA ReleasedType ==
    ASSUME AllocTypeOK, NEW i PROVE Released(i) \in [Offset -> Nat]
BY DEF AllocTypeOK, Released

\* What Allocate(r) establishes about the offset it takes.
LEMMA AllocateTakes ==
    ASSUME AllocTypeOK, NEW r \in Request, Allocate(r)
    PROVE  \E k \in Locals :
             /\ Becomes(r, k) /\ req[r].pc = "idle"
             /\ k.offset \in Offset /\ ~Taken(k.offset, Pruned(inflight))
             /\ k.pc \in {"allocated", "copying"} /\ k.until = now + TTL
             /\ k.pc = "copying" => k.kind = "clone"
             /\ inflight' = [Pruned(inflight) EXCEPT ![k.offset] = now + TTL]
<1>1. PICK kd \in Serves[r], i \in Offset, a \in Address \cup {NoAddress} :
        /\ ~Taken(i, Pruned(inflight))
        /\ inflight' = [Pruned(inflight) EXCEPT ![i] = now + TTL]
        /\ req' = [req EXCEPT ![r] =
                     [kind |-> kd, pc |-> IF kd = "clone" THEN "copying" ELSE "allocated",
                      offset |-> i, addr |-> a, until |-> now + TTL]]
  BY DEF Allocate
<1> DEFINE k == [kind |-> kd, pc |-> IF kd = "clone" THEN "copying" ELSE "allocated",
                 offset |-> i, addr |-> a, until |-> now + TTL]
<1>2. kd \in Kind /\ i \in Nat /\ now + TTL \in Nat
  BY ServesAssumption, SizesAssumption, TimesAssumption DEF Offset, AllocTypeOK
<1>3. k \in Locals
  BY <1>2 DEF Locals
<1> WITNESS k \in Locals
<1> QED BY <1>1 DEF Becomes, Allocate

LEMMA TypeStep == ASSUME AllocTypeOK, [AllocNext]_allocVars PROVE AllocTypeOK'
<1> USE DEF Locals
<1>1. ASSUME NEW r \in Request, Allocate(r) PROVE AllocTypeOK'
  <2>1. PICK k \in Locals : Becomes(r, k) /\ k.offset \in Offset
             /\ inflight' = [Pruned(inflight) EXCEPT ![k.offset] = now + TTL]
    BY <1>1, AllocateTakes
  <2>2. inflight' \in [Offset -> Nat]
    BY <2>1, PrunedType, TimesAssumption DEF AllocTypeOK
  <2>3. req' \in [Request -> Locals]
    BY <2>1 DEF Becomes, AllocTypeOK
  <2> QED BY <1>1, <2>2, <2>3 DEF Allocate, AllocTypeOK
<1>2. ASSUME NEW r \in Request, Over(r) PROVE req' \in [Request -> Locals]
  BY <1>2, OverIsEnded DEF Becomes, AllocTypeOK
<1>3. ASSUME NEW r \in Request, AllocateFails(r) PROVE AllocTypeOK'
  BY <1>2, <1>3, PrunedType DEF AllocateFails, AllocTypeOK
<1>4. ASSUME NEW r \in Request, GivesUp(r) PROVE AllocTypeOK'
  BY <1>2, <1>4 DEF GivesUp, AllocTypeOK
<1>5. ASSUME NEW r \in Request, AfterInsert(r)
      PROVE  inflight' \in [Offset -> Nat] /\ req' \in [Request -> Locals]
  BY <1>2, <1>5, ReleasedType DEF AfterInsert, Over, AllocTypeOK
<1>6. ASSUME NEW r \in Request, Insert(r) PROVE AllocTypeOK'
  BY <1>5, <1>6 DEF Insert, AllocTypeOK
<1>7. ASSUME NEW r \in Request, InsertFails(r) PROVE AllocTypeOK'
  BY <1>5, <1>7 DEF InsertFails, AllocTypeOK
<1>8. ASSUME NEW r \in Request, Settles(r) \/ Errs(r) \/ Revives(r) \/ Deletes(r)
      PROVE  AllocTypeOK'
  BY <1>8 DEF Settles, Errs, Revives, Deletes, AllocTypeOK
<1>9. CASE Tick
  BY <1>9 DEF Tick, AllocTypeOK
<1>10. CASE Restart
  <2>1. req' \in [Request -> Locals]
    <3>1. \A q \in Locals : [q EXCEPT !.pc = "done", !.kind = "http", !.until = 0] \in Locals
      BY DEF Kind
    <3>2. req \in [Request -> Locals]
      BY DEF AllocTypeOK
    <3>3. req' = [r \in Request |-> IF req[r].pc = "idle" THEN req[r]
                     ELSE [req[r] EXCEPT !.pc = "done", !.kind = "http", !.until = 0]]
      BY <1>10 DEF Restart
    <3> HIDE DEF Locals
    <3> QED BY <3>1, <3>2, <3>3
  <2>2. inflight' \in [Offset -> Nat] /\ restarts' \in Nat
    <3>1. inflight' = [i \in Offset |-> 0] /\ restarts' = restarts + 1
      BY <1>10 DEF Restart
    <3> QED BY <3>1 DEF AllocTypeOK
  <2> QED BY <1>10, <2>1, <2>2 DEF Restart, AllocTypeOK
<1>11. CASE UNCHANGED allocVars
  BY <1>11 DEF allocVars, AllocTypeOK
<1> QED BY <1>1, <1>3, <1>4, <1>6, <1>7, <1>8, <1>9, <1>10, <1>11 DEF AllocNext

-----------------------------------------------------------------------------
(* The reservations.                                                       *)

Reserved == InFlight /\ ReservationsInMap /\ ReservedAlone /\ RowsRespectReservations

\* No request in time holds an offset that is not taken.
LEMMA FreeIsUnheld ==
    ASSUME AllocTypeOK, Reserved, NEW i \in Offset, ~Taken(i, Pruned(inflight)),
           NEW q \in Request
    PROVE  /\ Unexpired(q) => req[q].offset # i
           /\ Live(q) => req[q].offset # i
BY DEF AllocTypeOK, Reserved, ReservationsInMap, Unexpired, Taken, Pruned, UsedOffsets

\* Pruning leaves the reservations that count.
LEMMA PruneKeeps ==
    ASSUME AllocTypeOK, Reserved, NEW q \in Request, Unexpired(q), req[q].offset \in Offset
    PROVE  Pruned(inflight)[req[q].offset] = req[q].until
BY DEF AllocTypeOK, Reserved, ReservationsInMap, Unexpired, Pruned

\* A request allocates.
LEMMA AllocateSafe ==
    ASSUME AllocTypeOK, Reserved, InRange, NEW r \in Request, Allocate(r)
    PROVE  Reserved' /\ InRange'
<1>1. PICK k \in Locals :
             /\ Becomes(r, k) /\ req[r].pc = "idle"
             /\ k.offset \in Offset /\ ~Taken(k.offset, Pruned(inflight))
             /\ k.pc \in {"allocated", "copying"} /\ k.until = now + TTL
             /\ k.pc = "copying" => k.kind = "clone"
             /\ inflight' = [Pruned(inflight) EXCEPT ![k.offset] = now + TTL]
  BY AllocateTakes
<1>2. /\ req'[r] = k /\ \A q \in Request : q # r => req'[q] = req[q]
      /\ UNCHANGED <<row, late, now>> /\ now \in Nat /\ now < now + TTL
      /\ Pruned(inflight) \in [Offset -> Nat]
  BY <1>1, PrunedType, TimesAssumption DEF Allocate, Becomes, AllocTypeOK
<1>3. \A q \in Request : Unexpired(q)' <=> q = r \/ Unexpired(q)
  BY <1>1, <1>2 DEF Unexpired, Holds
<1>4. \A q \in Request : q # r /\ Unexpired(q) => req[q].offset # k.offset
  BY <1>1, FreeIsUnheld
<1>5. InRange'
  BY <1>1, <1>2 DEF InRange, Holds
<1>6. InFlight'
  BY <1>1, <1>2 DEF Reserved, InFlight
<1>7. ReservationsInMap'
  <2> SUFFICES ASSUME NEW q \in Request, Unexpired(q)'
               PROVE  inflight'[req'[q].offset] = req'[q].until
    BY DEF ReservationsInMap
  <2>1. CASE q = r
    BY <1>1, <1>2, <2>1
  <2>2. CASE q # r
    <3>1. Unexpired(q) /\ req[q].offset \in Offset /\ req[q].offset # k.offset
      BY <1>3, <1>4, <2>2 DEF InRange, Unexpired, Holds
    <3> QED BY <1>1, <1>2, <2>2, <3>1, PruneKeeps
  <2> QED BY <2>1, <2>2
<1>8. ReservedAlone'
  BY <1>2, <1>3, <1>4 DEF Reserved, ReservedAlone
<1>9. RowsRespectReservations'
  <2>1. \A q \in Request : Live(q)' <=> Live(q)
    BY <1>2 DEF Live
  <2>2. ~Live(r) /\ \A q \in Request : Live(q) => req[q].offset # k.offset
    BY <1>1, FreeIsUnheld DEF Reserved, InFlight, Live
  <2> QED BY <1>2, <1>3, <2>1, <2>2 DEF Reserved, RowsRespectReservations
<1> QED BY <1>5, <1>6, <1>7, <1>8, <1>9 DEF Reserved

\* A request ends without a row, and gives back at most what is its own.
LEMMA EndSafe ==
    ASSUME AllocTypeOK, Reserved, InRange, NEW r \in Request, Over(r),
           \/ inflight' = Pruned(inflight) \/ UNCHANGED inflight
           \/ inflight' = Released(req[r].offset) /\ Unexpired(r),
           UNCHANGED <<row, late, now>>
    PROVE  Reserved' /\ InRange'
<1>1. /\ req'[r] = Ended(r) /\ \A q \in Request : q # r => req'[q] = req[q]
      /\ req'[r].pc = "done" /\ req'[r].offset = req[r].offset
  BY OverIsEnded DEF Becomes, AllocTypeOK
<1>2. \A q \in Request : Unexpired(q)' <=> q # r /\ Unexpired(q)
  BY <1>1 DEF Unexpired, Holds
<1>3. \A q \in Request : Live(q)' <=> Live(q)
  BY DEF Live
<1>4. InRange'
  BY <1>1 DEF InRange, Holds
<1>5. InFlight'
  BY <1>1 DEF Reserved, InFlight
<1>6. ReservationsInMap'
  <2> SUFFICES ASSUME NEW q \in Request, q # r, Unexpired(q)
               PROVE  inflight'[req[q].offset] = req[q].until
    BY <1>1, <1>2 DEF ReservationsInMap
  <2>1. /\ req[q].offset \in Offset /\ inflight[req[q].offset] = req[q].until
        /\ Unexpired(r) => req[q].offset # req[r].offset
    BY DEF InRange, Unexpired, Holds, Reserved, ReservationsInMap, ReservedAlone
  <2> QED BY <2>1, PruneKeeps DEF Released, AllocTypeOK
<1>7. ReservedAlone'
  BY <1>1, <1>2 DEF Reserved, ReservedAlone
<1>8. RowsRespectReservations'
  BY <1>1, <1>2, <1>3 DEF Reserved, RowsRespectReservations
<1> QED BY <1>4, <1>5, <1>6, <1>7, <1>8 DEF Reserved

\* A request inserts its row; late knows it when its reservation had ended.
LEMMA InsertSafe ==
    ASSUME AllocTypeOK, Reserved, InRange, NEW r \in Request, Insert(r)
    PROVE  Reserved' /\ InRange'
<1>0. Over(r) /\ Holds(r) /\ UNCHANGED now
  BY DEF Insert, AfterInsert
<1>00. req[r].kind = "http" => Unexpired(r)
  BY <1>0 DEF Reserved, InFlight, Holds, Unexpired
<1>1. /\ req'[r] = Ended(r) /\ \A q \in Request : q # r => req'[q] = req[q]
      /\ req'[r].pc = "done" /\ req'[r].offset = req[r].offset
  BY <1>0, OverIsEnded DEF Becomes, AllocTypeOK
<1>2. \A q \in Request : Unexpired(q)' <=> q # r /\ Unexpired(q)
  BY <1>0, <1>1 DEF Unexpired, Holds
<1>3. /\ \A q \in Request : q # r => (Live(q)' <=> Live(q)) /\ row'[q] = row[q]
      /\ late' = IF Unexpired(r) THEN late ELSE late \cup {r}
  BY DEF Insert, Live, AllocTypeOK
<1>4. InRange'
  BY <1>0, <1>1 DEF InRange, Holds
<1>5. InFlight'
  BY <1>0, <1>1, <1>3 DEF Reserved, InFlight
<1>6. ReservationsInMap'
  <2> SUFFICES ASSUME NEW q \in Request, q # r, Unexpired(q)
               PROVE  inflight'[req[q].offset] = req[q].until
    BY <1>1, <1>2 DEF ReservationsInMap
  <2>1. /\ req[q].offset \in Offset /\ inflight[req[q].offset] = req[q].until
        /\ Unexpired(r) => req[q].offset # req[r].offset
    BY DEF InRange, Unexpired, Holds, Reserved, ReservationsInMap, ReservedAlone
  <2> QED BY <1>00, <2>1 DEF Insert, AfterInsert, Released, AllocTypeOK
<1>7. ReservedAlone'
  BY <1>1, <1>2 DEF Reserved, ReservedAlone
<1>8. RowsRespectReservations'
  <2> SUFFICES ASSUME NEW p \in Request, NEW q \in Request, Unexpired(p)', Live(q)',
                      req'[q].offset = req'[p].offset
               PROVE  q \in late'
    BY DEF RowsRespectReservations
  <2>1. p # r /\ Unexpired(p) /\ req[q].offset = req[p].offset
    BY <1>1, <1>2
  <2>2. CASE q = r
    BY <1>3, <2>1, <2>2 DEF Reserved, ReservedAlone
  <2>3. CASE q # r
    BY <1>3, <2>1, <2>3 DEF Reserved, RowsRespectReservations
  <2> QED BY <2>2, <2>3
<1> QED BY <1>4, <1>5, <1>6, <1>7, <1>8 DEF Reserved

\* The row of r changes after the request; it is live again only as late.
LEMMA RowSafe ==
    ASSUME AllocTypeOK, Reserved, InRange, NEW r \in Request, row[r] # "none",
           NEW s, row' = [row EXCEPT ![r] = s],
           s \in {"creating", "active"} => (Live(r) /\ late' = late) \/ late' = late \cup {r},
           late \subseteq late', UNCHANGED <<inflight, req, now>>
    PROVE  Reserved' /\ InRange'
<1>1. \A q \in Request : Unexpired(q)' <=> Unexpired(q)
  BY DEF Unexpired, Holds
<1>2. /\ \A q \in Request : q # r => (Live(q)' <=> Live(q)) /\ row'[q] = row[q]
      /\ Live(r)' <=> s \in {"creating", "active"}
      /\ req[r].pc = "done"
  BY DEF Live, AllocTypeOK, Reserved, InFlight
<1>3. InRange' /\ InFlight'
  BY <1>2 DEF InRange, Holds, Reserved, InFlight
<1>4. ReservationsInMap' /\ ReservedAlone'
  BY <1>1 DEF Reserved, ReservationsInMap, ReservedAlone
<1>5. RowsRespectReservations'
  BY <1>1, <1>2 DEF Reserved, RowsRespectReservations
<1> QED BY <1>3, <1>4, <1>5 DEF Reserved

LEMMA ReservedStep ==
    ASSUME AllocTypeOK, Reserved, InRange, [AllocNext]_allocVars PROVE Reserved' /\ InRange'
<1>1. ASSUME NEW r \in Request, AllocateFails(r) \/ GivesUp(r) PROVE Reserved' /\ InRange'
  BY <1>1, EndSafe DEF AllocateFails, GivesUp
<1>2. ASSUME NEW r \in Request, InsertFails(r) PROVE Reserved' /\ InRange'
  <2>1. req[r].kind = "http" => Unexpired(r)
    BY <1>2 DEF InsertFails, Reserved, InFlight, Holds, Unexpired
  <2> QED BY <1>2, <2>1, EndSafe DEF InsertFails, AfterInsert
<1>3. ASSUME NEW r \in Request, Settles(r) \/ Errs(r) \/ Revives(r) \/ Deletes(r)
      PROVE  Reserved' /\ InRange'
  <2>1. CASE Settles(r)
    BY <2>1, RowSafe DEF Settles, Live
  <2>2. CASE Errs(r)
    BY <2>2, RowSafe DEF Errs
  <2>3. CASE Revives(r)
    BY <2>3, RowSafe DEF Revives
  <2>4. CASE Deletes(r)
    BY <2>4, RowSafe DEF Deletes
  <2> QED BY <1>3, <2>1, <2>2, <2>3, <2>4
<1>4. CASE Tick
  <2>1. now' = now + 1 /\ \A r \in Request : req[r].pc # "allocated"
    BY <1>4 DEF Tick
  <2>2. UNCHANGED <<inflight, req, row, late>> /\ now \in Nat
    BY <1>4 DEF Tick, AllocTypeOK
  <2>3. \A q \in Request : (Unexpired(q)' => Unexpired(q)) /\ (Live(q)' <=> Live(q))
    BY <2>1, <2>2 DEF Unexpired, Holds, Live, AllocTypeOK
  <2>4. InRange' /\ InFlight'
    BY <2>1, <2>2 DEF InRange, Holds, Reserved, InFlight
  <2> QED BY <2>2, <2>3, <2>4
          DEF Reserved, ReservationsInMap, ReservedAlone, RowsRespectReservations
<1>5. CASE Restart
  <2>1. /\ \A q \in Request : req'[q].pc \in {"idle", "done"}
        /\ \A q \in Request : req'[q].pc # "done" => req[q].pc # "done"
        /\ UNCHANGED row
    BY <1>5 DEF Restart, AllocTypeOK
  <2> QED BY <2>1 DEF Reserved, InRange, InFlight, ReservationsInMap, ReservedAlone,
                      RowsRespectReservations, Unexpired, Holds
<1>6. CASE UNCHANGED allocVars
  BY <1>6 DEF allocVars, Reserved, InRange, InFlight, ReservationsInMap, ReservedAlone,
              RowsRespectReservations, Unexpired, Holds, Live
<1> QED BY <1>1, <1>2, <1>3, <1>4, <1>5, <1>6, AllocateSafe, InsertSafe DEF AllocNext

LEMMA InitAlloc == AllocInit => AllocTypeOK /\ Reserved /\ InRange
BY DEF AllocInit, AllocTypeOK, Kind, Reserved, InRange, InFlight, ReservationsInMap, ReservedAlone,
       RowsRespectReservations, Unexpired, Holds, NoAddress

\* Every reachable state has the declared shape, whatever the sizes are.
THEOREM AllocTypeCorrect == AllocSpec => []AllocTypeOK
BY InitAlloc, TypeStep, PTL DEF AllocSpec

\* The inductive invariant of the allocator.
THEOREM AllocSafe == AllocSpec => [](AllocTypeOK /\ Reserved)
<1>1. AllocTypeOK /\ Reserved /\ InRange /\ [AllocNext]_allocVars => (AllocTypeOK /\ Reserved /\ InRange)'
  BY TypeStep, ReservedStep
<1> QED BY InitAlloc, <1>1, PTL DEF AllocSpec

\* Concurrent allocations never return the same ports or CID while both
\* reservations last, for any number of requests and any TTL.
THEOREM AllocationsDistinct == AllocSpec => []ReservedAlone
<1>1. Reserved => ReservedAlone
  BY DEF Reserved
<1> QED BY <1>1, AllocSafe, PTL

\* A request in time finds its ports free in the database, unless a row came
\* to live late: the unique indexes never refuse it.
THEOREM TimelyInsertsSucceed == AllocSpec => []RowsRespectReservations
<1>1. Reserved => RowsRespectReservations
  BY DEF Reserved
<1> QED BY <1>1, AllocSafe, PTL

-----------------------------------------------------------------------------
(* The address of a guest.                                                 *)

\* The offset of a CID in the subnet of the VMs.
LEMMA OffsetOfCid ==
    ASSUME NEW c \in VSOCK_CID_START .. VSOCK_CID_MAX
    PROVE  /\ c \in Int /\ 2 <= c - 1 /\ c - 1 <= 65534
           /\ cidToVmIp(c) = <<(c - 1) \div 256, (c - 1) % 256>>
<1>1. c \in Int /\ 3 <= c /\ c <= 65535
  BY SMTT(60) DEF VSOCK_CID_START, VSOCK_CID_MAX
<1>2. c - VSOCK_CID_START + VM_IP_BASE_OCTET = c - 1
  BY <1>1 DEF VSOCK_CID_START, VM_IP_BASE_OCTET
<1> QED BY <1>1, <1>2 DEF cidToVmIp

\* VM addresses: every CID in use gives an address of 172.16.0.0/16 of its
\* own, never that of the gateway, 172.16.0.1.
THEOREM AddressesOfVMsDistinct ==
    \A c, d \in VSOCK_CID_START .. VSOCK_CID_MAX :
        /\ cidToVmIp(c) \in (0 .. 255) \X (0 .. 255)
        /\ cidToVmIp(c) # <<0, 1>>
        /\ cidToVmIp(c) = cidToVmIp(d) => c = d
<1> TAKE c, d \in VSOCK_CID_START .. VSOCK_CID_MAX
<1>1. /\ c \in Int /\ 2 <= c - 1 /\ c - 1 <= 65534 /\ d \in Int
      /\ cidToVmIp(c) = <<(c - 1) \div 256, (c - 1) % 256>>
      /\ cidToVmIp(d) = <<(d - 1) \div 256, (d - 1) % 256>>
  BY OffsetOfCid
<1>2. /\ (c - 1) \div 256 \in Int /\ 0 <= (c - 1) \div 256 /\ (c - 1) \div 256 <= 255
      /\ (c - 1) % 256 \in Int /\ 0 <= (c - 1) % 256 /\ (c - 1) % 256 <= 255
  BY <1>1
<1>3. ~((c - 1) \div 256 = 0 /\ (c - 1) % 256 = 1)
  BY <1>1
<1>4. (c - 1) \div 256 = (d - 1) \div 256 /\ (c - 1) % 256 = (d - 1) % 256 => c = d
  BY <1>1
<1> QED BY <1>1, <1>2, <1>3, <1>4

-----------------------------------------------------------------------------
(* Starting the OpenCode server.                                           *)

\* The inductive invariant.
IInv == TypeOK /\ LockTells /\ WaitersHeld

-----------------------------------------------------------------------------
(* What the pieces of the actions do to the lock.                          *)

\* Acquire puts the caller inside if nobody is, and else where it waits.
LEMMA AcquireKeepsLock ==
    ASSUME TypeOK, LockTells, NEW c \in Caller, pc[c] \in {"idle", "recheck"},
           Acquire(c, "waiting")
    PROVE  /\ lock' \in Caller \cup {NoCaller}
           /\ pc' \in [Caller -> Pcs]
           /\ LockTells'
           /\ \A d \in Caller : pc'[d] = "tracker" => pc[d] = "tracker"
  BY CallerAssumption DEF TypeOK, LockTells, Acquire, Inside, Pcs, Done, At

\* Release takes the caller outside and leaves nobody waiting.
LEMMA ReleaseKeepsLock ==
    ASSUME TypeOK, LockTells, NEW c \in Caller, pc[c] \in Inside,
           NEW r \in Done, Release(c, r)
    PROVE  /\ lock' \in Caller \cup {NoCaller}
           /\ pc' \in [Caller -> Pcs]
           /\ LockTells'
           /\ \A d \in Caller : pc'[d] # "tracker"
  BY CallerAssumption DEF TypeOK, LockTells, Release, Inside, Pcs, Done, At

\* A step from place to place inside concerns the lock of nobody.
LEMMA InsideKeepsLock ==
    ASSUME TypeOK, LockTells, NEW c \in Caller, pc[c] \in Inside,
           NEW p \in Inside, pc' = [pc EXCEPT ![c] = p], UNCHANGED lock
    PROVE  /\ pc' \in [Caller -> Pcs]
           /\ LockTells'
           /\ \A d \in Caller \ {c} : pc'[d] # "tracker"
           /\ pc'[c] = p
  BY CallerAssumption DEF TypeOK, LockTells, Inside, Pcs, Done, At

\* Waiters of the tracker resume inside.
LEMMA ResumedKeepsLock ==
    ASSUME TypeOK, LockTells, WaitersHeld, pc' = Resumed(waiters), UNCHANGED lock
    PROVE  /\ pc' \in [Caller -> Pcs]
           /\ LockTells'
           /\ \A d \in Caller : pc'[d] # "tracker"
  BY DEF TypeOK, LockTells, WaitersHeld, Resumed, Inside, Pcs, Done, At

-----------------------------------------------------------------------------
(* The invariant.                                                          *)

LEMMA InitIInv == Init => IInv
  BY CallerAssumption, WakesAssumption
     DEF Init, IInv, TypeOK, LockTells, WaitersHeld, Inside, Pcs, Done, At

LEMMA MarkReadyTypes ==
    ASSUME TypeOK, MarkReady
    PROVE  /\ tracked' \in {"none", "starting", "ready", "unknown"}
           /\ waiters' \subseteq Caller
  BY DEF TypeOK, MarkReady, tracker

LEMMA FoundKeeps ==
    ASSUME IInv, NEW c \in Caller, pc[c] \in Inside, Found(c),
           UNCHANGED <<guest, seen, wakes>>
    PROVE  IInv'
  <1>1. Release(c, "ok") /\ "ok" \in Done
    BY DEF Found, Done
  <1>2. /\ lock' \in Caller \cup {NoCaller} /\ pc' \in [Caller -> Pcs] /\ LockTells'
        /\ \A d \in Caller : pc'[d] # "tracker"
    BY <1>1, ReleaseKeepsLock DEF IInv
  <1>3. TypeOK'
    BY <1>2, MarkReadyTypes DEF IInv, TypeOK, Found, guest
  <1>4. WaitersHeld'
    BY <1>2 DEF WaitersHeld, At
  <1>5. QED
    BY <1>2, <1>3, <1>4 DEF IInv

LEMMA CallerKeeps ==
    ASSUME IInv, NEW c \in Caller, CallerNext(c)
    PROVE  IInv'
  <1>1. CASE EnsureRunning(c)
    <2>1. pc[c] \in {"idle", "recheck"} /\ Acquire(c, "waiting")
      BY <1>1 DEF EnsureRunning, At
    <2>2. /\ lock' \in Caller \cup {NoCaller} /\ pc' \in [Caller -> Pcs] /\ LockTells'
          /\ \A d \in Caller : pc'[d] = "tracker" => pc[d] = "tracker"
      BY <2>1, AcquireKeepsLock DEF IInv
    <2>3. TypeOK' /\ WaitersHeld'
      BY <1>1, <2>2 DEF IInv, TypeOK, WaitersHeld, EnsureRunning, guest, tracker, At
    <2>4. QED
      BY <2>2, <2>3 DEF IInv
  <1>2. CASE Recheck(c)
    <2>1. CASE Acquire(c, "waiting")
      <3>1. pc[c] \in {"idle", "recheck"}
        BY <1>2 DEF Recheck, At
      <3>2. /\ lock' \in Caller \cup {NoCaller} /\ pc' \in [Caller -> Pcs] /\ LockTells'
            /\ \A d \in Caller : pc'[d] = "tracker" => pc[d] = "tracker"
        BY <2>1, <3>1, AcquireKeepsLock DEF IInv
      <3>3. TypeOK' /\ WaitersHeld'
        BY <1>2, <3>2 DEF IInv, TypeOK, WaitersHeld, Recheck, guest, tracker, At
      <3>4. QED
        BY <3>2, <3>3 DEF IInv
    <2>2. CASE pc' = [pc EXCEPT ![c] = "ok"] /\ UNCHANGED lock
      <3>1. LockTells'
        BY <1>2, <2>2, CallerAssumption
           DEF IInv, TypeOK, LockTells, Recheck, Inside, At
      <3>2. TypeOK' /\ WaitersHeld'
        BY <1>2, <2>2
           DEF IInv, TypeOK, WaitersHeld, Recheck, guest, tracker, At, Pcs, Done
      <3>3. QED
        BY <3>1, <3>2 DEF IInv
    <2>3. QED
      BY <1>2, <2>1, <2>2 DEF Recheck
  <1>3. CASE FastPath(c)
    <2>1. pc[c] \in Inside
      BY <1>3 DEF FastPath, At, Inside
    <2>2. CASE Found(c)
      BY <1>3, <2>1, <2>2, FoundKeeps DEF FastPath
    <2>3. CASE ~Found(c) /\ tracked = "starting"
      <3>1. /\ pc' = [pc EXCEPT ![c] = "tracker"] /\ UNCHANGED lock
            /\ waiters' = waiters \cup {c} /\ tracked' = tracked
        BY <1>3, <2>3 DEF FastPath
      <3>2. /\ pc' \in [Caller -> Pcs] /\ LockTells'
            /\ \A d \in Caller \ {c} : pc'[d] # "tracker"
        BY <2>1, <3>1, InsideKeepsLock DEF IInv, Inside
      <3>3. TypeOK'
        BY <1>3, <3>1, <3>2 DEF IInv, TypeOK, FastPath, guest
      <3>4. WaitersHeld'
        BY <2>3, <3>1, <3>2 DEF WaitersHeld, At
      <3>5. QED
        BY <3>2, <3>3, <3>4 DEF IInv
    <2>4. CASE ~Found(c) /\ tracked # "starting"
      <3>1. /\ pc' = [pc EXCEPT ![c] = "pgrep"] /\ UNCHANGED lock
            /\ waiters' = waiters /\ tracked' = tracked
        BY <1>3, <2>4 DEF FastPath
      <3>2. /\ pc' \in [Caller -> Pcs] /\ LockTells'
            /\ \A d \in Caller \ {c} : pc'[d] # "tracker"
            /\ pc'[c] = "pgrep"
        BY <2>1, <3>1, InsideKeepsLock DEF IInv, Inside
      <3>3. TypeOK' /\ WaitersHeld'
        BY <1>3, <3>1, <3>2 DEF IInv, TypeOK, WaitersHeld, FastPath, guest, At
      <3>4. QED
        BY <3>2, <3>3 DEF IInv
    <2>5. QED
      BY <2>2, <2>3, <2>4
  <1>4. CASE WaitTimeout(c)
    <2>1. pc[c] \in Inside
      BY <1>4 DEF WaitTimeout, At, Inside
    <2>2. /\ pc' \in [Caller -> Pcs] /\ LockTells'
          /\ \A d \in Caller \ {c} : pc'[d] # "tracker"
          /\ pc'[c] = "retry"
      BY <1>4, <2>1, InsideKeepsLock DEF IInv, WaitTimeout, Inside
    <2>3. TypeOK' /\ WaitersHeld'
      BY <1>4, <2>2 DEF IInv, TypeOK, WaitersHeld, WaitTimeout, guest, tracker, At
    <2>4. QED
      BY <2>2, <2>3 DEF IInv
  <1>5. CASE Retry(c)
    <2>1. pc[c] \in Inside
      BY <1>5 DEF Retry, At, Inside
    <2>2. CASE Found(c)
      BY <1>5, <2>1, <2>2, FoundKeeps DEF Retry
    <2>3. CASE ~Found(c)
      <3>1. pc' = [pc EXCEPT ![c] = "pgrep"] /\ UNCHANGED <<tracker, lock>>
        BY <1>5, <2>3 DEF Retry
      <3>2. /\ pc' \in [Caller -> Pcs] /\ LockTells'
            /\ \A d \in Caller \ {c} : pc'[d] # "tracker"
            /\ pc'[c] = "pgrep"
        BY <2>1, <3>1, InsideKeepsLock DEF IInv, Inside
      <3>3. TypeOK' /\ WaitersHeld'
        BY <1>5, <3>1, <3>2 DEF IInv, TypeOK, WaitersHeld, Retry, guest, tracker, At
      <3>4. QED
        BY <3>2, <3>3 DEF IInv
    <2>4. QED
      BY <2>2, <2>3
  <1>6. CASE CheckProcess(c)
    <2>1. PICK p \in {"poll", "which"} : pc' = [pc EXCEPT ![c] = p]
      BY <1>6 DEF CheckProcess, Look
    <2>2. pc[c] \in Inside /\ p \in Inside /\ UNCHANGED lock
      BY <1>6 DEF CheckProcess, Look, At, Inside
    <2>3. /\ pc' \in [Caller -> Pcs] /\ LockTells'
          /\ \A d \in Caller \ {c} : pc'[d] # "tracker"
          /\ pc'[c] = p
      BY <2>1, <2>2, InsideKeepsLock DEF IInv
    <2>4. seen' \in [Caller -> BOOLEAN]
      BY <1>6 DEF IInv, TypeOK, CheckProcess
    <2>5. TypeOK'
      BY <1>6, <2>2, <2>3, <2>4 DEF IInv, TypeOK, CheckProcess, guest, tracker
    <2>6. WaitersHeld'
      BY <2>3 DEF WaitersHeld, At
    <2>7. QED
      BY <2>3, <2>5, <2>6 DEF IInv
  <1>7. CASE Which(c)
    <2>1. pc[c] \in Inside
      BY <1>7 DEF Which, At, Inside
    <2>2. /\ lock' \in Caller \cup {NoCaller} /\ pc' \in [Caller -> Pcs] /\ LockTells'
          /\ \A d \in Caller : pc'[d] # "tracker"
      <3>1. CASE Release(c, "failed")
        BY <2>1, <3>1, ReleaseKeepsLock DEF IInv, Done
      <3>2. CASE pc' = [pc EXCEPT ![c] = "launch"] /\ UNCHANGED lock
        <4>1. /\ pc' \in [Caller -> Pcs] /\ LockTells'
              /\ \A d \in Caller \ {c} : pc'[d] # "tracker"
              /\ pc'[c] = "launch"
          BY <2>1, <3>2, InsideKeepsLock DEF IInv, Inside
        <4>2. QED
          BY <3>2, <4>1 DEF IInv, TypeOK
      <3>3. QED
        BY <1>7, <3>1, <3>2 DEF Which
    <2>3. TypeOK' /\ WaitersHeld'
      BY <1>7, <2>2 DEF IInv, TypeOK, WaitersHeld, Which, guest, tracker, At
    <2>4. QED
      BY <2>2, <2>3 DEF IInv
  <1>8. CASE Launch(c)
    <2>1. pc[c] \in Inside
      BY <1>8 DEF Launch, At, Inside
    <2>2. /\ lock' \in Caller \cup {NoCaller} /\ pc' \in [Caller -> Pcs] /\ LockTells'
          /\ \A d \in Caller : pc'[d] # "tracker"
      <3>1. CASE Release(c, "failed")
        BY <2>1, <3>1, ReleaseKeepsLock DEF IInv, Done
      <3>2. CASE pc' = [pc EXCEPT ![c] = "poll"] /\ UNCHANGED lock
        <4>1. /\ pc' \in [Caller -> Pcs] /\ LockTells'
              /\ \A d \in Caller \ {c} : pc'[d] # "tracker"
              /\ pc'[c] = "poll"
          BY <2>1, <3>2, InsideKeepsLock DEF IInv, Inside
        <4>2. QED
          BY <3>2, <4>1 DEF IInv, TypeOK
      <3>3. QED
        BY <1>8, <3>1, <3>2 DEF Launch
    <2>3. procs' \subseteq Caller \cup {Boot} /\ up' \in procs' \cup {NoCaller}
      BY <1>8 DEF IInv, TypeOK, Launch
    <2>4. TypeOK' /\ WaitersHeld'
      BY <1>8, <2>2, <2>3 DEF IInv, TypeOK, WaitersHeld, Launch, tracker, At
    <2>5. QED
      BY <2>2, <2>4 DEF IInv
  <1>9. CASE Poll(c)
    <2>1. pc[c] \in Inside
      BY <1>9 DEF Poll, At, Inside
    <2>2. CASE Found(c)
      BY <1>9, <2>1, <2>2, FoundKeeps DEF Poll
    <2>3. CASE ~Found(c)
      <3>1. pc' = [pc EXCEPT ![c] = "look"] /\ UNCHANGED <<tracker, lock>>
        BY <1>9, <2>3 DEF Poll
      <3>2. /\ pc' \in [Caller -> Pcs] /\ LockTells'
            /\ \A d \in Caller \ {c} : pc'[d] # "tracker"
            /\ pc'[c] = "look"
        BY <2>1, <3>1, InsideKeepsLock DEF IInv, Inside
      <3>3. TypeOK' /\ WaitersHeld'
        BY <1>9, <3>1, <3>2 DEF IInv, TypeOK, WaitersHeld, Poll, guest, tracker, At
      <3>4. QED
        BY <3>2, <3>3 DEF IInv
    <2>4. QED
      BY <2>2, <2>3
  <1>10. CASE PollLook(c)
    <2>1. pc[c] \in Inside
      BY <1>10 DEF PollLook, At, Inside
    <2>2. /\ lock' \in Caller \cup {NoCaller} /\ pc' \in [Caller -> Pcs] /\ LockTells'
          /\ \A d \in Caller : pc'[d] # "tracker"
      <3>1. CASE Release(c, "failed")
        BY <2>1, <3>1, ReleaseKeepsLock DEF IInv, Done
      <3>2. CASE pc' = [pc EXCEPT ![c] = "poll"] /\ UNCHANGED lock
        <4>1. /\ pc' \in [Caller -> Pcs] /\ LockTells'
              /\ \A d \in Caller \ {c} : pc'[d] # "tracker"
              /\ pc'[c] = "poll"
          BY <2>1, <3>2, InsideKeepsLock DEF IInv, Inside
        <4>2. QED
          BY <3>2, <4>1 DEF IInv, TypeOK
      <3>3. QED
        BY <1>10, <3>1, <3>2 DEF PollLook
    <2>3. seen' \in [Caller -> BOOLEAN]
      BY <1>10 DEF IInv, TypeOK, PollLook
    <2>4. TypeOK' /\ WaitersHeld'
      BY <1>10, <2>2, <2>3 DEF IInv, TypeOK, WaitersHeld, PollLook, guest, tracker, At
    <2>5. QED
      BY <2>2, <2>4 DEF IInv
  <1>11. CASE Deadline(c)
    <2>1. pc[c] \in Inside /\ Release(c, "failed") /\ "failed" \in Done
      BY <1>11 DEF Deadline, At, Inside, Done
    <2>2. /\ lock' \in Caller \cup {NoCaller} /\ pc' \in [Caller -> Pcs] /\ LockTells'
          /\ \A d \in Caller : pc'[d] # "tracker"
      BY <2>1, ReleaseKeepsLock DEF IInv
    <2>3. TypeOK' /\ WaitersHeld'
      BY <1>11, <2>2 DEF IInv, TypeOK, WaitersHeld, Deadline, guest, tracker, At
    <2>4. QED
      BY <2>2, <2>3 DEF IInv
  <1>12. QED
    BY <1>1, <1>2, <1>3, <1>4, <1>5, <1>6, <1>7, <1>8, <1>9, <1>10, <1>11
       DEF CallerNext, Continue

LEMMA GuestKeeps ==
    ASSUME IInv, GuestNext
    PROVE  IInv'
  <1>1. procs' \subseteq Caller \cup {Boot} /\ up' \in procs' \cup {NoCaller}
    <2>1. CASE BootLaunch
      BY <2>1 DEF IInv, TypeOK, BootLaunch
    <2>2. CASE ServerUp
      BY <2>2 DEF IInv, TypeOK, ServerUp
    <2>3. CASE ServerExits
      BY <2>3 DEF IInv, TypeOK, ServerExits
    <2>4. QED
      BY <2>1, <2>2, <2>3 DEF GuestNext
  <1>2. booting' \in BOOLEAN /\ UNCHANGED <<tracker, lock, pc, seen, wakes>>
    BY DEF IInv, TypeOK, GuestNext, BootLaunch, ServerUp, ServerExits
  <1>3. QED
    BY <1>1, <1>2 DEF IInv, TypeOK, LockTells, WaitersHeld, tracker, At

LEMMA TrackerKeeps ==
    ASSUME IInv, PollLoop \/ Wake
    PROVE  IInv'
  <1>1. pc' = Resumed(waiters) /\ UNCHANGED <<lock, seen>> /\ waiters' = {}
    BY DEF PollLoop, Wake, TrackVM
  <1>2. /\ pc' \in [Caller -> Pcs] /\ LockTells'
        /\ \A d \in Caller : pc'[d] # "tracker"
    BY <1>1, ResumedKeepsLock DEF IInv
  <1>3. tracked' \in {"none", "starting", "ready", "unknown"}
    BY DEF PollLoop, Wake, TrackVM, GaveUp
  <1>4. wakes' \in 0..MaxWakes
    BY WakesAssumption DEF IInv, TypeOK, PollLoop, Wake
  <1>5. /\ procs' \subseteq Caller \cup {Boot} /\ up' \in procs' \cup {NoCaller}
        /\ booting' \in BOOLEAN
    BY DEF IInv, TypeOK, PollLoop, Wake, guest
  <1>6. TypeOK' /\ WaitersHeld'
    BY <1>1, <1>2, <1>3, <1>4, <1>5 DEF IInv, TypeOK, WaitersHeld, At
  <1>7. QED
    BY <1>2, <1>6 DEF IInv

\* The invariant is inductive.
LEMMA NextIInv == IInv /\ [Next]_vars => IInv'
  <1>1. SUFFICES ASSUME IInv, [Next]_vars PROVE IInv'
    OBVIOUS
  <1>2. CASE UNCHANGED vars
    <2>1. UNCHANGED <<procs, up, booting, tracked, waiters, lock, pc, seen, wakes>>
      BY <1>2 DEF vars, guest, tracker
    <2>2. TypeOK' /\ LockTells' /\ WaitersHeld'
      BY <1>1, <2>1 DEF IInv, TypeOK, LockTells, WaitersHeld, At
    <2>3. QED
      BY <2>2 DEF IInv
  <1>3. CASE Next
    BY <1>1, <1>3, CallerKeeps, GuestKeeps, TrackerKeeps DEF Next
  <1>4. QED
    BY <1>1, <1>2, <1>3

LEMMA IInvHolds == Spec => []IInv
  BY InitIInv, NextIInv, PTL DEF Spec

\* The state keeps its shape for every number of callers and wakes.
THEOREM StartTypeCorrect == Spec => []TypeOK
  <1>1. IInv => TypeOK
    BY DEF IInv
  <1>2. QED
    BY <1>1, IInvHolds, PTL

\* At most one caller is inside _ensureRunningInner, the one ensureLocks names,
\* and nobody waits for a promise whose maker has left.
THEOREM OneStarter == Spec => []LockTells
  <1>1. IInv => LockTells
    BY DEF IInv
  <1>2. QED
    BY <1>1, IInvHolds, PTL

\* A caller of waitForReady stands in the entry that will resolve him.
THEOREM WaitersAreHeld == Spec => []WaitersHeld
  <1>1. IInv => WaitersHeld
    BY DEF IInv
  <1>2. QED
    BY <1>1, IInvHolds, PTL

-----------------------------------------------------------------------------
(* Refinement: what each piece does to the call as StartOnce sees it.      *)

\* What a call is to StartOnce depends on its own place alone.
LEMMA CallStates ==
    ASSUME TypeOK
    PROVE  \A c \in Caller :
              /\ callState[c] = StateOf(c)
              /\ pc[c] \in Inside <=> callState[c] = "trying"
              /\ pc[c] = "idle" <=> callState[c] = "idle"
              /\ pc[c] \in {"waiting", "recheck"} <=> callState[c] = "asked"
  BY DEF TypeOK, callState, StateOf, Inside, Pcs, Done

\* A step within one of the classes of places is no step of StartOnce.
LEMMA SameState ==
    ASSUME TypeOK, TypeOK', NEW c \in Caller, NEW p, pc' = [pc EXCEPT ![c] = p],
           \/ pc[c] \in Inside /\ p \in Inside
           \/ pc[c] \in {"waiting", "recheck"} /\ p \in {"waiting", "recheck"}
    PROVE  callState' = callState
  BY DEF TypeOK, callState, StateOf, Inside, Pcs

LEMMA AcquireTries ==
    ASSUME TypeOK, TypeOK', LockTells, NEW c \in Caller,
           pc[c] \in {"idle", "recheck"}, Acquire(c, "waiting")
    PROVE  Promise!Next \/ callState' = callState
  <1>1. CASE lock = NoCaller
    <2>1. \A d \in Caller : pc[d] \notin Inside
      BY <1>1, CallerAssumption DEF LockTells
    <2>2. \A d \in Caller : callState[d] # "trying"
      BY <2>1, CallStates
    <2>3. callState[c] \in {"idle", "asked"}
      BY CallStates
    <2>4. callState' = [callState EXCEPT ![c] = "trying"]
      BY <1>1 DEF Acquire, callState, StateOf, Inside, TypeOK
    <2>5. Promise!Try(c)
      BY <2>2, <2>3, <2>4 DEF Promise!Try
    <2>6. QED
      BY <2>5 DEF Promise!Next
  <1>2. CASE lock # NoCaller /\ pc[c] = "idle"
    <2>1. callState[c] = "idle"
      BY <1>2, CallStates
    <2>2. callState' = [callState EXCEPT ![c] = "asked"]
      BY <1>2 DEF Acquire, callState, StateOf, Inside, TypeOK
    <2>3. Promise!Ask(c)
      BY <2>1, <2>2 DEF Promise!Ask
    <2>4. QED
      BY <2>3 DEF Promise!Next
  <1>3. CASE lock # NoCaller /\ pc[c] = "recheck"
    BY <1>3, SameState DEF Acquire
  <1>4. QED
    BY <1>1, <1>2, <1>3

LEMMA ReleaseConcludes ==
    ASSUME TypeOK, TypeOK', NEW c \in Caller, pc[c] \in Inside,
           NEW r \in Done, Release(c, r)
    PROVE  Promise!Next
  <1>1. callState[c] = "trying"
    BY CallStates
  <1>2. callState' = [callState EXCEPT ![c] = r]
    BY DEF Release, callState, StateOf, Inside, Done, TypeOK, At
  <1>3. Promise!Conclude(c)
    BY <1>1, <1>2 DEF Promise!Conclude, Done
  <1>4. QED
    BY <1>3 DEF Promise!Next

LEMMA ResumedIsSilent ==
    ASSUME TypeOK, pc' = Resumed(waiters)
    PROVE  callState' = callState
  BY DEF TypeOK, Resumed, callState, StateOf, Inside, At

\* Every step of a caller is a step of StartOnce, or none.
LEMMA CallerRefines ==
    ASSUME IInv, IInv', NEW c \in Caller, CallerNext(c)
    PROVE  Promise!Next \/ callState' = callState
  <1>1. TypeOK /\ TypeOK' /\ LockTells
    BY DEF IInv
  <1>2. CASE EnsureRunning(c)
    BY <1>1, <1>2, AcquireTries DEF EnsureRunning, At
  <1>3. CASE Recheck(c)
    <2>1. CASE Acquire(c, "waiting")
      BY <1>1, <1>3, <2>1, AcquireTries DEF Recheck, At
    <2>2. CASE pc' = [pc EXCEPT ![c] = "ok"]
      <3>1. callState[c] = "asked"
        BY <1>1, <1>3, CallStates DEF Recheck, At
      <3>2. callState' = [callState EXCEPT ![c] = "ok"]
        BY <1>1, <2>2 DEF callState, StateOf, Inside, TypeOK
      <3>3. Promise!Ride(c)
        BY <3>1, <3>2 DEF Promise!Ride
      <3>4. QED
        BY <3>3 DEF Promise!Next
    <2>3. QED
      BY <1>3, <2>1, <2>2 DEF Recheck
  <1>4. ASSUME ~EnsureRunning(c), ~Recheck(c) PROVE pc[c] \in Inside
    BY <1>4 DEF CallerNext, Continue, FastPath, WaitTimeout, Retry, CheckProcess,
           Look, Which, Launch, Poll, PollLook, Deadline, At, Inside
  <1>5. ASSUME ~EnsureRunning(c), ~Recheck(c)
        PROVE  \/ \E r \in Done : Release(c, r)
               \/ \E p \in Inside : pc' = [pc EXCEPT ![c] = p]
    <2>1. CASE FastPath(c)
      BY <2>1 DEF FastPath, Found, Inside, Done
    <2>2. CASE WaitTimeout(c)
      BY <2>2 DEF WaitTimeout, Inside
    <2>3. CASE Retry(c)
      BY <2>3 DEF Retry, Found, Inside, Done
    <2>4. CASE CheckProcess(c)
      BY <2>4 DEF CheckProcess, Look, Inside
    <2>5. CASE Which(c)
      BY <2>5 DEF Which, Inside, Done
    <2>6. CASE Launch(c)
      BY <2>6 DEF Launch, Inside, Done
    <2>7. CASE Poll(c)
      BY <2>7 DEF Poll, Found, Inside, Done
    <2>8. CASE PollLook(c)
      BY <2>8 DEF PollLook, Inside, Done
    <2>9. CASE Deadline(c)
      BY <2>9 DEF Deadline, Done
    <2>10. QED
      BY <1>5, <2>1, <2>2, <2>3, <2>4, <2>5, <2>6, <2>7, <2>8, <2>9
         DEF CallerNext, Continue
  <1>6. CASE ~EnsureRunning(c) /\ ~Recheck(c)
    <2>1. CASE \E r \in Done : Release(c, r)
      BY <1>1, <1>4, <1>6, <2>1, ReleaseConcludes
    <2>2. CASE \E p \in Inside : pc' = [pc EXCEPT ![c] = p]
      BY <1>1, <1>4, <1>6, <2>2, SameState
    <2>3. QED
      BY <1>5, <1>6, <2>1, <2>2
  <1>7. QED
    BY <1>2, <1>3, <1>6

\* Every step of the system is.
LEMMA StepRefines ==
    IInv /\ IInv' /\ [Next]_vars => [Promise!Next]_callState
  <1>1. SUFFICES ASSUME IInv, IInv', [Next]_vars
                 PROVE  Promise!Next \/ callState' = callState
    OBVIOUS
  <1>2. CASE pc' = pc
    BY <1>2 DEF callState, StateOf
  <1>3. CASE PollLoop \/ Wake
    BY <1>1, <1>3, ResumedIsSilent DEF IInv, PollLoop, Wake, TrackVM
  <1>4. CASE GuestNext
    BY <1>2, <1>4 DEF GuestNext, BootLaunch, ServerUp, ServerExits
  <1>5. CASE \E c \in Caller : CallerNext(c)
    BY <1>1, <1>5, CallerRefines
  <1>6. CASE UNCHANGED vars
    BY <1>2, <1>6 DEF vars
  <1>7. QED
    BY <1>1, <1>3, <1>4, <1>5, <1>6 DEF Next

LEMMA InitRefines == Init => Promise!Init
  BY DEF Init, Promise!Init, callState, StateOf, Inside

\* ensureRunning implements StartOnce: one caller tries at a time, only he can
\* fail, and the others are told "ok" or try in their turn.
THEOREM EnsureRunningKeepsPromise == Spec => KeepsPromise
  <1>1. Spec => [][Promise!Next]_callState
    BY IInvHolds, StepRefines, PTL DEF Spec
  <1>2. QED
    BY <1>1, InitRefines, PTL DEF Spec, KeepsPromise, Promise!Spec
-----------------------------------------------------------------------------
(* One server, with a pgrep that answers right.                            *)

\* Between a look that found nothing and the launch no caller's server appears,
\* as whoever could launch one is inside.
Single ==
    /\ \A c, d \in procs \cap Caller : c = d
    /\ \A c \in Caller : pc[c] \in {"which", "launch"} => procs \cap Caller = {}

LEMMA SingleInit == Init => Single
  BY CallerAssumption DEF Init, Single

\* Nobody new comes to the launch, and no server comes up.
LEMMA SingleKept ==
    ASSUME Single, procs' \cap Caller \subseteq procs \cap Caller,
           \A c \in Caller : pc'[c] \in {"which", "launch"} =>
               \/ pc[c] \in {"which", "launch"}
               \/ procs \cap Caller = {}
    PROVE  Single'
  BY DEF Single

LEMMA SingleStep ==
    ASSUME Pgrep = {"works"}, IInv, Single, [Next]_vars
    PROVE  Single'
  <1>1. ASSUME NEW c \in Caller, CallerNext(c), ~Launch(c), ~CheckProcess(c)
        PROVE  /\ procs' = procs
               /\ \A d \in Caller : pc'[d] \in {"which", "launch"} =>
                     pc[d] \in {"which", "launch"}
    <2> USE DEF IInv, TypeOK, At, guest, Release, Acquire
    <2>1. CASE EnsureRunning(c)
      BY <2>1 DEF EnsureRunning
    <2>2. CASE Recheck(c)
      BY <2>2 DEF Recheck
    <2>3. CASE FastPath(c) \/ Retry(c) \/ Poll(c)
      BY <2>3 DEF FastPath, Retry, Poll, Found
    <2>4. CASE Which(c) \/ PollLook(c)
      BY <2>4 DEF Which, PollLook
    <2>5. CASE WaitTimeout(c) \/ Deadline(c)
      BY <2>5 DEF WaitTimeout, Deadline
    <2> QED
      BY <1>1, <2>1, <2>2, <2>3, <2>4, <2>5 DEF CallerNext, Continue
  <1>2. ASSUME NEW c \in Caller, CheckProcess(c)
        PROVE  Single'
    <2>1. /\ procs' = procs
          /\ \A d \in Caller : pc'[d] \in {"which", "launch"} =>
                pc[d] \in {"which", "launch"} \/ procs = {}
      BY <1>2 DEF CheckProcess, Look, guest, IInv, TypeOK
    <2> QED
      BY <2>1, SingleKept
  <1>3. ASSUME NEW c \in Caller, Launch(c)
        PROVE  Single'
    <2>1. lock = c /\ procs \cap Caller = {} /\ procs' \subseteq procs \cup {c}
      BY <1>3 DEF Launch, At, Single, IInv, LockTells, Inside
    <2>2. \A d \in Caller : pc'[d] \notin {"which", "launch"}
      <3>1. \A d \in Caller \ {c} : pc[d] \notin Inside
        BY <2>1 DEF IInv, LockTells
      <3> QED
        BY <1>3, <3>1 DEF Launch, Release, At, IInv, TypeOK, Inside
    <2> QED
      BY <2>1, <2>2 DEF Single
  <1>4. ASSUME PollLoop \/ Wake
        PROVE  Single'
    <2>1. procs' \subseteq procs
      BY <1>4 DEF PollLoop, Wake, guest
    <2>2. pc' = Resumed(waiters)
      BY <1>4 DEF PollLoop, Wake, TrackVM
    <2>3. \A d \in Caller : pc'[d] \in {"which", "launch"} => pc[d] \in {"which", "launch"}
      BY <2>2 DEF Resumed
    <2> QED
      BY <2>1, <2>3, SingleKept
  <1>5. ASSUME GuestNext
        PROVE  Single'
    <2>1. pc' = pc /\ procs' \subseteq procs \cup {Boot}
      BY <1>5 DEF GuestNext, BootLaunch, ServerUp, ServerExits
    <2> QED
      BY <2>1, CallerAssumption, SingleKept
  <1>6. CASE UNCHANGED vars
    BY <1>6, SingleKept DEF vars, guest
  <1> QED
    BY <1>1, <1>2, <1>3, <1>4, <1>5, <1>6, SingleKept DEF Next

\* With a pgrep that answers right the lock keeps callers from running servers
\* side by side, whatever fails and whenever the VM is woken or booted.
THEOREM OneServer == Pgrep = {"works"} => (Spec => []OneSpawn)
  <1> SUFFICES ASSUME Pgrep = {"works"} PROVE Spec => []OneSpawn
    OBVIOUS
  <1>1. Single => OneSpawn
    <2> SUFFICES ASSUME Single PROVE Cardinality(procs \cap Caller) <= 1
      BY DEF OneSpawn
    <2>1. CASE procs \cap Caller = {}
      BY <2>1, FS_EmptySet
    <2>2. ASSUME NEW c \in procs \cap Caller PROVE Cardinality(procs \cap Caller) <= 1
      <3>1. procs \cap Caller = {c}
        BY DEF Single
      <3> QED
        BY <3>1, FS_Singleton
    <2> QED
      BY <2>1, <2>2
  <1>2. IInv /\ Single /\ [Next]_vars => Single'
    BY SingleStep
  <1> QED
    BY <1>1, <1>2, SingleInit, IInvHolds, PTL DEF Spec
============================================================================
