---------------------------- MODULE AccountsProofs ----------------------------
(***************************************************************************)
(* For any number of users and VMs: the tables keep their shape, no access   *)
(* entry outlives its VM, and the owner of a VM is the user who made it.     *)
(***************************************************************************)
EXTENDS Accounts, FiniteSetTheorems, TLAPS

\* What a VM that has no row yet, or no longer, may have: while its disks are
\* copied or its menu is open it has an owner, nobody deletes it, and nobody
\* has granted anything on it.
Unborn ==
  \A v \in VMs :
    /\ row[v] = "none" => v \notin demoted
    /\ job[v] \in {"copy", "menu"} =>
         row[v] = "none" /\ owner[v] \in Users /\ v \notin deleting

IInv == TypeOK /\ AccessNeedsRow /\ OwnerKnown /\ Unborn

LEMMA SetRowFacts ==
  ASSUME TypeOK, NEW v \in VMs, NEW s \in Rows \ {"none"}, SetRow(v, s)
  PROVE  /\ row' \in [VMs -> Rows]
         /\ \A w \in VMs : row'[w] = "none" <=> row[w] = "none"
BY DEF TypeOK, SetRow, Rows

LEMMA InsertFacts ==
  ASSUME TypeOK, NEW u \in Users, NEW v \in VMs, NEW j \in {"create", "clone"},
         Insert(u, v, j)
  PROVE  /\ row' \in [VMs -> Rows] /\ owner' \in [VMs -> Users \cup {Nobody}]
         /\ role' \in [VMs -> [Users -> Roles]] /\ job' \in [VMs -> Jobs]
         /\ row'[v] = "creating" /\ owner'[v] = u /\ role'[v][u] = "owner" /\ job'[v] = j
         /\ \A t \in Users \ {u} : role'[v][t] = role[v][t]
         /\ \A w \in VMs \ {v} : /\ row'[w] = row[w] /\ owner'[w] = owner[w]
                                 /\ role'[w] = role[w] /\ job'[w] = job[w]
         /\ deleting' = deleting /\ demoted' = demoted
BY DEF TypeOK, Insert, SetJob, Rows, Roles, Jobs

LEMMA EraseFacts ==
  ASSUME TypeOK, NEW v \in VMs, Erase(v)
  PROVE  /\ row' \in [VMs -> Rows] /\ owner' \in [VMs -> Users \cup {Nobody}]
         /\ role' \in [VMs -> [Users -> Roles]]
         /\ late' \subseteq VMs /\ demoted' \subseteq VMs
         /\ row'[v] = "none" /\ v \notin demoted'
         /\ \A u \in Users : role'[v][u] = "none"
         /\ \A w \in VMs \ {v} : /\ row'[w] = row[w] /\ owner'[w] = owner[w]
                                 /\ role'[w] = role[w]
                                 /\ w \in demoted' <=> w \in demoted
BY DEF TypeOK, Erase, Rows, Roles

-----------------------------------------------------------------------------
(* A VM whose row is there or not as before, with the access it had, keeps    *)
(* whatever was known of it.                                                  *)

LEMMA Untouched ==
  ASSUME IInv, NEW v \in VMs,
         row'[v] = "none" <=> row[v] = "none",
         role'[v] = role[v],
         row[v] # "none" => owner'[v] = owner[v],
         v \in demoted' <=> v \in demoted
  PROVE  /\ \A u \in Users : role'[v][u] # "none" => row'[v] # "none"
         /\ row'[v] # "none" =>
              LET owners == {u \in Users : role'[v][u] = "owner"}
              IN  IF v \in demoted' THEN owners = {} ELSE owners = {owner'[v]}
         /\ row'[v] = "none" => v \notin demoted'
BY DEF IInv, AccessNeedsRow, OwnerKnown, Unborn

\* The same for all VMs at once.
LEMMA AllUntouched ==
  ASSUME IInv,
         \A v \in VMs : row'[v] = "none" <=> row[v] = "none",
         role' = role,
         \A v \in VMs : row[v] # "none" => owner'[v] = owner[v],
         demoted' = demoted
  PROVE  /\ AccessNeedsRow' /\ OwnerKnown'
         /\ \A v \in VMs : row'[v] = "none" => v \notin demoted'
BY DEF IInv, AccessNeedsRow, OwnerKnown, Unborn

LEMMA InsertKeeps ==
  ASSUME IInv, NEW u \in Users, NEW v \in VMs, NEW j \in {"create", "clone"},
         row[v] = "none", late' \subseteq VMs, Insert(u, v, j)
  PROVE  IInv'
<1> USE DEF IInv
<1>1. \A t \in Users : role[v][t] = "none"
  BY DEF AccessNeedsRow
<1>2. TypeOK'
  BY InsertFacts DEF TypeOK
<1>3. AccessNeedsRow'
  BY InsertFacts, <1>1 DEF AccessNeedsRow
<1>4. OwnerKnown'
  <2> SUFFICES ASSUME NEW w \in VMs, row'[w] # "none"
      PROVE LET owners == {t \in Users : role'[w][t] = "owner"}
            IN  IF w \in demoted' THEN owners = {} ELSE owners = {owner'[w]}
    BY DEF OwnerKnown
  <2>1. CASE w = v
    <3>1. v \notin demoted'
      BY InsertFacts DEF Unborn
    <3>2. {t \in Users : role'[v][t] = "owner"} = {u}
      BY InsertFacts, <1>1
    <3> QED
      BY <2>1, <3>1, <3>2, InsertFacts
  <2>2. CASE w # v
    <3>1. /\ row'[w] = row[w] /\ owner'[w] = owner[w]
          /\ role'[w] = role[w] /\ demoted' = demoted
      BY <2>2, InsertFacts
    <3> QED
      BY <3>1, Untouched
  <2> QED
    BY <2>1, <2>2
<1>5. Unborn'
  BY InsertFacts DEF Unborn
<1> QED
  BY <1>2, <1>3, <1>4, <1>5

LEMMA EraseKeeps ==
  ASSUME IInv, NEW v \in VMs, Erase(v)
  PROVE  /\ AccessNeedsRow' /\ OwnerKnown'
         /\ \A w \in VMs : row'[w] = "none" => w \notin demoted'
<1>1. TypeOK
  BY DEF IInv
<1>2. ASSUME NEW w \in VMs, w # v
      PROVE  /\ row'[w] = row[w] /\ owner'[w] = owner[w]
             /\ role'[w] = role[w] /\ (w \in demoted' <=> w \in demoted)
  BY <1>1, <1>2, EraseFacts
<1>3. AccessNeedsRow'
  BY <1>1, <1>2, EraseFacts, Untouched DEF AccessNeedsRow
<1>4. OwnerKnown'
  <2> SUFFICES ASSUME NEW w \in VMs, row'[w] # "none"
      PROVE LET owners == {t \in Users : role'[w][t] = "owner"}
            IN  IF w \in demoted' THEN owners = {} ELSE owners = {owner'[w]}
    BY DEF OwnerKnown
  <2>1. w # v
    BY <1>1, EraseFacts
  <2> QED
    BY <1>2, <2>1, Untouched
<1>5. \A w \in VMs : row'[w] = "none" => w \notin demoted'
  BY <1>1, <1>2, EraseFacts, Untouched
<1> QED
  BY <1>3, <1>4, <1>5

-----------------------------------------------------------------------------
(* The induction.                                                            *)

LEMMA AccountsInit == Init => IInv
BY AccountsAssumption
   DEF Init, IInv, TypeOK, AccessNeedsRow, OwnerKnown, Unborn, Rows, Roles, Jobs

LEMMA GrantStep ==
  ASSUME IInv, NEW u \in Users, NEW v \in VMs, NEW t \in Users, NEW r \in Lesser,
         Grant(u, v, t, r)
  PROVE  IInv'
<1> USE DEF IInv
<1>1. r \in Roles /\ r # "owner" /\ r # "none"
  BY AccountsAssumption DEF Roles
<1>2. TypeOK'
  BY <1>1 DEF TypeOK, Grant, Manages
<1>3. /\ row' = row /\ owner' = owner /\ job' = job /\ deleting' = deleting
      /\ role'[v][t] = r
      /\ \A x \in Users \ {t} : role'[v][x] = role[v][x]
      /\ \A w \in VMs \ {v} : /\ role'[w] = role[w]
                              /\ w \in demoted' <=> w \in demoted
      /\ row[v] # "none" /\ role[v][u] = "owner"
      /\ demoted' = IF t = u THEN demoted \cup {v} ELSE demoted
  BY DEF TypeOK, Grant, Manages
<1>4. v \notin demoted /\ {x \in Users : role[v][x] = "owner"} = {owner[v]} /\ u = owner[v]
  BY <1>3 DEF OwnerKnown
<1>5. AccessNeedsRow'
  BY <1>3 DEF AccessNeedsRow
<1>6. OwnerKnown'
  <2> SUFFICES ASSUME NEW w \in VMs, row'[w] # "none"
      PROVE LET owners == {x \in Users : role'[w][x] = "owner"}
            IN  IF w \in demoted' THEN owners = {} ELSE owners = {owner'[w]}
    BY DEF OwnerKnown
  <2>1. CASE w = v /\ t = u
    <3>1. {x \in Users : role'[v][x] = "owner"} = {}
      BY <1>1, <1>3, <1>4, <2>1
    <3> QED
      BY <1>3, <2>1, <3>1
  <2>2. CASE w = v /\ t # u
    <3>1. {x \in Users : role'[v][x] = "owner"} = {u}
      BY <1>1, <1>3, <1>4, <2>2
    <3> QED
      BY <1>3, <1>4, <2>2, <3>1
  <2>3. CASE w # v
    BY <1>3, <2>3, Untouched
  <2> QED
    BY <2>1, <2>2, <2>3
<1>7. Unborn'
  BY <1>3 DEF Unborn
<1> QED
  BY <1>2, <1>5, <1>6, <1>7

LEMMA RevokeStep ==
  ASSUME IInv, NEW u \in Users, NEW v \in VMs, NEW t \in Users, Revoke(u, v, t)
  PROVE  IInv'
<1> USE DEF IInv
<1>1. TypeOK'
  BY DEF TypeOK, Revoke, Roles
<1>2. /\ row' = row /\ owner' = owner /\ job' = job /\ deleting' = deleting
      /\ demoted' = demoted
      /\ role[v][t] # "owner" /\ role'[v][t] = "none"
      /\ \A x \in Users \ {t} : role'[v][x] = role[v][x]
      /\ \A w \in VMs \ {v} : role'[w] = role[w]
  BY DEF TypeOK, Revoke
<1>3. AccessNeedsRow'
  BY <1>2 DEF AccessNeedsRow
<1>4. OwnerKnown'
  <2> SUFFICES ASSUME NEW w \in VMs, row'[w] # "none"
      PROVE LET owners == {x \in Users : role'[w][x] = "owner"}
            IN  IF w \in demoted' THEN owners = {} ELSE owners = {owner'[w]}
    BY DEF OwnerKnown
  <2>1. {x \in Users : role'[w][x] = "owner"} = {x \in Users : role[w][x] = "owner"}
    BY <1>2
  <2> QED
    BY <1>2, <2>1 DEF OwnerKnown
<1>5. Unborn'
  BY <1>2 DEF Unborn
<1> QED
  BY <1>1, <1>3, <1>4, <1>5

\* The start of a menu or a copy reserves an identifier that nobody has used.
LEMMA BeginStep ==
  ASSUME IInv, NEW u \in Users, NEW v \in VMs, Fresh(v),
         NEW j \in {"menu", "copy"}, SetJob(v, j),
         owner' = [owner EXCEPT ![v] = u],
         UNCHANGED <<row, role, deleting, late, demoted>>
  PROVE  IInv'
<1> USE DEF IInv
<1>1. TypeOK'
  BY DEF TypeOK, SetJob, Jobs
<1>2. /\ \A w \in VMs : row'[w] = "none" <=> row[w] = "none"
      /\ \A w \in VMs : row[w] # "none" => owner'[w] = owner[w]
  BY DEF TypeOK, Fresh
<1>3. AccessNeedsRow' /\ OwnerKnown'
  BY <1>2, AllUntouched
<1>4. Unborn'
  BY DEF TypeOK, Unborn, SetJob, Fresh
<1> QED
  BY <1>1, <1>3, <1>4

\* A job that ends or begins with a new status of a row that stays.
LEMMA StatusStep ==
  ASSUME IInv, NEW v \in VMs, NEW s \in Rows \ {"none"}, SetRow(v, s),
         NEW j \in {"none", "wake"}, SetJob(v, j) \/ UNCHANGED job,
         UNCHANGED <<owner, role, deleting, late, demoted>>
  PROVE  IInv'
<1> USE DEF IInv
<1>1. /\ row' \in [VMs -> Rows]
      /\ \A w \in VMs : row'[w] = "none" <=> row[w] = "none"
  BY SetRowFacts
<1>2. TypeOK'
  BY <1>1 DEF TypeOK, SetJob, Jobs
<1>3. AccessNeedsRow' /\ OwnerKnown'
  BY <1>1, AllUntouched
<1>4. \A w \in VMs : job'[w] = job[w] \/ job'[w] = j
  BY DEF TypeOK, SetJob
<1>5. Unborn'
  BY <1>1, <1>4 DEF Unborn
<1> QED
  BY <1>2, <1>3, <1>5

LEMMA RestartStep == IInv /\ Restart => IInv'
<1> SUFFICES ASSUME IInv, Restart PROVE IInv'
  OBVIOUS
<1> USE DEF IInv
<1>1. /\ row' \in [VMs -> Rows]
      /\ \A v \in VMs : row'[v] = "none" <=> row[v] = "none"
  BY DEF Restart, TypeOK, Rows
<1>2. TypeOK'
  BY <1>1 DEF TypeOK, Restart, Jobs
<1>3. \A v \in VMs : row[v] # "none" => owner'[v] = owner[v]
  BY DEF Restart
<1>4. role' = role /\ demoted' = demoted
  BY DEF Restart
<1>5. AccessNeedsRow' /\ OwnerKnown' /\ \A v \in VMs : row'[v] = "none" => v \notin demoted'
  BY <1>1, <1>3, <1>4, AllUntouched
<1>6. Unborn'
  BY <1>5 DEF Unborn, Restart
<1> QED
  BY <1>2, <1>5, <1>6

LEMMA AccountsStep == IInv /\ [Next]_vars => IInv'
<1> SUFFICES ASSUME IInv, [Next]_vars PROVE IInv'
  OBVIOUS
<1>1. ASSUME NEW u \in Users, NEW v \in VMs, Create(u, v) PROVE IInv'
  <2>1. row[v] = "none" /\ Insert(u, v, "create") /\ late' \subseteq VMs
    BY <1>1 DEF Create, Fresh, IInv, TypeOK
  <2> QED
    BY <2>1, InsertKeeps
<1>2. ASSUME NEW u \in Users, NEW v \in VMs, MenuAsks(u, v) PROVE IInv'
  BY <1>2, BeginStep DEF MenuAsks
<1>3. ASSUME NEW u \in Users, NEW v \in VMs, NEW s \in VMs, CloneCheck(u, s, v) PROVE IInv'
  BY <1>3, BeginStep DEF CloneCheck
<1>4. ASSUME NEW v \in VMs, CloneInsert(v) \/ MenuInsert(v) PROVE IInv'
  <2>1. job[v] \in {"copy", "menu"}
    BY <1>4 DEF CloneInsert, MenuInsert
  <2>2. row[v] = "none" /\ owner[v] \in Users
    BY <2>1 DEF IInv, Unborn
  <2>3. Insert(owner[v], v, "clone") \/ Insert(owner[v], v, "create")
    BY <1>4 DEF CloneInsert, MenuInsert
  <2>4. late' \subseteq VMs
    BY <1>4 DEF CloneInsert, MenuInsert, Overtaken, IInv, TypeOK
  <2> QED
    BY <2>2, <2>3, <2>4, InsertKeeps
<1>5. ASSUME NEW v \in VMs, GivesUp(v) PROVE IInv'
  <2> USE DEF IInv
  <2>1. row[v] = "none"
    BY <1>5 DEF GivesUp, Unborn
  <2>2. TypeOK'
    BY <1>5 DEF TypeOK, GivesUp, SetJob, Jobs
  <2>3. /\ row' = row /\ role' = role /\ demoted' = demoted /\ deleting' = deleting
        /\ \A w \in VMs \ {v} : owner'[w] = owner[w] /\ job'[w] = job[w]
        /\ job'[v] = "none"
    BY <1>5 DEF TypeOK, GivesUp, SetJob
  <2>4. AccessNeedsRow' /\ OwnerKnown'
    BY <2>1, <2>3, AllUntouched
  <2>5. Unborn'
    BY <2>3 DEF Unborn
  <2> QED
    BY <2>2, <2>4, <2>5
<1>6. ASSUME NEW v \in VMs, BootDone(v) \/ WakeFails(v) \/ Wake(v) \/ Sleep(v) PROVE IInv'
  <2>1. \E s \in Rows \ {"none"} : SetRow(v, s)
    BY <1>6 DEF BootDone, WakeFails, Wake, Sleep, Rows
  <2>2. \E j \in {"none", "wake"} : SetJob(v, j) \/ UNCHANGED job
    BY <1>6 DEF BootDone, WakeFails, Wake, Sleep
  <2>3. UNCHANGED <<owner, role, deleting, late, demoted>>
    BY <1>6 DEF BootDone, WakeFails, Wake, Sleep
  <2> QED
    BY <2>1, <2>2, <2>3, StatusStep
<1>7. ASSUME NEW v \in VMs, CreateFails(v) PROVE IInv'
  <2>1. Erase(v) /\ SetJob(v, "none") /\ deleting' = deleting
    BY <1>7 DEF CreateFails
  <2>2. TypeOK'
    BY <2>1, EraseFacts DEF IInv, TypeOK, SetJob, Jobs
  <2>3. \A w \in VMs \ {v} : job'[w] = job[w] /\ owner'[w] = owner[w] /\ row'[w] = row[w]
    BY <2>1, EraseFacts DEF IInv, TypeOK, SetJob
  <2>4. job'[v] = "none"
    BY <2>1 DEF IInv, TypeOK, SetJob
  <2>5. Unborn'
    BY <2>1, <2>3, <2>4, EraseKeeps DEF IInv, Unborn
  <2> QED
    BY <2>1, <2>2, <2>5, EraseKeeps DEF IInv
<1>8. ASSUME NEW v \in VMs, DeleteRow(v) PROVE IInv'
  <2>1. Erase(v) /\ job' = job /\ deleting' = deleting \ {v} /\ v \in deleting
    BY <1>8 DEF DeleteRow
  <2>2. TypeOK'
    BY <2>1, EraseFacts DEF IInv, TypeOK
  <2>3. \A w \in VMs \ {v} : owner'[w] = owner[w] /\ row'[w] = row[w]
    BY <2>1, EraseFacts DEF IInv
  <2>4. job[v] \notin {"copy", "menu"}
    BY <2>1 DEF IInv, Unborn
  <2>5. Unborn'
    BY <2>1, <2>3, <2>4, EraseKeeps DEF IInv, Unborn
  <2> QED
    BY <2>1, <2>2, <2>5, EraseKeeps DEF IInv
<1>9. ASSUME NEW u \in Users, NEW v \in VMs, DeleteCheck(u, v) PROVE IInv'
  <2>1. /\ UNCHANGED <<row, owner, role, job, late, demoted>>
        /\ deleting' = deleting \cup {v} /\ row[v] # "none"
    BY <1>9 DEF DeleteCheck, Manages
  <2> QED
    BY <2>1 DEF IInv, TypeOK, AccessNeedsRow, OwnerKnown, Unborn
<1>10. ASSUME NEW u \in Users, NEW v \in VMs, NEW t \in Users, Revoke(u, v, t) PROVE IInv'
  BY <1>10, RevokeStep
<1>11. ASSUME NEW u \in Users, NEW v \in VMs, NEW t \in Users, NEW r \in Lesser,
              Grant(u, v, t, r)
       PROVE IInv'
  BY <1>11, GrantStep
<1>12. CASE Restart
  BY <1>12, RestartStep
<1>13. CASE UNCHANGED vars
  BY <1>13 DEF IInv, TypeOK, AccessNeedsRow, OwnerKnown, Unborn, vars
<1> QED
  BY <1>1, <1>2, <1>3, <1>4, <1>5, <1>6, <1>7, <1>8, <1>9, <1>10, <1>11, <1>12, <1>13
     DEF Next

-----------------------------------------------------------------------------
(* The sums of a plan.                                                       *)

LEMMA UnitsFinite ==
  ASSUME NEW size \in [VMs -> Nat], NEW S \in SUBSET VMs
  PROVE  IsFiniteSet(Units(size, S))
<1> DEFINE f == [v \in S |-> {v} \X (1..size[v])]
           T == {{v} \X (1..size[v]) : v \in S}
<1>1. IsFiniteSet(S)
  BY FS_Subset, AccountsAssumption
<1>2. f \in Surjection(S, T)
  BY DEF Surjection
<1>3. IsFiniteSet(T)
  BY <1>1, <1>2, FS_Surjection
<1>4. ASSUME NEW v \in S PROVE IsFiniteSet({v} \X (1..size[v]))
  <2>1. 1 \in Int /\ size[v] \in Int
    OBVIOUS
  <2>2. IsFiniteSet({v}) /\ IsFiniteSet(1..size[v])
    BY <2>1, FS_Singleton, FS_Interval
  <2> QED
    BY <2>2, FS_Product
<1>5. \A X \in T : IsFiniteSet(X)
  BY <1>4
<1> QED
  BY <1>3, <1>5, FS_UNION DEF Units

\* A sum grows with the set, and by no more than the size of what is added.
LEMMA SumFacts ==
  ASSUME NEW size \in [VMs -> Nat], NEW S \in SUBSET VMs
  PROVE  /\ Cardinality(Units(size, S)) \in Nat
         /\ \A T \in SUBSET S : Cardinality(Units(size, T)) <= Cardinality(Units(size, S))
         /\ \A v \in VMs : Cardinality(Units(size, S \cup {v}))
                              <= Cardinality(Units(size, S)) + size[v]
<1>1. IsFiniteSet(Units(size, S)) /\ Cardinality(Units(size, S)) \in Nat
  BY UnitsFinite, FS_CardinalityType
<1>2. ASSUME NEW T \in SUBSET S
      PROVE  Cardinality(Units(size, T)) <= Cardinality(Units(size, S))
  <2>1. Units(size, T) \in SUBSET Units(size, S)
    BY DEF Units
  <2> QED
    BY <1>1, <2>1, FS_Subset
<1>3. ASSUME NEW v \in VMs
      PROVE  Cardinality(Units(size, S \cup {v})) <= Cardinality(Units(size, S)) + size[v]
  <2> DEFINE own == {v} \X (1..size[v])
  <2>1. Units(size, S \cup {v}) = Units(size, S) \cup own
    BY DEF Units
  <2>2. size[v] \in Nat /\ 1 \in Int /\ size[v] \in Int
    OBVIOUS
  <2>3. /\ IsFiniteSet({v}) /\ Cardinality({v}) = 1
        /\ IsFiniteSet(1..size[v]) /\ Cardinality(1..size[v]) = size[v]
    <3>1. IsFiniteSet({v}) /\ Cardinality({v}) = 1
      BY FS_Singleton
    <3>2. IsFiniteSet(1..size[v]) /\ Cardinality(1..size[v]) = size[v]
      BY <2>2, FS_Interval
    <3> QED
      BY <3>1, <3>2
  <2>7. IsFiniteSet(own) /\ Cardinality(own) = 1 * size[v]
    BY <2>3, FS_Product
  <2>4. IsFiniteSet(Units(size, S) \cap own)
    BY <1>1, FS_Intersection
  <2>5. Cardinality(Units(size, S) \cap own) \in Nat
    BY <2>4, FS_CardinalityType
  <2>6. Cardinality(Units(size, S) \cup own)
          = Cardinality(Units(size, S)) + Cardinality(own) - Cardinality(Units(size, S) \cap own)
    BY <1>1, <2>7, FS_Union
  <2>8. Cardinality(own) = size[v]
    BY <2>2, <2>7
  <2> HIDE DEF own
  <2>9. Cardinality(Units(size, S) \cup own) <= Cardinality(Units(size, S)) + size[v]
    BY <1>1, <2>2, <2>5, <2>6, <2>8
  <2> QED
    BY <2>1, <2>9
<1> QED
  BY <1>1, <1>2, <1>3

-----------------------------------------------------------------------------
(* The plan.                                                                 *)

\* What comes up is not yet up: a boot that ends adds nothing to a sum.
ComingUp ==
  \A v \in VMs : job[v] \in {"create", "clone", "wake"} => row[v] \in {"none", "creating"}

\* What is left of a set that is within a limit is within it, and so is what
\* was asked for before something was added.
LEMMA StaysWithin ==
  ASSUME NEW size \in [VMs -> Nat], NEW limit \in Nat,
         NEW S \in SUBSET VMs, NEW T,
         \/ T \subseteq S /\ Cardinality(Units(size, S)) <= limit
         \/ \E v \in VMs : /\ T \subseteq S \cup {v}
                           /\ Cardinality(Units(size, S)) + size[v] <= limit
  PROVE  Cardinality(Units(size, T)) <= limit
<1>1. CASE T \subseteq S /\ Cardinality(Units(size, S)) <= limit
  <2>1. /\ Cardinality(Units(size, T)) <= Cardinality(Units(size, S))
        /\ Cardinality(Units(size, T)) \in Nat /\ Cardinality(Units(size, S)) \in Nat
    BY <1>1, SumFacts
  <2> QED
    BY <1>1, <2>1
<1>2. ASSUME NEW v \in VMs, T \subseteq S \cup {v},
             Cardinality(Units(size, S)) + size[v] <= limit
      PROVE  Cardinality(Units(size, T)) <= limit
  <2>1. /\ Cardinality(Units(size, S \cup {v})) <= Cardinality(Units(size, S)) + size[v]
        /\ Cardinality(Units(size, S)) \in Nat /\ Cardinality(Units(size, S \cup {v})) \in Nat
    BY SumFacts
  <2>2. /\ Cardinality(Units(size, T)) <= Cardinality(Units(size, S \cup {v}))
        /\ Cardinality(Units(size, T)) \in Nat
    BY <1>2, SumFacts
  <2>3. size[v] \in Nat
    OBVIOUS
  <2> QED
    BY <1>2, <2>1, <2>2, <2>3
<1> QED
  BY <1>1, <1>2

\* A step after which a user has no more that counts keeps him in his plan.
LEMMA NoGrowth ==
  ASSUME TypeOK, WithinPlan, NEW u \in Users,
         Provisioned(u)' \ late' \subseteq Provisioned(u) \ late,
         Stored(u)' \ late' \subseteq Stored(u) \ late
  PROVE  /\ MemOf(Provisioned(u)' \ late') <= MaxRam
         /\ DiskOf(Stored(u)' \ late') <= MaxDisk
<1>1. Provisioned(u) \ late \in SUBSET VMs /\ Stored(u) \ late \in SUBSET VMs
  BY DEF Provisioned, Stored, Owned
<1>2. MemOf(Provisioned(u) \ late) <= MaxRam /\ DiskOf(Stored(u) \ late) <= MaxDisk
  BY DEF WithinPlan
<1> QED
  BY <1>1, <1>2, StaysWithin, AccountsAssumption DEF MemOf, DiskOf

\* Rows that change among statuses that count alike, rows that go, and roles
\* that are not made owner give nobody more.
LEMMA SameOrLess ==
  ASSUME TypeOK, WithinPlan,
         \A v \in VMs : v \in late => v \in late' \/ row'[v] = "none",
         \A v \in VMs, u \in Users :
           row'[v] # "none" /\ role'[v][u] = "owner"
             => row[v] # "none" /\ role[v][u] = "owner",
         \A v \in VMs :
           /\ row'[v] \in {"running", "creating"} => row[v] \in {"running", "creating"}
           /\ row[v] = "error" => row'[v] \in {"error", "none"}
  PROVE  WithinPlan'
<1> SUFFICES ASSUME NEW u \in Users
    PROVE /\ MemOf(Provisioned(u)' \ late') <= MaxRam
          /\ DiskOf(Stored(u)' \ late') <= MaxDisk
  BY DEF WithinPlan, MemOf, DiskOf, Units
<1>1. /\ Provisioned(u)' \ late' \subseteq Provisioned(u) \ late
      /\ Stored(u)' \ late' \subseteq Stored(u) \ late
  BY DEF Provisioned, Stored, Owned
<1> QED
  BY <1>1, NoGrowth

\* An insertion fits into the plan of its owner, or is late.
LEMMA InsertWithin ==
  ASSUME IInv, WithinPlan, NEW u \in Users, NEW v \in VMs,
         NEW j \in {"create", "clone"}, row[v] = "none", Insert(u, v, j),
         \/ Fits(u, v) /\ late' = late
         \/ late' = late \cup {v}
  PROVE  WithinPlan'
<1> SUFFICES ASSUME NEW t \in Users
    PROVE /\ MemOf(Provisioned(t)' \ late') <= MaxRam
          /\ DiskOf(Stored(t)' \ late') <= MaxDisk
  BY DEF WithinPlan, MemOf, DiskOf, Units
<1>1. /\ row'[v] = "creating" /\ role'[v][u] = "owner"
      /\ \A x \in Users \ {u} : role'[v][x] = "none"
      /\ \A w \in VMs \ {v} : row'[w] = row[w] /\ role'[w] = role[w]
  BY InsertFacts DEF IInv, AccessNeedsRow
<1>2. /\ Provisioned(t) \in SUBSET VMs /\ Stored(t) \in SUBSET VMs
      /\ Provisioned(t)' \subseteq Provisioned(t) \cup {v}
      /\ Stored(t)' \subseteq Stored(t) \cup {v}
      /\ t # u => Provisioned(t)' \subseteq Provisioned(t) /\ Stored(t)' \subseteq Stored(t)
  BY <1>1 DEF Provisioned, Stored, Owned
<1>3. CASE t = u /\ Fits(u, v) /\ late' = late
  <2>1. /\ MemOf(Provisioned(t)) + Mem[v] <= MaxRam
        /\ DiskOf(Stored(t)) + Disk[v] <= MaxDisk
    BY <1>3 DEF Fits
  <2> QED
    BY <1>2, <2>1, StaysWithin, AccountsAssumption DEF MemOf, DiskOf
<1>4. CASE t # u \/ late' = late \cup {v}
  <2>1. late \subseteq late' /\ (t = u => v \in late')
    BY <1>4
  <2>2. /\ Provisioned(t)' \ late' \subseteq Provisioned(t) \ late
        /\ Stored(t)' \ late' \subseteq Stored(t) \ late
    BY <1>2, <2>1
  <2> QED
    BY <2>2, NoGrowth DEF IInv
<1> QED
  BY <1>3, <1>4

\* A wake asks the plan of the VM's owner, and nobody else owns it.
LEMMA WakeWithin ==
  ASSUME IInv, WithinPlan, NEW v \in VMs, Wake(v)
  PROVE  WithinPlan'
<1> SUFFICES ASSUME NEW t \in Users
    PROVE /\ MemOf(Provisioned(t)' \ late') <= MaxRam
          /\ DiskOf(Stored(t)' \ late') <= MaxDisk
  BY DEF WithinPlan, MemOf, DiskOf, Units
<1>1. /\ row[v] = "snapshotted" /\ row'[v] = "creating"
      /\ \A w \in VMs \ {v} : row'[w] = row[w]
      /\ role' = role /\ late' = late
      /\ MemOf(Provisioned(owner[v])) + Mem[v] <= MaxRam
  BY DEF Wake, WakeFits, SetRow, IInv, TypeOK
<1>2. Stored(t)' = Stored(t) /\ Stored(t) \in SUBSET VMs
  BY <1>1 DEF Stored, Owned
<1>3. /\ Provisioned(t) \in SUBSET VMs
      /\ Provisioned(t)' \subseteq Provisioned(t) \cup {v}
      /\ role[v][t] # "owner" => Provisioned(t)' = Provisioned(t)
  BY <1>1 DEF Provisioned, Owned
<1>4. role[v][t] = "owner" => t = owner[v]
  BY <1>1 DEF IInv, OwnerKnown
<1>5. DiskOf(Stored(t)' \ late') <= MaxDisk
  BY <1>1, <1>2 DEF WithinPlan
<1>6. CASE role[v][t] # "owner"
  BY <1>1, <1>3, <1>5, <1>6 DEF WithinPlan
<1>7. CASE role[v][t] = "owner"
  <2>1. MemOf(Provisioned(t)) + Mem[v] <= MaxRam
    BY <1>1, <1>4, <1>7
  <2>2. MemOf(Provisioned(t)' \ late') <= MaxRam
    BY <1>3, <2>1, StaysWithin, AccountsAssumption DEF MemOf
  <2> QED
    BY <1>5, <2>2
<1> QED
  BY <1>6, <1>7

LEMMA ComingUpStep == IInv /\ ComingUp /\ [Next]_vars => ComingUp'
<1> SUFFICES ASSUME IInv, ComingUp, [Next]_vars PROVE ComingUp'
  OBVIOUS
<1> USE DEF IInv, ComingUp
<1>1. ASSUME NEW u \in Users, NEW v \in VMs, NEW j \in {"create", "clone"}, Insert(u, v, j)
      PROVE  ComingUp'
  BY <1>1, InsertFacts
<1>2. ASSUME NEW v \in VMs, BootDone(v) \/ WakeFails(v) \/ Wake(v) \/ Sleep(v)
      PROVE  ComingUp'
  BY <1>2 DEF TypeOK, BootDone, WakeFails, Wake, Sleep, SetRow, SetJob
<1>3. ASSUME NEW v \in VMs, Erase(v), job' = job \/ SetJob(v, "none")
      PROVE  ComingUp'
  BY <1>3 DEF TypeOK, Erase, SetJob
<1>4. ASSUME NEW v \in VMs, NEW j \in {"none", "menu", "copy"}, SetJob(v, j), row' = row
      PROVE  ComingUp'
  BY <1>4 DEF TypeOK, SetJob
<1>5. CASE Restart
  BY <1>5 DEF Restart
<1>6. CASE row' = row /\ job' = job
  BY <1>6
<1>7. ASSUME NEW u \in Users, NEW v \in VMs,
             \/ Create(u, v) \/ MenuAsks(u, v) \/ \E s \in VMs : CloneCheck(u, s, v)
             \/ DeleteCheck(u, v)
             \/ \E t \in Users : Revoke(u, v, t) \/ \E r \in Lesser : Grant(u, v, t, r)
      PROVE  ComingUp'
  BY <1>1, <1>4, <1>6, <1>7
     DEF Create, MenuAsks, CloneCheck, DeleteCheck, Revoke, Grant
<1>8. ASSUME NEW v \in VMs, CloneInsert(v) \/ MenuInsert(v) PROVE ComingUp'
  <2>1. owner[v] \in Users
    BY <1>8 DEF CloneInsert, MenuInsert, Unborn
  <2> QED
    BY <1>1, <1>8, <2>1 DEF CloneInsert, MenuInsert
<1>9. ASSUME NEW v \in VMs, GivesUp(v) \/ CreateFails(v) \/ DeleteRow(v) PROVE ComingUp'
  BY <1>3, <1>4, <1>9 DEF GivesUp, CreateFails, DeleteRow
<1> QED
  BY <1>2, <1>5, <1>6, <1>7, <1>8, <1>9 DEF Next, vars

LEMMA WithinStep == IInv /\ ComingUp /\ WithinPlan /\ [Next]_vars => WithinPlan'
<1> SUFFICES ASSUME IInv, ComingUp, WithinPlan, [Next]_vars PROVE WithinPlan'
  OBVIOUS
<1> USE DEF IInv
<1>1. CASE UNCHANGED <<row, role, late>>
  BY <1>1, SameOrLess
<1>2. ASSUME NEW u \in Users, NEW v \in VMs, Create(u, v) PROVE WithinPlan'
  BY <1>2, InsertWithin DEF Create, Fresh
<1>3. ASSUME NEW v \in VMs, CloneInsert(v) \/ MenuInsert(v) PROVE WithinPlan'
  <2>1. row[v] = "none" /\ owner[v] \in Users
    BY <1>3 DEF CloneInsert, MenuInsert, Unborn
  <2>2. Insert(owner[v], v, "clone") \/ Insert(owner[v], v, "create")
    BY <1>3 DEF CloneInsert, MenuInsert
  <2>3. \/ Fits(owner[v], v) /\ late' = late
        \/ late' = late \cup {v}
    BY <1>3 DEF CloneInsert, MenuInsert, Overtaken
  <2> QED
    BY <2>1, <2>2, <2>3, InsertWithin
<1>4. ASSUME NEW v \in VMs, BootDone(v) \/ WakeFails(v) \/ Sleep(v) PROVE WithinPlan'
  <2>1. role' = role /\ late' = late /\ \A w \in VMs \ {v} : row'[w] = row[w]
    BY <1>4 DEF BootDone, WakeFails, Sleep, SetRow, TypeOK
  <2>2. row[v] = "none" => row'[v] = "none"
    BY <1>4 DEF BootDone, WakeFails, Sleep, SetRow, TypeOK
  <2>3. /\ row[v] \in {"none", "creating", "running"}
        /\ row[v] = "running" => row'[v] \notin {"running", "creating"}
    BY <1>4 DEF BootDone, WakeFails, Sleep, SetRow, TypeOK, ComingUp
  <2> QED
    BY <2>1, <2>2, <2>3, SameOrLess
<1>5. ASSUME NEW v \in VMs, CreateFails(v) \/ DeleteRow(v) PROVE WithinPlan'
  <2>1. Erase(v)
    BY <1>5 DEF CreateFails, DeleteRow
  <2>2. late' = late \ {v}
    BY <2>1 DEF Erase
  <2> QED
    BY <2>1, <2>2, EraseFacts, SameOrLess
<1>6. ASSUME NEW v \in VMs, Wake(v) PROVE WithinPlan'
  BY <1>6, WakeWithin
<1>7. CASE Restart
  BY <1>7, SameOrLess DEF Restart, TypeOK
<1>8. ASSUME NEW u \in Users, NEW v \in VMs, NEW t \in Users,
             Revoke(u, v, t) \/ \E r \in Lesser : Grant(u, v, t, r)
      PROVE  WithinPlan'
  <2>1. /\ row' = row /\ late' = late
        /\ \A w \in VMs, x \in Users : role'[w][x] = "owner" => role[w][x] = "owner"
    BY <1>8, AccountsAssumption DEF Revoke, Grant, TypeOK, Roles
  <2> QED
    BY <2>1, SameOrLess
<1>9. ASSUME NEW v \in VMs, GivesUp(v) PROVE WithinPlan'
  BY <1>1, <1>9 DEF GivesUp
<1>10. ASSUME NEW u \in Users, NEW v \in VMs,
              MenuAsks(u, v) \/ (\E s \in VMs : CloneCheck(u, s, v)) \/ DeleteCheck(u, v)
       PROVE  WithinPlan'
  BY <1>1, <1>10 DEF MenuAsks, CloneCheck, DeleteCheck
<1>11. CASE UNCHANGED vars
  BY <1>1, <1>11 DEF vars
<1> QED
  BY <1>2, <1>3, <1>4, <1>5, <1>6, <1>7, <1>8, <1>9, <1>10, <1>11 DEF Next

-----------------------------------------------------------------------------

LEMMA AccountsInvariant == Spec => []IInv
BY AccountsInit, AccountsStep, PTL DEF Spec

\* The tables keep their shape: statuses, roles and jobs stay among those the
\* handlers write.
THEOREM AccountsTypeCorrect == Spec => []TypeOK
<1>1. IInv => TypeOK
  BY DEF IInv
<1> QED
  BY <1>1, AccountsInvariant, PTL

\* vm_access holds no entry of a VM that has no row, whatever creations,
\* deletions and grants overlap.
THEOREM NoOrphanAccess == Spec => []AccessNeedsRow
<1>1. IInv => AccessNeedsRow
  BY DEF IInv
<1> QED
  BY <1>1, AccountsInvariant, PTL

\* The owner entry of a VM is that of the user who created it, and of nobody
\* else, unless he replaced it himself.
THEOREM OneOwner == Spec => []OwnerKnown
<1>1. IInv => OwnerKnown
  BY DEF IInv
<1> QED
  BY <1>1, AccountsInvariant, PTL

\* Whatever handlers do between each other's awaits, an owner's VMs stay within
\* the memory and the disk of his plan, but for those whose check was out of date
\* when they were inserted; for VMs of any sizes.
THEOREM PlansHold == Spec => []WithinPlan
<1>1. Init => ComingUp /\ WithinPlan
  <2>1. Init => ComingUp
    BY DEF Init, ComingUp
  <2>2. ASSUME Init PROVE WithinPlan
    <3> SUFFICES ASSUME NEW u \in Users
        PROVE /\ MemOf(Provisioned(u) \ late) <= MaxRam
              /\ DiskOf(Stored(u) \ late) <= MaxDisk
      BY DEF WithinPlan
    <3>1. Units(Mem, Provisioned(u) \ late) = {} /\ Units(Disk, Stored(u) \ late) = {}
      BY <2>2 DEF Init, Units, Provisioned, Stored, Owned
    <3> QED
      BY <3>1, FS_EmptySet, AccountsAssumption DEF MemOf, DiskOf
  <2> QED
    BY <2>1, <2>2
<1>2. IInv /\ ComingUp /\ WithinPlan /\ [Next]_vars => (ComingUp /\ WithinPlan)'
  BY ComingUpStep, WithinStep
<1> QED
  BY <1>1, <1>2, AccountsInvariant, PTL DEF Spec

=============================================================================
