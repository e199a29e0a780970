-------------------------- MODULE MCPortAllocator --------------------------
(* Instances of PortAllocator for TLC.                                     *)
EXTENDS PortAllocator, TLC

CONSTANTS r1, r2, r3, r4

RequestSymmetry == Permutations(Request)

ServesAll == [r \in Request |-> Kind]

\* An HTTP create; the others clone running VMs, whose guests they pause.
ServesClones == [r \in Request |-> IF r = r1 THEN {"http"} ELSE {"clone"}]
=============================================================================
