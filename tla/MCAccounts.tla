---------------------------- MODULE MCAccounts ----------------------------
(* Instances of Accounts for TLC: VMs of one size, so that each may be the   *)
(* clone of any other.                                                      *)
EXTENDS Accounts, TLC

One   == [v \in VMs |-> 1]
Alike == Permutations(Users) \cup Permutations(VMs)

=============================================================================
