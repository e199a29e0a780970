--------------------------- MODULE MCVMLifecycle ---------------------------
(* Constants of the runs of VMLifecycle.                                   *)
EXTENDS VMLifecycle, TLC

CONSTANTS v1, v2, t1, t2, t3

\* Every operation may be in flight three times over: the tasks are alike.
ServesAll == [t \in Task |-> Handler]
TaskSymmetry == Permutations(Task)

\* One snapshotter at a time, against who creates, clones or wakes, and a waker.
ServesOrderly == (t1 :> {"create", "clone", "wake"}) @@ (t2 :> {"poll", "pause"})
                 @@ (t3 :> {"wake"})

\* The SSH stop command and a wake, one after the other.
ServesStop == t1 :> {"stop", "wake"}

\* Two wakes.
ServesWakes == [t \in Task |-> {"wake"}]

\* Clones alone, and a clone next to a snapshotter.
ServesClones == [t \in Task |-> {"clone"}]
ServesCopyAndSleep == (t1 :> {"clone"}) @@ (t2 :> {"poll", "pause"})

\* The idle monitor alone, and one waker.
ServesIdle == (t1 :> {"wake"}) @@ (t2 :> {"poll"})
============================================================================
