----------------------------- MODULE SleepCycle -----------------------------
(***************************************************************************)
(* What the control plane promises about the machine inside a VM, whatever *)
(* it does to get there: what the machine has in its memory is in a guest  *)
(* or in an image on disk.  The image is written before the guest ends,    *)
(* and read before the image goes; a VM sleeps on its image and wakes from *)
(* it; a boot that fails leaves behind what it found.                      *)
(***************************************************************************)
CONSTANT VM

VARIABLES
    phase,    \* "absent", "booting", "up", "asleep", or "over": given up
    memory    \* where the machine's memory is: "guest", "image", both, nowhere

Init ==
    /\ phase \in [VM -> {"absent", "up", "asleep", "over"}]
    /\ memory = [v \in VM |-> CASE phase[v] = "up"     -> {"guest"}
                                [] phase[v] = "asleep" -> {"image"}
                                [] OTHER               -> {}]

Moves(v, from, to) == phase[v] = from /\ phase' = [phase EXCEPT ![v] = to]
Stays(v, in)       == phase[v] = in /\ UNCHANGED phase
Keeps(v, m)        == memory' = [memory EXCEPT ![v] = m]

\* A boot begins: of a new machine, or of one that sleeps.
Create(v) == Moves(v, "absent", "booting") /\ UNCHANGED memory
Wake(v)   == Moves(v, "asleep", "booting") /\ UNCHANGED memory

\* It starts a guest, from the image if there is one.
StartGuest(v) == Stays(v, "booting") /\ Keeps(v, memory[v] \cup {"guest"})

\* And it is done: from now on only the guest knows.
ComeUp(v) ==
    /\ "guest" \in memory[v]
    /\ Moves(v, "booting", "up") /\ Keeps(v, {"guest"})

\* Or it fails, with the guest started or not.
GiveUp(v) ==
    /\ Moves(v, "booting", "over") \/ Moves(v, "asleep", "over")
    /\ Keeps(v, memory[v]) \/ Keeps(v, memory[v] \cup {"guest"})

\* Falling asleep: the image, the end of the guest, the row.
Save(v) ==
    /\ "guest" \in memory[v]
    /\ Stays(v, "up") /\ Keeps(v, memory[v] \cup {"image"})

EndGuest(v) ==
    /\ memory[v] = {"guest", "image"}
    /\ Stays(v, "up") /\ Keeps(v, {"image"})

FallAsleep(v) ==
    /\ memory[v] = {"image"}
    /\ Moves(v, "up", "asleep") /\ UNCHANGED memory

\* A restart before the row: the VM is given up with a good image.
Lapse(v) ==
    /\ memory[v] = {"image"}
    /\ Moves(v, "up", "over") /\ UNCHANGED memory

Next == \E v \in VM :
    \/ Create(v) \/ Wake(v) \/ StartGuest(v) \/ ComeUp(v) \/ GiveUp(v)
    \/ Save(v) \/ EndGuest(v) \/ FallAsleep(v) \/ Lapse(v)

Spec == Init /\ [][Next]_<<phase, memory>>

\* What a machine had in its memory is never gone, in whatever phase.
Kept == [][\A v \in VM : memory[v] # {} => memory'[v] # {}]_<<phase, memory>>
============================================================================
