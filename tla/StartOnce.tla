----------------------------- MODULE StartOnce -----------------------------
(***************************************************************************)
(* What OpenCodeBridge.ensureRunning promises its callers, whatever it     *)
(* does inside: one caller at a time tries to start the server, and only   *)
(* he can be told that it failed; the others wait until the server is up   *)
(* or it is their turn to try.                                             *)
(***************************************************************************)
CONSTANT Caller

VARIABLE state   \* what each caller's call has come to

Init == state = [c \in Caller |-> "idle"]

Ask(c) ==
    /\ state[c] = "idle"
    /\ state' = [state EXCEPT ![c] = "asked"]

Try(c) ==
    /\ state[c] \in {"idle", "asked"}
    /\ \A d \in Caller : state[d] # "trying"
    /\ state' = [state EXCEPT ![c] = "trying"]

Conclude(c) ==
    /\ state[c] = "trying"
    /\ \E r \in {"ok", "failed"} : state' = [state EXCEPT ![c] = r]

Ride(c) ==
    /\ state[c] = "asked"
    /\ state' = [state EXCEPT ![c] = "ok"]

Next == \E c \in Caller : Ask(c) \/ Try(c) \/ Conclude(c) \/ Ride(c)

Spec == Init /\ [][Next]_state
============================================================================
