--------------------------- MODULE MCGuestAccess ---------------------------
(***************************************************************************)
(* What lets people into a VM: their keys, and the sessions they open.  The *)
(* two share no state, so a behaviour is one of one of them, with the other *)
(* at rest.                                                                 *)
(***************************************************************************)
EXTENDS Connections, FiniteSets

CONSTANTS Users, Keys, Offered

ASSUME OfferedAssumption == Offered \in Keys

VARIABLES part,                                     \* the part that acts
          db, cache, members, state, file, envKeys, execs, sync, listed,
          missing, link, told, excused

K == INSTANCE SshKeys WITH vm <- state

keys == <<db, cache, members, state, file, envKeys, execs, sync, listed, missing,
          link, told, excused>>
both == <<part, vars, keys>>

BothInit ==
  /\ part \in {"sessions", "keys"}
  /\ Init /\ K!Init
  /\ part = "keys"     => vm = "up"
  /\ part = "sessions" => members = {CHOOSE u \in Users : TRUE} /\ file = {}

InSessions(A) == part = "sessions" /\ A /\ UNCHANGED <<part, keys>>
InKeys(A)     == part = "keys" /\ A /\ UNCHANGED <<part, vars>>

BothNext == InSessions(Next) \/ InKeys(K!Next)

\* The fairness of Connections!FairSpec
FairBoth ==
  /\ BothInit /\ [][BothNext]_both
  /\ \A c \in Clients : /\ WF_both(InSessions(Woken(c)))
                        /\ WF_both(InSessions(Bridge(c) \/ UpstreamError(c)))
  /\ \A t \in Tabs : /\ WF_both(InSessions(Reattach(t)))
                     /\ WF_both(InSessions(Spawn(t) \/ TurnAway(t)))
  /\ WF_both(InSessions(Resume)) /\ WF_both(InSessions(WakeDone \/ WakeFails))
  /\ WF_both(InSessions(HangUp)) /\ WF_both(InSessions(CleanUp))
  /\ WF_both(InSessions(Pause)) /\ WF_both(InSessions(SnapDone \/ SnapFails))
  /\ WF_both(InSessions(TimerFires))

(* Recognised keys are those of the table: SshKeys!CacheAgrees.             *)
CacheAgrees == K!CacheAgrees

(* Keys reach a running guest: SshKeys!KeysDelivered.                       *)
KeysDelivered == K!KeysDelivered
=============================================================================
