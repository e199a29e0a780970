------------------------------ MODULE MCFront ------------------------------
(***************************************************************************)
(* The parts before the control plane that share no state: signing in, the  *)
(* dashboard's pages, the tabs of a VM's page and Caddy's configuration.  As *)
(* no step of one reads what another writes, their interleavings would add  *)
(* nothing: a behaviour is one of one part, with the others at rest, and the *)
(* tabs, which share nothing either, count as parts of their own.           *)
(***************************************************************************)
EXTENDS Naturals, Sequences, FiniteSets

CONSTANTS Emails, Ids, LinkEmail, None, MaxFlows, Names, Bad, MaxPolls, MaxUpsets,
          VMs, MaxLoads, Items, Dirs, Root, MaxTerm, MaxReqs

ASSUME NoneAssumption == None \notin Emails \cup Ids

VARIABLES part,                                     \* the part that acts
          users, jar, flows, link,                  \* SignIn
          row, spoilt, job, page, field, verdict, due, checks, form, view,
          polls, upsets,                            \* Pages
          hosts, work, public, del, route, loads, stale,    \* Routes
          tab, stored, shown, ready, saving, missed, sessions, tabs, active,
          counter, dirs, reading, reqs              \* Panels

S == INSTANCE SignIn
P == INSTANCE Pages
R == INSTANCE Routes WITH row <- hosts, job <- work
T == INSTANCE Panels

ASSUME PanelsAssumption ==
  /\ None \notin T!Requests
  /\ MaxTerm \in Nat /\ MaxReqs \in Nat /\ Root \in Dirs

signin == <<users, jar, flows, link>>
pages  == <<row, spoilt, job, page, field, verdict, due, checks, form, view,
            polls, upsets>>
routes == <<hosts, work, public, del, route, loads, stale>>
panels == <<tab, stored, shown, ready, saving, missed, sessions, tabs, active,
            counter, dirs, reading, reqs>>
vars   == <<part, signin, pages, routes, panels>>

Panels == {"firewall", "access", "terminal", "files"}

Init ==
  /\ part \in {"signin", "pages", "routes"} \cup Panels
  /\ S!Init /\ P!Init /\ R!Init /\ T!Init
  /\ part # "pages"    => \A n \in Names : row[n] = "none"
  /\ part # "routes"   => \A v \in VMs : hosts[v] = "none"
  /\ part # "terminal" => sessions = {}

InSignIn(A) == part = "signin" /\ A /\ UNCHANGED <<part, pages, routes, panels>>
InPages(A)  == part = "pages"  /\ A /\ UNCHANGED <<part, signin, routes, panels>>
InRoutes(A) == part = "routes" /\ A /\ UNCHANGED <<part, signin, pages, panels>>
InPanels(A) ==
  /\ part \in Panels /\ A
  /\ tab' \in {"none", part}
  /\ part # "terminal" => sessions' = sessions
  /\ \A l \in DOMAIN stored \ {part} : stored'[l] = stored[l]
  /\ UNCHANGED <<part, signin, pages, routes>>

Next == InSignIn(S!Next) \/ InPages(P!Next) \/ InRoutes(R!Next) \/ InPanels(T!Next)

\* The fairness of Pages!FairSpec; the other parts promise no progress.
FairSpec ==
  /\ Init /\ [][Next]_vars
  /\ WF_vars(InPages(P!VMStep)) /\ WF_vars(InPages(P!Serves))
  /\ WF_vars(InPages(P!Answers)) /\ WF_vars(InPages(P!Intervals))

(* Cookies of different login flows do not mix: SignIn!OwnFlow.             *)
OwnFlow == S!OwnFlow

(* An account with a provider belongs to one user: SignIn!OneAccount.       *)
OneAccount == S!OneAccount

(* A page comes to show that its VM runs: Pages!DetailFollows.              *)
DetailFollows == P!DetailFollows

(* A launch on the deploy page ends: Pages!DeployEnds.                      *)
DeployEnds == P!DeployEnds

(* Caddy serves what the rows say: Routes!RoutesAgree.                      *)
RoutesAgree == R!RoutesAgree

(* A panel shows what the database has: Panels!PanelAgrees.                 *)
PanelAgrees == T!PanelAgrees

(* Terminals have names of their own: Panels!TabsSound.                     *)
TabsSound == T!TabsSound

(* A spinner waits for an answer: Panels!SpinnersEnd.                       *)
SpinnersEnd == T!SpinnersEnd
=============================================================================
