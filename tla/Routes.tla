------------------------------- MODULE Routes -------------------------------
(***************************************************************************)
(* The configuration of Caddy (services/caddy.ts): every change reads all   *)
(* VMs, writes the whole configuration and posts it, while other changes do *)
(* the same; Caddy serves what it was given last.  POST /vms, clone, delete *)
(* and the status page (routes/vms.ts), the public switch (routes/access.ts *)
(* ), a wake (services/wake.ts) and the start of the server are what posts. *)
(***************************************************************************)
EXTENDS Naturals, Sequences, SequencesExt

CONSTANTS VMs,      \* a VM is known by its name, which is its host name too
          MaxLoads  \* bound: configurations under way

VARIABLES row,    \* "none", "creating", which a wake makes it too, "running",
                  \* "asleep", "stopped", "error"
          job,    \* what will end a "creating": "boot", "wake" or "none"
          public, \* VMs whose is_public is set
          del,    \* a deletion: "no", "told" once it has posted, "row"
          route,  \* what Caddy serves under a VM's name, and behind what
          loads,  \* configurations under way, oldest first
          stale   \* the newest did not take, or was replaced by an older one

vars == <<row, job, public, del, route, loads, stale>>

NoRoute == [to |-> "nothing", auth |-> FALSE]

Init ==
  /\ row \in [VMs -> {"none", "asleep"}] /\ job = [v \in VMs |-> "none"]
  /\ public = {} /\ del = [v \in VMs |-> "no"]
  /\ route = [v \in VMs |-> NoRoute]
  /\ loads = <<>> /\ stale = TRUE

-----------------------------------------------------------------------------
\* Faulty: only a VM that runs has its port served.
RouteOfRunning(st, pub) ==
  IF st \in {"none", "error"} THEN NoRoute
  ELSE [to |-> IF st = "running" THEN "port" ELSE "status page", auth |-> ~pub]

\* generateCaddyfile, for one VM
RouteOf(st, pub) ==
  IF st \in {"none", "error"} THEN NoRoute
  ELSE [to   |-> IF st \in {"running", "asleep"} THEN "port" ELSE "status page",
        auth |-> ~pub]

\* reloadCaddyConfig reads the rows as the step leaves them.
Reload(for) ==
  /\ Len(loads) < MaxLoads
  /\ loads' = Append(loads,
       [config |-> [v \in VMs |-> RouteOf(row'[v], v \in public')],
        for |-> for, late |-> FALSE])
  /\ UNCHANGED <<route, stale>>

\* Older ones that come after it are late.
Answered(i) ==
  LET rest == [j \in DOMAIN loads |-> [loads[j] EXCEPT !.late = @ \/ j < i]]
  IN  /\ loads' = RemoveAt(rest, i)
      /\ del' = [v \in VMs |-> IF loads[i].for = {v} THEN "row" ELSE del[v]]
      /\ UNCHANGED <<row, job, public>>

\* Caddy takes configurations in the order they reach it.
Load(i) ==
  /\ route' = loads[i].config
  /\ stale' = loads[i].late
  /\ Answered(i)

\* Caddy refuses or does not answer; the callers log it and go on.
LoadFails(i) ==
  /\ stale' = TRUE
  /\ Answered(i)
  /\ UNCHANGED route

-----------------------------------------------------------------------------
\* POST /vms and POST /vms/:id/clone insert a row; nothing is posted yet.
Insert(v) ==
  /\ row[v] = "none" /\ job[v] = "none" \* bound: no name anew during a job
  /\ row' = [row EXCEPT ![v] = "creating"]
  /\ job' = [job EXCEPT ![v] = "boot"]
  /\ UNCHANGED <<public, del, route, loads, stale>>

\* A creation or doWake is through: its status, if the row is still there, and
\* addRoute.
Booted(v) ==
  /\ job[v] # "none"
  /\ job' = [job EXCEPT ![v] = "none"]
  /\ row' = [row EXCEPT ![v] = IF @ = "none" THEN @ ELSE "running"]
  /\ UNCHANGED <<public, del>>
  /\ Reload({})

\* A failed creation takes the row with it, a failed wake leaves it in error;
\* neither posts.
BootFails(v) ==
  /\ job[v] # "none"
  /\ job' = [job EXCEPT ![v] = "none"]
  /\ row' = [row EXCEPT ![v] = IF @ = "none" \/ job[v] = "boot" THEN "none" ELSE "error"]
  /\ public' = {w \in public : row'[w] # "none"}
  /\ UNCHANGED <<del, route, loads, stale>>

\* A snapshot: the port is the wake proxy's from now on, and Caddy is not told.
Sleep(v) ==
  /\ row[v] = "running"
  /\ row' = [row EXCEPT ![v] = "asleep"]
  /\ UNCHANGED <<job, public, del, route, loads, stale>>

\* doWake, for whoever asks: nothing is posted before it is through.
Wake(v) ==
  /\ row[v] = "asleep"
  /\ row' = [row EXCEPT ![v] = "creating"]
  /\ job' = [job EXCEPT ![v] = "wake"]
  /\ UNCHANGED <<public, del, route, loads, stale>>

\* GET /vms/:id/status-page, which Caddy serves for a port that does not answer
\* and before there is one, wakes what sleeps.
StatusPage(v) == route[v].to # "nothing" /\ Wake(v)

\* POST /vms/:id/public
SetPublic(v) ==
  /\ row[v] # "none"
  /\ public' = IF v \in public THEN public \ {v} ELSE public \cup {v}
  /\ UNCHANGED <<row, job, del>>
  /\ Reload({})

\* DELETE /vms/:id tells Caddy first, from rows that still have the VM...
DeleteTells(v) ==
  /\ row[v] # "none" /\ del[v] = "no"
  /\ del' = [del EXCEPT ![v] = "told"]
  /\ UNCHANGED <<row, job, public>>
  /\ Reload({v})

\* ...and deletes the row when it was answered.
DeleteRow(v) ==
  /\ del[v] = "row"
  /\ del' = [del EXCEPT ![v] = "no"]
  /\ row' = [row EXCEPT ![v] = "none"]
  /\ public' = public \ {v}
  /\ UNCHANGED <<job, route, loads, stale>>

\* The server starts anew: handlers and jobs end where they are, a VM that died
\* meanwhile is "stopped", and the configuration is posted; a post of before may
\* have reached Caddy or not.
Restart ==
  /\ \E i \in 0..Len(loads) :
       route' = IF i = 0 THEN route ELSE loads[i].config
  /\ \E dead \in SUBSET {v \in VMs : row[v] = "running"} :
       row' = [v \in VMs |-> IF v \in dead THEN "stopped" ELSE row[v]]
  /\ job' = [v \in VMs |-> "none"] /\ del' = [v \in VMs |-> "no"]
  /\ UNCHANGED public
  /\ loads' = <<[config |-> [v \in VMs |-> RouteOf(row'[v], v \in public)],
                 for |-> {}, late |-> FALSE]>>
  /\ stale' = TRUE

\* VMs outside the model change as these do, and post these rows with theirs.
Elsewhere ==
  /\ UNCHANGED <<row, job, public, del>>
  /\ Reload({})

Next ==
  \/ \E v \in VMs : Insert(v) \/ Booted(v) \/ BootFails(v) \/ Sleep(v) \/ Wake(v)
                    \/ StatusPage(v) \/ SetPublic(v) \/ DeleteTells(v) \/ DeleteRow(v)
  \/ \E i \in DOMAIN loads : Load(i) \/ LoadFails(i)
  \/ Elsewhere \/ Restart

Spec == Init /\ [][Next]_vars

-----------------------------------------------------------------------------
(* When no configuration is under way and the newest took effect, Caddy     *)
(* serves every VM that runs or sleeps under its name, and asks visitors to *)
(* sign in unless the VM is public, whatever other changes were made while  *)
(* a configuration was under way.                                           *)
RoutesAgree ==
  (loads = <<>> /\ ~stale) =>
    \A v \in VMs : row[v] \in {"running", "asleep"} =>
      route[v] = [to |-> "port", auth |-> v \notin public]
=============================================================================
