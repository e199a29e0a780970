------------------------------- MODULE Pages -------------------------------
(***************************************************************************)
(* The dashboard's pages about VMs in one browser tab: the list with its    *)
(* form (pages/VMList.tsx), the page that deploys a repository (Deploy.tsx) *)
(* and the page of a VM (VMDetail.tsx), over GET /vms/:id, which wakes a VM *)
(* that sleeps and then answers with the status it read before, GET         *)
(* /vms/check-name and POST /vms (routes/vms.ts).  Intervals poll without   *)
(* waiting for the answer before, and answers come in any order.            *)
(***************************************************************************)
EXTENDS Naturals, FiniteSets

CONSTANTS Names,     \* names that pass the checks; a VM is known by its name
          Bad,       \* what the checks refuse without asking the server
          None,      \* no VM, no status
          MaxPolls,  \* bound: polls of a page under way
          MaxUpsets  \* bound: naps, failed wakes, lost answers, restarts

VARIABLES row,     \* the VM of a name: "none", "creating", which a wake makes it
                   \* too, "running", "asleep", "stopped", "error"
          spoilt,  \* VMs whose status detail begins with "Error:"
          job,     \* what will end a "creating": "boot", "wake" or "none"
          page,    \* "list", "deploy", "vm"
          field,   \* the name that is typed
          verdict, \* nameStatus
          due,     \* the timer that asks the server about the field is set
          checks,  \* names the server is asked about, with its answer
          form,    \* the launch of the list's form or of the deploy page
          view,    \* the page of a VM; "told" once it was shown a quota error
          polls,   \* GET /vms/:id under way
          upsets

vms    == <<row, spoilt, job>>
typing == <<field, verdict, due, checks>>
vars   == <<vms, page, typing, form, view, polls, upsets>>

NoForm == [at |-> "idle", vm |-> None, heard |-> FALSE]
NoView == [vm |-> None, at |-> "loading", status |-> None, polling |-> FALSE,
           told |-> FALSE]
Waiting == {"asleep", "creating"}

Init ==
  /\ row \in [Names -> {"none", "asleep"}]
  /\ spoilt = {} /\ job = [n \in Names |-> "none"]
  /\ page = "list"
  /\ field = Bad /\ verdict = "idle" /\ due = FALSE /\ checks = {}
  /\ form = NoForm /\ view = NoView /\ polls = {} /\ upsets = 0

Upset == upsets < MaxUpsets /\ upsets' = upsets + 1

-----------------------------------------------------------------------------
(* VMs.                                                                     *)

\* A job ends; what it makes of the row is lost when the row is gone.
JobEnds(v, kind, st) ==
  /\ job[v] = kind
  /\ job' = [job EXCEPT ![v] = "none"]
  /\ row' = [row EXCEPT ![v] = IF @ = "none" THEN @ ELSE st]

\* The creation ends; a failed one takes the row with it.
BootEnds(v) ==
  /\ JobEnds(v, "boot", "running")
  /\ UNCHANGED <<spoilt, page, typing, form, view, polls, upsets>>

BootFails(v) ==
  /\ JobEnds(v, "boot", "none")
  /\ UNCHANGED <<spoilt, page, typing, form, view, polls, upsets>>

\* The guest's init reports an error, which the background poll stores.
InitFails(v) ==
  /\ row[v] = "running" /\ v \notin spoilt /\ v = form.vm
  /\ spoilt' = spoilt \cup {v}
  /\ UNCHANGED <<row, job, page, typing, form, view, polls, upsets>>

Nap(v) ==
  /\ row[v] = "running"
  /\ row' = [row EXCEPT ![v] = "asleep"]
  /\ Upset
  /\ UNCHANGED <<spoilt, job, page, typing, form, view, polls>>

\* ensureVMRunning returns, or throws, to the request that began the wake.
Woken(v) ==
  /\ polls' = {IF p.vm = v THEN [p EXCEPT !.at = IF @ = "waits" THEN "back" ELSE @]
               ELSE p : p \in polls}
  /\ UNCHANGED <<spoilt, page, typing, form, view>>

WakeDone(v)  == JobEnds(v, "wake", "running") /\ Woken(v) /\ UNCHANGED upsets
WakeFails(v) == JobEnds(v, "wake", "error") /\ Woken(v) /\ Upset

\* Requests and jobs do not survive the control plane; a row that was
\* "creating" stays so, and a VM that died meanwhile is "stopped".
Restart ==
  /\ Upset
  /\ \E dead \in SUBSET {v \in Names : row[v] = "running"} :
       row' = [v \in Names |-> IF v \in dead THEN "stopped" ELSE row[v]]
  /\ job' = [v \in Names |-> "none"]
  /\ polls' = {[p EXCEPT !.at = "back", !.saw = "lost"] : p \in polls}
  /\ UNCHANGED <<spoilt, page, typing, form, view>>

\* Somebody deletes it, here or elsewhere.
Delete(v) ==
  /\ row[v] # "none"
  /\ row' = [row EXCEPT ![v] = "none"]
  /\ spoilt' = spoilt \ {v}
  /\ UNCHANGED <<job, page, typing, form, view, polls, upsets>>

-----------------------------------------------------------------------------
(* Requests.                                                                *)

Poll(v) == [vm |-> v, at |-> "sent", saw |-> None, spoilt |-> FALSE, quota |-> FALSE]

\* GET /vms/:id reads the row, and answers with what it read also when it has
\* woken the VM, or when a quota forbids that.
ServeGet(p) ==
  /\ p.at = "sent"
  /\ LET v    == p.vm
         read == [p EXCEPT !.saw = row[v], !.spoilt = v \in spoilt, !.at = "back"]
         Answers(r) == polls' = (polls \ {p}) \cup {r}
     IN  \/ row[v] # "asleep" /\ Answers(read) /\ UNCHANGED <<row, job, upsets>>
         \/ /\ row[v] = "asleep" /\ Answers([read EXCEPT !.at = "waits"])
            /\ row' = [row EXCEPT ![v] = "creating"]
            /\ job' = [job EXCEPT ![v] = "wake"]
            /\ UNCHANGED upsets
         \/ /\ row[v] = "asleep" /\ Answers([read EXCEPT !.quota = TRUE])
            /\ Upset /\ UNCHANGED <<row, job>>
  /\ UNCHANGED <<spoilt, page, typing, form, view>>

\* The answer does not arrive, which fetch reports.
Lost(p) ==
  /\ p.at = "back" /\ p.saw # "lost" /\ Upset
  /\ polls' = (polls \ {p}) \cup {[p EXCEPT !.saw = "lost"]}
  /\ UNCHANGED <<vms, page, typing, form, view>>

-----------------------------------------------------------------------------
(* The field of a name, of VMList and of Deploy alike.                      *)

Typed(n) ==
  /\ page \in {"list", "deploy"} /\ form.at \in {"idle", "failed"}
  /\ n # field
  /\ field' = n
  /\ verdict' = IF n = Bad THEN "refused" ELSE "checking"
  /\ due' = (n # Bad)
  /\ UNCHANGED <<vms, page, checks, form, view, polls, upsets>>

TimerAsks ==
  /\ due /\ Cardinality(checks) < MaxPolls
  /\ due' = FALSE
  /\ checks' = checks \cup {[name |-> field, answer |-> "asked"]}
  /\ UNCHANGED <<vms, page, field, verdict, form, view, polls, upsets>>

\* GET /vms/check-name/:name
ServeCheck(c) ==
  /\ c.answer = "asked"
  /\ checks' = (checks \ {c}) \cup
       {[c EXCEPT !.answer = IF row[c.name] = "none" THEN "available" ELSE "taken"]}
  /\ UNCHANGED <<vms, page, field, verdict, due, form, view, polls, upsets>>

\* The guard against late answers compares a name with itself: both are those
\* of the render that asked.
AnswerCheck(c) ==
  /\ c.answer # "asked"
  /\ checks' = checks \ {c}
  /\ verdict' = c.answer
  /\ UNCHANGED <<vms, page, field, due, form, view, polls, upsets>>

-----------------------------------------------------------------------------
(* The page of a VM.                                                        *)

\* Faulty: the effect depends on the VM alone, not on its status.
RestartedOnce(st, quota) ==
  IF view.status = None THEN st \in Waiting /\ ~quota
  ELSE view.polling /\ ~(st = "running" \/ quota)

\* The interval clears itself on good news; a change of status ends it and, in
\* a status that will pass, starts another.
Polling(st, quota) ==
  IF st # view.status THEN st \in Waiting /\ ~quota
  ELSE view.polling /\ ~(st = "running" \/ quota)

Shown(st, quota) ==
  view' = [view EXCEPT !.at = "shown", !.status = st, !.told = @ \/ quota,
                       !.polling = Polling(st, quota)]

OpenVM(v) ==
  /\ page = "list" /\ form.at # "asked" /\ row[v] # "none"
  /\ page' = "vm"
  /\ view' = [NoView EXCEPT !.vm = v]
  /\ polls' = {Poll(v)}
  /\ UNCHANGED <<vms, typing, form, upsets>>

ViewPolls ==
  /\ page = "vm" /\ view.polling /\ Cardinality(polls) < MaxPolls
  /\ polls' = polls \cup {Poll(view.vm)}
  /\ UNCHANGED <<vms, page, typing, form, view, upsets>>

\* The first answer may be an error, which stays; later ones are ignored.
ViewAnswer(p) ==
  /\ page = "vm" /\ p.at = "back"
  /\ polls' = polls \ {p}
  /\ IF p.saw \notin {"lost", "none"} THEN Shown(p.saw, p.quota)
     ELSE IF view.at = "loading" THEN view' = [view EXCEPT !.at = "error"]
     ELSE UNCHANGED view
  /\ UNCHANGED <<vms, page, typing, form, upsets>>

\* Leaving a page drops its state and clears its timers.
Leave(to) ==
  /\ page # to /\ form.at # "asked"
  /\ page' = to
  /\ field' = Bad /\ verdict' = "idle" /\ due' = FALSE /\ checks' = {}
  /\ form' = NoForm /\ view' = NoView /\ polls' = {}
  /\ UNCHANGED <<vms, upsets>>

-----------------------------------------------------------------------------
(* A VM is made.                                                            *)

\* The buttons of the form and of the deploy page ask for an available name.
Launch ==
  /\ page \in {"list", "deploy"} /\ verdict = "available"
  /\ form.at \in {"idle", "failed"} /\ form.vm = None
  /\ form' = [NoForm EXCEPT !.at = "asked"]
  /\ UNCHANGED <<vms, page, typing, view, polls, upsets>>

\* POST /vms refuses a bad or a taken name, whatever the page was told.
Refused ==
  /\ form.at = "asked" /\ (IF field = Bad THEN TRUE ELSE row[field] # "none")
  /\ form' = [form EXCEPT !.at = "failed"]
  /\ UNCHANGED <<vms, page, typing, view, polls, upsets>>

Made ==
  /\ form.at = "asked" /\ field # Bad
  /\ row[field] = "none" /\ job[field] = "none" \* bound: no name anew during a job
  /\ row' = [row EXCEPT ![field] = "creating"]
  /\ job' = [job EXCEPT ![field] = "boot"]
  /\ spoilt' = spoilt \ {field}
  /\ UNCHANGED upsets

\* handleCreate goes to the page of the VM with what it was answered.
CreatedFromList ==
  /\ page = "list" /\ Made
  /\ page' = "vm"
  /\ view' = [vm |-> field, at |-> "shown", status |-> "creating",
              polling |-> TRUE, told |-> FALSE]
  /\ form' = NoForm /\ polls' = {}
  /\ field' = Bad /\ verdict' = "idle" /\ due' = FALSE /\ checks' = {}

\* handleDeploy stays and polls.
CreatedFromDeploy ==
  /\ page = "deploy" /\ Made
  /\ form' = [at |-> "polling", vm |-> field, heard |-> FALSE]
  /\ UNCHANGED <<page, typing, view, polls>>

DeployPolls ==
  /\ page = "deploy" /\ form.at = "polling" /\ Cardinality(polls) < MaxPolls
  /\ polls' = polls \cup {Poll(form.vm)}
  /\ UNCHANGED <<vms, page, typing, form, view, upsets>>

\* Faulty: a VM that is gone is taken for one that is not there yet.
VerdictOfPatient(p) ==
  IF p.spoilt /\ ~form.heard THEN "ready"
  ELSE IF p.saw = "running" THEN "ready"
  ELSE IF p.saw = "error" THEN "failed" ELSE form.at

\* What an answer makes of the launch: an error of the guest's init still shows
\* the links, and an answer that fails is taken for a VM that is gone.
VerdictOf(p) ==
  IF p.saw \in {"none", "lost"} THEN "failed"
  ELSE IF p.spoilt /\ ~form.heard THEN "ready"
  ELSE IF p.saw = "running" THEN "ready"
  ELSE IF p.saw = "error" THEN "failed" ELSE form.at

\* An answer after the last one still counts.
DeployAnswer(p) ==
  /\ page = "deploy" /\ p.at = "back"
  /\ polls' = polls \ {p}
  /\ form' = [form EXCEPT !.at = VerdictOf(p),
                          !.heard = @ \/ (p.spoilt /\ p.saw \notin {"none", "lost"})]
  /\ UNCHANGED <<vms, page, typing, view, upsets>>

-----------------------------------------------------------------------------
VMStep ==
  \E v \in Names : BootEnds(v) \/ BootFails(v) \/ WakeDone(v)
Fate ==
  \/ \E v \in Names : InitFails(v) \/ Nap(v) \/ WakeFails(v) \/ Delete(v)
  \/ Restart \/ \E p \in polls : Lost(p)
User ==
  \/ \E n \in Names \cup {Bad} : Typed(n)
  \/ \E v \in Names : OpenVM(v)
  \/ \E to \in {"list", "deploy"} : Leave(to)
  \/ Launch
Serves  == \E p \in polls : ServeGet(p)
Answers == \E p \in polls : ViewAnswer(p) \/ DeployAnswer(p)
Creates == Refused \/ CreatedFromList \/ CreatedFromDeploy
NameSteps == TimerAsks \/ \E c \in checks : ServeCheck(c) \/ AnswerCheck(c)

Intervals == ViewPolls \/ DeployPolls

Next == VMStep \/ Fate \/ User \/ Serves \/ Answers \/ Creates \/ NameSteps \/ Intervals

\* Boots and wakes end, requests are answered, intervals fire.
FairSpec ==
  /\ Init /\ [][Next]_vars
  /\ WF_vars(VMStep) /\ WF_vars(Serves) /\ WF_vars(Answers) /\ WF_vars(Intervals)

-----------------------------------------------------------------------------
(* A page that stays open on a VM that runs comes to show it running, be    *)
(* the answers of its polls ever so old and out of order; except that it    *)
(* could not load the VM at all or was told that a quota forbids the wake:  *)
(* then the polls end, and a later answer may yet take the message away.    *)
DetailFollows ==
  \A v \in Names :
    <>[](row[v] = "running" /\ page = "vm" /\ view.vm = v)
      => <>[](view.status = "running" \/ view.told \/ view.at = "error")

(* A launch on the deploy page ends, in success or in failure, unless the   *)
(* page is left, or a restart of the control plane left the VM's row in a   *)
(* status that nothing takes further: "creating" without a job, "stopped".  *)
DeployEnds ==
  \A v \in Names :
    (form.at = "polling" /\ form.vm = v)
      ~> \/ form.at # "polling"
         \/ row[v] = "creating" /\ job[v] = "none"
         \/ row[v] = "stopped"
=============================================================================
