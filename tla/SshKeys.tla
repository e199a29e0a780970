------------------------------- MODULE SshKeys -------------------------------
(***************************************************************************)
(* The SSH keys of users and how they get into a VM: user_ssh_keys and the  *)
(* cache of the SSH proxy's reverse lookup, the best-effort pushes of       *)
(* routes/user.ts, the additive sync of a wake, the guest's authorized_keys *)
(* and the linking of a key from an unknown terminal.  One VM; its members  *)
(* are the users vm_access lists.                                           *)
(***************************************************************************)
EXTENDS FiniteSets

CONSTANTS Users,   \* accounts
          Keys,    \* public keys; two users may register the same one
          Offered  \* the one of the terminal that asks to be linked

VARIABLES db,       \* user_ssh_keys
          cache,    \* keyCache: nothing, or the keys as they were read
          members,  \* users with a role on the VM
          vm,       \* "new" while it is created, "waking", "running", "asleep"
          file,     \* users' keys in the guest's authorized_keys
          envKeys,  \* ssh_keys of env.json, which a fresh boot installs
          execs,    \* commands on their way to the guest
          sync,     \* where syncMissingKeysToVM is
          listed,   \* the keys it has read from the database
          missing,  \* those it did not find in the guest
          link,     \* the pending key of the terminal
          told,     \* what the terminal was told
          excused   \* keys whose delivery failed or was never tried

vars == <<db, cache, members, vm, file, envKeys, execs, sync, listed, missing,
          link, told, excused>>

NoCache == [valid |-> FALSE, keys |-> [u \in Users |-> {}]]
Exec == [op : {"add", "remove"}, key : Keys]
Add(k)    == [op |-> "add", key |-> k]
Remove(k) == [op |-> "remove", key |-> k]

TypeOK ==
  /\ db \in [Users -> SUBSET Keys]
  /\ cache \in [valid : BOOLEAN, keys : [Users -> SUBSET Keys]]
  /\ members \subseteq Users
  /\ vm \in {"new", "waking", "running", "asleep"}
  /\ file \subseteq Keys /\ envKeys \subseteq Keys
  /\ execs \subseteq Exec
  /\ sync \in {"idle", "due", "asked", "append"}
  /\ listed \subseteq Keys /\ missing \subseteq Keys
  /\ link \in {"none", "pending", "confirmed"}
  /\ told \in {"nothing", "linked"}
  /\ excused \subseteq Keys

\* POST /vms has read the keys of its user and is booting the VM with them.
Init ==
  \E u \in Users, k \in SUBSET Keys :
    /\ db = [x \in Users |-> IF x = u THEN k ELSE {}]
    /\ cache = NoCache
    /\ members = {u}
    /\ vm = "new"
    /\ file = k /\ envKeys = k
    /\ execs = {} /\ sync = "idle" /\ listed = {} /\ missing = {}
    /\ link = "none" /\ told = "nothing"
    /\ excused = {}

\* getAllSshKeysForVM
Wanted == UNION {db[u] : u \in members}

-----------------------------------------------------------------------------
(* The keys of an account.                                                  *)

Guest == <<vm, file, envKeys, sync, listed, missing>>
Terminal == <<link, told>>

\* invalidateKeyCache
Invalidated == NoCache

\* Faulty: a new key waits for the next wake.
PushLater(u, k) == UNCHANGED <<execs, excused>>

\* bestEffortPushKey: running VMs only.  While the VM is being created nobody
\* will deliver the key; while it sleeps or wakes, the sync is still to come.
Push(u, k) ==
  /\ execs' = IF u \in members /\ vm = "running" THEN execs \cup {Add(k)} ELSE execs
  /\ excused' = IF u \in members /\ vm = "new" THEN excused \cup {k} ELSE excused

\* POST /me/ssh-keys; a fingerprint the user has is answered with 409.
AddKey(u, k) ==
  /\ k \notin db[u]
  /\ db' = [db EXCEPT ![u] = @ \cup {k}]
  /\ cache' = Invalidated
  /\ Push(u, k)
  /\ UNCHANGED <<members, Guest, Terminal>>

\* bestEffortRemoveKey: running VMs only
Pull(u, k) ==
  execs' = IF u \in members /\ vm = "running" THEN execs \cup {Remove(k)} ELSE execs

\* DELETE /me/ssh-keys/:id
RemoveKey(u, k) ==
  /\ k \in db[u]
  /\ db' = [db EXCEPT ![u] = @ \ {k}]
  /\ cache' = Invalidated
  /\ Pull(u, k)
  /\ UNCHANGED <<members, Guest, Terminal, excused>>

\* registerPendingKey, once the terminal has asked for an e-mail address
Register ==
  /\ link = "none" /\ told = "nothing"
  /\ link' = "pending"
  /\ UNCHANGED <<db, cache, members, Guest, execs, told, excused>>

\* POST /link-ssh/:token of any user who is logged in and has the token
Confirm(u) ==
  /\ link # "none"
  /\ link' = "confirmed"
  /\ IF Offered \in db[u] THEN UNCHANGED <<db, cache, execs, excused>>
     ELSE /\ db' = [db EXCEPT ![u] = @ \cup {Offered}]
          /\ cache' = Invalidated
          /\ Push(u, Offered)
  /\ UNCHANGED <<members, Guest, told>>

\* The entry is ten minutes old and is dropped by the cleanup or by a look.
Expire ==
  /\ link # "none"
  /\ link' = "none"
  /\ UNCHANGED <<db, cache, members, Guest, execs, told, excused>>

\* pollForConfirmation of the terminal finds the token confirmed.
PollSees ==
  /\ link = "confirmed" /\ told = "nothing"
  /\ told' = "linked"
  /\ UNCHANGED <<db, cache, members, Guest, execs, link, excused>>

\* findUserByPublicKey of a connection fills a cache that is empty or old.
Lookup ==
  /\ cache' = [valid |-> TRUE, keys |-> db]
  /\ UNCHANGED <<db, members, Guest, execs, Terminal, excused>>

-----------------------------------------------------------------------------
(* Access, which touches no key in the guest.                               *)

Grant(u) ==
  /\ u \notin members
  /\ members' = members \cup {u}
  /\ excused' = IF vm \in {"asleep", "waking"} THEN excused ELSE excused \cup db[u]
  /\ UNCHANGED <<db, cache, Guest, execs, Terminal>>

Revoke(u) ==
  /\ u \in members /\ members # {u}
  /\ members' = members \ {u}
  /\ UNCHANGED <<db, cache, Guest, execs, Terminal, excused>>

-----------------------------------------------------------------------------
(* The guest.                                                               *)

\* ssh joins the words of a command with blanks and execInVM does not quote
\* them.  Of the push, grep then runs without arguments and fails, and printf
\* appends the key, a second time if it was there.  Of the removal, sed runs
\* without a script and nothing goes.
ExecRuns(e) ==
  /\ e \in execs /\ vm = "running"
  /\ execs' = execs \ {e}
  /\ IF e.op = "add" THEN file' = file \cup {e.key} /\ excused' = excused \ {e.key}
                     ELSE UNCHANGED <<file, excused>>
  /\ UNCHANGED <<db, cache, members, vm, envKeys, sync, listed, missing, Terminal>>

\* ssh does not connect, or the VM goes to sleep first; catch(() => {}).
ExecFails(e) ==
  /\ e \in execs
  /\ execs' = execs \ {e}
  /\ excused' = IF e.op = "add" THEN excused \cup {e.key} ELSE excused
  /\ UNCHANGED <<db, cache, members, Guest, Terminal>>

Created ==
  /\ vm = "new"
  /\ vm' = "running"
  /\ UNCHANGED <<db, cache, members, file, envKeys, execs, sync, listed, missing,
                 Terminal, excused>>

Sleep ==
  /\ vm = "running"
  /\ vm' = "asleep"
  /\ UNCHANGED <<db, cache, members, file, envKeys, execs, sync, listed, missing,
                 Terminal, excused>>

\* doWake: a restored guest has its file; a fresh one writes it from the
\* kernel arguments, with the keys of its creation.
Wake ==
  /\ vm = "asleep" /\ sync = "idle"
  /\ vm' = "waking"
  /\ file' \in {file, envKeys}
  /\ UNCHANGED <<db, cache, members, envKeys, execs, sync, listed, missing,
                 Terminal, excused>>

\* The row says running; the Caddy route is awaited before the sync.
Woken ==
  /\ vm = "waking"
  /\ vm' = "running"
  /\ sync' = "due"
  /\ UNCHANGED <<db, cache, members, file, envKeys, execs, listed, missing,
                 Terminal, excused>>

\* syncMissingKeysToVM reads the table and asks the guest for its file.
SyncStarts ==
  /\ sync = "due"
  /\ listed' = Wanted
  /\ sync' = IF Wanted = {} THEN "idle" ELSE "asked"
  /\ UNCHANGED <<db, cache, members, vm, file, envKeys, execs, missing, Terminal,
                 excused>>

\* The keys cat does not show: all of them when it fails
SyncCompares ==
  /\ sync = "asked"
  /\ \E seen \in {{}} \cup IF vm = "running" THEN {file} ELSE {} :
       /\ missing' = listed \ seen
       /\ sync' = IF listed \subseteq seen THEN "idle" ELSE "append"
  /\ listed' = {}
  /\ UNCHANGED <<db, cache, members, vm, file, envKeys, execs, Terminal, excused>>

\* echo | base64 -d >> authorized_keys: with its words joined, echo has nothing
\* to say, nothing is appended, and the command succeeds.  Or it fails.
SyncEnds ==
  /\ sync = "append"
  /\ sync' = "idle"
  /\ excused' = excused \cup missing
  /\ missing' = {}
  /\ UNCHANGED <<db, cache, members, vm, file, envKeys, execs, listed, Terminal>>

Next ==
  \/ \E u \in Users :
       \/ \E k \in Keys : AddKey(u, k) \/ RemoveKey(u, k)
       \/ Confirm(u) \/ Grant(u) \/ Revoke(u)
  \/ \E e \in Exec : ExecRuns(e) \/ ExecFails(e)
  \/ Register \/ Expire \/ PollSees \/ Lookup
  \/ Created \/ Sleep \/ Wake \/ Woken
  \/ SyncStarts \/ SyncCompares \/ SyncEnds

Spec == Init /\ [][Next]_vars

-----------------------------------------------------------------------------
(* What users are promised.                                                 *)

\* The SSH proxy's reverse lookup answers from the keys as they are: every
\* write of the table drops the cache, the confirmation of a terminal's key
\* included, so that whoever has just linked a key is recognised.
CacheAgrees == cache.valid => cache.keys = db

Quiet == vm = "running" /\ sync = "idle" /\ execs = {}

\* A running VM that nobody is talking to has the keys of all its members,
\* except those that were added while it was being created, came with a grant,
\* whose delivery failed, or that a sync after a wake has listed as missing,
\* which it does not put right: sleeping, waking, a fresh boot from old keys
\* and additions at any moment lose none unnoticed.
KeysDelivered == Quiet => Wanted \subseteq file \cup excused

=============================================================================
