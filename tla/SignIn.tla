------------------------------- MODULE SignIn -------------------------------
(***************************************************************************)
(* Signing in: the auth service's OAuth flows (auth/oauth/github.ts,        *)
(* google.ts), magic links (email.ts), sessions (session.ts, server.ts) and *)
(* its users table, for one browser with several tabs, and the page of a *)
(* terminal's SSH key, whose e-mail address a login must match.  What a     *)
(* flow is about travels in cookies that the tabs share: the request of a   *)
(* callback carries the cookies of that moment, and its answer changes      *)
(* those of a later one.                                                    *)
(***************************************************************************)
EXTENDS Naturals, Sequences

CONSTANTS Emails,    \* e-mail addresses of the person at the browser
          Ids,       \* her accounts with the providers
          LinkEmail, \* the address given at the terminal
          None,      \* no address, no account, no page
          MaxFlows   \* bound: flows begun

VARIABLES users,  \* rows by e-mail, which is unique and never updated
          jar,    \* the browser's cookies
          flows,  \* login flows, in the order they began
          link    \* the key of a terminal that waits to be linked

vars == <<users, jar, flows, link>>

\* Where a flow returns to: the dashboard, the command line's listener, the
\* page that confirms a key.
Pages == {"app", "cli", "link"}

\* oauth_redirect is set and cleared with oauth_state, and so is Google's
\* code verifier, which is left out.  "by" is the flow that set a cookie.
NoCookies == [state |-> 0, redirect |-> None, repo |-> 0,
              required |-> [email |-> None, by |-> 0],
              login |-> None, session |-> None]

NoRow == [there |-> FALSE, github |-> None, google |-> None, token |-> FALSE]

Init ==
  /\ users = [e \in Emails |-> NoRow]
  /\ jar = NoCookies /\ flows = <<>>
  /\ link = "pending"

Rows == {e \in Emails : users[e].there}
Flow(kind, page, wants) ==
  [kind |-> kind, page |-> page, wants |-> wants, at |-> "provider",
   id |-> None, email |-> None, sent |-> NoCookies, went |-> None]

-----------------------------------------------------------------------------
(* The users table.                                                         *)

\* Faulty: the account is looked up by its present address only.
FoundByEmail(provider, id, e) == {x \in Rows : x = e}

\* findUserByGithubId or findUserByGoogleId, else findUserByEmail
Found(provider, id, e) ==
  LET byId == {x \in Rows : users[x][provider] = id}
  IN  IF byId # {} THEN byId ELSE {x \in Rows : x = e}

\* upsertUserFromGithub and upsertUserFromGoogle: the user's address stays what
\* it was, whatever the provider says now.
Upsert(provider, id, e, u) ==
  /\ u \in IF Found(provider, id, e) # {} THEN Found(provider, id, e) ELSE {e}
  /\ users' = [users EXCEPT ![u].there = TRUE, ![u][provider] = id]

\* upsertUserFromEmail
UpsertEmail(e) == users' = [users EXCEPT ![e].there = TRUE]

-----------------------------------------------------------------------------
(* OAuth.                                                                   *)

\* The cookies of a start; the required address is set when there is one, and
\* an older one stays when there is none.
Required(n) ==
  IF jar.login # None THEN [email |-> jar.login, by |-> n] ELSE jar.required

\* Faulty: a page that is asked for already is kept.
BegunOnce(n, page) ==
  [jar EXCEPT !.state = n, !.redirect = IF @ = None THEN page ELSE @]

Begun(n, page) == [jar EXCEPT !.state = n, !.redirect = page]

\* GET /auth/github, GET /auth/google
StartLogin(kind, page) ==
  LET n == Len(flows) + 1 IN
  /\ n <= MaxFlows
  /\ jar' = [Begun(n, page) EXCEPT !.required = Required(n)]
  /\ flows' = Append(flows, Flow(kind, page, jar.login))
  /\ UNCHANGED <<users, link>>

\* GET /auth/github/repo, from the settings of somebody signed in
StartRepo(page) ==
  LET n == Len(flows) + 1 IN
  /\ n <= MaxFlows /\ jar.session # None
  /\ jar' = [Begun(n, page) EXCEPT !.repo = n]
  /\ flows' = Append(flows, Flow("repo", page, None))
  /\ UNCHANGED <<users, link>>

\* The provider sends the browser back with one of the accounts; the callback
\* compares the state with the cookie and asks the provider for the profile.
Callback(n, id, e) ==
  /\ flows[n].kind # "magic" /\ flows[n].at = "provider"
  /\ flows' = IF jar.state = n
              THEN [flows EXCEPT ![n].at = "asked", ![n].id = id,
                                 ![n].email = e, ![n].sent = jar]
              ELSE [flows EXCEPT ![n].at = "invalid"]
  /\ UNCHANGED <<users, jar, link>>

\* The callback is over; what its request carried no longer matters.
Over(n, at, page) ==
  [flows EXCEPT ![n] = [@ EXCEPT !.at = at, !.went = page, !.sent = NoCookies]]

\* The code is not accepted or the profile not answered: 500, no cookie changes.
CallbackFails(n) ==
  /\ flows[n].at = "asked"
  /\ flows' = Over(n, "invalid", None)
  /\ UNCHANGED <<users, jar, link>>

Mismatch(n) == flows[n].sent.required.email \notin {None, flows[n].email}

\* What an answer clears.
Cleared == [jar EXCEPT !.state = 0, !.redirect = None,
                       !.required = NoCookies.required, !.login = None]
ClearedByGithub == [Cleared EXCEPT !.repo = 0]
ClearedBy(n) == IF flows[n].kind = "google" THEN Cleared ELSE ClearedByGithub

\* Another address than the required one: back to the login page, with it.
Refuse(n) ==
  /\ flows[n].at = "asked" /\ Mismatch(n)
  /\ jar' = [ClearedBy(n) EXCEPT !.login = flows[n].sent.required.email]
  /\ flows' = Over(n, "refused", None)
  /\ UNCHANGED <<users, link>>

\* The GitHub callback goes by the cookie, not by what was asked of GitHub.
GrantsRepo(n) == flows[n].kind # "google" /\ flows[n].sent.repo # 0

\* The token is saved for the session's user, else for whom the account is.
SaveToken(n) ==
  /\ flows[n].at = "asked" /\ ~Mismatch(n) /\ GrantsRepo(n)
  /\ LET owner == IF flows[n].sent.session # None THEN {flows[n].sent.session}
                  ELSE Found("github", flows[n].id, flows[n].email)
     IN  users' = [x \in Emails |->
           IF x \in owner THEN [users[x] EXCEPT !.token = TRUE] ELSE users[x]]
  /\ jar' = ClearedBy(n)
  /\ flows' = Over(n, "granted", None)
  /\ UNCHANGED link

\* A command line is given the session in the address, a browser as a cookie.
SignedIn(cookies, u, page) ==
  IF page = "cli" THEN cookies ELSE [cookies EXCEPT !.session = u]

SignIn(n) ==
  /\ flows[n].at = "asked" /\ ~Mismatch(n) /\ ~GrantsRepo(n)
  /\ \E u \in Emails :
       /\ Upsert(IF flows[n].kind = "google" THEN "google" ELSE "github",
                 flows[n].id, flows[n].email, u)
       /\ jar' = SignedIn(ClearedBy(n), u, flows[n].sent.redirect)
  /\ flows' = Over(n, "in", flows[n].sent.redirect)
  /\ UNCHANGED link

\* Ten minutes after a start its cookies go, unless set anew.
Expire(n) ==
  /\ n \in {jar.state, jar.repo, jar.required.by} \ {0}
  /\ \A k \in {jar.state, jar.repo, jar.required.by} \ {0} : n <= k
  /\ jar' = [jar EXCEPT
       !.state    = IF @ = n THEN 0 ELSE @,
       !.redirect = IF jar.state = n THEN None ELSE @,
       !.repo     = IF @ = n THEN 0 ELSE @,
       !.required = IF @.by = n THEN NoCookies.required ELSE @]
  /\ UNCHANGED <<users, flows, link>>

-----------------------------------------------------------------------------
(* Magic links, the login page, sessions and the page of a terminal's key.  *)

\* POST /auth/email; the page travels in the link.
AskMagic(e, page) ==
  /\ Len(flows) < MaxFlows
  /\ flows' = Append(flows, [Flow("magic", page, None) EXCEPT !.email = e])
  /\ UNCHANGED <<users, jar, link>>

\* GET /auth/email/verify: good for a quarter of an hour, any number of times.
UseMagic(n) ==
  /\ flows[n].kind = "magic" /\ flows[n].at \in {"provider", "in"}
  /\ UpsertEmail(flows[n].email)
  /\ jar' = SignedIn(jar, flows[n].email, flows[n].page)
  /\ flows' = [flows EXCEPT ![n].at = "in", ![n].went = flows[n].page]
  /\ UNCHANGED link

MagicExpires(n) ==
  /\ flows[n].kind = "magic" /\ flows[n].at \in {"provider", "in"}
  /\ flows' = [flows EXCEPT ![n].at = "invalid"]
  /\ UNCHANGED <<users, jar, link>>

\* The page that confirms the key sends there who is not signed in.
SentToLogin == link = "pending" /\ jar.session \notin Rows

\* GET /login on behalf of that page: the address given at the terminal.
LoginForLink ==
  /\ SentToLogin /\ jar.login = None
  /\ jar' = [jar EXCEPT !.login = LinkEmail]
  /\ UNCHANGED <<users, flows, link>>

LinkExpires ==
  /\ link = "pending"
  /\ link' = "gone"
  /\ UNCHANGED <<users, jar, flows>>

\* login_email goes after ten minutes; the session with GET /logout or its age.
LoginEmailExpires ==
  /\ jar.login # None
  /\ jar' = [jar EXCEPT !.login = None]
  /\ UNCHANGED <<users, flows, link>>

Logout ==
  /\ jar.session # None
  /\ jar' = [jar EXCEPT !.session = None]
  /\ UNCHANGED <<users, flows, link>>

-----------------------------------------------------------------------------
FlowStep(n) ==
  \/ \E id \in Ids, e \in Emails : Callback(n, id, e)
  \/ CallbackFails(n) \/ Refuse(n) \/ SaveToken(n) \/ SignIn(n) \/ Expire(n)
  \/ UseMagic(n) \/ MagicExpires(n)

Next ==
  \/ \E kind \in {"github", "google"}, page \in Pages : StartLogin(kind, page)
  \/ \E page \in Pages \ {"cli"} : StartRepo(page)
  \/ \E e \in Emails, page \in Pages : AskMagic(e, page)
  \/ \E n \in 1..Len(flows) : FlowStep(n)
  \/ LoginForLink \/ LinkExpires \/ LoginEmailExpires \/ Logout

Spec == Init /\ [][Next]_vars

-----------------------------------------------------------------------------
(* Whatever other tabs begin, finish or let expire meanwhile, a login that  *)
(* is accepted returns to the page it was begun for, is by the address that *)
(* was required when it was begun, and a grant of repositories is never     *)
(* taken for a login: cookies of different flows do not mix.                *)
OwnFlow ==
  \A n \in 1..Len(flows) : flows[n].at = "in" =>
    /\ flows[n].kind # "repo"
    /\ flows[n].went = flows[n].page
    /\ flows[n].wants \in {None, flows[n].email}

(* An account with a provider belongs to one user, also after its address   *)
(* has changed there.                                                       *)
OneAccount ==
  \A e, f \in Rows : \A p \in {"github", "google"} :
    (e # f /\ users[e][p] # None) => users[e][p] # users[f][p]
=============================================================================
