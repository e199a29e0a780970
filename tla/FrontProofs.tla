------------------------------ MODULE FrontProofs ------------------------------
(***************************************************************************)
(* The parts before the control plane, for any number of users, addresses,  *)
(* login flows, VMs, configurations, list items and requests: cookies of     *)
(* different logins do not mix, accounts have one user, Caddy serves what    *)
(* the rows say, and the panels of a VM's page show what the server has.     *)
(***************************************************************************)
EXTENDS MCFront, FiniteSetTheorems, WellFoundedInduction, TLAPS

-----------------------------------------------------------------------------
(* Signing in.                                                               *)

Address == Emails \cup {None, LinkEmail}

Cookies == [state : Nat, redirect : S!Pages \cup {None}, repo : Nat,
            required : [email : Address, by : Nat],
            login : Address, session : Address]

LoginFlow == [kind : {"github", "google", "repo", "magic"}, page : S!Pages,
              wants : Address,
              at : {"provider", "asked", "invalid", "refused", "granted", "in"},
              id : Ids \cup {None}, email : Emails \cup {None}, sent : Cookies,
              went : S!Pages \cup {None}]

Row == [there : BOOLEAN, github : Ids \cup {None}, google : Ids \cup {None},
        token : BOOLEAN]

SignInTyped ==
  /\ users \in [Emails -> Row]
  /\ jar \in Cookies
  /\ flows \in Seq(LoginFlow)
  /\ link \in {"pending", "gone"}

\* A jar whose state is of flow n came from its start: it has the page the flow
\* was begun for, the address it was to be for, and the mark of a grant.
CookiesOf(cookies, flow, n) ==
  cookies.state = n =>
    /\ flow.kind # "magic"
    /\ cookies.redirect = flow.page
    /\ flow.wants # None => cookies.required = [email |-> flow.wants, by |-> n]
    /\ flow.kind = "repo" => cookies.repo = n

\* What a callback carried stays with its flow until it is answered.
JarsTell ==
  /\ jar.state \in 0..Len(flows)
  /\ \A n \in 1..Len(flows) :
       /\ CookiesOf(jar, flows[n], n)
       /\ flows[n].at = "asked" =>
            /\ flows[n].sent.state = n /\ CookiesOf(flows[n].sent, flows[n], n)
            /\ flows[n].email \in Emails /\ flows[n].id \in Ids
       /\ flows[n].kind = "magic" => flows[n].wants = None /\ flows[n].email \in Emails

\* Whoever has no row has no accounts.
NoRowNoAccount ==
  \A e \in Emails : ~users[e].there => users[e].github = None /\ users[e].google = None

SignInInv == SignInTyped /\ JarsTell /\ OwnFlow /\ NoRowNoAccount /\ OneAccount

LEMMA SignInInit == S!Init => SignInInv
BY DEF S!Init, SignInInv, SignInTyped, JarsTell, OwnFlow, S!OwnFlow, NoRowNoAccount,
       OneAccount, S!OneAccount, S!Rows, S!NoRow, S!NoCookies, Row, Cookies, Address,
       CookiesOf, S!Pages

\* The users table as it is keeps what is known of it.
LEMMA SameUsers ==
  ASSUME SignInInv, users' = users
  PROVE  NoRowNoAccount' /\ OneAccount'
BY DEF SignInInv, NoRowNoAccount, OneAccount, S!OneAccount, S!Rows

\* A flow begins: its cookies are set, or it has none.
LEMMA StartKeeps ==
  ASSUME SignInInv, NEW f \in LoginFlow, f.at = "provider",
         flows' = Append(flows, f), jar' \in Cookies,
         \/ /\ f.kind # "magic" /\ jar'.state = Len(flows) + 1
            /\ CookiesOf(jar', f, Len(flows) + 1)
         \/ jar' = jar /\ f.kind = "magic" /\ f.wants = None /\ f.email \in Emails,
         UNCHANGED <<users, link>>
  PROVE  SignInInv'
<1> USE DEF SignInInv
<1>1. SignInTyped'
  BY DEF SignInTyped
<1>2. /\ Len(flows') = Len(flows) + 1 /\ flows'[Len(flows) + 1] = f
      /\ Len(flows) \in Nat
      /\ \A n \in 1..Len(flows) : flows'[n] = flows[n]
  BY DEF SignInTyped
<1>3. JarsTell'
  <2>1. jar'.state \in 0..Len(flows')
    BY <1>2 DEF JarsTell
  <2>2. ASSUME NEW n \in 1..Len(flows')
        PROVE  /\ CookiesOf(jar', flows'[n], n)
               /\ flows'[n].at = "asked" =>
                    /\ flows'[n].sent.state = n /\ CookiesOf(flows'[n].sent, flows'[n], n)
                    /\ flows'[n].email \in Emails /\ flows'[n].id \in Ids
               /\ flows'[n].kind = "magic" => flows'[n].wants = None /\ flows'[n].email \in Emails
    <3>1. CASE n = Len(flows) + 1
      <4>1. jar'.state = n => f.kind # "magic" /\ CookiesOf(jar', f, n)
        BY <1>2, <3>1 DEF JarsTell
      <4> QED
        BY <1>2, <3>1, <4>1 DEF CookiesOf
    <3>2. CASE n \in 1..Len(flows)
      <4>1. CookiesOf(jar', flows[n], n)
        BY <1>2, <3>2 DEF JarsTell, CookiesOf
      <4> QED
        BY <1>2, <3>2, <4>1 DEF JarsTell
    <3> QED
      BY <1>2, <3>1, <3>2
  <2> QED
    BY <2>1, <2>2 DEF JarsTell, CookiesOf
<1>4. OwnFlow'
  BY <1>2 DEF OwnFlow, S!OwnFlow
<1> QED
  BY <1>1, <1>3, <1>4, SameUsers

\* A flow goes on: it stays what it is about, and the cookies of another login
\* are not touched, or gone.
LEMMA FlowKeeps ==
  ASSUME SignInInv, NEW n \in 1..Len(flows), NEW g \in LoginFlow,
         flows' = [flows EXCEPT ![n] = g],
         g.kind = flows[n].kind, g.page = flows[n].page, g.wants = flows[n].wants,
         g.kind = "magic" => g.email \in Emails,
         g.at = "asked" => g.sent.state = n /\ CookiesOf(g.sent, g, n)
                            /\ g.email \in Emails /\ g.id \in Ids,
         g.at = "in" => /\ g.kind # "repo" /\ g.went = g.page
                        /\ g.wants \in {None, g.email},
         jar' \in Cookies,
         \/ jar'.state = 0
         \/ /\ jar'.state = jar.state /\ jar'.redirect = jar.redirect
            /\ jar'.required = jar.required /\ jar'.repo = jar.repo,
         link' \in {"pending", "gone"}
  PROVE  (flows' \in Seq(LoginFlow)) /\ JarsTell' /\ OwnFlow'
<1> USE DEF SignInInv
<1>1. /\ flows' \in Seq(LoginFlow) /\ Len(flows') = Len(flows)
      /\ flows'[n] = g
      /\ \A m \in 1..Len(flows) \ {n} : flows'[m] = flows[m]
  BY DEF SignInTyped
<1>2. ASSUME NEW m \in 1..Len(flows)
      PROVE  CookiesOf(jar', flows'[m], m)
  <2>1. CookiesOf(jar', flows[m], m)
    BY DEF JarsTell, CookiesOf
  <2> QED
    BY <1>1, <2>1 DEF CookiesOf
<1>3. jar'.state \in 0..Len(flows')
  BY <1>1 DEF JarsTell, SignInTyped
<1>4. ASSUME NEW m \in 1..Len(flows)
      PROVE  /\ flows'[m].at = "asked" =>
                  /\ flows'[m].sent.state = m /\ CookiesOf(flows'[m].sent, flows'[m], m)
                  /\ flows'[m].email \in Emails /\ flows'[m].id \in Ids
             /\ flows'[m].kind = "magic" => flows'[m].wants = None /\ flows'[m].email \in Emails
  <2>1. CASE m = n
    BY <1>1, <2>1 DEF JarsTell
  <2>2. CASE m # n
    BY <1>1, <2>2 DEF JarsTell
  <2> QED
    BY <2>1, <2>2
<1>5. JarsTell'
  BY <1>1, <1>2, <1>3, <1>4 DEF JarsTell, CookiesOf
<1>6. OwnFlow'
  BY <1>1 DEF OwnFlow, S!OwnFlow
<1> QED
  BY <1>1, <1>5, <1>6

\* What is known of a flow of the log.
LEMMA FlowFacts ==
  ASSUME SignInInv, NEW n \in 1..Len(flows)
  PROVE  /\ flows[n] \in LoginFlow /\ n \in Nat \ {0}
         /\ flows[n].at = "asked" =>
              /\ flows[n].kind # "magic"
              /\ flows[n].email \in Emails /\ flows[n].id \in Ids
              /\ flows[n].sent.state = n /\ CookiesOf(flows[n].sent, flows[n], n)
              /\ flows[n].sent.redirect = flows[n].page
         /\ flows[n].kind = "magic" => flows[n].wants = None /\ flows[n].email \in Emails
BY DEF SignInInv, SignInTyped, JarsTell, CookiesOf

\* Every answer of a callback leaves cookies of no login.
LEMMA ClearedJar ==
  ASSUME SignInInv, NEW n \in 1..Len(flows)
  PROVE  /\ S!ClearedBy(n) \in Cookies /\ S!ClearedBy(n).state = 0
         /\ S!ClearedBy(n).session = jar.session
BY DEF SignInInv, SignInTyped, S!ClearedBy, S!Cleared, S!ClearedByGithub, S!NoCookies,
       Cookies, Address

LEMMA StartLoginKeeps ==
  ASSUME SignInInv, NEW kind \in {"github", "google"}, NEW goal \in S!Pages,
         S!StartLogin(kind, goal)
  PROVE  SignInInv'
<1> DEFINE n == Len(flows) + 1
           f == S!Flow(kind, goal, jar.login)
<1>1. f \in LoginFlow /\ f.at = "provider" /\ f.kind # "magic"
      /\ f.kind # "repo" /\ f.page = goal /\ f.wants = jar.login
  BY DEF SignInInv, SignInTyped, S!Flow, LoginFlow, S!NoCookies, Cookies, Address
<1>2. n \in Nat
  BY DEF SignInInv, SignInTyped
<1>3. jar' \in Cookies /\ jar'.state = n /\ CookiesOf(jar', f, n)
  <2>1. jar' = [jar EXCEPT !.state = n, !.redirect = goal, !.required = S!Required(n)]
    BY DEF S!StartLogin, S!Begun, SignInInv, SignInTyped, Cookies
  <2>2. S!Required(n) \in [email : Address, by : Nat]
    BY <1>2 DEF S!Required, SignInInv, SignInTyped, Cookies
  <2> QED
    BY <1>1, <1>2, <2>1, <2>2
    DEF SignInInv, SignInTyped, Cookies, CookiesOf, S!Required
<1> HIDE DEF f, n
<1> QED
  BY <1>1, <1>3, StartKeeps DEF S!StartLogin, f, n

LEMMA StartRepoKeeps ==
  ASSUME SignInInv, NEW goal \in S!Pages, S!StartRepo(goal)
  PROVE  SignInInv'
<1> DEFINE n == Len(flows) + 1
           f == S!Flow("repo", goal, None)
<1>1. f \in LoginFlow /\ f.at = "provider" /\ f.kind # "magic"
      /\ f.kind = "repo" /\ f.page = goal /\ f.wants = None
  BY DEF S!Flow, LoginFlow, S!NoCookies, Cookies, Address
<1>2. n \in Nat
  BY DEF SignInInv, SignInTyped
<1>3. jar' \in Cookies /\ jar'.state = n /\ CookiesOf(jar', f, n)
  <2>1. jar' = [jar EXCEPT !.state = n, !.redirect = goal, !.repo = n]
    BY DEF S!StartRepo, S!Begun, SignInInv, SignInTyped, Cookies
  <2> QED
    BY <1>1, <1>2, <2>1 DEF SignInInv, SignInTyped, Cookies, CookiesOf
<1> HIDE DEF f, n
<1> QED
  BY <1>1, <1>3, StartKeeps DEF S!StartRepo, f, n

LEMMA AskMagicKeeps ==
  ASSUME SignInInv, NEW e \in Emails, NEW goal \in S!Pages, S!AskMagic(e, goal)
  PROVE  SignInInv'
<1> DEFINE f == [S!Flow("magic", goal, None) EXCEPT !.email = e]
<1>1. f \in LoginFlow /\ f.at = "provider" /\ f.kind = "magic"
      /\ f.wants = None /\ f.email \in Emails
  BY DEF S!Flow, LoginFlow, S!NoCookies, Cookies, Address
<1>2. jar' = jar /\ jar' \in Cookies
  BY DEF S!AskMagic, SignInInv, SignInTyped
<1> HIDE DEF f
<1> QED
  BY <1>1, <1>2, StartKeeps DEF S!AskMagic, f

LEMMA CallbackKeeps ==
  ASSUME SignInInv, NEW n \in 1..Len(flows), NEW id \in Ids, NEW e \in Emails,
         S!Callback(n, id, e)
  PROVE  SignInInv'
<1> DEFINE g == IF jar.state = n
                THEN [flows[n] EXCEPT !.at = "asked", !.id = id, !.email = e, !.sent = jar]
                ELSE [flows[n] EXCEPT !.at = "invalid"]
<1>1. flows' = [flows EXCEPT ![n] = g]
  BY FlowFacts DEF S!Callback, SignInInv, SignInTyped, LoginFlow
<1>2. /\ g \in LoginFlow
      /\ g.kind = flows[n].kind /\ g.page = flows[n].page /\ g.wants = flows[n].wants
      /\ g.at # "in" /\ g.kind # "magic"
      /\ g.at = "asked" => jar.state = n /\ g.sent = jar /\ g.email \in Emails /\ g.id \in Ids
  BY FlowFacts DEF S!Callback, LoginFlow, SignInInv, SignInTyped
<1>3. g.at = "asked" => CookiesOf(g.sent, g, n)
  <2>1. CookiesOf(jar, flows[n], n)
    BY DEF SignInInv, JarsTell
  <2> QED
    BY <1>2, <2>1 DEF CookiesOf
<1>4. jar' = jar /\ jar' \in Cookies /\ link' = link /\ users' = users
  BY DEF S!Callback, SignInInv, SignInTyped
<1> HIDE DEF g
<1>5. (flows' \in Seq(LoginFlow)) /\ JarsTell' /\ OwnFlow'
  BY <1>1, <1>2, <1>3, <1>4, FlowKeeps DEF SignInInv, SignInTyped
<1> QED
  BY <1>4, <1>5, SameUsers DEF SignInInv, SignInTyped

\* A callback is over: the jar has no login's cookies, and the flow is not
\* accepted unless it was its own.
LEMMA OverKeeps ==
  ASSUME SignInInv, NEW n \in 1..Len(flows), flows[n].at = "asked",
         NEW at \in {"invalid", "refused", "granted", "in"},
         NEW went \in S!Pages \cup {None}, flows' = S!Over(n, at, went),
         at = "in" => /\ flows[n].kind # "repo" /\ went = flows[n].page
                      /\ flows[n].wants \in {None, flows[n].email},
         jar' \in Cookies, jar' = jar \/ jar'.state = 0, link' = link
  PROVE  (flows' \in Seq(LoginFlow)) /\ JarsTell' /\ OwnFlow'
<1> DEFINE g == [flows[n] EXCEPT !.at = at, !.went = went, !.sent = S!NoCookies]
<1>1. flows' = [flows EXCEPT ![n] = g]
  BY DEF S!Over
<1>2. S!NoCookies \in Cookies
  BY DEF S!NoCookies, Cookies, Address
<1>3. /\ g \in LoginFlow
      /\ g.kind = flows[n].kind /\ g.page = flows[n].page /\ g.wants = flows[n].wants
      /\ g.kind # "magic" /\ g.at = at /\ g.went = went /\ g.email = flows[n].email
  BY <1>2, FlowFacts DEF LoginFlow
<1>4. link' \in {"pending", "gone"}
  BY DEF SignInInv, SignInTyped
<1> HIDE DEF g
<1> QED
  BY <1>1, <1>3, <1>4, FlowKeeps

LEMMA CallbackFailsKeeps ==
  ASSUME SignInInv, NEW n \in 1..Len(flows), S!CallbackFails(n)
  PROVE  SignInInv'
<1>1. (flows' \in Seq(LoginFlow)) /\ JarsTell' /\ OwnFlow'
  BY OverKeeps DEF S!CallbackFails, SignInInv, SignInTyped
<1> QED
  BY <1>1, SameUsers DEF S!CallbackFails, SignInInv, SignInTyped

LEMMA RefuseKeeps ==
  ASSUME SignInInv, NEW n \in 1..Len(flows), S!Refuse(n)
  PROVE  SignInInv'
<1>1. jar' \in Cookies /\ jar'.state = 0
  BY ClearedJar, FlowFacts DEF S!Refuse, Cookies, LoginFlow
<1>2. (flows' \in Seq(LoginFlow)) /\ JarsTell' /\ OwnFlow'
  BY <1>1, OverKeeps DEF S!Refuse
<1> QED
  BY <1>1, <1>2, SameUsers DEF S!Refuse, SignInInv, SignInTyped

LEMMA SaveTokenKeeps ==
  ASSUME SignInInv, NEW n \in 1..Len(flows), S!SaveToken(n)
  PROVE  SignInInv'
<1>1. (flows' \in Seq(LoginFlow)) /\ JarsTell' /\ OwnFlow'
  BY ClearedJar, OverKeeps DEF S!SaveToken
<1>2. /\ users' \in [Emails -> Row]
      /\ \A e \in Emails : /\ users'[e].there = users[e].there
                           /\ users'[e].github = users[e].github
                           /\ users'[e].google = users[e].google
  <2>1. PICK owner : users' = [x \in Emails |->
          IF x \in owner THEN [users[x] EXCEPT !.token = TRUE] ELSE users[x]]
    BY DEF S!SaveToken
  <2> QED
    BY <2>1 DEF SignInInv, SignInTyped, Row
<1>3. NoRowNoAccount'
  BY <1>2 DEF SignInInv, NoRowNoAccount
<1>4. OneAccount'
  BY <1>2 DEF SignInInv, OneAccount, S!OneAccount, S!Rows
<1> QED
  BY <1>1, <1>2, <1>3, <1>4, ClearedJar DEF S!SaveToken, SignInInv, SignInTyped

\* Whoever an account is found for, or the address, gets it: nobody else has it.
LEMMA UpsertKeeps ==
  ASSUME SignInInv, NEW p \in {"github", "google"}, NEW id \in Ids,
         NEW e \in Emails, NEW u \in Emails, S!Upsert(p, id, e, u)
  PROVE  (users' \in [Emails -> Row]) /\ NoRowNoAccount' /\ OneAccount'
<1> USE DEF SignInInv, SignInTyped
<1>1. /\ users'[u].there /\ users'[u][p] = id
      /\ \A q \in {"github", "google"} \ {p} : users'[u][q] = users[u][q]
      /\ \A x \in Emails \ {u} : users'[x] = users[x]
      /\ users' \in [Emails -> Row]
  BY DEF S!Upsert, Row
<1>2. NoRowNoAccount'
  BY <1>1 DEF NoRowNoAccount
<1>3. \A x \in S!Rows \ {u} : users[x][p] # id
  <2>1. CASE \E x \in S!Rows : users[x][p] = id
    <3>1. u \in S!Rows /\ users[u][p] = id
      BY <2>1 DEF S!Upsert, S!Found
    <3>2. id # None => \A x \in S!Rows \ {u} : users[x][p] # id
      BY <3>1 DEF OneAccount, S!OneAccount
    <3> QED
      BY <3>2, NoneAssumption
  <2>2. CASE ~ \E x \in S!Rows : users[x][p] = id
    BY <2>2
  <2> QED
    BY <2>1, <2>2
<1> QED
  BY <1>1, <1>2, <1>3 DEF OneAccount, S!OneAccount, S!Rows, NoRowNoAccount

LEMMA SignInKeeps ==
  ASSUME SignInInv, NEW n \in 1..Len(flows), S!SignIn(n)
  PROVE  SignInInv'
<1>1. PICK u \in Emails :
        /\ S!Upsert(IF flows[n].kind = "google" THEN "google" ELSE "github",
                    flows[n].id, flows[n].email, u)
        /\ jar' = S!SignedIn(S!ClearedBy(n), u, flows[n].sent.redirect)
  BY DEF S!SignIn
<1>2. jar' \in Cookies /\ jar'.state = 0
  <2>1. S!ClearedBy(n) \in Cookies /\ S!ClearedBy(n).state = 0
    BY ClearedJar
  <2> QED
    BY <1>1, <2>1 DEF S!SignedIn, Cookies, Address
<1>3. /\ flows[n].at = "asked" /\ flows[n].email \in Emails /\ flows[n].id \in Ids
      /\ flows[n].kind # "magic" /\ flows[n].sent.redirect = flows[n].page
      /\ flows[n].page \in S!Pages
  BY FlowFacts DEF S!SignIn, LoginFlow
<1>4. flows[n].kind # "repo" /\ flows[n].wants \in {None, flows[n].email}
  <2>1. /\ flows[n].at = "asked" /\ n # 0
        /\ flows[n].kind \in {"github", "google", "repo", "magic"}
    BY FlowFacts DEF S!SignIn, LoginFlow
  <2>2. /\ flows[n].wants # None => flows[n].sent.required.email = flows[n].wants
        /\ flows[n].kind = "repo" => flows[n].sent.repo = n
    <3>1. flows[n].sent.state = n /\ CookiesOf(flows[n].sent, flows[n], n)
      BY <2>1, FlowFacts
    <3>2. /\ flows[n].wants # None =>
               flows[n].sent.required = [email |-> flows[n].wants, by |-> n]
          /\ flows[n].kind = "repo" => flows[n].sent.repo = n
      BY <3>1 DEF CookiesOf
    <3> QED
      BY <3>2
  <2>3. flows[n].kind # "repo"
    BY <2>1, <2>2 DEF S!SignIn, S!GrantsRepo
  <2>4. flows[n].wants \in {None, flows[n].email}
    BY <2>2 DEF S!SignIn, S!Mismatch
  <2> QED
    BY <2>3, <2>4
<1>5. (flows' \in Seq(LoginFlow)) /\ JarsTell' /\ OwnFlow'
  BY <1>2, <1>3, <1>4, OverKeeps DEF S!SignIn
<1>6. (users' \in [Emails -> Row]) /\ NoRowNoAccount' /\ OneAccount'
  BY <1>1, <1>3, UpsertKeeps
<1> QED
  BY <1>2, <1>5, <1>6 DEF S!SignIn, SignInInv, SignInTyped

LEMMA ExpireKeeps ==
  ASSUME SignInInv, NEW n \in 1..Len(flows), S!Expire(n)
  PROVE  SignInInv'
<1> USE DEF SignInInv
<1>1. /\ n \in Nat \ {0} /\ jar' \in Cookies
      /\ jar'.state = IF jar.state = n THEN 0 ELSE jar.state
      /\ jar.state # n => jar'.redirect = jar.redirect
      /\ jar.repo # n => jar'.repo = jar.repo
      /\ jar.required.by # n => jar'.required = jar.required
  BY DEF S!Expire, S!NoCookies, SignInTyped, Cookies, Address
<1>2. jar' \in Cookies /\ UNCHANGED <<users, flows, link>>
  BY <1>1 DEF S!Expire
<1>3. ASSUME NEW m \in 1..Len(flows)
      PROVE  CookiesOf(jar', flows[m], m)
  <2>1. CookiesOf(jar, flows[m], m) /\ m \in Nat \ {0}
    BY DEF JarsTell, SignInTyped
  <2>2. CASE jar.state = n
    BY <1>1, <2>1, <2>2 DEF CookiesOf
  <2>3. CASE jar.state # n
    <3>1. SUFFICES ASSUME jar.state = m
                   PROVE  CookiesOf(jar', flows[m], m)
      BY <1>1, <2>3 DEF CookiesOf
    <3>2. m # n
      BY <2>3, <3>1
    <3>3. flows[m].wants # None => jar.required.by = m
      BY <2>1, <3>1 DEF CookiesOf
    <3> QED
      BY <1>1, <2>1, <2>3, <3>1, <3>2, <3>3 DEF CookiesOf
  <2> QED
    BY <2>2, <2>3
<1>4. jar'.state \in 0..Len(flows)
  BY <1>1 DEF JarsTell, SignInTyped
<1>5. JarsTell'
  BY <1>2, <1>3, <1>4 DEF JarsTell, CookiesOf
<1>6. SignInTyped' /\ OwnFlow'
  BY <1>2 DEF SignInTyped, OwnFlow, S!OwnFlow
<1> QED
  BY <1>2, <1>5, <1>6, SameUsers

LEMMA UseMagicKeeps ==
  ASSUME SignInInv, NEW n \in 1..Len(flows), S!UseMagic(n)
  PROVE  SignInInv'
<1> DEFINE g == [flows[n] EXCEPT !.at = "in", !.went = flows[n].page]
<1>1. /\ flows[n].kind = "magic" /\ flows[n].wants = None
      /\ flows[n].email \in Emails /\ flows[n] \in LoginFlow
  BY FlowFacts DEF S!UseMagic
<1>2. flows' = [flows EXCEPT ![n] = g]
  BY <1>1 DEF S!UseMagic, SignInInv, SignInTyped, LoginFlow
<1>3. /\ g \in LoginFlow
      /\ g.kind = flows[n].kind /\ g.page = flows[n].page /\ g.wants = flows[n].wants
      /\ g.email \in Emails /\ g.at # "asked" /\ g.kind # "repo" /\ g.went = g.page
      /\ g.wants = None
  BY <1>1 DEF LoginFlow
<1>4. /\ jar' \in Cookies /\ jar'.state = jar.state /\ jar'.redirect = jar.redirect
      /\ jar'.required = jar.required /\ jar'.repo = jar.repo
  BY <1>1 DEF S!UseMagic, S!SignedIn, SignInInv, SignInTyped, Cookies, Address
<1>5. link' = link /\ link' \in {"pending", "gone"}
  BY DEF S!UseMagic, SignInInv, SignInTyped
<1> HIDE DEF g
<1>6. (flows' \in Seq(LoginFlow)) /\ JarsTell' /\ OwnFlow'
  BY <1>2, <1>3, <1>4, <1>5, FlowKeeps
<1>7. /\ users' \in [Emails -> Row]
      /\ \A e \in Emails : /\ users[e].there => users'[e].there
                           /\ users'[e].github = users[e].github
                           /\ users'[e].google = users[e].google
  BY <1>1 DEF S!UseMagic, S!UpsertEmail, SignInInv, SignInTyped, Row
<1>8. NoRowNoAccount'
  BY <1>7 DEF SignInInv, NoRowNoAccount
<1>9. OneAccount'
  BY <1>7 DEF SignInInv, NoRowNoAccount, OneAccount, S!OneAccount, S!Rows
<1> QED
  BY <1>4, <1>5, <1>6, <1>7, <1>8, <1>9 DEF SignInInv, SignInTyped

LEMMA MagicExpiresKeeps ==
  ASSUME SignInInv, NEW n \in 1..Len(flows), S!MagicExpires(n)
  PROVE  SignInInv'
<1> DEFINE g == [flows[n] EXCEPT !.at = "invalid"]
<1>1. flows[n].kind = "magic" /\ flows[n].email \in Emails /\ flows[n] \in LoginFlow
  BY FlowFacts DEF S!MagicExpires
<1>2. flows' = [flows EXCEPT ![n] = g]
  BY <1>1 DEF S!MagicExpires, SignInInv, SignInTyped, LoginFlow
<1>3. /\ g \in LoginFlow
      /\ g.kind = flows[n].kind /\ g.page = flows[n].page /\ g.wants = flows[n].wants
      /\ g.email \in Emails /\ g.at \notin {"asked", "in"}
  BY <1>1 DEF LoginFlow
<1>4. UNCHANGED <<users, jar, link>> /\ jar' \in Cookies /\ link' \in {"pending", "gone"}
  BY DEF S!MagicExpires, SignInInv, SignInTyped
<1> HIDE DEF g
<1>5. (flows' \in Seq(LoginFlow)) /\ JarsTell' /\ OwnFlow'
  BY <1>2, <1>3, <1>4, FlowKeeps
<1> QED
  BY <1>4, <1>5, SameUsers DEF SignInInv, SignInTyped

\* What the login page and sessions do is not about a flow.
LEMMA PagesKeep ==
  ASSUME SignInInv,
         S!LoginForLink \/ S!LinkExpires \/ S!LoginEmailExpires \/ S!Logout
  PROVE  SignInInv'
<1> USE DEF SignInInv
<1>1. /\ jar' \in Cookies /\ jar'.state = jar.state /\ jar'.redirect = jar.redirect
      /\ jar'.required = jar.required /\ jar'.repo = jar.repo
      /\ users' = users /\ flows' = flows /\ link' \in {"pending", "gone"}
  BY DEF S!LoginForLink, S!LinkExpires, S!LoginEmailExpires, S!Logout,
         SignInTyped, Cookies, Address
<1>2. JarsTell'
  BY <1>1 DEF JarsTell, CookiesOf
<1> QED
  BY <1>1, <1>2, SameUsers DEF SignInTyped, OwnFlow, S!OwnFlow

LEMMA SignInStep == SignInInv /\ [S!Next]_(S!vars) => SignInInv'
<1> SUFFICES ASSUME SignInInv, [S!Next]_(S!vars)
             PROVE  SignInInv'
  OBVIOUS
<1>1. CASE UNCHANGED S!vars
  BY <1>1 DEF S!vars, SignInInv, SignInTyped, JarsTell, CookiesOf, OwnFlow, S!OwnFlow,
              NoRowNoAccount, OneAccount, S!OneAccount, S!Rows
<1>2. CASE \E kind \in {"github", "google"}, p \in S!Pages : S!StartLogin(kind, p)
  BY <1>2, StartLoginKeeps
<1>3. CASE \E p \in S!Pages \ {"cli"} : S!StartRepo(p)
  BY <1>3, StartRepoKeeps
<1>4. CASE \E e \in Emails, p \in S!Pages : S!AskMagic(e, p)
  BY <1>4, AskMagicKeeps
<1>5. ASSUME NEW n \in 1..Len(flows), S!FlowStep(n)
      PROVE  SignInInv'
  BY <1>5, CallbackKeeps, CallbackFailsKeeps, RefuseKeeps, SaveTokenKeeps, SignInKeeps,
     ExpireKeeps, UseMagicKeeps, MagicExpiresKeeps DEF S!FlowStep
<1>6. CASE S!LoginForLink \/ S!LinkExpires \/ S!LoginEmailExpires \/ S!Logout
  BY <1>6, PagesKeep
<1> QED
  BY <1>1, <1>2, <1>3, <1>4, <1>5, <1>6 DEF S!Next

\* Whatever other tabs begin, finish or let expire, a login returns to its own
\* page and address and no grant passes for one (auth/oauth/github.ts, google.ts).
THEOREM CookiesDoNotMix == S!Spec => []OwnFlow
<1>1. SignInInv => OwnFlow
  BY DEF SignInInv
<1> QED
  BY <1>1, SignInInit, SignInStep, PTL DEF S!Spec

\* No two users have one account, for the rows as the upserts of the callbacks
\* leave them (upsertUserFromGithub, upsertUserFromGoogle).
THEOREM AccountsAreOnes == S!Spec => []OneAccount
<1>1. SignInInv => OneAccount
  BY DEF SignInInv
<1> QED
  BY <1>1, SignInInit, SignInStep, PTL DEF S!Spec

-----------------------------------------------------------------------------
(* What Caddy serves.                                                        *)

RouteRecord == [to : {"nothing", "port", "status page"}, auth : BOOLEAN]

LoadRecord == [config : [VMs -> RouteRecord], for : SUBSET VMs, late : BOOLEAN]

RoutesTyped ==
  /\ hosts \in [VMs -> {"none", "creating", "running", "asleep", "stopped", "error"}]
  /\ work \in [VMs -> {"none", "boot", "wake"}]
  /\ public \subseteq VMs
  /\ route \in [VMs -> RouteRecord]
  /\ loads \in Seq(LoadRecord)
  /\ stale \in BOOLEAN

\* A configuration serves the VMs that run or sleep, to those who may.
Fits(config) ==
  \A v \in VMs : hosts[v] \in {"running", "asleep"} =>
    config[v] = [to |-> "port", auth |-> v \notin public]

\* The newest configuration is of the rows, until it is answered; once it is,
\* it is what Caddy serves or the routes are stale, and what is still under way
\* is late.
NewestFits ==
  /\ \A i, j \in 1..Len(loads) : (i < j /\ loads[j].late) => loads[i].late
  /\ IF loads # <<>> /\ ~loads[Len(loads)].late
     THEN Fits(loads[Len(loads)].config)
     ELSE ~stale => Fits(route)

RoutesInv == RoutesTyped /\ NewestFits

LEMMA RemovedOne ==
  ASSUME NEW X, NEW s \in Seq(X), NEW i \in 1..Len(s)
  PROVE  /\ R!RemoveAt(s, i) \in Seq(X) /\ Len(R!RemoveAt(s, i)) = Len(s) - 1
         /\ \A j \in 1..Len(s) - 1 :
              R!RemoveAt(s, i)[j] = IF j < i THEN s[j] ELSE s[j + 1]
<1>1. /\ SubSeq(s, 1, i - 1) \in Seq(X) /\ Len(SubSeq(s, 1, i - 1)) = i - 1
      /\ \A j \in 1..i - 1 : SubSeq(s, 1, i - 1)[j] = s[j]
  OBVIOUS
<1>2. /\ SubSeq(s, i + 1, Len(s)) \in Seq(X)
      /\ Len(SubSeq(s, i + 1, Len(s))) = Len(s) - i
      /\ \A j \in 1..Len(s) - i : SubSeq(s, i + 1, Len(s))[j] = s[i + j]
  OBVIOUS
<1> DEFINE a == SubSeq(s, 1, i - 1)
           b == SubSeq(s, i + 1, Len(s))
<1>3. R!RemoveAt(s, i) = a \o b
  BY DEF R!RemoveAt
<1> HIDE DEF a, b
<1>4. /\ a \in Seq(X) /\ Len(a) = i - 1 /\ \A j \in 1..i - 1 : a[j] = s[j]
      /\ b \in Seq(X) /\ Len(b) = Len(s) - i /\ \A j \in 1..Len(s) - i : b[j] = s[i + j]
      /\ i \in Nat /\ Len(s) \in Nat /\ i >= 1 /\ i <= Len(s)
  BY <1>1, <1>2 DEF a, b
<1>5. Len(a \o b) = Len(s) - 1 /\ a \o b \in Seq(X)
  <2>0. a \in Seq(X) /\ b \in Seq(X)
    BY <1>4
  <2>1. a \o b \in Seq(X) /\ Len(a \o b) = Len(a) + Len(b)
    BY <2>0
  <2>2. Len(a) + Len(b) = Len(s) - 1
    BY <1>4
  <2> QED
    BY <2>1, <2>2
<1>6. ASSUME NEW j \in 1..Len(s) - 1
      PROVE  (a \o b)[j] = IF j < i THEN s[j] ELSE s[j + 1]
  <2>1. CASE j < i
    BY <1>4, <2>1
  <2>2. CASE j >= i
    <3>1. (a \o b)[j] = b[j - (i - 1)] /\ j - (i - 1) \in 1..Len(s) - i
      BY <1>4, <2>2
    <3>2. b[j - (i - 1)] = s[i + (j - (i - 1))] /\ i + (j - (i - 1)) = j + 1
      BY <1>4, <2>2, <3>1
    <3> QED
      BY <2>2, <3>1, <3>2, <1>4
  <2> QED
    BY <2>1, <2>2, <1>4
<1> QED
  BY <1>3, <1>5, <1>6

LEMMA RoutesInit == R!Init => RoutesInv
BY DEF R!Init, RoutesInv, RoutesTyped, NewestFits, R!NoRoute, RouteRecord, Fits

\* Rows that serve less, as they did before, fit what fitted before.
LEMMA QuietRows ==
  ASSUME RoutesInv,
         hosts' \in [VMs -> {"none", "creating", "running", "asleep", "stopped", "error"}],
         work' \in [VMs -> {"none", "boot", "wake"}], public' \subseteq VMs,
         \A v \in VMs : hosts'[v] \in {"running", "asleep"} =>
           hosts[v] \in {"running", "asleep"} /\ (v \in public <=> v \in public'),
         UNCHANGED <<route, loads, stale>>
  PROVE  RoutesInv'
<1>1. RoutesTyped'
  BY DEF RoutesInv, RoutesTyped
<1>2. ASSUME NEW c, Fits(c) PROVE (\A v \in VMs : hosts'[v] \in {"running", "asleep"} =>
        c[v] = [to |-> "port", auth |-> v \notin public'])
  BY <1>2 DEF Fits
<1>3. NewestFits'
  BY <1>2 DEF RoutesInv, NewestFits, Fits
<1> QED
  BY <1>1, <1>3 DEF RoutesInv

\* What is posted is of the rows the step leaves.
LEMMA PostedFits ==
  ASSUME hosts' \in [VMs -> {"none", "creating", "running", "asleep", "stopped", "error"}],
         NEW pub \in SUBSET VMs, pub = public',
         NEW c, c = [v \in VMs |-> R!RouteOf(hosts'[v], v \in pub)]
  PROVE  /\ c \in [VMs -> RouteRecord]
         /\ \A v \in VMs : hosts'[v] \in {"running", "asleep"} =>
              c[v] = [to |-> "port", auth |-> v \notin public']
BY DEF R!RouteOf, R!NoRoute, RouteRecord

LEMMA ReloadKeeps ==
  ASSUME RoutesInv,
         hosts' \in [VMs -> {"none", "creating", "running", "asleep", "stopped", "error"}],
         work' \in [VMs -> {"none", "boot", "wake"}], public' \subseteq VMs,
         NEW for \in SUBSET VMs, R!Reload(for)
  PROVE  RoutesInv'
<1> DEFINE c == [v \in VMs |-> R!RouteOf(hosts'[v], v \in public')]
           l == [config |-> c, for |-> for, late |-> FALSE]
<1>1. /\ c \in [VMs -> RouteRecord]
      /\ \A v \in VMs : hosts'[v] \in {"running", "asleep"} =>
           c[v] = [to |-> "port", auth |-> v \notin public']
  BY PostedFits
<1>2. l \in LoadRecord /\ l.config = c /\ ~l.late
  BY <1>1 DEF LoadRecord
<1>3. loads' = Append(loads, l) /\ UNCHANGED <<route, stale>>
  BY DEF R!Reload
<1> HIDE DEF c, l
<1>4. /\ loads' \in Seq(LoadRecord) /\ Len(loads') = Len(loads) + 1
      /\ loads'[Len(loads) + 1] = l /\ Len(loads) \in Nat
      /\ \A i \in 1..Len(loads) : loads'[i] = loads[i]
  BY <1>2, <1>3 DEF RoutesInv, RoutesTyped
<1>5. \A i, j \in 1..Len(loads') : (i < j /\ loads'[j].late) => loads'[i].late
  BY <1>2, <1>4 DEF RoutesInv, NewestFits
<1>6. loads' # <<>> /\ ~loads'[Len(loads')].late /\ loads'[Len(loads')].config = c
  BY <1>2, <1>4
<1> QED
  BY <1>1, <1>3, <1>4, <1>5, <1>6 DEF RoutesInv, RoutesTyped, NewestFits, Fits

LEMMA AnsweredLoads ==
  ASSUME RoutesInv, NEW i \in 1..Len(loads), R!Answered(i)
  PROVE  /\ loads' \in Seq(LoadRecord) /\ Len(loads') = Len(loads) - 1
         /\ \A j \in 1..Len(loads) - 1 :
              LET k == IF j < i THEN j ELSE j + 1
              IN  /\ k \in 1..Len(loads) /\ loads'[j].config = loads[k].config
                  /\ loads'[j].late <=> (loads[k].late \/ k < i)
<1> DEFINE rest == [j \in DOMAIN loads |-> [loads[j] EXCEPT !.late = @ \/ j < i]]
<1> USE DEF RoutesInv, RoutesTyped
<1>1. DOMAIN loads = 1..Len(loads) /\ Len(loads) \in Nat
  OBVIOUS
<1>2. \A j \in 1..Len(loads) :
        /\ rest[j] \in LoadRecord /\ rest[j].config = loads[j].config
        /\ rest[j].late <=> (loads[j].late \/ j < i)
  <2> SUFFICES ASSUME NEW j \in 1..Len(loads)
               PROVE  /\ rest[j] \in LoadRecord /\ rest[j].config = loads[j].config
                      /\ rest[j].late <=> (loads[j].late \/ j < i)
    OBVIOUS
  <2>1. loads[j] \in LoadRecord
    OBVIOUS
  <2>2. rest[j] = [loads[j] EXCEPT !.late = @ \/ j < i]
    BY <1>1
  <2> QED
    BY <2>1, <2>2 DEF LoadRecord
<1>3. rest \in Seq(LoadRecord) /\ Len(rest) = Len(loads)
  <2>1. rest \in [1..Len(loads) -> LoadRecord]
    BY <1>1, <1>2
  <2> QED
    BY <2>1, <1>1
<1>4. loads' = R!RemoveAt(rest, i)
  BY DEF R!Answered
<1> HIDE DEF rest
<1>5. /\ loads' \in Seq(LoadRecord) /\ Len(loads') = Len(loads) - 1
      /\ \A j \in 1..Len(loads) - 1 : loads'[j] = IF j < i THEN rest[j] ELSE rest[j + 1]
  BY <1>3, <1>4, RemovedOne
<1>6. ASSUME NEW j \in 1..Len(loads) - 1
      PROVE  LET k == IF j < i THEN j ELSE j + 1
             IN  /\ k \in 1..Len(loads) /\ loads'[j].config = loads[k].config
                 /\ loads'[j].late <=> (loads[k].late \/ k < i)
  <2>1. CASE j < i
    BY <1>1, <1>2, <1>5, <2>1
  <2>2. CASE ~(j < i)
    <3>1. loads'[j] = rest[j + 1] /\ j + 1 \in 1..Len(loads) /\ ~(j + 1 < i)
      BY <1>1, <1>5, <2>2
    <3>2. loads'[j].config = loads[j + 1].config /\ (loads'[j].late <=> loads[j + 1].late)
      BY <1>2, <3>1
    <3> QED
      BY <2>2, <3>1, <3>2
  <2> QED
    BY <2>1, <2>2
<1> QED
  BY <1>5, <1>6

\* An answer that comes to the newest settles what Caddy serves; one that comes
\* to an older one leaves the newest to settle it.
LEMMA AnswerKeeps ==
  ASSUME RoutesInv, NEW i \in 1..Len(loads), R!Load(i) \/ R!LoadFails(i)
  PROVE  RoutesInv'
<1> USE DEF RoutesInv
<1>1. R!Answered(i) /\ UNCHANGED <<hosts, work, public>>
  BY DEF R!Load, R!LoadFails, R!Answered
<1>2. /\ loads' \in Seq(LoadRecord) /\ Len(loads') = Len(loads) - 1
      /\ Len(loads) \in Nat /\ Len(loads') \in Nat
      /\ \A j \in 1..Len(loads) - 1 :
           LET k == IF j < i THEN j ELSE j + 1
           IN  /\ k \in 1..Len(loads) /\ loads'[j].config = loads[k].config
               /\ loads'[j].late <=> (loads[k].late \/ k < i)
  BY <1>1, AnsweredLoads DEF RoutesTyped
<1>3. loads[i] \in LoadRecord
  BY DEF RoutesTyped
<1>4. RoutesTyped'
  BY <1>1, <1>2, <1>3 DEF RoutesTyped, R!Load, R!LoadFails, LoadRecord
<1>5. \A j, k \in 1..Len(loads') : (j < k /\ loads'[k].late) => loads'[j].late
  BY <1>2 DEF NewestFits
<1>6. CASE i = Len(loads)
  <2>1. \A j \in 1..Len(loads') : loads'[j].late
    BY <1>2, <1>6
  <2>2. ~stale' => Fits(route')
    <3>1. ~stale' => ~loads[i].late /\ route' = loads[i].config
      BY DEF R!Load, R!LoadFails
    <3>2. loads # <<>>
      BY <1>2
    <3> QED
      BY <3>1, <3>2, <1>6 DEF NewestFits
  <2>3. loads' = <<>> \/ loads'[Len(loads')].late
    BY <2>1, <1>2
  <2> QED
    BY <1>1, <1>4, <1>5, <2>2, <2>3 DEF NewestFits, Fits
<1>7. CASE i < Len(loads)
  <2>1. /\ loads' # <<>> /\ loads'[Len(loads')].config = loads[Len(loads)].config
        /\ loads'[Len(loads')].late <=> loads[Len(loads)].late
    BY <1>2, <1>7
  <2>2. loads # <<>>
    BY <1>2
  <2>3. CASE ~loads[Len(loads)].late
    <3>1. Fits(loads'[Len(loads')].config)
      BY <2>1, <2>2, <2>3 DEF NewestFits
    <3> QED
      BY <1>1, <1>4, <1>5, <2>1, <2>3, <3>1 DEF NewestFits, Fits
  <2>4. CASE loads[Len(loads)].late
    <3>1. loads[i].late
      BY <1>2, <1>7, <2>4 DEF NewestFits
    <3>2. stale' = TRUE
      BY <3>1, <1>3 DEF R!Load, R!LoadFails, LoadRecord
    <3> QED
      BY <1>4, <1>5, <2>1, <2>4, <3>2 DEF NewestFits
  <2> QED
    BY <2>3, <2>4
<1> QED
  BY <1>2, <1>6, <1>7

LEMMA RestartKeeps ==
  ASSUME RoutesInv, R!Restart
  PROVE  RoutesInv'
<1> USE DEF RoutesInv, RoutesTyped
<1> DEFINE c == [v \in VMs |-> R!RouteOf(hosts'[v], v \in public)]
           l == [config |-> c, for |-> {}, late |-> FALSE]
<1>1. /\ hosts' \in [VMs -> {"none", "creating", "running", "asleep", "stopped", "error"}]
      /\ work' \in [VMs -> {"none", "boot", "wake"}] /\ public' = public
      /\ stale' \in BOOLEAN
  BY DEF R!Restart
<1>2. route' \in [VMs -> RouteRecord]
  <2>1. \A i \in 1..Len(loads) : loads[i].config \in [VMs -> RouteRecord]
    <3>1. \A i \in 1..Len(loads) : loads[i] \in LoadRecord
      OBVIOUS
    <3> QED
      BY <3>1 DEF LoadRecord
  <2>2. PICK i \in 0..Len(loads) : route' = IF i = 0 THEN route ELSE loads[i].config
    BY DEF R!Restart
  <2>3. i = 0 \/ i \in 1..Len(loads)
    OBVIOUS
  <2> QED
    BY <2>1, <2>2, <2>3
<1>3. /\ c \in [VMs -> RouteRecord]
      /\ \A v \in VMs : hosts'[v] \in {"running", "asleep"} =>
           c[v] = [to |-> "port", auth |-> v \notin public']
  BY <1>1, PostedFits
<1>4. l \in LoadRecord /\ l.config = c /\ ~l.late
  BY <1>3 DEF LoadRecord
<1>5. loads' = <<l>>
  BY DEF R!Restart
<1> HIDE DEF c, l
<1>6. /\ loads' \in Seq(LoadRecord) /\ Len(loads') = 1 /\ loads'[1] = l
  BY <1>4, <1>5
<1>7. NewestFits'
  <2>1. loads' # <<>> /\ ~loads'[Len(loads')].late /\ loads'[Len(loads')].config = c
    <3>1. loads' # <<>>
      <4>1. Len(<<>>) = 0 /\ Len(loads') = 1
        BY <1>6
      <4>2. Len(loads') # Len(<<>>)
        BY <4>1
      <4> QED
        BY <4>2, Zenon
    <3>2. loads'[Len(loads')] = l
      BY <1>6
    <3> QED
      BY <1>4, <3>1, <3>2
  <2>2. \A i, j \in 1..Len(loads') : ~(i < j)
    BY <1>6
  <2> QED
    BY <1>3, <2>1, <2>2 DEF NewestFits, Fits
<1>8. RoutesTyped'
  BY <1>1, <1>2, <1>6
<1> QED
  BY <1>7, <1>8

LEMMA RoutesStep == RoutesInv /\ [R!Next]_(R!vars) => RoutesInv'
<1> SUFFICES ASSUME RoutesInv, [R!Next]_(R!vars)
             PROVE  RoutesInv'
  OBVIOUS
<1> USE DEF RoutesInv, RoutesTyped
<1>1. CASE UNCHANGED R!vars
  BY <1>1, QuietRows DEF R!vars
<1>2. ASSUME NEW v \in VMs, R!Insert(v) PROVE RoutesInv'
  BY <1>2, QuietRows DEF R!Insert
<1>3. ASSUME NEW v \in VMs, R!Booted(v) PROVE RoutesInv'
  <2>1. R!Reload({}) /\ public' \subseteq VMs
    BY <1>3 DEF R!Booted
  <2>2. /\ hosts' \in [VMs -> {"none", "creating", "running", "asleep", "stopped", "error"}]
        /\ work' \in [VMs -> {"none", "boot", "wake"}]
    BY <1>3 DEF R!Booted
  <2> QED
    BY <2>1, <2>2, ReloadKeeps
<1>4. ASSUME NEW v \in VMs, R!BootFails(v) PROVE RoutesInv'
  <2>1. /\ hosts' \in [VMs -> {"none", "creating", "running", "asleep", "stopped", "error"}]
        /\ work' \in [VMs -> {"none", "boot", "wake"}] /\ public' \subseteq VMs
        /\ UNCHANGED <<route, loads, stale>>
    BY <1>4 DEF R!BootFails
  <2>2. ASSUME NEW w \in VMs, hosts'[w] \in {"running", "asleep"}
        PROVE  hosts[w] \in {"running", "asleep"} /\ (w \in public <=> w \in public')
    BY <1>4, <2>2 DEF R!BootFails
  <2> QED
    BY <2>1, <2>2, QuietRows
<1>5. ASSUME NEW v \in VMs, R!Sleep(v) PROVE RoutesInv'
  BY <1>5, QuietRows DEF R!Sleep
<1>6. ASSUME NEW v \in VMs, R!Wake(v) PROVE RoutesInv'
  BY <1>6, QuietRows DEF R!Wake
<1>7. ASSUME NEW v \in VMs, R!SetPublic(v) PROVE RoutesInv'
  <2>1. R!Reload({}) /\ public' \subseteq VMs /\ UNCHANGED <<hosts, work>>
    BY <1>7 DEF R!SetPublic
  <2> QED
    BY <2>1, ReloadKeeps
<1>8. ASSUME NEW v \in VMs, R!DeleteTells(v) PROVE RoutesInv'
  <2>1. R!Reload({v}) /\ UNCHANGED <<hosts, work, public>>
    BY <1>8 DEF R!DeleteTells
  <2> QED
    BY <2>1, ReloadKeeps
<1>9. ASSUME NEW v \in VMs, R!DeleteRow(v) PROVE RoutesInv'
  BY <1>9, QuietRows DEF R!DeleteRow
<1>10. ASSUME NEW i \in DOMAIN loads, R!Load(i) \/ R!LoadFails(i) PROVE RoutesInv'
  BY <1>10, AnswerKeeps
<1>11. CASE R!Elsewhere
  BY <1>11, ReloadKeeps DEF R!Elsewhere
<1>12. CASE R!Restart
  BY <1>12, RestartKeeps
<1> QED
  BY <1>1, <1>2, <1>3, <1>4, <1>5, <1>6, <1>7, <1>8, <1>9, <1>10, <1>11, <1>12
  DEF R!Next, R!StatusPage

\* Caddy serves what the rows say once the newest configuration has taken
\* effect, for any number of changes at a time (generateCaddyfile, reload).
THEOREM CaddyAgrees == R!Spec => []RoutesAgree
<1>1. RoutesInv => RoutesAgree
  BY DEF RoutesInv, NewestFits, Fits, RoutesAgree, R!RoutesAgree
<1> QED
  BY <1>1, RoutesInit, RoutesStep, PTL DEF R!Spec

-----------------------------------------------------------------------------
(* The panels of a VM's page.                                                *)

\* Where a request was made, and only there is its answer heard.
Home(r) ==
  CASE r.op = "list"                -> r.arg
    [] r.op = "save"                -> "firewall"
    [] r.op \in {"grant", "revoke"} -> "access"
    [] r.op \in {"sessions", "kill"} -> "terminal"
    [] r.op \in {"dir", "file"}     -> "files"

Dir == [there : BOOLEAN, loading : BOOLEAN, expanded : BOOLEAN]

PanelsTyped ==
  /\ tab \in T!Lists \cup {"none", "terminal", "files"} /\ ready \in BOOLEAN
  /\ stored \in [T!Lists -> SUBSET Items] /\ shown \in SUBSET Items
  /\ missed \in BOOLEAN
  /\ sessions \in SUBSET (0..MaxTerm)
  /\ tabs \in Seq(0..MaxTerm) /\ counter \in Nat \ {0}
  /\ dirs \in [Dirs -> Dir] /\ reading \in BOOLEAN
  /\ reqs \in [T!Slots -> T!Requests \cup {None}]

\* Answers are kept for the tab that asked; only changes are made without it.
AtHome(r, here) ==
  /\ r.mine \/ r.op \in {"save", "grant", "revoke", "kill"}
  /\ r.mine => Home(r) = here
  /\ r.op = "list" => r.arg \in T!Lists
  /\ r.op \in {"save", "grant", "revoke"} => r.arg \in SUBSET Items
  /\ r.op = "kill" => r.arg \in 0..MaxTerm
  /\ r.op = "dir" => r.arg \in Dirs
  /\ (r.op = "list" /\ r.at = "back" /\ r.ok) => r.saw \in SUBSET Items
  /\ (r.op = "sessions" /\ r.at = "back" /\ r.ok) => r.saw \in SUBSET (0..MaxTerm)

AnswersAtHome == \A i \in T!Slots : reqs[i] # None => AtHome(reqs[i], tab)

\* An answer that is not of before a change tells what is stored.
Tells(r, lists) ==
  (r.mine /\ r.at = "back" /\ r.ok /\ ~r.old) =>
    /\ r.op = "list" => r.saw = lists[r.arg]
    /\ r.op = "save" => r.arg = lists["firewall"]

AnswersTell == \A i \in T!Slots : reqs[i] # None => Tells(reqs[i], stored)

\* A request that will bring a panel up to date, or say that it did not.
Settles(r) ==
  r.op = "list" \/ (r.op \in {"save", "grant", "revoke"} /\ r.at = "back" /\ r.done)

\* What a panel lacks, it is told.
LackIsTold ==
  (tab \in T!Lists /\ ready /\ ~missed /\ shown # stored[tab]) =>
    \E i \in T!Slots : T!Mine(i) /\ Settles(reqs[i])

\* Every terminal has a number of its own, below the next.
TabsNumbered ==
  /\ \A j, k \in DOMAIN tabs : j # k => tabs[j] # tabs[k]
  /\ \A j \in DOMAIN tabs : tabs[j] < counter
  /\ (tab = "terminal" /\ ready) => active \in {tabs[j] : j \in DOMAIN tabs}

PanelsInv ==
  PanelsTyped /\ AnswersAtHome /\ AnswersTell /\ LackIsTold /\ TabsNumbered /\ SpinnersEnd

\* Of the numbers below those of a set, the fewest are those below its least.
LEMMA LeastIsThere ==
  ASSUME NEW X \in SUBSET Nat, X # {}
  PROVE  T!Min(X) \in X /\ \A y \in X : T!Min(X) <= y
<1> DEFINE below(x) == 1..x
           Z == {below(x) : x \in X}
<1>1. Z \subseteq FiniteSubsetsOf(Nat) /\ Z # {}
  <2>1. \A x \in X : below(x) \in SUBSET Nat /\ IsFiniteSet(below(x))
    BY FS_Interval
  <2> QED
    BY <2>1 DEF FiniteSubsetsOf
<1>2. PICK z \in Z : \A y \in Z : ~(<<y, z>> \in StrictSubsetOrdering(Nat))
  <2>1. IsWellFoundedOn(StrictSubsetOrdering(Nat), FiniteSubsetsOf(Nat))
    BY FS_StrictSubsetOrderingWellFounded
  <2> HIDE DEF Z
  <2> QED
    BY <1>1, <2>1, WFMin
<1>3. PICK x \in X : z = below(x)
  BY <1>2
<1>4. ASSUME NEW y \in X PROVE x <= y
  <2>1. SUFFICES ASSUME y < x
                 PROVE  FALSE
    OBVIOUS
  <2>2. below(y) \subseteq below(x) /\ below(y) # below(x)
    <3>1. x \in below(x) /\ x \notin below(y)
      BY <2>1
    <3> QED
      BY <2>1, <3>1
  <2>3. <<below(y), below(x)>> \in StrictSubsetOrdering(Nat)
    <3>1. below(x) \in SUBSET Nat /\ below(y) \in SUBSET Nat
      OBVIOUS
    <3> HIDE DEF below
    <3> QED
      BY <2>2, <3>1 DEF StrictSubsetOrdering
  <2> QED
    BY <1>2, <1>3, <2>3
<1> QED
  BY <1>4 DEF T!Min

LEMMA GreatestIsThere ==
  ASSUME NEW n \in Nat, NEW X \in SUBSET (0..n), X # {}
  PROVE  T!Max(X) \in X /\ \A y \in X : T!Max(X) >= y
<1> DEFINE Z == {z \in 0..n : n - z \in X}
<1>1. Z \in SUBSET Nat /\ Z # {}
  <2>1. PICK x \in X : TRUE
    OBVIOUS
  <2>2. n - x \in 0..n /\ n - (n - x) = x
    OBVIOUS
  <2> QED
    BY <2>1, <2>2
<1> DEFINE m == T!Min(Z)
<1>2. m \in Z /\ \A y \in Z : m <= y
  <2> HIDE DEF Z
  <2> QED
    BY <1>1, LeastIsThere
<1> HIDE DEF m
<1>3. ASSUME NEW y \in X PROVE n - m >= y
  <2>1. y \in 0..n /\ n - y \in 0..n /\ n - (n - y) = y
    OBVIOUS
  <2>2. n - y \in Z
    BY <2>1
  <2>3. m \in 0..n /\ m <= n - y
    BY <1>2, <2>2
  <2> HIDE DEF Z
  <2> QED
    BY <2>1, <2>3
<1>4. n - m \in X
  BY <1>2
<1> QED
  BY <1>3, <1>4 DEF T!Max

LEMMA PanelsInit == T!Init => PanelsInv
<1> SUFFICES ASSUME T!Init
             PROVE  PanelsInv
  OBVIOUS
<1>1. PanelsTyped
  <2>1. /\ tab \in T!Lists \cup {"none", "terminal", "files"} /\ ready \in BOOLEAN
        /\ shown \in SUBSET Items /\ missed \in BOOLEAN /\ reading \in BOOLEAN
    BY Zenon DEF T!Init
  <2>2. stored \in [T!Lists -> SUBSET Items]
    BY DEF T!Init
  <2>3. tabs \in Seq(0..MaxTerm) /\ sessions \in SUBSET (0..MaxTerm)
        /\ counter \in Nat \ {0}
    BY DEF T!Init
  <2>4. dirs \in [Dirs -> Dir] /\ reqs \in [T!Slots -> T!Requests \cup {None}]
    BY DEF T!Init, Dir, T!NoDir
  <2> QED
    BY <2>1, <2>2, <2>3, <2>4 DEF PanelsTyped
<1>2. AnswersAtHome /\ AnswersTell
  BY DEF T!Init, AnswersAtHome, AnswersTell
<1>3. LackIsTold
  BY DEF T!Init, LackIsTold
<1>4. TabsNumbered
  BY DEF T!Init, TabsNumbered
<1>5. SpinnersEnd
  BY DEF T!Init, SpinnersEnd, T!SpinnersEnd, T!NoDir
<1> QED
  BY <1>1, <1>2, <1>3, <1>4, <1>5 DEF PanelsInv

\* A request that is sent has a slot of its own.
LEMMA SentSomewhere ==
  ASSUME PanelsInv, NEW op, NEW arg, T!Send(op, arg)
  PROVE  \E j \in T!Slots : reqs[j] = None /\ reqs' = [reqs EXCEPT ![j] = T!Request(op, arg)]
<1>1. T!Free \in SUBSET Nat /\ T!Free # {} /\ T!Free \subseteq T!Slots
  BY DEF T!Free, T!Send, T!Slots
<1>2. T!Min(T!Free) \in T!Free
  BY <1>1, LeastIsThere
<1> QED
  BY <1>1, <1>2 DEF T!Send, T!Free

LEMMA RequestFacts ==
  ASSUME PanelsInv, NEW i \in T!Slots, reqs[i] # None
  PROVE  reqs[i] \in T!Requests /\ AtHome(reqs[i], tab) /\ Tells(reqs[i], stored)
BY DEF PanelsInv, PanelsTyped, AnswersAtHome, AnswersTell

\* While no tab is mounted nobody listens.
LEMMA NobodyHome ==
  ASSUME PanelsInv, tab = "none", NEW i \in T!Slots, reqs[i] # None
  PROVE  ~reqs[i].mine
<1>1. /\ reqs[i].op \in {"list", "save", "grant", "revoke", "sessions", "kill", "dir", "file"}
      /\ reqs[i].mine => Home(reqs[i]) = "none"
      /\ reqs[i].op = "list" => reqs[i].arg \in T!Lists
  BY RequestFacts DEF AtHome, T!Requests
<1> QED
  BY <1>1 DEF Home, T!Lists

\* What is sent is one more request, of the tab that is mounted.
LEMMA SendKeeps ==
  ASSUME PanelsInv, NEW op, NEW arg, T!Send(op, arg),
         T!Request(op, arg) \in T!Requests, AtHome(T!Request(op, arg), tab'),
         stored' = stored, tab' = tab \/ tab = "none"
  PROVE  /\ reqs' \in [T!Slots -> T!Requests \cup {None}]
         /\ AnswersAtHome' /\ AnswersTell'
         /\ \E j \in T!Slots : /\ reqs[j] = None
                               /\ reqs'[j] = T!Request(op, arg) /\ reqs'[j] # None
                               /\ \A k \in T!Slots \ {j} : reqs'[k] = reqs[k]
<1> DEFINE r == T!Request(op, arg)
<1>1. r # None /\ r.at = "sent"
  BY PanelsAssumption DEF T!Request
<1> HIDE DEF r
<1>2. PICK j \in T!Slots : reqs[j] = None /\ reqs' = [reqs EXCEPT ![j] = r]
  BY SentSomewhere DEF r
<1>3. /\ reqs'[j] = r /\ \A k \in T!Slots \ {j} : reqs'[k] = reqs[k]
      /\ reqs' \in [T!Slots -> T!Requests \cup {None}]
  BY <1>2 DEF PanelsInv, PanelsTyped, r
<1>4. ASSUME NEW k \in T!Slots, reqs'[k] # None
      PROVE  AtHome(reqs'[k], tab') /\ Tells(reqs'[k], stored')
  <2>1. CASE k = j
    BY <1>1, <1>3, <2>1 DEF Tells, r
  <2>2. CASE k # j
    <3>1. reqs'[k] = reqs[k] /\ AtHome(reqs[k], tab) /\ Tells(reqs[k], stored)
      BY <1>3, <1>4, <2>2, RequestFacts
    <3>2. tab' # tab => ~reqs[k].mine
      BY <1>4, <3>1, NobodyHome
    <3> QED
      BY <3>1, <3>2 DEF AtHome
  <2> QED
    BY <2>1, <2>2
<1>5. AnswersAtHome' /\ AnswersTell'
  BY <1>4 DEF AnswersAtHome, AnswersTell, AtHome, Tells
<1> QED
  BY <1>1, <1>2, <1>3, <1>5 DEF r

\* An answer that was taken in leaves the others.
LEMMA DropKeeps ==
  ASSUME PanelsInv, NEW i \in T!Slots, T!Drop(i), tab' = tab, stored' = stored
  PROVE  /\ reqs' \in [T!Slots -> T!Requests \cup {None}]
         /\ AnswersAtHome' /\ AnswersTell'
         /\ reqs'[i] = None /\ \A k \in T!Slots \ {i} : reqs'[k] = reqs[k]
<1>1. /\ reqs' \in [T!Slots -> T!Requests \cup {None}]
      /\ reqs'[i] = None /\ \A k \in T!Slots \ {i} : reqs'[k] = reqs[k]
  BY DEF T!Drop, PanelsInv, PanelsTyped
<1>2. ASSUME NEW k \in T!Slots, reqs'[k] # None
      PROVE  AtHome(reqs'[k], tab') /\ Tells(reqs'[k], stored')
  <2>1. reqs'[k] = reqs[k] /\ reqs[k] # None
    BY <1>1, <1>2
  <2> QED
    BY <2>1, RequestFacts
<1>3. AnswersAtHome' /\ AnswersTell'
  BY <1>2 DEF AnswersAtHome, AnswersTell, AtHome, Tells
<1> QED
  BY <1>1, <1>3

\* A panel whose lists are not touched goes on waiting for what it waited for.
LEMMA LackKept ==
  ASSUME PanelsInv, UNCHANGED <<tab, ready, missed, shown, stored>>,
         \A j \in T!Slots : (reqs[j] # None /\ reqs[j].mine /\ Settles(reqs[j])) =>
           \E k \in T!Slots : reqs'[k] # None /\ reqs'[k].mine /\ Settles(reqs'[k])
  PROVE  LackIsTold'
<1> SUFFICES ASSUME tab \in T!Lists, ready, ~missed, shown # stored[tab]
             PROVE  \E k \in T!Slots : reqs'[k] # None /\ reqs'[k].mine /\ Settles(reqs'[k])
  BY DEF LackIsTold, T!Mine, Settles
<1>1. PICK j \in T!Slots : reqs[j] # None /\ reqs[j].mine /\ Settles(reqs[j])
  BY DEF PanelsInv, LackIsTold, T!Mine
<1> QED
  BY <1>1

\* Spinners that turned before go on for their requests.
LEMMA SpinnersKept ==
  ASSUME PanelsInv, \A d \in Dirs : dirs'[d].loading => dirs[d].loading,
         reading' => reading,
         \A j \in T!Slots : (reqs[j] # None /\ reqs[j].op \in {"dir", "file"}) =>
           reqs'[j] # None /\ reqs'[j].op = reqs[j].op /\ reqs'[j].arg = reqs[j].arg
  PROVE  SpinnersEnd'
<1>1. ASSUME NEW d \in Dirs, dirs'[d].loading
      PROVE  \E j \in T!Slots : reqs'[j] # None /\ reqs'[j].op = "dir" /\ reqs'[j].arg = d
  <2>1. PICK j \in T!Slots : reqs[j] # None /\ reqs[j].op = "dir" /\ reqs[j].arg = d
    BY <1>1 DEF PanelsInv, SpinnersEnd, T!SpinnersEnd, T!Is
  <2> QED
    BY <2>1
<1>2. ASSUME reading'
      PROVE  \E j \in T!Slots : reqs'[j] # None /\ reqs'[j].op = "file"
  <2>1. PICK j \in T!Slots : reqs[j] # None /\ reqs[j].op = "file"
    BY <1>2 DEF PanelsInv, SpinnersEnd, T!SpinnersEnd, T!Is
  <2> QED
    BY <2>1
<1> QED
  BY <1>1, <1>2 DEF SpinnersEnd, T!SpinnersEnd, T!Is

\* Terminals that are not touched stay sound.
LEMMA TabsKept ==
  ASSUME PanelsInv, UNCHANGED <<tabs, counter, active>>,
         (tab' = "terminal" /\ ready') => (tab = "terminal" /\ ready)
  PROVE  TabsNumbered'
BY DEF PanelsInv, TabsNumbered

LEMMA ReadsKeep ==
  ASSUME PanelsInv, T!Reads
  PROVE  PanelsInv'
<1>1. PICK i \in T!Slots, ok \in BOOLEAN :
        /\ reqs[i] # None /\ reqs[i].at = "sent"
        /\ reqs[i].op \in {"list", "sessions", "dir", "file"}
        /\ reqs' = T!Back(i, ok, CASE reqs[i].op = "list"     -> stored[reqs[i].arg]
                                   [] reqs[i].op = "sessions" -> sessions
                                   [] OTHER                   -> None, ok)
  BY DEF T!Reads
<1> DEFINE saw == CASE reqs[i].op = "list"     -> stored[reqs[i].arg]
                    [] reqs[i].op = "sessions" -> sessions
                    [] OTHER                   -> None
           g == [reqs[i] EXCEPT !.at = "back", !.done = ok, !.saw = saw, !.ok = ok]
<1>2. UNCHANGED <<tab, stored, ready, shown, saving, missed, sessions, tabs, active,
                  counter, dirs, reading>>
  BY DEF T!Reads, T!lists, T!terminals, T!files
<1>3. reqs[i] \in T!Requests /\ AtHome(reqs[i], tab)
  BY <1>1, RequestFacts
<1>4. /\ reqs[i].op = "list" => saw = stored[reqs[i].arg] /\ saw \in SUBSET Items
      /\ reqs[i].op = "sessions" => saw \in SUBSET (0..MaxTerm)
      /\ saw \in (SUBSET Items) \cup (SUBSET (0..MaxTerm)) \cup {None}
  <2>1. CASE reqs[i].op = "list"
    <3>1. saw = stored[reqs[i].arg]
      BY <2>1
    <3>2. reqs[i].arg \in T!Lists /\ stored \in [T!Lists -> SUBSET Items]
      BY <1>3, <2>1 DEF AtHome, PanelsInv, PanelsTyped
    <3> HIDE DEF saw
    <3> QED
      BY <2>1, <3>1, <3>2
  <2>2. CASE reqs[i].op = "sessions"
    <3>1. saw = sessions
      BY <2>2
    <3>2. sessions \in SUBSET (0..MaxTerm)
      BY DEF PanelsInv, PanelsTyped
    <3> HIDE DEF saw
    <3>3. saw \in SUBSET (0..MaxTerm)
      BY <3>1, <3>2
    <3>4. reqs[i].op # "list"
      BY <2>2
    <3> QED
      BY <3>3, <3>4
  <2>3. CASE reqs[i].op \notin {"list", "sessions"}
    <3>1. saw = None /\ reqs[i].op # "list" /\ reqs[i].op # "sessions"
      BY <2>3
    <3> QED
      BY <3>1, Zenon
  <2> QED
    BY <2>1, <2>2, <2>3
<1> HIDE DEF saw
<1>5. /\ g \in T!Requests /\ g.op = reqs[i].op /\ g.arg = reqs[i].arg
      /\ g.mine = reqs[i].mine /\ g.at = "back" /\ g.saw = saw /\ g.ok = ok
  BY <1>3, <1>4 DEF T!Requests
<1>6. reqs' = [reqs EXCEPT ![i] = g]
  BY <1>1 DEF T!Back, saw, PanelsInv, PanelsTyped
<1> HIDE DEF g
<1>7. /\ reqs' \in [T!Slots -> T!Requests \cup {None}] /\ reqs'[i] = g /\ g # None
      /\ \A k \in T!Slots \ {i} : reqs'[k] = reqs[k]
  BY <1>5, <1>6, PanelsAssumption DEF PanelsInv, PanelsTyped
<1>8. ASSUME NEW k \in T!Slots, reqs'[k] # None
      PROVE  AtHome(reqs'[k], tab') /\ Tells(reqs'[k], stored')
  <2>1. CASE k = i
    <3>1. AtHome(g, tab)
      BY <1>3, <1>4, <1>5, <1>1 DEF AtHome, Home
    <3>2. Tells(g, stored)
      BY <1>1, <1>4, <1>5 DEF Tells
    <3> QED
      BY <1>2, <1>7, <2>1, <3>1, <3>2
  <2>2. CASE k # i
    BY <1>2, <1>7, <1>8, <2>2, RequestFacts
  <2> QED
    BY <2>1, <2>2
<1>9. AnswersAtHome' /\ AnswersTell'
  BY <1>8 DEF AnswersAtHome, AnswersTell, AtHome, Tells
<1>10. LackIsTold'
  <2>1. Settles(reqs[i]) => Settles(g)
    BY <1>1, <1>5 DEF Settles
  <2>2. \A j \in T!Slots : (reqs[j] # None /\ reqs[j].mine /\ Settles(reqs[j])) =>
          \E k \in T!Slots : reqs'[k] # None /\ reqs'[k].mine /\ Settles(reqs'[k])
    BY <1>5, <1>7, <2>1
  <2> QED
    BY <1>2, <2>2, LackKept
<1>11. SpinnersEnd'
  BY <1>2, <1>5, <1>7, SpinnersKept
<1>12. TabsNumbered'
  BY <1>2, TabsKept
<1>13. PanelsTyped'
  BY <1>2, <1>7 DEF PanelsInv, PanelsTyped
<1> QED
  BY <1>9, <1>10, <1>11, <1>12, <1>13 DEF PanelsInv

\* The lists on their way are marked as of before a change of theirs, and stay
\* what they are otherwise.
LEMMA OutdatedFacts ==
  ASSUME PanelsInv, NEW l \in T!Lists, NEW j \in T!Slots
  PROVE  /\ T!Outdated(l, reqs)[j] # None <=> reqs[j] # None
         /\ reqs[j] # None =>
              LET r == T!Outdated(l, reqs)[j] IN
              /\ r \in T!Requests
              /\ r.op = reqs[j].op /\ r.arg = reqs[j].arg /\ r.at = reqs[j].at
              /\ r.mine = reqs[j].mine /\ r.saw = reqs[j].saw /\ r.done = reqs[j].done
              /\ r.ok = reqs[j].ok /\ (reqs[j].old => r.old)
              /\ AtHome(r, tab)
              /\ \A lists \in [T!Lists -> SUBSET Items] :
                   (\A m \in T!Lists \ {l} : lists[m] = stored[m]) => Tells(r, lists)
<1> DEFINE r == T!Outdated(l, reqs)[j]
<1>1. CASE reqs[j] = None
  BY <1>1 DEF T!Outdated
<1>2. CASE reqs[j] # None
  <2>1. reqs[j] \in T!Requests /\ AtHome(reqs[j], tab) /\ Tells(reqs[j], stored)
    BY <1>2, RequestFacts
  <2>2. r = IF reqs[j].at = "back" /\ T!ListOf(reqs[j]) = l
            THEN [reqs[j] EXCEPT !.old = TRUE] ELSE reqs[j]
    BY <1>2 DEF T!Outdated
  <2>3. /\ r \in T!Requests
        /\ r.op = reqs[j].op /\ r.arg = reqs[j].arg /\ r.at = reqs[j].at
        /\ r.mine = reqs[j].mine /\ r.saw = reqs[j].saw /\ r.done = reqs[j].done
        /\ r.ok = reqs[j].ok /\ (reqs[j].old => r.old)
        /\ (reqs[j].at = "back" /\ T!ListOf(reqs[j]) = l) => r.old
        /\ ~(reqs[j].at = "back" /\ T!ListOf(reqs[j]) = l) => r = reqs[j]
    BY <2>1, <2>2 DEF T!Requests
  <2> HIDE DEF r
  <2>4. AtHome(r, tab)
    BY <2>1, <2>3 DEF AtHome, Home
  <2>5. ASSUME NEW lists \in [T!Lists -> SUBSET Items],
               \A m \in T!Lists \ {l} : lists[m] = stored[m]
        PROVE  Tells(r, lists)
    <3>1. SUFFICES ASSUME r.mine, r.at = "back", r.ok, ~r.old
                   PROVE  /\ r.op = "list" => r.saw = lists[r.arg]
                          /\ r.op = "save" => r.arg = lists["firewall"]
      BY DEF Tells
    <3>2. r = reqs[j] /\ T!ListOf(reqs[j]) # l
      BY <2>3, <3>1
    <3>3. /\ reqs[j].op = "list" => reqs[j].arg # l /\ reqs[j].arg \in T!Lists
          /\ reqs[j].op = "save" => l # "firewall"
      BY <2>1, <3>2 DEF T!ListOf, AtHome
    <3>4. "firewall" \in T!Lists
      BY DEF T!Lists
    <3> QED
      BY <2>1, <2>5, <3>1, <3>2, <3>3, <3>4 DEF Tells
  <2> QED
    BY <1>2, <2>1, <2>3, <2>4, <2>5, PanelsAssumption DEF r
<1> QED
  BY <1>1, <1>2

LEMMA OthersKeep ==
  ASSUME PanelsInv, NEW l \in T!Lists, NEW X \in SUBSET Items, T!OthersChange(l, X)
  PROVE  PanelsInv'
<1>1. /\ reqs' = T!Outdated(l, reqs)
      /\ stored' = [stored EXCEPT ![l] = X] /\ missed' = (missed \/ tab = l)
      /\ UNCHANGED <<tab, ready, shown, saving, sessions, tabs, active, counter, dirs, reading>>
  BY DEF T!OthersChange, T!terminals, T!files
<1>2. /\ stored' \in [T!Lists -> SUBSET Items]
      /\ \A m \in T!Lists \ {l} : stored'[m] = stored[m]
  BY <1>1 DEF PanelsInv, PanelsTyped
<1>3. ASSUME NEW j \in T!Slots
      PROVE  /\ reqs'[j] # None <=> reqs[j] # None
             /\ reqs[j] # None =>
                  /\ reqs'[j] \in T!Requests /\ AtHome(reqs'[j], tab')
                  /\ Tells(reqs'[j], stored')
                  /\ reqs'[j].op = reqs[j].op /\ reqs'[j].arg = reqs[j].arg
                  /\ reqs'[j].mine = reqs[j].mine
                  /\ Settles(reqs[j]) => Settles(reqs'[j])
  <2>1. reqs'[j] = T!Outdated(l, reqs)[j]
    BY <1>1
  <2>2. reqs[j] # None => Tells(reqs'[j], stored') /\ AtHome(reqs'[j], tab')
    <3>1. reqs[j] # None =>
            /\ AtHome(T!Outdated(l, reqs)[j], tab)
            /\ Tells(T!Outdated(l, reqs)[j], stored')
      BY <1>2, OutdatedFacts
    <3>2. tab' = tab
      BY <1>1
    <3> QED
      BY <2>1, <3>1, <3>2
  <2>3. reqs[j] # None => (Settles(reqs[j]) => Settles(reqs'[j]))
    BY <2>1, OutdatedFacts DEF Settles
  <2> QED
    BY <2>1, <2>2, <2>3, OutdatedFacts
<1>4. AnswersAtHome' /\ AnswersTell'
  BY <1>3 DEF AnswersAtHome, AnswersTell, AtHome, Tells
<1>5. LackIsTold'
  <2>1. CASE tab = l
    BY <1>1, <2>1 DEF LackIsTold
  <2>2. CASE tab # l
    <3>1. SUFFICES ASSUME tab' \in T!Lists, ready', ~missed', shown' # stored'[tab']
                   PROVE  \E k \in T!Slots : reqs'[k] # None /\ reqs'[k].mine /\ Settles(reqs'[k])
      BY DEF LackIsTold, T!Mine, Settles
    <3>2. tab \in T!Lists /\ ready /\ ~missed /\ shown # stored[tab]
      BY <1>1, <1>2, <2>2, <3>1
    <3>3. PICK k \in T!Slots : reqs[k] # None /\ reqs[k].mine /\ Settles(reqs[k])
      BY <3>2 DEF PanelsInv, LackIsTold, T!Mine
    <3> QED
      BY <1>3, <3>3
  <2> QED
    BY <2>1, <2>2
<1>6. SpinnersEnd'
  BY <1>1, <1>3, SpinnersKept
<1>7. TabsNumbered'
  BY <1>1, TabsKept
<1>8. reqs' \in [T!Slots -> T!Requests \cup {None}]
  <2>1. reqs' = [j \in T!Slots |-> reqs'[j]]
    BY <1>1 DEF T!Outdated
  <2>2. \A j \in T!Slots : reqs'[j] \in T!Requests \cup {None}
    BY <1>3
  <2> QED
    BY <2>1, <2>2
<1>9. PanelsTyped'
  BY <1>1, <1>2, <1>8 DEF PanelsInv, PanelsTyped
<1> QED
  BY <1>4, <1>5, <1>6, <1>7, <1>9 DEF PanelsInv

\* A change by a request of the panel settles with its answer what it changed.
LEMMA WritesKeep ==
  ASSUME PanelsInv, T!Writes
  PROVE  PanelsInv'
<1>1. PICK i \in T!Slots, done \in BOOLEAN, ok \in BOOLEAN :
        LET r == reqs[i]
            l == IF r.op = "save" THEN "firewall" ELSE "access"
        IN  /\ r # None /\ r.at = "sent" /\ r.op \in {"save", "grant", "revoke"}
            /\ ok => done
            /\ IF done
               THEN /\ stored' = [stored EXCEPT ![l] = CASE r.op = "save"  -> r.arg
                                                         [] r.op = "grant" -> @ \cup r.arg
                                                         [] OTHER          -> @ \ r.arg]
                    /\ reqs' = [T!Outdated(l, reqs) EXCEPT ![i] = T!Back(i, TRUE, None, ok)[i]]
                    /\ missed' = (missed \/ (tab = l /\ ~r.mine))
               ELSE reqs' = T!Back(i, FALSE, None, FALSE) /\ UNCHANGED <<stored, missed>>
  BY DEF T!Writes
<1>2. UNCHANGED <<tab, ready, shown, saving, sessions, tabs, active, counter, dirs, reading>>
  BY DEF T!Writes, T!terminals, T!files
<1> DEFINE r == reqs[i]
           l == IF r.op = "save" THEN "firewall" ELSE "access"
           g == [reqs[i] EXCEPT !.at = "back", !.done = done, !.saw = None,
                                !.ok = IF done THEN ok ELSE FALSE]
<1>3. r \in T!Requests /\ AtHome(r, tab) /\ r.at = "sent" /\ r # None
      /\ r.op \in {"save", "grant", "revoke"} /\ r.arg \in SUBSET Items /\ l \in T!Lists
  BY <1>1, RequestFacts DEF AtHome, T!Lists
<1>4. /\ g \in T!Requests /\ g.op = r.op /\ g.arg = r.arg /\ g.mine = r.mine
      /\ g.at = "back" /\ g.done = done /\ (g.ok => done)
      /\ g # None
  <2>1. reqs[i] \in T!Requests /\ (ok => done) /\ done \in BOOLEAN /\ ok \in BOOLEAN
    BY <1>1, <1>3
  <2>2. /\ g.op = r.op /\ g.arg = r.arg /\ g.mine = r.mine
        /\ g.at = "back" /\ g.done = done /\ g.ok = IF done THEN ok ELSE FALSE
        /\ g \in T!Requests
    BY <2>1 DEF T!Requests
  <2> HIDE DEF g
  <2> QED
    BY <2>1, <2>2, PanelsAssumption
<1>5. AtHome(g, tab')
  BY <1>2, <1>3, <1>4 DEF AtHome, Home
<1>6. /\ stored' \in [T!Lists -> SUBSET Items] /\ missed' \in BOOLEAN
      /\ \A m \in T!Lists \ {l} : stored'[m] = stored[m]
      /\ ~done => stored' = stored /\ missed' = missed
      /\ (done /\ r.op = "save") => stored'["firewall"] = r.arg
      /\ (done /\ tab = l /\ ~missed') => r.mine
      /\ missed => missed'
  <2>0. /\ stored \in [T!Lists -> SUBSET Items] /\ missed \in BOOLEAN
        /\ "firewall" \in T!Lists /\ l \in T!Lists
    BY <1>3 DEF PanelsInv, PanelsTyped, T!Lists
  <2>1. CASE done
    <3>1. PICK X : /\ stored' = [stored EXCEPT ![l] = X] /\ X \in SUBSET Items
                   /\ r.op = "save" => X = r.arg
      <4>1. CASE r.op = "save"
        BY <1>1, <1>3, <2>1, <4>1
      <4>2. CASE r.op = "grant"
        BY <1>1, <1>3, <2>0, <2>1, <4>2
      <4>3. CASE r.op = "revoke"
        BY <1>1, <1>3, <2>0, <2>1, <4>3
      <4> QED
        BY <1>3, <4>1, <4>2, <4>3
    <3>2. missed' = (missed \/ (tab = l /\ ~r.mine))
      BY <1>1, <2>1
    <3> QED
      BY <2>0, <2>1, <3>1, <3>2
  <2>2. CASE ~done
    BY <1>1, <2>0, <2>2
  <2> QED
    BY <2>1, <2>2
<1> HIDE DEF g, l, r
<1>7. ASSUME NEW j \in T!Slots
      PROVE  /\ reqs'[j] # None <=> reqs[j] # None
             /\ reqs[j] # None =>
                  /\ reqs'[j] \in T!Requests /\ AtHome(reqs'[j], tab')
                  /\ Tells(reqs'[j], stored')
                  /\ reqs'[j].op = reqs[j].op /\ reqs'[j].arg = reqs[j].arg
                  /\ reqs'[j].mine = reqs[j].mine
                  /\ Settles(reqs[j]) => Settles(reqs'[j])
  <2>1. CASE j = i
    <3>1. reqs'[i] = g
      BY <1>1 DEF g, l, r, T!Back, T!Outdated, PanelsInv, PanelsTyped
    <3>2. Tells(g, stored')
      BY <1>3, <1>4, <1>6 DEF Tells
    <3>3. ~Settles(r)
      BY <1>3 DEF Settles
    <3> QED
      BY <1>3, <1>4, <1>5, <2>1, <3>1, <3>2, <3>3 DEF r
  <2>2. CASE j # i /\ done
    <3>1. reqs'[j] = T!Outdated(l, reqs)[j]
      BY <1>1, <2>2 DEF l, r, T!Outdated
    <3> QED
      BY <1>2, <1>3, <1>6, <2>2, <3>1, OutdatedFacts DEF Settles
  <2>3. CASE j # i /\ ~done
    <3>1. reqs'[j] = reqs[j]
      BY <1>1, <2>3 DEF l, r, T!Back, PanelsInv, PanelsTyped
    <3> QED
      BY <1>2, <1>6, <2>3, <3>1, RequestFacts
  <2> QED
    BY <2>1, <2>2, <2>3
<1>8. AnswersAtHome' /\ AnswersTell'
  BY <1>7 DEF AnswersAtHome, AnswersTell, AtHome, Tells
<1>9. LackIsTold'
  <2>1. SUFFICES ASSUME tab' \in T!Lists, ready', ~missed', shown' # stored'[tab']
                 PROVE  \E k \in T!Slots : reqs'[k] # None /\ reqs'[k].mine /\ Settles(reqs'[k])
    BY DEF LackIsTold, T!Mine, Settles
  <2>2. CASE done /\ tab = l
    <3>1. reqs'[i] = g
      BY <1>1, <2>2 DEF g, l, r, T!Back, T!Outdated, PanelsInv, PanelsTyped
    <3>2. g.mine /\ Settles(g)
      BY <1>3, <1>4, <1>6, <2>1, <2>2 DEF Settles
    <3> QED
      BY <1>4, <3>1, <3>2
  <2>3. CASE ~(done /\ tab = l)
    <3>1. tab \in T!Lists /\ ready /\ ~missed /\ shown # stored[tab]
      BY <1>2, <1>6, <2>1, <2>3
    <3>2. PICK k \in T!Slots : reqs[k] # None /\ reqs[k].mine /\ Settles(reqs[k])
      BY <3>1 DEF PanelsInv, LackIsTold, T!Mine
    <3> QED
      BY <1>7, <3>2
  <2> QED
    BY <2>2, <2>3
<1>10. SpinnersEnd'
  BY <1>2, <1>7, SpinnersKept
<1>11. TabsNumbered'
  BY <1>2, TabsKept
<1>12. reqs' \in [T!Slots -> T!Requests \cup {None}]
  <2>1. reqs' = [j \in T!Slots |-> reqs'[j]]
    <3>1. CASE done
      BY <1>1, <3>1 DEF T!Outdated, l, r
    <3>2. CASE ~done
      BY <1>1, <3>2 DEF T!Back, l, r, PanelsInv, PanelsTyped
    <3> QED
      BY <3>1, <3>2
  <2>2. \A j \in T!Slots : reqs'[j] \in T!Requests \cup {None}
    BY <1>7
  <2> QED
    BY <2>1, <2>2
<1>13. PanelsTyped'
  BY <1>2, <1>6, <1>12 DEF PanelsInv, PanelsTyped
<1> QED
  BY <1>8, <1>9, <1>10, <1>11, <1>13 DEF PanelsInv

LEMMA KillsKeep ==
  ASSUME PanelsInv, T!Kills
  PROVE  PanelsInv'
<1>1. PICK i \in T!Slots, done \in BOOLEAN :
        /\ reqs[i] # None /\ reqs[i].op = "kill" /\ reqs[i].at = "sent"
        /\ sessions' = IF done THEN sessions \ {reqs[i].arg} ELSE sessions
        /\ reqs' = T!Back(i, done, None, done)
  BY DEF T!Kills, T!Is
<1>2. UNCHANGED <<tab, stored, ready, shown, saving, missed, tabs, active, counter, dirs, reading>>
  BY DEF T!Kills, T!lists, T!terminals, T!files
<1> DEFINE g == [reqs[i] EXCEPT !.at = "back", !.done = done, !.saw = None, !.ok = done]
<1>3. reqs[i] \in T!Requests /\ AtHome(reqs[i], tab)
  BY <1>1, RequestFacts
<1>4. /\ g \in T!Requests /\ g.op = "kill" /\ g.arg = reqs[i].arg /\ g.mine = reqs[i].mine
      /\ g # None
  BY <1>1, <1>3, PanelsAssumption DEF T!Requests
<1>5. reqs' = [reqs EXCEPT ![i] = g]
  BY <1>1 DEF T!Back, PanelsInv, PanelsTyped
<1> HIDE DEF g
<1>6. /\ reqs' \in [T!Slots -> T!Requests \cup {None}] /\ reqs'[i] = g
      /\ \A k \in T!Slots \ {i} : reqs'[k] = reqs[k]
  BY <1>4, <1>5 DEF PanelsInv, PanelsTyped
<1>7. AtHome(g, tab) /\ Tells(g, stored)
  BY <1>1, <1>3, <1>4 DEF AtHome, Home, Tells
<1>8. ASSUME NEW k \in T!Slots, reqs'[k] # None
      PROVE  AtHome(reqs'[k], tab') /\ Tells(reqs'[k], stored')
  <2>1. CASE k = i
    BY <1>2, <1>6, <1>7, <2>1
  <2>2. CASE k # i
    BY <1>2, <1>6, <1>8, <2>2, RequestFacts
  <2> QED
    BY <2>1, <2>2
<1>9. AnswersAtHome' /\ AnswersTell'
  BY <1>8 DEF AnswersAtHome, AnswersTell, AtHome, Tells
<1>10. LackIsTold'
  <2>1. ~Settles(reqs[i])
    BY <1>1 DEF Settles
  <2> QED
    BY <1>2, <1>6, <2>1, LackKept
<1>11. SpinnersEnd'
  BY <1>1, <1>2, <1>6, SpinnersKept
<1>12. TabsNumbered'
  BY <1>2, TabsKept
<1>13. PanelsTyped'
  BY <1>1, <1>2, <1>6 DEF PanelsInv, PanelsTyped
<1> QED
  BY <1>9, <1>10, <1>11, <1>12, <1>13 DEF PanelsInv

LEMMA MountKeeps ==
  ASSUME PanelsInv, NEW t \in T!Lists \cup {"terminal", "files"}, T!Mount(t)
  PROVE  PanelsInv'
<1> DEFINE op  == CASE t = "terminal" -> "sessions" [] t = "files" -> "dir" [] OTHER -> "list"
           arg == CASE t = "terminal" -> None [] t = "files" -> Root [] OTHER -> t
           shownRoot == [there |-> TRUE, loading |-> TRUE, expanded |-> TRUE]
<1>1. /\ tab = "none" /\ tab' = t /\ ready' = (t = "files")
      /\ dirs' = IF t = "files" THEN [dirs EXCEPT ![Root] = shownRoot] ELSE dirs
      /\ UNCHANGED <<stored, shown, saving, missed, sessions, tabs, active, counter, reading>>
  BY DEF T!Mount, T!lists, T!terminals
<1>2. T!Send(op, arg)
  <2>1. CASE t = "terminal"
    BY <2>1 DEF T!Mount
  <2>2. CASE t = "files"
    BY <2>2 DEF T!Mount
  <2>3. CASE t \notin {"terminal", "files"}
    BY <2>3 DEF T!Mount
  <2> QED
    BY <2>1, <2>2, <2>3
<1>3. /\ op \in {"list", "sessions", "dir"} /\ arg \in T!Lists \cup Dirs \cup {None}
      /\ op = "list" => arg = t /\ arg \in T!Lists
      /\ op = "sessions" => t = "terminal"
      /\ op = "dir" => t = "files" /\ arg = Root
      /\ t = "files" => op = "dir" /\ arg = Root
  BY PanelsAssumption DEF T!Lists
<1> HIDE DEF op, arg
<1>4. /\ T!Request(op, arg) \in T!Requests
      /\ T!Request(op, arg).op = op /\ T!Request(op, arg).arg = arg
      /\ T!Request(op, arg).mine /\ T!Request(op, arg).at = "sent"
  BY <1>3 DEF T!Request, T!Requests
<1>5. AtHome(T!Request(op, arg), tab')
  BY <1>1, <1>3, <1>4, PanelsAssumption DEF AtHome, Home
<1>6. /\ reqs' \in [T!Slots -> T!Requests \cup {None}]
      /\ AnswersAtHome' /\ AnswersTell'
      /\ \E j \in T!Slots : /\ reqs[j] = None
                            /\ reqs'[j] = T!Request(op, arg) /\ reqs'[j] # None
                            /\ \A k \in T!Slots \ {j} : reqs'[k] = reqs[k]
  BY <1>1, <1>2, <1>4, <1>5, SendKeeps
<1>7. PICK j \in T!Slots : /\ reqs[j] = None
                           /\ reqs'[j] = T!Request(op, arg) /\ reqs'[j] # None
                           /\ \A k \in T!Slots \ {j} : reqs'[k] = reqs[k]
  BY <1>6
<1>8. LackIsTold'
  BY <1>1 DEF LackIsTold, T!Lists
<1>9. TabsNumbered'
  BY <1>1, TabsKept
<1>10. dirs' \in [Dirs -> Dir] /\ \A d \in Dirs \ {Root} : dirs'[d] = dirs[d]
  BY <1>1 DEF PanelsInv, PanelsTyped, Dir
<1>11. SpinnersEnd'
  <2>1. CASE t = "files"
    <3>1. ASSUME NEW d \in Dirs, dirs'[d].loading
          PROVE  \E k \in T!Slots : reqs'[k] # None /\ reqs'[k].op = "dir" /\ reqs'[k].arg = d
      <4>1. CASE d = Root
        BY <1>3, <1>4, <1>7, <2>1, <4>1
      <4>2. CASE d # Root
        BY <1>7, <1>10, <3>1, <4>2 DEF PanelsInv, SpinnersEnd, T!SpinnersEnd, T!Is
      <4> QED
        BY <4>1, <4>2
    <3>2. ASSUME reading'
          PROVE  \E k \in T!Slots : reqs'[k] # None /\ reqs'[k].op = "file"
      BY <1>1, <1>7, <3>2 DEF PanelsInv, SpinnersEnd, T!SpinnersEnd, T!Is
    <3> QED
      BY <3>1, <3>2 DEF SpinnersEnd, T!SpinnersEnd, T!Is
  <2>2. CASE t # "files"
    BY <1>1, <1>7, <2>2, SpinnersKept
  <2> QED
    BY <2>1, <2>2
<1>12. PanelsTyped'
  BY <1>1, <1>6, <1>10 DEF PanelsInv, PanelsTyped
<1> QED
  BY <1>6, <1>8, <1>9, <1>11, <1>12 DEF PanelsInv

LEMMA LeaveKeeps ==
  ASSUME PanelsInv, T!Leave
  PROVE  PanelsInv'
<1>1. /\ tab' = "none" /\ ready' = FALSE /\ shown' = {} /\ missed' = FALSE
      /\ tabs' = <<>> /\ counter' = 1 /\ dirs' = [d \in Dirs |-> T!NoDir]
      /\ reading' = FALSE /\ UNCHANGED <<stored, sessions>>
  BY DEF T!Leave
<1>2. ASSUME NEW j \in T!Slots
      PROVE  /\ reqs'[j] \in T!Requests \cup {None}
             /\ reqs'[j] # None => AtHome(reqs'[j], tab') /\ Tells(reqs'[j], stored')
  <2>1. reqs'[j] = IF reqs[j] # None /\ reqs[j].at = "sent"
                      /\ reqs[j].op \in {"save", "grant", "revoke", "kill"}
                   THEN [reqs[j] EXCEPT !.mine = FALSE] ELSE None
    BY DEF T!Leave
  <2>2. CASE reqs'[j] = None
    BY <2>2
  <2>3. CASE reqs'[j] # None
    <3>1. reqs[j] \in T!Requests /\ AtHome(reqs[j], tab) /\ reqs[j].at = "sent"
          /\ reqs[j].op \in {"save", "grant", "revoke", "kill"}
          /\ reqs'[j] = [reqs[j] EXCEPT !.mine = FALSE]
      BY <2>1, <2>3, RequestFacts
    <3>2. /\ reqs'[j] \in T!Requests /\ reqs'[j].op = reqs[j].op /\ reqs'[j].arg = reqs[j].arg
          /\ ~reqs'[j].mine
      BY <3>1 DEF T!Requests
    <3> QED
      BY <3>1, <3>2 DEF AtHome, Tells
  <2> QED
    BY <2>2, <2>3
<1>3. AnswersAtHome' /\ AnswersTell'
  BY <1>2 DEF AnswersAtHome, AnswersTell, AtHome, Tells
<1>4. reqs' \in [T!Slots -> T!Requests \cup {None}]
  <2>1. reqs' = [j \in T!Slots |-> reqs'[j]]
    BY DEF T!Leave
  <2> QED
    BY <1>2, <2>1
<1>5. LackIsTold' /\ TabsNumbered' /\ SpinnersEnd'
  BY <1>1 DEF LackIsTold, TabsNumbered, SpinnersEnd, T!SpinnersEnd, T!NoDir, T!Lists
<1>6. PanelsTyped'
  <2>1. ready' \in BOOLEAN /\ missed' \in BOOLEAN /\ reading' \in BOOLEAN
    BY <1>1, Zenon
  <2>2. dirs' \in [Dirs -> Dir]
    BY <1>1 DEF Dir, T!NoDir
  <2>3. tabs' \in Seq(0..MaxTerm) /\ counter' \in Nat \ {0} /\ shown' \in SUBSET Items
    BY <1>1
  <2> QED
    BY <1>1, <1>4, <2>1, <2>2, <2>3 DEF PanelsInv, PanelsTyped
<1> QED
  BY <1>3, <1>5, <1>6 DEF PanelsInv

LEMMA UnheardKeeps ==
  ASSUME PanelsInv, NEW i \in T!Slots, T!Unheard(i)
  PROVE  PanelsInv'
<1>1. /\ reqs[i] # None /\ ~reqs[i].mine /\ T!Drop(i)
      /\ UNCHANGED <<tab, stored, ready, shown, saving, missed, sessions, tabs, active,
                     counter, dirs, reading>>
  BY DEF T!Unheard, T!lists, T!terminals, T!files
<1>2. /\ reqs' \in [T!Slots -> T!Requests \cup {None}] /\ AnswersAtHome' /\ AnswersTell'
      /\ reqs'[i] = None /\ \A k \in T!Slots \ {i} : reqs'[k] = reqs[k]
  BY <1>1, DropKeeps
<1>3. reqs[i].op \notin {"dir", "file"}
  BY <1>1, RequestFacts DEF AtHome
<1>4. LackIsTold'
  BY <1>1, <1>2, LackKept
<1>5. SpinnersEnd'
  BY <1>1, <1>2, <1>3, SpinnersKept
<1>6. TabsNumbered'
  BY <1>1, TabsKept
<1>7. PanelsTyped'
  BY <1>1, <1>2 DEF PanelsInv, PanelsTyped
<1> QED
  BY <1>2, <1>4, <1>5, <1>6, <1>7 DEF PanelsInv

LEMMA LoadedKeeps ==
  ASSUME PanelsInv, NEW i \in T!Slots, T!Loaded(i)
  PROVE  PanelsInv'
<1>1. /\ reqs[i] # None /\ reqs[i].op = "list" /\ reqs[i].at = "back" /\ ready' = TRUE
      /\ T!Drop(i)
      /\ IF reqs[i].ok THEN shown' = reqs[i].saw /\ missed' = reqs[i].old
                       ELSE missed' = TRUE /\ UNCHANGED shown
      /\ UNCHANGED <<tab, stored, saving, sessions, tabs, active, counter, dirs, reading>>
  BY DEF T!Loaded, T!Is, T!terminals, T!files
<1>2. /\ reqs[i] \in T!Requests /\ reqs[i].mine /\ reqs[i].arg = tab /\ tab \in T!Lists
      /\ reqs[i].ok => reqs[i].saw \in SUBSET Items
      /\ (reqs[i].ok /\ ~reqs[i].old) => reqs[i].saw = stored[tab]
  BY <1>1, RequestFacts DEF AtHome, Home, Tells
<1>3. /\ reqs' \in [T!Slots -> T!Requests \cup {None}] /\ AnswersAtHome' /\ AnswersTell'
      /\ reqs'[i] = None /\ \A k \in T!Slots \ {i} : reqs'[k] = reqs[k]
  BY <1>1, DropKeeps
<1>4. LackIsTold'
  <2>1. ~missed' => shown' = stored'[tab']
    BY <1>1, <1>2
  <2> QED
    BY <2>1 DEF LackIsTold
<1>5. SpinnersEnd'
  BY <1>1, <1>3, SpinnersKept
<1>6. TabsNumbered'
  BY <1>1, <1>2, TabsKept DEF T!Lists
<1>7. PanelsTyped'
  <2>1. missed' \in BOOLEAN
    <3>1. CASE reqs[i].ok
      BY <1>1, <1>2, <3>1 DEF T!Requests
    <3>2. CASE ~reqs[i].ok
      BY <1>1, <3>2
    <3> QED
      BY <3>1, <3>2
  <2>2. shown' \in SUBSET Items /\ ready' \in BOOLEAN
    BY <1>1, <1>2 DEF PanelsInv, PanelsTyped
  <2> QED
    BY <1>1, <1>3, <2>1, <2>2 DEF PanelsInv, PanelsTyped
<1> QED
  BY <1>3, <1>4, <1>5, <1>6, <1>7 DEF PanelsInv

\* A request whose panel goes on as it is.
LEMMA SendOnlyKeeps ==
  ASSUME PanelsInv, NEW op, NEW arg, T!Send(op, arg),
         T!Request(op, arg) \in T!Requests, AtHome(T!Request(op, arg), tab),
         UNCHANGED <<tab, stored, ready, shown, missed, sessions, tabs, active, counter,
                     dirs, reading>>
  PROVE  PanelsInv'
<1>1. AtHome(T!Request(op, arg), tab')
  <2>1. tab' = tab
    OBVIOUS
  <2> QED
    BY <2>1
<1>2. /\ reqs' \in [T!Slots -> T!Requests \cup {None}]
      /\ AnswersAtHome' /\ AnswersTell'
      /\ \E j \in T!Slots : /\ reqs[j] = None
                            /\ reqs'[j] = T!Request(op, arg) /\ reqs'[j] # None
                            /\ \A k \in T!Slots \ {j} : reqs'[k] = reqs[k]
  BY <1>1, SendKeeps
<1>3. \A k \in T!Slots : reqs[k] # None => reqs'[k] = reqs[k]
  BY <1>2
<1>4. LackIsTold'
  BY <1>3, LackKept
<1>5. SpinnersEnd'
  BY <1>3, SpinnersKept
<1>6. TabsNumbered'
  BY TabsKept
<1>7. PanelsTyped'
  BY <1>2 DEF PanelsInv, PanelsTyped
<1> QED
  BY <1>2, <1>4, <1>5, <1>6, <1>7 DEF PanelsInv

LEMMA SaveKeeps ==
  ASSUME PanelsInv, NEW x \in Items, T!Save(x)
  PROVE  PanelsInv'
<1> DEFINE arg == IF x \in shown THEN shown \ {x} ELSE shown \cup {x}
<1>1. arg \in SUBSET Items
  BY DEF PanelsInv, PanelsTyped
<1>2. /\ tab = "firewall" /\ T!Send("save", arg)
      /\ UNCHANGED <<tab, stored, ready, shown, missed, sessions, tabs, active, counter,
                     dirs, reading>>
  BY DEF T!Save, T!terminals, T!files
<1> HIDE DEF arg
<1>3. T!Request("save", arg) \in T!Requests /\ AtHome(T!Request("save", arg), tab)
  BY <1>1, <1>2 DEF T!Request, T!Requests, AtHome, Home
<1> QED
  BY <1>2, <1>3, SendOnlyKeeps

LEMMA SavedKeeps ==
  ASSUME PanelsInv, NEW i \in T!Slots, T!Saved(i)
  PROVE  PanelsInv'
<1>1. /\ reqs[i] # None /\ reqs[i].op = "save" /\ reqs[i].mine /\ reqs[i].at = "back"
      /\ T!Drop(i)
      /\ IF reqs[i].ok THEN shown' = reqs[i].arg /\ missed' = reqs[i].old
                       ELSE missed' = (missed \/ reqs[i].done) /\ UNCHANGED shown
      /\ UNCHANGED <<tab, stored, ready, sessions, tabs, active, counter, dirs, reading>>
  BY DEF T!Saved, T!SavedList, T!Is, T!Mine, T!terminals, T!files
<1>2. /\ reqs[i] \in T!Requests /\ tab = "firewall" /\ reqs[i].arg \in SUBSET Items
      /\ (reqs[i].ok /\ ~reqs[i].old) => reqs[i].arg = stored[tab]
  BY <1>1, RequestFacts DEF AtHome, Home, Tells
<1>3. /\ reqs' \in [T!Slots -> T!Requests \cup {None}] /\ AnswersAtHome' /\ AnswersTell'
      /\ reqs'[i] = None /\ \A k \in T!Slots \ {i} : reqs'[k] = reqs[k]
  BY <1>1, DropKeeps
<1>4. LackIsTold'
  <2>1. CASE reqs[i].ok
    <3>1. ~missed' => shown' = stored'[tab']
      BY <1>1, <1>2, <2>1
    <3> QED
      BY <3>1 DEF LackIsTold
  <2>2. CASE ~reqs[i].ok /\ ~(missed \/ reqs[i].done)
    <3>1. ~Settles(reqs[i]) /\ missed' = missed /\ shown' = shown
      <4>1. missed' = missed
        BY <1>1, <2>2 DEF PanelsInv, PanelsTyped
      <4> QED
        BY <1>1, <2>2, <4>1 DEF Settles
    <3> QED
      BY <1>1, <1>3, <3>1, LackKept
  <2>3. CASE ~reqs[i].ok /\ (missed \/ reqs[i].done)
    BY <1>1, <2>3 DEF LackIsTold
  <2> QED
    BY <2>1, <2>2, <2>3
<1>5. SpinnersEnd'
  BY <1>1, <1>3, SpinnersKept
<1>6. TabsNumbered'
  BY <1>1, TabsKept
<1>7. missed' \in BOOLEAN /\ shown' \in SUBSET Items
  <2>1. CASE reqs[i].ok
    BY <1>1, <1>2, <2>1 DEF T!Requests
  <2>2. CASE ~reqs[i].ok
    BY <1>1, <2>2 DEF PanelsInv, PanelsTyped
  <2> QED
    BY <2>1, <2>2
<1>8. PanelsTyped'
  BY <1>1, <1>3, <1>7 DEF PanelsInv, PanelsTyped
<1> QED
  BY <1>3, <1>4, <1>5, <1>6, <1>8 DEF PanelsInv

LEMMA ChangeKeeps ==
  ASSUME PanelsInv, NEW op \in {"grant", "revoke"}, NEW x \in Items, T!Change(op, x)
  PROVE  PanelsInv'
<1>1. /\ tab = "access" /\ T!Send(op, {x}) /\ {x} \in SUBSET Items
      /\ UNCHANGED <<tab, stored, ready, shown, missed, sessions, tabs, active, counter,
                     dirs, reading>>
  BY DEF T!Change, T!lists, T!terminals, T!files
<1>2. T!Request(op, {x}) \in T!Requests /\ AtHome(T!Request(op, {x}), tab)
  BY <1>1 DEF T!Request, T!Requests, AtHome, Home
<1> QED
  BY <1>1, <1>2, SendOnlyKeeps

LEMMA ChangedKeeps ==
  ASSUME PanelsInv, NEW i \in T!Slots, T!Changed(i)
  PROVE  PanelsInv'
<1>1. /\ reqs[i] # None /\ reqs[i].op \in {"grant", "revoke"} /\ reqs[i].mine
      /\ reqs[i].at = "back"
      /\ IF reqs[i].ok
         THEN reqs' = [reqs EXCEPT ![i] = T!Request("list", "access")] /\ missed' = missed
         ELSE T!Drop(i) /\ missed' = (missed \/ reqs[i].done)
      /\ UNCHANGED <<tab, stored, ready, shown, saving, sessions, tabs, active, counter,
                     dirs, reading>>
  BY DEF T!Changed, T!Is, T!Mine, T!terminals, T!files
<1>2. reqs[i] \in T!Requests /\ tab = "access"
  BY <1>1, RequestFacts DEF AtHome, Home
<1> DEFINE g == T!Request("list", "access")
<1>3. /\ g \in T!Requests /\ g # None /\ AtHome(g, tab) /\ Tells(g, stored)
      /\ g.mine /\ Settles(g)
  <2>1. g \in T!Requests
    BY DEF T!Request, T!Requests, T!Lists
  <2> QED
    BY <1>2, <2>1, PanelsAssumption
    DEF T!Request, AtHome, Home, Tells, Settles, T!Lists
<1> HIDE DEF g
<1>4. /\ reqs' \in [T!Slots -> T!Requests \cup {None}] /\ AnswersAtHome' /\ AnswersTell'
      /\ reqs'[i] = IF reqs[i].ok THEN g ELSE None
      /\ \A k \in T!Slots \ {i} : reqs'[k] = reqs[k]
  <2>1. CASE reqs[i].ok
    <3>1. /\ reqs'[i] = g /\ \A k \in T!Slots \ {i} : reqs'[k] = reqs[k]
          /\ reqs' \in [T!Slots -> T!Requests \cup {None}]
      BY <1>1, <1>3, <2>1 DEF PanelsInv, PanelsTyped, g
    <3>2. ASSUME NEW k \in T!Slots, reqs'[k] # None
          PROVE  AtHome(reqs'[k], tab') /\ Tells(reqs'[k], stored')
      <4>1. CASE k = i
        BY <1>1, <1>3, <3>1, <4>1
      <4>2. CASE k # i
        BY <1>1, <3>1, <3>2, <4>2, RequestFacts
      <4> QED
        BY <4>1, <4>2
    <3>3. AnswersAtHome' /\ AnswersTell'
      BY <3>2 DEF AnswersAtHome, AnswersTell, AtHome, Tells
    <3> QED
      BY <2>1, <3>1, <3>3
  <2>2. CASE ~reqs[i].ok
    BY <1>1, <2>2, DropKeeps
  <2> QED
    BY <2>1, <2>2
<1>5. LackIsTold'
  <2>1. CASE reqs[i].ok
    BY <1>1, <1>3, <1>4, <2>1, LackKept
  <2>2. CASE ~reqs[i].ok /\ ~(missed \/ reqs[i].done)
    <3>1. ~Settles(reqs[i]) /\ missed' = missed
      <4>1. missed' = missed
        BY <1>1, <2>2 DEF PanelsInv, PanelsTyped
      <4> QED
        BY <1>1, <2>2, <4>1 DEF Settles
    <3> QED
      BY <1>1, <1>4, <3>1, LackKept
  <2>3. CASE ~reqs[i].ok /\ (missed \/ reqs[i].done)
    BY <1>1, <2>3 DEF LackIsTold
  <2> QED
    BY <2>1, <2>2, <2>3
<1>6. SpinnersEnd'
  BY <1>1, <1>4, SpinnersKept
<1>7. TabsNumbered'
  BY <1>1, TabsKept
<1>8. missed' \in BOOLEAN
  BY <1>1, <1>2 DEF PanelsInv, PanelsTyped
<1>9. PanelsTyped'
  BY <1>1, <1>4, <1>8 DEF PanelsInv, PanelsTyped
<1> QED
  BY <1>4, <1>5, <1>6, <1>7, <1>9 DEF PanelsInv

\* What is not about terminals is as it was.
LEMMA RestKept ==
  ASSUME PanelsInv, UNCHANGED <<tab, stored, ready, shown, missed, dirs, reading, reqs>>
  PROVE  AnswersAtHome' /\ AnswersTell' /\ LackIsTold' /\ SpinnersEnd'
<1>1. \A k \in T!Slots : reqs'[k] = reqs[k]
  OBVIOUS
<1>2. ASSUME NEW k \in T!Slots, reqs'[k] # None
      PROVE  AtHome(reqs'[k], tab') /\ Tells(reqs'[k], stored')
  BY <1>1, <1>2, RequestFacts
<1>3. AnswersAtHome' /\ AnswersTell'
  BY <1>2 DEF AnswersAtHome, AnswersTell, AtHome, Tells
<1> QED
  BY <1>1, <1>3, LackKept, SpinnersKept

\* The panels count as this module does.
LEMMA SameCount == \A X : T!Cardinality(X) = Cardinality(X)
BY DEF T!Cardinality, Cardinality

LEMMA SeqWiden ==
  ASSUME NEW A, NEW B, A \subseteq B, NEW s \in Seq(A)
  PROVE  s \in Seq(B)
OBVIOUS

\* A set in order, as a sequence: nothing twice.
LEMMA InOrderFacts ==
  ASSUME NEW n \in Nat, NEW X \in SUBSET (0..n), NEW s \in T!InOrder(X)
  PROVE  /\ s \in Seq(X) /\ IsFiniteSet(X) /\ Len(s) = Cardinality(X)
         /\ DOMAIN s = 1..Len(s)
         /\ \A j, k \in DOMAIN s : j # k => s[j] # s[k]
         /\ X # {} => Len(s) \in Nat \ {0}
<1>1. IsFiniteSet(X) /\ Cardinality(X) \in Nat
  <2>1. IsFiniteSet(0..n)
    BY FS_Interval
  <2>2. IsFiniteSet(X)
    BY <2>1, FS_Subset
  <2> QED
    BY <2>2, FS_CardinalityType
<1>2. s \in [1..Cardinality(X) -> X] /\ \A j, k \in DOMAIN s : j < k => s[j] < s[k]
  BY SameCount DEF T!InOrder
<1>3. s \in Seq(X) /\ Len(s) = Cardinality(X) /\ DOMAIN s = 1..Len(s)
  BY <1>1, <1>2
<1>4. ASSUME NEW j \in DOMAIN s, NEW k \in DOMAIN s, j # k
      PROVE  s[j] # s[k]
  <2>1. s[j] \in 0..n /\ s[k] \in 0..n /\ j \in 1..Len(s) /\ k \in 1..Len(s)
    BY <1>2, <1>3
  <2>2. j < k \/ k < j
    BY <1>1, <1>3, <1>4, <2>1
  <2>3. s[j] < s[k] \/ s[k] < s[j]
    BY <1>2, <2>2
  <2> QED
    BY <2>1, <2>3
<1>5. X # {} => Len(s) # 0
  BY <1>1, <1>3, FS_EmptySet
<1> QED
  BY <1>1, <1>3, <1>4, <1>5

LEMMA FetchedKeeps ==
  ASSUME PanelsInv, NEW i \in T!Slots, T!Fetched(i)
  PROVE  PanelsInv'
<1> DEFINE found == IF reqs[i].ok THEN reqs[i].saw ELSE {}
<1>1. /\ reqs[i] # None /\ reqs[i].op = "sessions" /\ reqs[i].at = "back" /\ ready' = TRUE
      /\ tabs' \in IF found = {} THEN {<<0>>} ELSE T!InOrder(found)
      /\ active' = Head(tabs')
      /\ counter' = 1 + T!Max(T!Numbered(found) \cup {0})
      /\ sessions' = sessions \cup {active'}
      /\ T!Drop(i)
      /\ UNCHANGED <<tab, stored, shown, saving, missed, dirs, reading>>
  BY DEF T!Fetched, T!Is, T!Attached, T!lists, T!files
<1>2. tab = "terminal" /\ found \in SUBSET (0..MaxTerm) /\ MaxTerm \in Nat
  BY <1>1, RequestFacts, PanelsAssumption DEF AtHome, Home
<1> HIDE DEF found
<1>3. /\ reqs' \in [T!Slots -> T!Requests \cup {None}] /\ AnswersAtHome' /\ AnswersTell'
      /\ reqs'[i] = None /\ \A k \in T!Slots \ {i} : reqs'[k] = reqs[k]
  BY <1>1, DropKeeps
<1>4. /\ tabs' \in Seq(found \cup {0}) /\ Len(tabs') \in Nat \ {0} /\ DOMAIN tabs' = 1..Len(tabs')
      /\ \A j, k \in DOMAIN tabs' : j # k => tabs'[j] # tabs'[k]
  <2>1. CASE found = {}
    <3>1. tabs' = <<0>>
      BY <1>1, <2>1
    <3> QED
      BY <3>1
  <2>2. CASE found # {}
    <3>1. tabs' \in T!InOrder(found)
      BY <1>1, <2>2
    <3>2. /\ tabs' \in Seq(found) /\ Len(tabs') \in Nat \ {0} /\ DOMAIN tabs' = 1..Len(tabs')
          /\ \A j, k \in DOMAIN tabs' : j # k => tabs'[j] # tabs'[k]
      BY <1>2, <2>2, <3>1, InOrderFacts
    <3>3. tabs' \in Seq(found \cup {0})
      BY <3>2
    <3> QED
      BY <3>2, <3>3
  <2> QED
    BY <2>1, <2>2
<1>5. counter' \in Nat \ {0} /\ \A x \in found \cup {0} : x < counter'
  <2> DEFINE N == T!Numbered(found) \cup {0}
  <2>1. N \in SUBSET (0..MaxTerm) /\ N # {} /\ \A x \in found : x >= 1 => x \in N
    <3>1. 0 \in 0..MaxTerm
      BY <1>2
    <3> QED
      BY <1>2, <3>1 DEF T!Numbered
  <2> HIDE DEF N
  <2>2. T!Max(N) \in N /\ \A y \in N : T!Max(N) >= y
    BY <1>2, <2>1, GreatestIsThere
  <2>3. T!Max(N) \in Nat /\ counter' = 1 + T!Max(N)
    BY <1>1, <1>2, <2>1, <2>2 DEF N
  <2> QED
    BY <1>2, <2>1, <2>2, <2>3
<1>6. active' = tabs'[1] /\ 1 \in DOMAIN tabs' /\ active' \in 0..MaxTerm
  <2>1. active' = tabs'[1] /\ 1 \in DOMAIN tabs'
    BY <1>1, <1>4
  <2>2. tabs'[1] \in found \cup {0}
    BY <1>4, <2>1
  <2>3. found \cup {0} \subseteq 0..MaxTerm
    BY <1>2
  <2> QED
    BY <2>1, <2>2, <2>3
<1>7. TabsNumbered'
  <2>1. \A j \in DOMAIN tabs' : tabs'[j] \in found \cup {0}
    BY <1>4
  <2> QED
    BY <1>4, <1>5, <1>6, <2>1 DEF TabsNumbered
<1>8. LackIsTold'
  BY <1>1, <1>2 DEF LackIsTold, T!Lists
<1>9. SpinnersEnd'
  BY <1>1, <1>3, SpinnersKept
<1>10. tabs' \in Seq(0..MaxTerm)
  <2>1. found \cup {0} \subseteq 0..MaxTerm
    BY <1>2
  <2>2. tabs' \in Seq(found \cup {0})
    BY <1>4
  <2> QED
    BY <2>1, <2>2, SeqWiden
<1>11. PanelsTyped'
  BY <1>1, <1>3, <1>5, <1>6, <1>10 DEF PanelsInv, PanelsTyped
<1> QED
  BY <1>3, <1>7, <1>8, <1>9, <1>11 DEF PanelsInv

LEMMA AddTabKeeps ==
  ASSUME PanelsInv, T!AddTab
  PROVE  PanelsInv'
<1>1. /\ tab = "terminal" /\ ready /\ counter <= MaxTerm
      /\ counter' = counter + 1 /\ tabs' = Append(tabs, counter) /\ active' = counter
      /\ sessions' = sessions \cup {counter}
      /\ UNCHANGED <<tab, stored, ready, shown, saving, missed, dirs, reading, reqs>>
  BY DEF T!AddTab, T!Attached, T!lists, T!files
<1>2. counter \in 0..MaxTerm /\ counter \in Nat \ {0} /\ tabs \in Seq(0..MaxTerm)
  BY <1>1, PanelsAssumption DEF PanelsInv, PanelsTyped
<1>3. /\ tabs' \in Seq(0..MaxTerm) /\ Len(tabs') = Len(tabs) + 1 /\ Len(tabs) \in Nat
      /\ DOMAIN tabs' = 1..Len(tabs) + 1 /\ DOMAIN tabs = 1..Len(tabs)
      /\ tabs'[Len(tabs) + 1] = counter
      /\ \A j \in 1..Len(tabs) : tabs'[j] = tabs[j] /\ tabs[j] \in Nat
  <2>1. tabs' \in Seq(0..MaxTerm) /\ Len(tabs') = Len(tabs) + 1 /\ Len(tabs) \in Nat
    BY <1>1, <1>2
  <2>2. tabs'[Len(tabs) + 1] = counter /\ \A j \in 1..Len(tabs) : tabs'[j] = tabs[j]
    <3>1. tabs' = Append(tabs, counter) /\ tabs \in Seq(0..MaxTerm)
      BY <1>1, <1>2
    <3> QED
      BY <3>1
  <2>3. \A j \in 1..Len(tabs) : tabs[j] \in 0..MaxTerm
    <3> DEFINE B == 0..MaxTerm
    <3>1. tabs \in Seq(B)
      BY <1>2
    <3> HIDE DEF B
    <3>2. \A j \in 1..Len(tabs) : tabs[j] \in B
      BY <3>1
    <3> QED
      BY <3>2 DEF B
  <2>4. DOMAIN tabs' = 1..Len(tabs') /\ DOMAIN tabs = 1..Len(tabs)
    BY <1>2, <2>1
  <2> QED
    BY <2>1, <2>2, <2>3, <2>4
<1>4. \A j \in 1..Len(tabs) : tabs[j] < counter
  BY <1>3 DEF PanelsInv, TabsNumbered
<1>5. TabsNumbered'
  <2>1. ASSUME NEW j \in DOMAIN tabs', NEW k \in DOMAIN tabs', j # k
        PROVE  tabs'[j] # tabs'[k]
    <3>1. CASE j \in 1..Len(tabs) /\ k \in 1..Len(tabs)
      BY <1>3, <2>1, <3>1 DEF PanelsInv, TabsNumbered
    <3>2. CASE j = Len(tabs) + 1 \/ k = Len(tabs) + 1
      BY <1>2, <1>3, <1>4, <2>1, <3>2
    <3> QED
      BY <1>3, <3>1, <3>2
  <2>2. \A j \in DOMAIN tabs' : tabs'[j] < counter'
    BY <1>1, <1>2, <1>3, <1>4
  <2>3. active' = tabs'[Len(tabs) + 1] /\ Len(tabs) + 1 \in DOMAIN tabs'
    BY <1>1, <1>3
  <2> QED
    BY <2>1, <2>2, <2>3 DEF TabsNumbered
<1>6. PanelsTyped'
  BY <1>1, <1>2, <1>3 DEF PanelsInv, PanelsTyped
<1>7. AnswersAtHome' /\ AnswersTell' /\ LackIsTold' /\ SpinnersEnd'
  BY <1>1, RestKept
<1> QED
  BY <1>5, <1>6, <1>7 DEF PanelsInv

LEMMA ChooseKeeps ==
  ASSUME PanelsInv, NEW n \in 0..MaxTerm, T!Choose(n)
  PROVE  PanelsInv'
<1>1. /\ n \in {tabs[j] : j \in DOMAIN tabs} /\ active' = n /\ sessions' = sessions \cup {n}
      /\ UNCHANGED <<tab, stored, ready, shown, saving, missed, tabs, counter, dirs, reading, reqs>>
  BY DEF T!Choose, T!ToSet, T!Attached, T!lists, T!files
<1>2. PanelsTyped' /\ TabsNumbered'
  BY <1>1 DEF PanelsInv, PanelsTyped, TabsNumbered
<1>3. AnswersAtHome' /\ AnswersTell' /\ LackIsTold' /\ SpinnersEnd'
  BY <1>1, RestKept
<1> QED
  BY <1>2, <1>3 DEF PanelsInv

LEMMA CloseTabKeeps ==
  ASSUME PanelsInv, NEW n \in 0..MaxTerm, T!CloseTab(n)
  PROVE  PanelsInv'
<1>1. /\ tab = "terminal" /\ T!Send("kill", n)
      /\ UNCHANGED <<tab, stored, ready, shown, missed, sessions, tabs, active, counter,
                     dirs, reading>>
  BY DEF T!CloseTab, T!lists, T!terminals, T!files
<1>2. T!Request("kill", n) \in T!Requests /\ AtHome(T!Request("kill", n), tab)
  BY <1>1 DEF T!Request, T!Requests, AtHome, Home
<1> QED
  BY <1>1, <1>2, SendOnlyKeeps

LEMMA SessionEndsKeeps ==
  ASSUME PanelsInv, NEW n \in 0..MaxTerm, T!SessionEnds(n)
  PROVE  PanelsInv'
<1>1. /\ sessions' = sessions \ {n}
      /\ UNCHANGED <<tab, stored, ready, shown, saving, missed, tabs, active, counter, dirs,
                     reading, reqs>>
  BY DEF T!SessionEnds, T!lists, T!terminals, T!files
<1>2. PanelsTyped' /\ TabsNumbered'
  BY <1>1 DEF PanelsInv, PanelsTyped, TabsNumbered
<1>3. AnswersAtHome' /\ AnswersTell' /\ LackIsTold' /\ SpinnersEnd'
  BY <1>1, RestKept
<1> QED
  BY <1>2, <1>3 DEF PanelsInv

\* What a filter keeps, in its order, are the positions it keeps and no others.
LEMMA InOrderCovers ==
  ASSUME NEW n \in Nat, NEW X \in SUBSET (0..n), NEW s \in T!InOrder(X)
  PROVE  \A x \in X : \E j \in DOMAIN s : s[j] = x
<1>1. /\ IsFiniteSet(X) /\ Len(s) = Cardinality(X) /\ DOMAIN s = 1..Len(s) /\ s \in Seq(X)
      /\ \A j, k \in DOMAIN s : j # k => s[j] # s[k]
  BY InOrderFacts
<1>2. Cardinality(X) \in Nat
  BY <1>1, FS_CardinalityType
<1> DEFINE D == 1..Cardinality(X)
<1>3. s \in [D -> X]
  BY <1>1, <1>2
<1>4. s \in Injection(D, X)
  BY <1>1, <1>3 DEF Injection, IsInjective
<1>5. Cardinality(D) = Cardinality(X)
  BY <1>2, FS_Interval
<1> HIDE DEF D
<1>6. s \in Surjection(D, X)
  BY <1>1, <1>4, <1>5, FS_Injection
<1> QED
  BY <1>3, <1>6 DEF Surjection

LEMMA ClosedKeeps ==
  ASSUME PanelsInv, NEW i \in T!Slots, T!Closed(i)
  PROVE  PanelsInv'
<1> DEFINE n    == reqs[i].arg
           keep == {k \in DOMAIN tabs : tabs[k] # n}
           at   == CHOOSE k \in 1..Len(tabs) + 1 : k = Len(tabs) + 1 \/ tabs[k] = n
<1>1. /\ reqs[i] # None /\ reqs[i].op = "kill" /\ reqs[i].mine /\ T!Drop(i)
      /\ UNCHANGED <<tab, stored, ready, shown, saving, missed, counter, dirs, reading>>
  BY DEF T!Closed, T!Is, T!Mine, T!lists, T!files
<1>2. IF keep = {}
      THEN /\ tabs' = <<0>> /\ active' = 0
           /\ IF n = 0 THEN UNCHANGED sessions ELSE T!Attached(0)
      ELSE /\ \E order \in T!InOrder(keep) :
                tabs' = [k \in DOMAIN order |-> tabs[order[k]]]
           /\ active' = IF active # n THEN active
                        ELSE tabs'[IF at <= Len(tabs') THEN at ELSE Len(tabs')]
           /\ IF active' = active THEN UNCHANGED sessions ELSE T!Attached(active')
  BY DEF T!Closed
<1>3. /\ MaxTerm \in Nat /\ 0 \in 0..MaxTerm /\ counter \in Nat \ {0}
      /\ sessions \in SUBSET (0..MaxTerm)
      /\ tabs \in Seq(0..MaxTerm)
  BY PanelsAssumption DEF PanelsInv, PanelsTyped
<1>4. /\ DOMAIN tabs = 1..Len(tabs) /\ Len(tabs) \in Nat
      /\ \A k \in DOMAIN tabs : tabs[k] \in 0..MaxTerm
  <2> DEFINE B == 0..MaxTerm
  <2>1. tabs \in Seq(B)
    BY <1>3
  <2> HIDE DEF B
  <2>2. DOMAIN tabs = 1..Len(tabs) /\ Len(tabs) \in Nat /\ \A k \in DOMAIN tabs : tabs[k] \in B
    BY <2>1
  <2> QED
    BY <2>2 DEF B
<1>5. at \in 1..Len(tabs) + 1
  <2>1. \E k \in 1..Len(tabs) + 1 : k = Len(tabs) + 1 \/ tabs[k] = n
    BY <1>4
  <2> QED
    BY <2>1
<1> HIDE DEF at
<1>6. keep \in SUBSET (0..Len(tabs)) /\ keep \subseteq DOMAIN tabs
  BY <1>4
<1>7. /\ tabs' \in Seq(0..MaxTerm) /\ sessions' \in SUBSET (0..MaxTerm)
      /\ TabsNumbered'
  <2>1. CASE keep = {}
    <3>1. tabs' = <<0>> /\ active' = 0
      BY <1>2, <2>1
    <3>2. tabs' \in Seq(0..MaxTerm) /\ DOMAIN tabs' = {1} /\ tabs'[1] = 0
      BY <1>3, <3>1
    <3>3. sessions' \in SUBSET (0..MaxTerm)
      BY <1>2, <1>3, <2>1 DEF T!Attached
    <3>4. counter' = counter /\ 0 < counter
      BY <1>1, <1>3
    <3> QED
      BY <3>1, <3>2, <3>3, <3>4 DEF TabsNumbered
  <2>2. CASE keep # {}
    <3>1. PICK order \in T!InOrder(keep) : tabs' = [k \in DOMAIN order |-> tabs[order[k]]]
      BY <1>2, <2>2
    <3> HIDE DEF keep
    <3>2. /\ order \in Seq(keep) /\ DOMAIN order = 1..Len(order) /\ Len(order) \in Nat \ {0}
          /\ \A j, k \in DOMAIN order : j # k => order[j] # order[k]
      BY <1>4, <1>6, <2>2, InOrderFacts
    <3>9. \A a \in keep : \E j \in DOMAIN order : order[j] = a
      BY <1>4, <1>6, InOrderCovers
    <3>3. \A k \in DOMAIN order : order[k] \in keep /\ order[k] \in DOMAIN tabs
      BY <1>6, <3>2
    <3>4. /\ tabs' \in Seq(0..MaxTerm) /\ DOMAIN tabs' = DOMAIN order
          /\ Len(tabs') = Len(order)
          /\ \A k \in DOMAIN order : tabs'[k] = tabs[order[k]]
      <4>1. tabs' \in [1..Len(order) -> 0..MaxTerm]
        BY <1>4, <3>1, <3>2, <3>3
      <4> QED
        BY <3>1, <3>2, <4>1
    <3>5. \A j, k \in DOMAIN tabs' : j # k => tabs'[j] # tabs'[k]
      BY <3>2, <3>3, <3>4 DEF PanelsInv, TabsNumbered
    <3>6. \A j \in DOMAIN tabs' : tabs'[j] < counter'
      BY <1>1, <3>3, <3>4 DEF PanelsInv, TabsNumbered
    <3>7. CASE active # n
      <4>1. active' = active /\ sessions' = sessions
        BY <1>2, <2>2, <3>7 DEF keep
      <4>2. ASSUME tab' = "terminal", ready'
            PROVE  active' \in {tabs'[j] : j \in DOMAIN tabs'}
        <5>1. PICK a \in DOMAIN tabs : tabs[a] = active
          BY <1>1, <4>2 DEF PanelsInv, TabsNumbered
        <5>2. a \in keep
          BY <3>7, <5>1 DEF keep
        <5>3. PICK j \in DOMAIN order : order[j] = a
          BY <3>9, <5>2
        <5> QED
          BY <3>4, <4>1, <5>1, <5>3
      <4> QED
        BY <1>3, <3>4, <3>5, <3>6, <4>1, <4>2 DEF TabsNumbered
    <3>8. CASE active = n
      <4> DEFINE x == IF at <= Len(tabs') THEN at ELSE Len(tabs')
      <4>1. active' = tabs'[x] /\ (sessions' = sessions \/ sessions' = sessions \cup {active'})
        BY <1>2, <2>2, <3>8 DEF keep, T!Attached
      <4>2. x \in DOMAIN tabs'
        BY <1>4, <1>5, <3>2, <3>4
      <4> HIDE DEF x
      <4>3. tabs'[x] \in 0..MaxTerm
        BY <1>4, <3>3, <3>4, <4>2
      <4>4. sessions' \in SUBSET (0..MaxTerm)
        BY <1>3, <4>1, <4>3
      <4> QED
        BY <3>4, <3>5, <3>6, <4>1, <4>2, <4>4 DEF TabsNumbered
    <3> QED
      BY <3>7, <3>8
  <2> QED
    BY <2>1, <2>2
<1>8. /\ reqs' \in [T!Slots -> T!Requests \cup {None}] /\ AnswersAtHome' /\ AnswersTell'
      /\ reqs'[i] = None /\ \A k \in T!Slots \ {i} : reqs'[k] = reqs[k]
  BY <1>1, DropKeeps
<1>9. LackIsTold'
  BY <1>1, <1>8, LackKept DEF Settles
<1>10. SpinnersEnd'
  BY <1>1, <1>8, SpinnersKept
<1>11. PanelsTyped'
  BY <1>1, <1>7, <1>8 DEF PanelsInv, PanelsTyped
<1> QED
  BY <1>7, <1>8, <1>9, <1>10, <1>11 DEF PanelsInv

\* A directory that is asked for turns its spinner; the others turn as before,
\* or not at all.
LEMMA LoadDirKeeps ==
  ASSUME PanelsInv, tab = "files", NEW d \in Dirs, NEW ds \in [Dirs -> Dir],
         \A c \in Dirs : ds[c].loading => dirs[c].loading, T!LoadDir(d, ds),
         UNCHANGED <<tab, stored, ready, shown, missed, sessions, tabs, active, counter, reading>>
  PROVE  PanelsInv'
<1> DEFINE r == T!Request("dir", d)
<1>1. /\ T!Send("dir", d)
      /\ dirs' = [ds EXCEPT ![d] = [there |-> TRUE, loading |-> TRUE, expanded |-> TRUE]]
  BY DEF T!LoadDir
<1>2. r \in T!Requests /\ r.op = "dir" /\ r.arg = d /\ AtHome(r, tab)
  BY DEF T!Request, T!Requests, AtHome, Home
<1>3. AtHome(r, tab')
  <2>1. tab' = tab
    OBVIOUS
  <2> QED
    BY <1>2, <2>1
<1> HIDE DEF r
<1>4. /\ reqs' \in [T!Slots -> T!Requests \cup {None}]
      /\ AnswersAtHome' /\ AnswersTell'
      /\ \E j \in T!Slots : /\ reqs[j] = None
                            /\ reqs'[j] = r /\ reqs'[j] # None
                            /\ \A k \in T!Slots \ {j} : reqs'[k] = reqs[k]
  BY <1>1, <1>2, <1>3, SendKeeps DEF r
<1>5. PICK j \in T!Slots : /\ reqs[j] = None
                           /\ reqs'[j] = r /\ reqs'[j] # None
                           /\ \A k \in T!Slots \ {j} : reqs'[k] = reqs[k]
  BY <1>4
<1>6. dirs' \in [Dirs -> Dir] /\ \A c \in Dirs \ {d} : dirs'[c] = ds[c]
  BY <1>1 DEF Dir
<1>7. ASSUME NEW c \in Dirs, dirs'[c].loading
      PROVE  \E k \in T!Slots : reqs'[k] # None /\ reqs'[k].op = "dir" /\ reqs'[k].arg = c
  <2>1. CASE c = d
    BY <1>2, <1>5, <2>1
  <2>2. CASE c # d
    <3>1. dirs[c].loading
      BY <1>6, <1>7, <2>2
    <3> QED
      BY <1>5, <3>1 DEF PanelsInv, SpinnersEnd, T!SpinnersEnd, T!Is
  <2> QED
    BY <2>1, <2>2
<1>8. SpinnersEnd'
  BY <1>5, <1>7 DEF PanelsInv, SpinnersEnd, T!SpinnersEnd, T!Is
<1>9. LackIsTold'
  BY <1>5, LackKept
<1>10. TabsNumbered'
  BY TabsKept
<1>11. PanelsTyped'
  BY <1>4, <1>6 DEF PanelsInv, PanelsTyped
<1> QED
  BY <1>4, <1>8, <1>9, <1>10, <1>11 DEF PanelsInv

LEMMA ToggleKeeps ==
  ASSUME PanelsInv, NEW d \in Dirs, T!Toggle(d)
  PROVE  PanelsInv'
<1>1. /\ tab = "files"
      /\ UNCHANGED <<tab, stored, ready, shown, missed, sessions, tabs, active, counter, reading>>
  BY DEF T!Toggle, T!lists, T!terminals
<1>2. CASE dirs[d].expanded
  <2>1. dirs' = [dirs EXCEPT ![d].expanded = FALSE] /\ reqs' = reqs
    BY <1>2 DEF T!Toggle
  <2>2. dirs' \in [Dirs -> Dir] /\ \A c \in Dirs : dirs'[c].loading => dirs[c].loading
    BY <2>1 DEF PanelsInv, PanelsTyped, Dir
  <2>3. \A k \in T!Slots : reqs'[k] = reqs[k]
    BY <2>1
  <2>4. ASSUME NEW k \in T!Slots, reqs'[k] # None
        PROVE  AtHome(reqs'[k], tab') /\ Tells(reqs'[k], stored')
    BY <1>1, <2>3, <2>4, RequestFacts
  <2>5. AnswersAtHome' /\ AnswersTell'
    BY <2>4 DEF AnswersAtHome, AnswersTell, AtHome, Tells
  <2>6. LackIsTold' /\ TabsNumbered'
    BY <1>1, <2>3, LackKept, TabsKept
  <2>7. SpinnersEnd'
    BY <1>1, <2>2, <2>3, SpinnersKept
  <2>8. PanelsTyped'
    BY <1>1, <2>1, <2>2 DEF PanelsInv, PanelsTyped
  <2> QED
    BY <2>5, <2>6, <2>7, <2>8 DEF PanelsInv
<1>3. CASE ~dirs[d].expanded
  <2>1. T!LoadDir(d, dirs) /\ dirs \in [Dirs -> Dir]
    BY <1>3 DEF T!Toggle, PanelsInv, PanelsTyped
  <2> QED
    BY <1>1, <2>1, LoadDirKeeps
<1> QED
  BY <1>2, <1>3

LEMMA RefreshKeeps ==
  ASSUME PanelsInv, T!Refresh
  PROVE  PanelsInv'
<1> DEFINE none == [d \in Dirs |-> T!NoDir]
<1>1. /\ tab = "files" /\ T!LoadDir(Root, none) /\ Root \in Dirs
      /\ UNCHANGED <<tab, stored, ready, shown, missed, sessions, tabs, active, counter, reading>>
  BY PanelsAssumption DEF T!Refresh, T!lists, T!terminals
<1>2. none \in [Dirs -> Dir] /\ \A c \in Dirs : ~none[c].loading
  BY DEF T!NoDir, Dir
<1> HIDE DEF none
<1> QED
  BY <1>1, <1>2, LoadDirKeeps

LEMMA DirAnswerKeeps ==
  ASSUME PanelsInv, NEW i \in T!Slots, T!DirAnswer(i)
  PROVE  PanelsInv'
<1> DEFINE d == reqs[i].arg
<1>1. /\ reqs[i] # None /\ reqs[i].op = "dir" /\ T!Drop(i)
      /\ dirs' = [dirs EXCEPT ![d] = T!Listed(d)]
      /\ UNCHANGED <<tab, stored, ready, shown, missed, sessions, tabs, active, counter, reading>>
  BY DEF T!DirAnswer, T!Is, T!lists, T!terminals
<1>2. d \in Dirs
  BY <1>1, RequestFacts DEF AtHome
<1>3. /\ dirs' \in [Dirs -> Dir] /\ ~dirs'[d].loading
      /\ \A c \in Dirs \ {d} : dirs'[c] = dirs[c]
  BY <1>1, <1>2 DEF PanelsInv, PanelsTyped, T!Listed, Dir
<1>4. /\ reqs' \in [T!Slots -> T!Requests \cup {None}] /\ AnswersAtHome' /\ AnswersTell'
      /\ reqs'[i] = None /\ \A k \in T!Slots \ {i} : reqs'[k] = reqs[k]
  BY <1>1, DropKeeps
<1>5. ASSUME NEW c \in Dirs, dirs'[c].loading
      PROVE  \E k \in T!Slots : reqs'[k] # None /\ reqs'[k].op = "dir" /\ reqs'[k].arg = c
  <2>1. c # d /\ dirs[c].loading
    BY <1>3, <1>5
  <2>2. PICK k \in T!Slots : reqs[k] # None /\ reqs[k].op = "dir" /\ reqs[k].arg = c
    BY <2>1 DEF PanelsInv, SpinnersEnd, T!SpinnersEnd, T!Is
  <2> QED
    BY <1>4, <2>1, <2>2
<1>6. SpinnersEnd'
  BY <1>1, <1>4, <1>5 DEF PanelsInv, SpinnersEnd, T!SpinnersEnd, T!Is
<1>7. LackIsTold'
  BY <1>1, <1>4, LackKept DEF Settles
<1>8. TabsNumbered'
  BY <1>1, TabsKept
<1>9. PanelsTyped'
  BY <1>1, <1>3, <1>4 DEF PanelsInv, PanelsTyped
<1> QED
  BY <1>4, <1>6, <1>7, <1>8, <1>9 DEF PanelsInv

LEMMA OpenFileKeeps ==
  ASSUME PanelsInv, T!OpenFile
  PROVE  PanelsInv'
<1> DEFINE r == T!Request("file", None)
<1>1. /\ tab = "files" /\ T!Send("file", None) /\ reading' = TRUE
      /\ UNCHANGED <<tab, stored, ready, shown, missed, sessions, tabs, active, counter, dirs>>
  BY DEF T!OpenFile, T!lists, T!terminals
<1>2. r \in T!Requests /\ r.op = "file" /\ AtHome(r, tab)
  BY <1>1 DEF T!Request, T!Requests, AtHome, Home
<1>3. AtHome(r, tab')
  <2>1. tab' = tab
    BY <1>1
  <2> QED
    BY <1>2, <2>1
<1> HIDE DEF r
<1>4. /\ reqs' \in [T!Slots -> T!Requests \cup {None}]
      /\ AnswersAtHome' /\ AnswersTell'
      /\ \E j \in T!Slots : /\ reqs[j] = None
                            /\ reqs'[j] = r /\ reqs'[j] # None
                            /\ \A k \in T!Slots \ {j} : reqs'[k] = reqs[k]
  BY <1>1, <1>2, <1>3, SendKeeps DEF r
<1>5. PICK j \in T!Slots : /\ reqs[j] = None
                           /\ reqs'[j] = r /\ reqs'[j] # None
                           /\ \A k \in T!Slots \ {j} : reqs'[k] = reqs[k]
  BY <1>4
<1>6. ASSUME NEW c \in Dirs, dirs'[c].loading
      PROVE  \E k \in T!Slots : reqs'[k] # None /\ reqs'[k].op = "dir" /\ reqs'[k].arg = c
  BY <1>1, <1>5, <1>6 DEF PanelsInv, SpinnersEnd, T!SpinnersEnd, T!Is
<1>7. SpinnersEnd'
  BY <1>2, <1>5, <1>6 DEF SpinnersEnd, T!SpinnersEnd, T!Is
<1>8. LackIsTold'
  BY <1>1, <1>5, LackKept
<1>9. TabsNumbered'
  BY <1>1, TabsKept
<1>10. PanelsTyped'
  <2>1. reading' \in BOOLEAN
    BY <1>1, Zenon
  <2> QED
    BY <1>1, <1>4, <2>1 DEF PanelsInv, PanelsTyped
<1> QED
  BY <1>4, <1>7, <1>8, <1>9, <1>10 DEF PanelsInv

LEMMA FileAnswerKeeps ==
  ASSUME PanelsInv, NEW i \in T!Slots, T!FileAnswer(i)
  PROVE  PanelsInv'
<1>1. /\ reqs[i] # None /\ reqs[i].op = "file" /\ T!Drop(i) /\ reading' = FALSE
      /\ UNCHANGED <<tab, stored, ready, shown, missed, sessions, tabs, active, counter, dirs>>
  BY DEF T!FileAnswer, T!Is, T!lists, T!terminals
<1>2. /\ reqs' \in [T!Slots -> T!Requests \cup {None}] /\ AnswersAtHome' /\ AnswersTell'
      /\ reqs'[i] = None /\ \A k \in T!Slots \ {i} : reqs'[k] = reqs[k]
  BY <1>1, DropKeeps
<1>3. ASSUME NEW c \in Dirs, dirs'[c].loading
      PROVE  \E k \in T!Slots : reqs'[k] # None /\ reqs'[k].op = "dir" /\ reqs'[k].arg = c
  <2>1. PICK k \in T!Slots : reqs[k] # None /\ reqs[k].op = "dir" /\ reqs[k].arg = c
    BY <1>1, <1>3 DEF PanelsInv, SpinnersEnd, T!SpinnersEnd, T!Is
  <2>2. k # i
    BY <1>1, <2>1
  <2> QED
    BY <1>2, <2>1, <2>2
<1>4. SpinnersEnd'
  BY <1>1, <1>3 DEF SpinnersEnd, T!SpinnersEnd, T!Is
<1>5. LackIsTold'
  BY <1>1, <1>2, LackKept DEF Settles
<1>6. TabsNumbered'
  BY <1>1, TabsKept
<1>7. PanelsTyped'
  <2>1. reading' \in BOOLEAN
    BY <1>1, Zenon
  <2> QED
    BY <1>1, <1>2, <2>1 DEF PanelsInv, PanelsTyped
<1> QED
  BY <1>2, <1>4, <1>5, <1>6, <1>7 DEF PanelsInv

LEMMA PanelsStep == PanelsInv /\ [T!Next]_(T!vars) => PanelsInv'
<1> SUFFICES ASSUME PanelsInv, [T!Next]_(T!vars)
             PROVE  PanelsInv'
  OBVIOUS
<1>1. CASE UNCHANGED T!vars
  <2>1. UNCHANGED <<tab, stored, ready, shown, saving, missed, sessions, tabs, active, counter,
                    dirs, reading, reqs>>
    BY <1>1 DEF T!vars, T!lists, T!terminals, T!files
  <2>2. PanelsTyped' /\ TabsNumbered'
    BY <2>1 DEF PanelsInv, PanelsTyped, TabsNumbered
  <2> QED
    BY <2>1, <2>2, RestKept DEF PanelsInv
<1>2. CASE \E t \in T!Lists \cup {"terminal", "files"} : T!Mount(t)
  BY <1>2, MountKeeps
<1>3. CASE T!Leave \/ T!Reads \/ T!Writes \/ T!Kills
  BY <1>3, LeaveKeeps, ReadsKeep, WritesKeep, KillsKeep
<1>4. CASE \E l \in T!Lists, X \in SUBSET Items : T!OthersChange(l, X)
  BY <1>4, OthersKeep
<1>5. ASSUME NEW i \in T!Slots,
             T!Unheard(i) \/ T!Loaded(i) \/ T!Saved(i) \/ T!Changed(i) \/ T!Fetched(i)
               \/ T!Closed(i) \/ T!DirAnswer(i) \/ T!FileAnswer(i)
      PROVE  PanelsInv'
  BY <1>5, UnheardKeeps, LoadedKeeps, SavedKeeps, ChangedKeeps, FetchedKeeps, ClosedKeeps,
     DirAnswerKeeps, FileAnswerKeeps
<1>6. ASSUME NEW x \in Items, T!Save(x) \/ T!Change("grant", x) \/ T!Change("revoke", x)
      PROVE  PanelsInv'
  BY <1>6, SaveKeeps, ChangeKeeps
<1>7. CASE T!AddTab
  BY <1>7, AddTabKeeps
<1>8. ASSUME NEW n \in 0..MaxTerm, T!Choose(n) \/ T!CloseTab(n) \/ T!SessionEnds(n)
      PROVE  PanelsInv'
  BY <1>8, ChooseKeeps, CloseTabKeeps, SessionEndsKeeps
<1>9. ASSUME NEW d \in Dirs, T!Toggle(d)
      PROVE  PanelsInv'
  BY <1>9, ToggleKeeps
<1>10. CASE T!Refresh \/ T!OpenFile
  BY <1>10, RefreshKeeps, OpenFileKeeps
<1> QED
  BY <1>1, <1>2, <1>3, <1>4, <1>5, <1>6, <1>7, <1>8, <1>9, <1>10 DEF T!Next

\* A panel at rest shows what is stored, for any number of requests in any order
\* (FirewallPanel.tsx, AccessPanel.tsx and their routes).
THEOREM PanelsAgree == T!Spec => []PanelAgrees
<1>1. PanelsInv => PanelAgrees
  BY DEF PanelsInv, LackIsTold, PanelAgrees, T!PanelAgrees
<1> QED
  BY <1>1, PanelsInit, PanelsStep, PTL DEF T!Spec

\* Terminals have names of their own and one of them is active, whatever is
\* opened and closed at a time (TerminalTab.tsx).
THEOREM TerminalsSound == T!Spec => []TabsSound
<1>1. PanelsInv => TabsSound
  <2>1. SUFFICES ASSUME PanelsInv, tab = "terminal", ready
                 PROVE  Cardinality(T!ToSet(tabs)) = Len(tabs) /\ active \in T!ToSet(tabs)
    BY SameCount DEF TabsSound, T!TabsSound
  <2>2. active \in T!ToSet(tabs)
    BY <2>1 DEF PanelsInv, TabsNumbered, T!ToSet
  <2>3. /\ Len(tabs) \in Nat /\ DOMAIN tabs = 1..Len(tabs)
        /\ \A j, k \in DOMAIN tabs : j # k => tabs[j] # tabs[k]
    BY <2>1 DEF PanelsInv, PanelsTyped, TabsNumbered
  <2> DEFINE D == 1..Len(tabs)
             f == [j \in D |-> tabs[j]]
  <2>4. f \in [D -> T!ToSet(tabs)] /\ \A x \in T!ToSet(tabs) : \E j \in D : f[j] = x
    BY <2>3 DEF T!ToSet
  <2>5. \A j, k \in D : f[j] = f[k] => j = k
    BY <2>3
  <2>6. IsFiniteSet(D) /\ Cardinality(D) = Len(tabs)
    BY <2>3, FS_Interval
  <2> HIDE DEF D, f
  <2>7. f \in Bijection(D, T!ToSet(tabs))
    BY <2>4, <2>5 DEF Bijection, Injection, Surjection, IsInjective
  <2>8. ExistsBijection(D, T!ToSet(tabs))
    BY <2>7 DEF ExistsBijection
  <2>9. Cardinality(T!ToSet(tabs)) = Len(tabs)
    BY <2>6, <2>8, FS_Bijection
  <2> QED
    BY <2>2, <2>9
<1> QED
  BY <1>1, PanelsInit, PanelsStep, PTL DEF T!Spec

\* A spinner of the file tree has its request, however often directories are
\* opened and closed (FilesTab.tsx).
THEOREM SpinnersTurn == T!Spec => []SpinnersEnd
<1>1. PanelsInv => SpinnersEnd
  BY DEF PanelsInv
<1> QED
  BY <1>1, PanelsInit, PanelsStep, PTL DEF T!Spec

-----------------------------------------------------------------------------
(* The parts together: a step of one is a step of its own and none of the    *)
(* others', so what holds of a part alone holds of the whole.                *)

LEMMA PartsInit == Init => S!Init /\ R!Init /\ T!Init
BY DEF Init

LEMMA PartsStep ==
  [Next]_vars => [S!Next]_(S!vars) /\ [R!Next]_(R!vars) /\ [T!Next]_(T!vars)
<1>1. /\ UNCHANGED signin => UNCHANGED S!vars
      /\ UNCHANGED routes => UNCHANGED R!vars
  BY DEF signin, routes, S!vars, R!vars
<1>2. UNCHANGED panels => UNCHANGED T!vars
  BY DEF panels, T!vars, T!lists, T!terminals, T!files
<1>3. CASE UNCHANGED vars
  BY <1>1, <1>2, <1>3 DEF vars
<1>4. CASE InSignIn(S!Next)
  BY <1>1, <1>2, <1>4 DEF InSignIn
<1>5. CASE InPages(P!Next)
  BY <1>1, <1>2, <1>5 DEF InPages
<1>6. CASE InRoutes(R!Next)
  BY <1>1, <1>2, <1>6 DEF InRoutes
<1>7. CASE InPanels(T!Next)
  BY <1>1, <1>7 DEF InPanels
<1> QED
  BY <1>3, <1>4, <1>5, <1>6, <1>7 DEF Next

\* The composition implements the specification of each part, so its runs are
\* about the parts as they are, and the theorems above about its runs.
THEOREM PartsSideBySide == FairSpec => S!Spec /\ R!Spec /\ T!Spec
BY PartsInit, PartsStep, PTL DEF FairSpec, S!Spec, R!Spec, T!Spec

=============================================================================
