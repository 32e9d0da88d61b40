-------------------------- MODULE ProviderAccess --------------------------
(* Access to a model provider with logins of its own (rpi-providers          *)
(* antigravity): the logins a user begins and redeems, and the credentials   *)
(* and projects that requests use afterwards.                                *)
EXTENDS Integers, Sequences, SequencesExt, FiniteSets

-----------------------------------------------------------------------------
(***************************************************************************)
(* The pending logins of the Antigravity provider (rpi-providers           *)
(* antigravity auth.rs, mod.rs): a login is begun, the user signs in and   *)
(* pastes the code, bare or in the callback URL that carries the state,    *)
(* and one exchange redeems it with its verifier.  A login, its state, its *)
(* verifier and its code are named by the number of the login.             *)
(***************************************************************************)

CONSTANTS PendingLimit, \* pending logins kept at once
          MaxBegun,    \* bound on logins begun
          MaxPasted     \* bound on inputs pasted

ASSUME LoginAssumption ==
    PendingLimit \in Nat \ {0} /\ MaxBegun \in Nat \ {0} /\ MaxPasted \in Nat

VARIABLES pendingLogins,    \* issued logins, oldest first
          begun,     \* logins begun so far
          exchanges  \* what was pasted and what became of it

loginVars == <<pendingLogins, begun, exchanges>>

LoginInit == pendingLogins = <<>> /\ begun = 0 /\ exchanges = <<>>

Live(table) == SelectSeq(table, LAMBDA entry : ~entry.expired)
LoginWithout(table, id) == SelectSeq(table, LAMBDA entry : entry.id # id)

\* Issuing prunes, makes room by evicting the oldest, and appends.
Begin ==
    /\ begun < MaxBegun
    /\ LET live == Live(pendingLogins)
           kept == IF Len(live) < PendingLimit THEN live
                   ELSE SubSeq(live, Len(live) - PendingLimit + 2, Len(live))
       IN  pendingLogins' = Append(kept, [id |-> begun + 1, expired |-> FALSE])
    /\ begun' = begun + 1
    /\ UNCHANGED exchanges

\* Ten minutes pass for the oldest login.
LoginExpires ==
    /\ \E k \in DOMAIN pendingLogins :
         /\ ~pendingLogins[k].expired /\ \A j \in 1 .. k - 1 : pendingLogins[j].expired
         /\ pendingLogins' = [pendingLogins EXCEPT ![k].expired = TRUE]
    /\ UNCHANGED <<begun, exchanges>>

\* redeem: a callback takes the login of its state, a bare code the newest; 0
\* when there is none.
Redeemed(state) ==
    LET live == Live(pendingLogins)
    IN  IF state = 0 THEN IF live = <<>> THEN 0 ELSE Last(live).id
        ELSE IF \E k \in DOMAIN live : live[k].id = state THEN state ELSE 0

LeftForBare(state) ==
    IF state = 0 THEN Live(pendingLogins) ELSE LoginWithout(Live(pendingLogins), Redeemed(state))
LeftAfter(state) == LoginWithout(Live(pendingLogins), Redeemed(state))

\* A refused input sends nothing; a redeemed login goes to the worker.
Exchange(code, state) ==
    /\ Len(exchanges) < MaxPasted
    /\ pendingLogins' = LeftAfter(state)
    /\ exchanges' = Append(exchanges,
         [code |-> code, state |-> state, login |-> Redeemed(state),
          at |-> IF Redeemed(state) = 0 THEN "refused" ELSE "token"])
    /\ UNCHANGED begun

\* Google accepts a code with the verifier of its own challenge; a request
\* that fails has used the login up all the same.
LoginAnswers(t) ==
         /\ exchanges[t].at = "token"
         /\ \/ /\ exchanges[t].code = exchanges[t].login
               /\ exchanges' = [exchanges EXCEPT ![t].at = "done"]
            \/ exchanges' = [exchanges EXCEPT ![t].at = "failed"]
         /\ UNCHANGED <<pendingLogins, begun>>

\* The table lives in the process.
LoginRestart ==
    /\ pendingLogins # <<>> /\ pendingLogins' = <<>>
    /\ exchanges' = [t \in DOMAIN exchanges |-> [exchanges[t] EXCEPT !.at =
                       IF @ = "token" THEN "failed" ELSE @]]
    /\ UNCHANGED begun

LoginNext ==
    \/ Begin \/ LoginExpires \/ LoginRestart
    \/ \E code \in 1 .. begun : Exchange(code, 0) \/ Exchange(code, code)
    \/ \E t \in DOMAIN exchanges : LoginAnswers(t)

(***************************************************************************)
(* Properties                                                              *)
(***************************************************************************)
\* A login is redeemed once, whatever is pasted, evicted, expired or lost.
LoginUsedOnce ==
    \A t, u \in DOMAIN exchanges :
        t # u /\ exchanges[t].login # 0 => exchanges[u].login # exchanges[t].login

\* A callback is exchanged with the verifier of its own login, also when a
\* newer login was begun in between.
CallbackIsOwn ==
    \A t \in DOMAIN exchanges :
        exchanges[t].state # 0 /\ exchanges[t].login # 0
            => exchanges[t].login = exchanges[t].state

\* An input that is refused takes no login that could still be redeemed.
RejectedTakesNothing ==
    [][\A t \in DOMAIN exchanges' \ DOMAIN exchanges :
          exchanges'[t].at = "refused" => Live(pendingLogins') = Live(pendingLogins)]_loginVars

-----------------------------------------------------------------------------
(***************************************************************************)
(* Antigravity credentials and projects (rpi-providers antigravity:        *)
(* auth.rs, mod.rs, project.rs, transport.rs) once a login is redeemed:    *)
(* the exchange, refresh and revocation that the host runs on threads of   *)
(* their own, the bridge from access tokens to packed refresh tokens, and  *)
(* the project lookups that concurrent requests share.                     *)
(*                                                                         *)
(* A token and a project are named by the account they belong to; Google   *)
(* and the host's credential store are external.                           *)
(***************************************************************************)

CONSTANTS Account,      \* the Google accounts a user may log in with
          BridgeLimit,  \* access tokens the bridge remembers
          MaxTasks,     \* bound on exchanges, refreshes, revocations, requests
          MaxRestarts   \* bound on restarts of the process

ASSUME TokenAssumption ==
    BridgeLimit \in Nat \ {0} /\ MaxTasks \in Nat \ {0} /\ MaxRestarts \in Nat

VARIABLES google,    \* the tokens Google issued and revoked
          host,      \* the credential the host stores
          bridge,    \* access token to packed refresh, oldest first
          projects,  \* the project store: cached, running and failed lookups
          tokenTasks,     \* what runs or ran, in the order of its start
          restarts

tokenVars == <<google, host, bridge, projects, tokenTasks, restarts>>

NoProject == "none"
Default == "default"
NoPacked == [refresh |-> 0, project |-> NoProject]
NoCredential == [access |-> 0, bound |-> NoProject, packed |-> NoPacked]
NoTask == [op |-> "none", at |-> "none", access |-> 0, packed |-> NoPacked,
           project |-> NoProject, lookup |-> 0]

\* Tokens are numbered as Google issues them; owner tells whose they are.
Owner(token) == google.owner[token]

TokenInit ==
    /\ bridge = <<>> /\ tokenTasks = <<>> /\ restarts = 0
    /\ google = [owner |-> <<>>, revoked |-> {}]
    /\ host = NoCredential
    /\ projects = [cached |-> <<>>, running |-> <<>>, failed |-> {}]

TokenBegins(task) == tokenTasks' = Append(tokenTasks, task)
Room == Len(tokenTasks) < MaxTasks

(***************************************************************************)
(* The steps of a worker. Any request of a worker may fail.                *)
(***************************************************************************)
TokenGoes(t, task) == tokenTasks' = [tokenTasks EXCEPT ![t] = task]
Done(t) == TokenGoes(t, [NoTask EXCEPT !.op = tokenTasks[t].op, !.at = "done"])
TokenFails(t) == TokenGoes(t, [NoTask EXCEPT !.op = tokenTasks[t].op, !.at = "failed"])

WorkerFails(t) ==
    /\ tokenTasks[t].at \in {"discover", "refreshing", "revoking"}
    /\ TokenFails(t)
    /\ UNCHANGED <<google, host, bridge, projects, restarts>>

\* A redeemed login is exchanged: Google answers with an access and a refresh
\* token of the account that signed in; every other answer fails the login.
TokenExchange(account) ==
         /\ Room
         /\ LET n == Len(google.owner)
            IN  /\ google' = [google EXCEPT !.owner = @ \o <<account, account>>]
                /\ TokenBegins([NoTask EXCEPT !.op = "exchange", !.at = "discover", !.access = n + 1,
                                  !.packed = [refresh |-> n + 2, project |-> NoProject]])
         /\ UNCHANGED <<host, bridge, projects, restarts>>

\* The bridge: a known token moves to the end; at the limit the oldest goes.
Forgotten(entries, access) == SelectSeq(entries, LAMBDA e : e.access # access)
Remembered(entries, access, packed) ==
    LET rest == Forgotten(entries, access)
        kept == IF rest = entries /\ Len(entries) >= BridgeLimit THEN Tail(rest) ELSE rest
    IN  Append(kept, [access |-> access, packed |-> packed])
PackedOf(access) ==
    LET found == {k \in DOMAIN bridge : bridge[k].access = access}
    IN  IF found = {} THEN NoPacked ELSE bridge[CHOOSE k \in found : TRUE].packed

Credential(access, packed) ==
    [access |-> access, bound |-> packed.project, packed |-> packed]

\* The login binds the project it discovers, or none; the host stores it.
Discovers(t) ==
    LET task == tokenTasks[t] IN
    /\ task.at = "discover"
    /\ \E project \in {Owner(task.access), NoProject} :
         LET packed == [task.packed EXCEPT !.project = project]
         IN  /\ bridge' = Remembered(bridge, task.access, packed)
             /\ host' = Credential(task.access, packed)
             /\ Done(t)
    /\ UNCHANGED <<google, projects, restarts>>

Refresh ==
    /\ Room /\ host.packed # NoPacked
    /\ TokenBegins([NoTask EXCEPT !.op = "refresh", !.at = "refreshing",
                      !.access = host.access, !.packed = host.packed])
    /\ UNCHANGED <<google, host, bridge, projects, restarts>>

\* The rotated token keeps the project of the packed one.
Refreshed(packed, refresh) == [packed EXCEPT !.refresh = refresh]

RefreshAnswers(t) ==
    LET task == tokenTasks[t]
        account == Owner(task.packed.refresh)
        n == Len(google.owner)
    IN  /\ task.at = "refreshing" /\ task.packed.refresh \notin google.revoked
        /\ \E rotated \in BOOLEAN :
             LET packed == Refreshed(task.packed, IF rotated THEN n + 2
                                                  ELSE task.packed.refresh)
             IN  /\ google' = [google EXCEPT !.owner = @ \o
                                 (IF rotated THEN <<account, account>> ELSE <<account>>)]
                 /\ bridge' = Remembered(Forgotten(bridge, task.access), n + 1, packed)
                 /\ host' = Credential(n + 1, packed)
                 /\ Done(t)
        /\ UNCHANGED <<projects, restarts>>

Revoke ==
    /\ Room /\ host # NoCredential
    /\ TokenBegins([NoTask EXCEPT !.op = "revoke", !.at = "revoking",
                      !.access = host.access, !.packed = host.packed])
    /\ UNCHANGED <<google, host, bridge, projects, restarts>>

\* The refresh token is revoked; the bridge forgets, the host drops its copy.
RevokeAnswers(t) ==
    LET task == tokenTasks[t] IN
    /\ task.at = "revoking"
    /\ google' = [google EXCEPT !.revoked = @ \cup {task.packed.refresh}]
    /\ bridge' = Forgotten(bridge, task.access)
    /\ host' = IF host.access = task.access THEN NoCredential ELSE host
    /\ Done(t)
    /\ UNCHANGED <<projects, restarts>>

(***************************************************************************)
(* A streamed request and the project store.                               *)
(***************************************************************************)
\* The lookup of a refresh token is shared, that of no token is not.
Cached(key) == {k \in DOMAIN projects.cached : projects.cached[k].key = key}
Running(key) ==
    {k \in DOMAIN projects.running : projects.running[k].key = key
                                     /\ projects.running[k].at # "over"}

Joinable(key) == IF key = 0 THEN {} ELSE Running(key)

Key(packed) == packed.refresh

\* ensure: a fresh result, a running lookup to wait for, or a lookup of its own
\* that goes on when the request no longer waits.
Ensures(task) ==
    LET key == Key(task.packed)
        found == Cached(key)
    IN  IF key # 0 /\ found # {}
          THEN /\ TokenBegins([task EXCEPT !.at = "sent",
                                 !.project = projects.cached[CHOOSE k \in found : TRUE].project])
               /\ UNCHANGED projects
        ELSE IF Joinable(key) # {}
          THEN /\ TokenBegins([task EXCEPT !.at = "waiting",
                                 !.lookup = CHOOSE k \in Joinable(key) : TRUE])
               /\ UNCHANGED projects
        ELSE /\ TokenBegins([task EXCEPT !.at = "waiting",
                               !.lookup = Len(projects.running) + 1])
             /\ projects' = [projects EXCEPT !.running = Append(@,
                               [key |-> key, access |-> task.access, packed |-> task.packed,
                                at |-> "running", project |-> NoProject])]

\* A request takes the access value the host stores: its bound project is used
\* as it is, a plain token asks for one.
Stream ==
    /\ Room /\ host # NoCredential
    /\ LET task == [NoTask EXCEPT !.op = "stream", !.access = host.access]
       IN  IF host.bound # NoProject
             THEN TokenBegins([task EXCEPT !.at = "sent", !.project = host.bound])
                  /\ UNCHANGED projects
             ELSE Ensures([task EXCEPT !.packed = PackedOf(host.access)])
    /\ UNCHANGED <<google, host, bridge, restarts>>

\* The project the endpoints name, or the one an onboarding ends with; none
\* when every endpoint and every attempt has failed.
Provisioned(lookup) == {Owner(lookup.access), NoProject}

Result(project, failed, error) == [project |-> project, failed |-> failed, error |-> error]
Fallback(lookup) ==
    IF lookup.packed.project = NoProject THEN Default ELSE lookup.packed.project

\* resolve: a failure that is remembered gives the fallback at once; else the
\* project is provisioned, and a failure to is remembered for the process. An
\* answer of the wrong shape is an error of this lookup alone.
Resolutions(lookup) ==
    IF lookup.key # 0 /\ lookup.key \in projects.failed
      THEN {Result(Fallback(lookup), FALSE, FALSE)}
      ELSE {IF project = NoProject THEN Result(Fallback(lookup), TRUE, FALSE)
            ELSE Result(project, FALSE, FALSE) : project \in Provisioned(lookup)}
           \cup {Result(NoProject, FALSE, TRUE)}

\* The result is cached and the lookup leaves the table in one step.
LookupEnds(k) ==
    LET lookup == projects.running[k] IN
    /\ lookup.at = "running"
    /\ \E found \in Resolutions(lookup) :
         projects' = [projects EXCEPT
           !.running[k] = [@ EXCEPT !.at = "over", !.project = found.project],
           !.cached = IF lookup.key = 0 \/ found.error THEN @
                      ELSE Append(@, [key |-> lookup.key, project |-> found.project]),
           !.failed = IF found.failed /\ lookup.key # 0 THEN @ \cup {lookup.key} ELSE @]
    /\ UNCHANGED <<google, host, bridge, tokenTasks, restarts>>

\* Thirty minutes pass: the result is dropped when it is asked for next.
CacheExpires ==
    /\ projects.cached # <<>>
    /\ projects' = [projects EXCEPT !.cached = Tail(@)]
    /\ UNCHANGED <<google, host, bridge, tokenTasks, restarts>>

TokenWaited(t) ==
         LET task == tokenTasks[t] IN
         /\ task.at = "waiting" /\ projects.running[task.lookup].at = "over"
         /\ LET project == projects.running[task.lookup].project
            IN  IF project = NoProject THEN TokenFails(t)
                ELSE TokenGoes(t, [task EXCEPT !.at = "sent", !.project = project])
         /\ UNCHANGED <<google, host, bridge, projects, restarts>>

\* The caller cancels or the deadline passes.
GivesUp(t) ==
    /\ tokenTasks[t].at = "waiting"
    /\ TokenFails(t)
    /\ UNCHANGED <<google, host, bridge, projects, restarts>>

\* Everything but the host's credential is lost with the process.
TokenRestart ==
         /\ restarts < MaxRestarts /\ restarts' = restarts + 1
         /\ bridge' = <<>>
         /\ projects' = [cached |-> <<>>, running |-> <<>>, failed |-> {}]
         /\ tokenTasks' = [t \in DOMAIN tokenTasks |->
                             IF tokenTasks[t].at = "sent" THEN tokenTasks[t]
                             ELSE [NoTask EXCEPT !.op = tokenTasks[t].op, !.at = "failed"]]
         /\ UNCHANGED <<google, host>>

LookupSteps(t) ==
      \/ WorkerFails(t) \/ Discovers(t) \/ RefreshAnswers(t)
      \/ RevokeAnswers(t) \/ TokenWaited(t) \/ GivesUp(t)

TokenNext ==
    \/ Refresh \/ Revoke \/ Stream \/ CacheExpires \/ TokenRestart
    \/ \E account \in Account : TokenExchange(account)
    \/ \E t \in DOMAIN tokenTasks : LookupSteps(t)
    \/ \E k \in DOMAIN projects.running : LookupEnds(k)

(***************************************************************************)
(* Properties                                                              *)
(***************************************************************************)
\* A request carries the token and the project of one account, or the default
\* project, through every bridge, cache and shared lookup.
RequestIsOwn ==
    \A t \in DOMAIN tokenTasks :
        tokenTasks[t].op = "stream" /\ tokenTasks[t].at = "sent"
                 => tokenTasks[t].project \in {Owner(tokenTasks[t].access), Default}

\* Requests of one refresh token never run two lookups at a time, also when
\* the request that began the first one has given up.
OneLookup ==
    \A k \in DOMAIN projects.running :
        projects.running[k].key # 0 => Cardinality(Running(projects.running[k].key)) <= 1

\* A credential that is bound stays bound to the same project however often it
\* is refreshed and rotated.
BindingKept ==
    [][\A t \in DOMAIN tokenTasks :
          tokenTasks[t].at = "refreshing" /\ tokenTasks'[t].at = "done"
                   => host'.bound = tokenTasks[t].packed.project]_tokenVars

=============================================================================
