------------------------------ MODULE Session ------------------------------
(***************************************************************************)
(* The session of the web console: the tokens in localStorage, shared by   *)
(* all tabs; the requests each tab has in flight; the one refresh a tab    *)
(* runs when requests come back with 401; and the sessions of the server.  *)
(*                                                                         *)
(* Requests of one tab finish in any order.  Each step of a tab is what    *)
(* its event loop runs without awaiting: reading the storage and sending,  *)
(* or taking an answer and writing the storage.                            *)
(***************************************************************************)
EXTENDS AccessRules, Sequences

CONSTANTS Tabs, Slots, Users,
          MaxTokens,  \* bound: tokens the server issues
          Visited,    \* the pages people open
          Casts       \* who does what in an instance: records [tabs, slots, kinds, roles, changes, losses]

ASSUME TokensAssumption == MaxTokens \in Nat \ {0}
ASSUME RolesAssumption ==
  \A c \in Casts : c.roles \subseteq PlatformRoles \cup {"none"}

VARIABLES live,      \* refresh tokens the server accepts
          valid,     \* access tokens the server accepts
          owner,     \* the user a token was issued to, a sequence
          role,      \* the platform role of each user at the server
          stored,    \* localStorage: ha_token, ha_refresh, ha_user
          page, shown,       \* per tab: what is on screen, and the identity it uses
          refreshing,        \* per tab: the promise all its 401s wait for
          req,               \* per tab and slot: a request in flight
          dead,      \* history: a stored refresh token spent by an answer nobody got
          cast

vars == <<live, valid, owner, role, stored, page, shown, refreshing, req, dead, cast>>
server == <<live, valid, owner, role>>
screen == <<page, shown>>

NoToken == 0
NoOne == [who |-> "nobody", role |-> "none"]
Tokens == 1..MaxTokens
Minted == DOMAIN owner
Me(u) == [who |-> u, role |-> role[u]]

Kinds == {"visit", "check", "identity", "login", "register", "logout"}
NoRequest == [kind |-> "none", st |-> "idle", tok |-> NoToken, retried |-> FALSE,
              arg |-> "none", ans |-> "none", me |-> NoOne]
NoRefresh == [st |-> "idle", tok |-> NoToken, new |-> NoToken, me |-> NoOne]
NoSession == [token |-> NoToken, refresh |-> NoToken, user |-> NoOne]

\* /auth/ paths are sent without a retry on 401.
IsAuthPath(r) == r.kind \in {"login", "register", "logout"}

\* /login, with the box for a new account folded or open.
AtLogin(t) == page[t] \in {"login", "register"}

Init ==
  /\ cast \in Casts
  /\ \E u \in Users :
       /\ owner = <<u>>
       /\ role \in [Users -> cast.roles]
       /\ stored \in {NoSession} \cup
            (IF role[u] = "none" THEN {} ELSE {[token |-> 1, refresh |-> 1, user |-> [who |-> u, role |-> role[u]]]})
  /\ live = {n \in {1} : role[owner[n]] # "none"} /\ valid = live
  /\ page = [t \in Tabs |-> IF stored = NoSession THEN "login" ELSE "app"]
  /\ shown = [t \in Tabs |-> stored.user]
  /\ refreshing = [t \in Tabs |-> NoRefresh]
  /\ req = [t \in Tabs |-> [s \in Slots |-> NoRequest]]
  /\ dead = NoToken

(* Sending *)

Send(t, s, r) ==
  /\ t \in cast.tabs /\ s \in cast.slots /\ req[t][s].st = "idle"
  /\ req' = [req EXCEPT ![t][s] = [r EXCEPT !.st = "sent"]]

Request(kind, arg) ==
  [NoRequest EXCEPT !.kind = kind, !.tok = stored.token, !.arg = arg]

\* A page of the menu asks the data provider for its list; "me" is whom the
\* page was offered to.
Visit(t, s, p) ==
  /\ "visit" \in cast.kinds /\ page[t] = "app" /\ p \in MenuItems(shown[t].role)
  /\ Send(t, s, [Request("visit", p) EXCEPT !.me = shown[t]])
  /\ UNCHANGED <<server, stored, screen, refreshing, dead, cast>>

\* <Authenticated> around the routes asks authProvider.check.
AskCheck(t, s) ==
  /\ "check" \in cast.kinds
  /\ \A s2 \in Slots : req[t][s2].kind # "check"
  /\ IF stored.token = NoToken
     THEN /\ t \in cast.tabs /\ ~AtLogin(t)
          /\ page' = [page EXCEPT ![t] = "login"] /\ UNCHANGED req
     ELSE Send(t, s, Request("check", "none")) /\ UNCHANGED page
  /\ UNCHANGED <<server, stored, shown, refreshing, dead, cast>>

AskIdentity_Memoised(t, s) ==
  /\ page[t] = "app" /\ stored.token # NoToken
  /\ \A s2 \in Slots : req[t][s2].kind # "identity"
  /\ Send(t, s, Request("identity", IF stored.user = NoOne THEN "wait" ELSE "cached"))
  /\ shown' = [shown EXCEPT ![t] = IF @ = NoOne THEN stored.user ELSE @]
  /\ UNCHANGED <<server, stored, page, refreshing, dead, cast>>

\* getIdentity: the cached user at once, and /me behind the scenes; without a
\* cached user the caller waits for /me.
AskIdentity(t, s) ==
  /\ page[t] = "app" /\ stored.token # NoToken
  /\ \A s2 \in Slots : req[t][s2].kind # "identity"
  /\ Send(t, s, Request("identity", IF stored.user = NoOne THEN "wait" ELSE "cached"))
  /\ shown' = [shown EXCEPT ![t] = IF stored.user = NoOne THEN @ ELSE stored.user]
  /\ UNCHANGED <<server, stored, page, refreshing, dead, cast>>

\* The login form: disabled while one attempt is under way, but for the badge of
\* a build on localhost, which sends another.
SubmitLogin(t, s, u) ==
  /\ "login" \in cast.kinds /\ AtLogin(t)
  /\ "badge" \in cast.kinds \/ \A s2 \in Slots : req[t][s2].kind # "login"
  /\ Send(t, s, Request("login", u))
  /\ UNCHANGED <<server, stored, screen, refreshing, dead, cast>>

FoldRegister(t) ==
  /\ "register" \in cast.kinds /\ t \in cast.tabs /\ AtLogin(t)
  /\ page' = [page EXCEPT ![t] = IF @ = "login" THEN "register" ELSE "login"]
  /\ UNCHANGED <<server, stored, shown, refreshing, req, dead, cast>>

\* The box sends the name and the password of the form above it; both forms work
\* at the same time.
SubmitRegister(t, s, u) ==
  /\ page[t] = "register"
  /\ \A s2 \in Slots : req[t][s2].kind # "register"
  /\ Send(t, s, Request("register", u))
  /\ UNCHANGED <<server, stored, screen, refreshing, dead, cast>>

\* The logout button: the refresh token of this moment is sent along.
ClickLogout(t, s) ==
  /\ "logout" \in cast.kinds /\ page[t] = "app"
  /\ IF stored.refresh = NoToken
     THEN /\ t \in cast.tabs
          /\ stored' = NoSession /\ page' = [page EXCEPT ![t] = "login"]
          /\ UNCHANGED req
     ELSE /\ Send(t, s, [Request("logout", "none") EXCEPT !.tok = stored.refresh])
          /\ UNCHANGED <<stored, page>>
  /\ UNCHANGED <<server, shown, refreshing, dead, cast>>

(* The server *)

\* Every request under way may still lead to one refresh.
RoomForRefreshes ==
  Len(owner) + Cardinality(cast.tabs) * Cardinality(cast.slots) <= MaxTokens

Issue(u) == owner' = Append(owner, u) /\ Len(owner) < MaxTokens

Answer(t, s, ans, me) ==
  req' = [req EXCEPT ![t][s].st = "answered", ![t][s].ans = ans, ![t][s].me = me]

\* LoginTokens: an access and a refresh token of the same number.
ServeLogin(t, s) ==
  LET r == req[t][s] IN
  /\ r.st = "sent" /\ r.kind = "login"
  /\ \/ /\ role[r.arg] # "none" /\ RoomForRefreshes /\ Issue(r.arg)
        /\ live' = live \cup {Len(owner) + 1} /\ valid' = valid \cup {Len(owner) + 1}
        /\ req' = [req EXCEPT ![t][s].st = "answered", ![t][s].ans = "ok",
                              ![t][s].tok = Len(owner) + 1, ![t][s].me = Me(r.arg)]
     \/ Answer(t, s, "unauth", NoOne) /\ UNCHANGED <<live, valid, owner>>
  /\ UNCHANGED <<role, stored, screen, refreshing, dead, cast>>

\* Register: the first of all accounts is the one of a platform admin; a name that
\* is taken, or a password too short, is refused.
ServeRegister(t, s) ==
  LET r == req[t][s] IN
  /\ r.st = "sent" /\ r.kind = "register"
  /\ \/ /\ role[r.arg] = "none" /\ Answer(t, s, "ok", NoOne)
        /\ role' = [role EXCEPT ![r.arg] = IF \A u \in Users : role[u] = "none"
                                          THEN "platform_admin" ELSE "platform_user"]
     \/ Answer(t, s, "unauth", NoOne) /\ UNCHANGED role
  /\ UNCHANGED <<live, valid, owner, stored, screen, refreshing, dead, cast>>

\* LogoutRefresh answers 204 whether or not the token was known.
ServeLogout(t, s) ==
  /\ req[t][s].st = "sent" /\ req[t][s].kind = "logout"
  /\ live' = live \ {req[t][s].tok}
  /\ Answer(t, s, "ok", NoOne)
  /\ UNCHANGED <<valid, owner, role, stored, screen, refreshing, dead, cast>>

\* authn, then the handler of /me or of a list.
ServeOther(t, s) ==
  LET r == req[t][s] IN
  /\ r.st = "sent" /\ ~IsAuthPath(r)
  /\ IF r.tok \notin valid THEN Answer(t, s, "unauth", r.me)
     ELSE LET u == owner[r.tok] IN
          IF r.kind = "visit" /\ ~ServerAnswers(r.arg, role[u])
          THEN Answer(t, s, "forbidden", Me(u))
          ELSE Answer(t, s, "ok", Me(u))
  /\ UNCHANGED <<server, stored, screen, refreshing, dead, cast>>

\* Tokens live for minutes; the bound leaves room for the refreshes this causes.
ExpireAccess(n) ==
  /\ n \in valid /\ RoomForRefreshes
  /\ valid' = valid \ {n}
  /\ UNCHANGED <<live, owner, role, stored, screen, refreshing, req, dead, cast>>

\* PatchUser: a new role makes every access token of the user void.
ChangeRole(u, r) ==
  /\ cast.changes /\ r # role[u] /\ role[u] # "none"
  /\ RoomForRefreshes
  /\ \E n \in valid : owner[n] = u
  /\ role' = [role EXCEPT ![u] = r]
  /\ valid' = {n \in valid : owner[n] # u}
  /\ UNCHANGED <<live, owner, stored, screen, refreshing, req, dead, cast>>

(* The refresh of a tab *)

\* tryRefresh reads the storage; without a refresh token it fails at once.
StartRefresh(t) ==
  refreshing' = [refreshing EXCEPT ![t] =
    IF stored.refresh = NoToken THEN [NoRefresh EXCEPT !.st = "failed"]
    ELSE [NoRefresh EXCEPT !.st = "sent", !.tok = stored.refresh]]

\* authorizedFetch: the first 401 of a request waits for the refresh of its
\* tab, and starts it when there is none.
AwaitRefresh(t, s) ==
  LET r == req[t][s] IN
  /\ r.st = "answered" /\ r.ans = "unauth" /\ ~r.retried /\ ~IsAuthPath(r)
  /\ req' = [req EXCEPT ![t][s].st = "waiting"]
  /\ IF refreshing[t].st = "idle" THEN StartRefresh(t) ELSE UNCHANGED refreshing
  /\ UNCHANGED <<server, stored, screen, dead, cast>>

\* RefreshAccess looks the session up ...
RefreshLookup(t) ==
  /\ refreshing[t].st = "sent"
  /\ refreshing' = [refreshing EXCEPT ![t].st =
       IF refreshing[t].tok \in live THEN "found" ELSE "failed"]
  /\ UNCHANGED <<server, stored, screen, req, dead, cast>>

\* ... deletes it, whether or not it is still there, and issues the next.
RefreshRotate(t) ==
  LET f == refreshing[t] IN
  /\ f.st = "found" /\ Issue(owner[f.tok])
  /\ live' = (live \ {f.tok}) \cup {Len(owner) + 1}
  /\ valid' = valid \cup {Len(owner) + 1}
  /\ refreshing' = [refreshing EXCEPT ![t] = [@ EXCEPT !.st = "answered", !.new = Len(owner) + 1,
                                                     !.me = Me(owner[f.tok])]]
  /\ UNCHANGED <<role, stored, screen, req, dead, cast>>

\* ... or fails to, with the old one gone; also where the bound on tokens ends.
RefreshDropped(t) ==
  /\ refreshing[t].st = "found" /\ (cast.losses \/ Len(owner) = MaxTokens)
  /\ live' = live \ {refreshing[t].tok}
  /\ refreshing' = [refreshing EXCEPT ![t].st = "failed"]
  /\ UNCHANGED <<valid, owner, role, stored, screen, req, dead, cast>>

\* The network loses the call or its answer: tryRefresh catches and says no.
LoseRefresh(t) ==
  /\ cast.losses /\ refreshing[t].st \in {"sent", "answered"}
  /\ dead' = IF refreshing[t].st = "answered" /\ refreshing[t].tok = stored.refresh
             THEN stored.refresh ELSE dead
  /\ refreshing' = [refreshing EXCEPT ![t].st = "failed"]
  /\ UNCHANGED <<server, stored, screen, req, cast>>

RefreshSucceeds_KeepsOldRefresh(t) ==
  LET f == refreshing[t] IN
  /\ f.st = "answered"
  /\ stored' = [stored EXCEPT !.token = f.new, !.user = f.me]
  /\ refreshing' = [refreshing EXCEPT ![t] = NoRefresh]
  /\ req' = [req EXCEPT ![t] = [s \in Slots |->
       IF @[s].st # "waiting" THEN @[s]
       ELSE [@[s] EXCEPT !.st = "sent", !.tok = f.new, !.retried = TRUE, !.ans = "none"]]]
  /\ UNCHANGED <<server, screen, dead, cast>>

\* The answer is stored, and all who wait send their request once more.
RefreshSucceeds(t) ==
  LET f == refreshing[t] IN
  /\ f.st = "answered"
  /\ stored' = [token |-> f.new, refresh |-> f.new, user |-> f.me]
  /\ refreshing' = [refreshing EXCEPT ![t] = NoRefresh]
  /\ req' = [req EXCEPT ![t] = [s \in Slots |->
       IF @[s].st # "waiting" THEN @[s]
       ELSE [@[s] EXCEPT !.st = "sent", !.tok = f.new, !.retried = TRUE, !.ans = "none"]]]
  /\ UNCHANGED <<server, screen, dead, cast>>

RefreshFails_ForgetsWaiters(t) ==
  /\ refreshing[t].st = "failed"
  /\ stored' = NoSession
  /\ refreshing' = [refreshing EXCEPT ![t] = NoRefresh]
  /\ IF AtLogin(t) THEN UNCHANGED <<req, screen>>
     ELSE /\ req' = [req EXCEPT ![t] = [s \in Slots |-> NoRequest]]
          /\ page' = [page EXCEPT ![t] = "login"]
          /\ shown' = [shown EXCEPT ![t] = NoOne]
  /\ UNCHANGED <<server, dead, cast>>

\* clearSession and redirectToLogin: the tab loads /login, which drops all its
\* other requests; a tab already there stays, and its callers see the 401.
RefreshFails(t) ==
  /\ refreshing[t].st = "failed"
  /\ stored' = NoSession
  /\ refreshing' = [refreshing EXCEPT ![t] = NoRefresh]
  /\ IF AtLogin(t)
     THEN /\ req' = [req EXCEPT ![t] = [s \in Slots |->
               IF @[s].st # "waiting" THEN @[s]
               ELSE [@[s] EXCEPT !.st = "answered", !.retried = TRUE]]]
          /\ UNCHANGED screen
     ELSE /\ req' = [req EXCEPT ![t] = [s \in Slots |-> NoRequest]]
          /\ page' = [page EXCEPT ![t] = "login"]
          /\ shown' = [shown EXCEPT ![t] = NoOne]
  /\ UNCHANGED <<server, dead, cast>>

(* What the callers make of an answer *)

\* A request that never reaches the server, or whose answer is lost.
Lose(t, s) ==
  /\ cast.losses
  /\ \/ req[t][s].st = "sent"
     \/ req[t][s].st = "answered" /\ req[t][s].ans # "lost"
  /\ Answer(t, s, "lost", NoOne)
  /\ UNCHANGED <<server, stored, screen, refreshing, dead, cast>>

Answered(t, s, kind) ==
  LET r == req[t][s] IN
  /\ r.st = "answered" /\ r.kind = kind
  /\ r.ans = "unauth" => r.retried \/ IsAuthPath(r)

Done(t, s) == req' = [req EXCEPT ![t][s] = NoRequest]

\* login stores both tokens and the user; an error stays on the form.
LoginReturns(t, s) ==
  LET r == req[t][s] IN
  /\ Answered(t, s, "login") /\ Done(t, s)
  /\ IF r.ans = "ok"
     THEN /\ stored' = [token |-> r.tok, refresh |-> r.tok, user |-> r.me]
          /\ page' = [page EXCEPT ![t] = "app"]
     ELSE UNCHANGED <<stored, page>>
  /\ UNCHANGED <<server, shown, refreshing, dead, cast>>

\* A new account folds the box, and nobody is signed in.
RegisterReturns(t, s) ==
  /\ Answered(t, s, "register")
  /\ Done(t, s)
  /\ page' = [page EXCEPT ![t] = IF req[t][s].ans = "ok" /\ @ = "register" THEN "login" ELSE @]
  /\ UNCHANGED <<server, stored, shown, refreshing, dead, cast>>

\* logout clears the storage whatever the server said.
LogoutReturns(t, s) ==
  /\ Answered(t, s, "logout") /\ Done(t, s)
  /\ stored' = NoSession
  /\ page' = [page EXCEPT ![t] = "login"]
  /\ UNCHANGED <<server, shown, refreshing, dead, cast>>

\* check: /me refreshes the cached user, only a 401 ends the session, and with
\* any other failure the shell stays as long as there is a token.
CheckReturns(t, s) ==
  LET r == req[t][s] IN
  /\ Answered(t, s, "check") /\ Done(t, s)
  /\ CASE r.ans = "ok" -> /\ stored' = [stored EXCEPT !.user = r.me]
                          /\ page' = [page EXCEPT ![t] = "app"]
       [] r.ans = "unauth" -> /\ stored' = NoSession
                              /\ page' = [page EXCEPT ![t] = "login"]
       [] OTHER -> /\ page' = [page EXCEPT ![t] =
                         IF stored.token # NoToken THEN "app" ELSE "login"]
                   /\ UNCHANGED stored
  /\ UNCHANGED <<server, shown, refreshing, dead, cast>>

\* The /me behind getIdentity writes the cached user, and only that; who waits
\* for it gets the answer.
IdentityReturns(t, s) ==
  LET r == req[t][s] IN
  /\ Answered(t, s, "identity") /\ Done(t, s)
  /\ IF r.ans = "ok"
     THEN /\ stored' = [stored EXCEPT !.user = r.me]
          /\ shown' = [shown EXCEPT ![t] = IF r.arg = "wait" THEN r.me ELSE @]
     ELSE UNCHANGED <<stored, shown>>
  /\ UNCHANGED <<server, page, refreshing, dead, cast>>

\* A list: onError logs out on 401 and ignores everything else.
VisitReturns(t, s) ==
  LET r == req[t][s] IN
  /\ Answered(t, s, "visit") /\ Done(t, s)
  /\ IF r.ans = "unauth"
     THEN stored' = NoSession /\ page' = [page EXCEPT ![t] = "login"]
     ELSE UNCHANGED <<stored, page>>
  /\ UNCHANGED <<server, shown, refreshing, dead, cast>>

\* Somebody reloads the tab: what it had in flight is dropped.
Reload(t) ==
  /\ "reload" \in cast.kinds /\ page[t] # "loading"
  /\ refreshing[t].st # "found"
  /\ page' = [page EXCEPT ![t] = "loading"]
  /\ shown' = [shown EXCEPT ![t] = NoOne]
  /\ req' = [req EXCEPT ![t] = [s \in Slots |-> NoRequest]]
  /\ refreshing' = [refreshing EXCEPT ![t] = NoRefresh]
  /\ dead' = IF \/ refreshing[t].st \in {"answered", "failed"} /\ refreshing[t].tok = stored.refresh
                \/ \E s \in Slots : req[t][s].kind = "logout" /\ req[t][s].tok = stored.refresh
             THEN stored.refresh ELSE dead
  /\ UNCHANGED <<server, stored, cast>>

Ask(t, s) ==
  \/ AskCheck(t, s) \/ AskIdentity(t, s) \/ ClickLogout(t, s)
  \/ \E p \in Visited : Visit(t, s, p)
  \/ \E u \in Users : SubmitLogin(t, s, u) \/ SubmitRegister(t, s, u)
Serve(t, s) == ServeLogin(t, s) \/ ServeRegister(t, s) \/ ServeLogout(t, s) \/ ServeOther(t, s)
Return(t, s) ==
  \/ LoginReturns(t, s) \/ RegisterReturns(t, s) \/ LogoutReturns(t, s) \/ CheckReturns(t, s)
  \/ IdentityReturns(t, s) \/ VisitReturns(t, s)
Refresh(t) ==
  RefreshLookup(t) \/ RefreshRotate(t) \/ RefreshDropped(t) \/ RefreshSucceeds(t) \/ RefreshFails(t)

Next ==
  \/ \E t \in Tabs, s \in Slots :
       Ask(t, s) \/ Serve(t, s) \/ AwaitRefresh(t, s) \/ Return(t, s) \/ Lose(t, s)
  \/ \E t \in Tabs : Refresh(t) \/ LoseRefresh(t) \/ Reload(t) \/ FoldRegister(t)
  \/ \E n \in Tokens : ExpireAccess(n)
  \/ \E u \in Users, r \in PlatformRoles : ChangeRole(u, r)

\* The browser and the network end every call, the event loop runs what is
\* due, and people keep using the menu, which asks who they are.
Fairness ==
  /\ \A t \in Tabs, s \in Slots :
       WF_vars(Serve(t, s) \/ AwaitRefresh(t, s) \/ Return(t, s))
  /\ \A t \in Tabs :
       WF_vars(Refresh(t)) /\ SF_vars(\E s \in Slots : AskIdentity(t, s))

Spec == Init /\ [][Next]_vars
LiveSpec == Spec /\ Fairness

(* A refresh token is used once: the one the storage holds is still good,  *)
(* or somebody is about to replace or remove it, or the answer with its    *)
(* successor was lost (tryRefresh, login, logout and clearSession of all   *)
(* tabs on one storage).                                                   *)
StoredRefreshIsLive ==
  stored.refresh # NoToken =>
    \/ stored.refresh \in live
    \/ stored.refresh = dead
    \/ \E t \in Tabs : refreshing[t].tok = stored.refresh /\ refreshing[t].st # "idle"
    \/ \E t \in Tabs, s \in Slots :
         req[t][s].kind = "logout" /\ req[t][s].tok = stored.refresh

(* Every request of a tab comes to an end: refused, joined to a refresh,   *)
(* sent once more or not (authorizedFetch).                                *)
RequestsReturn ==
  \A t \in Tabs, s \in Slots : req[t][s].st # "idle" ~> req[t][s].st = "idle"

(* The menu offers no page whose list the server refuses, unless the role  *)
(* has changed since (Layout, accessControl against the guards of the      *)
(* list handlers). One page is the exception: permissions.ts offers the    *)
(* approvals of dangerous operations to platform_ops, whom platform.go     *)
(* refuses, and nobody else is refused there.                              *)
OfferedInVain(r) == r.arg = "dangerous-approvals" /\ r.me.role = "platform_ops"
OfferedPagesAnswer ==
  [][\A t \in Tabs, s \in Slots :
       req[t][s].kind = "visit" /\ req[t][s].st = "sent" /\ req'[t][s].ans = "forbidden"
         => req[t][s].me # Me(owner[req[t][s].tok]) \/ OfferedInVain(req[t][s])]_vars

(* A tab that stays in the application with a token the server accepts     *)
(* comes to show the role the server knows, for a new role voids the       *)
(* tokens (getIdentity answers from the cache and corrects it behind the   *)
(* scenes).                                                                *)
SignedIn(t) == t \in cast.tabs /\ page[t] = "app" /\ stored.token \in valid
RoleCatchesUp ==
  \A t \in Tabs :
    <>[]SignedIn(t) => []<>(SignedIn(t) /\ shown[t] = Me(owner[stored.token]))
=============================================================================
