--------------------------- MODULE Session_proofs ---------------------------
(***************************************************************************)
(* Proofs about Session, for any number of tabs, requests and users and    *)
(* whatever the network loses: the refresh token the storage holds is good *)
(* for one more refresh, or its end is on the way; and the pages a person  *)
(* is offered answer as long as the role is the one they were offered to.  *)
(*                                                                         *)
(* A token is pending while an answer carries it that no tab has taken.    *)
(* The argument is that a pending token is good and known to nobody else,  *)
(* so that whatever the other tabs, a logout or a second refresh use up in *)
(* the meantime is a different one.                                        *)
(***************************************************************************)
EXTENDS Session, TLAPS

RoleNames == PlatformRoles \cup {"none"}
Someone == [who : Users \cup {"nobody"}, role : RoleNames]

Screens == {"login", "register", "app", "loading"}

Stores == [token : Nat, refresh : Nat, user : Someone]

Requests ==
  [kind : Kinds \cup {"none"}, st : {"idle", "sent", "waiting", "answered"}, tok : Nat, retried : BOOLEAN,
   arg : Users \cup Visited \cup {"none", "wait", "cached"},
   ans : {"none", "ok", "unauth", "forbidden", "lost"}, me : Someone]

Refreshes ==
  [st : {"idle", "sent", "found", "answered", "failed"}, tok : Nat, new : Nat, me : Someone]

SessionTypeOK ==
  /\ owner \in Seq(Users) /\ role \in [Users -> RoleNames]
  /\ live \subseteq 1..Len(owner) /\ valid \subseteq 1..Len(owner)
  /\ stored \in Stores /\ dead \in Nat /\ cast \in Casts
  /\ page \in [Tabs -> Screens] /\ shown \in [Tabs -> Someone]
  /\ refreshing \in [Tabs -> Refreshes] /\ req \in [Tabs -> [Slots -> Requests]]

\* A request that is on its way has the fields its kind and its place call for.
Shape(r) ==
  /\ r.st = "idle" => r = NoRequest
  /\ r.st = "sent" => r.ans = "none"
  /\ r.st = "waiting" => ~IsAuthPath(r) /\ r.ans = "unauth"
  /\ r.kind \in {"login", "register"} => r.arg \in Users
  /\ r.kind = "visit" /\ (r.st \in {"sent", "waiting"} \/ r.ans = "unauth") =>
       r.arg \in Visited \cap MenuItems(r.me.role)

ShapesOK == \A t \in Tabs, s \in Slots : Shape(req[t][s])

\* Nobody holds a token that was not issued.
KnownOK ==
  /\ stored.token <= Len(owner) /\ stored.refresh <= Len(owner)
  /\ \A t \in Tabs : /\ refreshing[t].tok <= Len(owner) /\ refreshing[t].new <= Len(owner)
                     /\ refreshing[t].st \in {"sent", "found", "answered"} => refreshing[t].tok # NoToken
  /\ \A t \in Tabs, s \in Slots : req[t][s].tok <= Len(owner)

\* An answer with a new token that its tab has not taken yet.
LoginDone(r) == r.kind = "login" /\ r.st = "answered" /\ r.ans = "ok"
RefreshDone(f) == f.st = "answered"

LoggingOut(r, n) == r.kind = "logout" /\ r.tok = n

\* A token that works and that nobody could use up.
Untouched(n) ==
  /\ n \in live /\ n # stored.refresh
  /\ \A t \in Tabs : refreshing[t].tok # n
  /\ \A t \in Tabs, s \in Slots : ~LoggingOut(req[t][s], n)

PendingOK ==
  /\ \A t \in Tabs : RefreshDone(refreshing[t]) => Untouched(refreshing[t].new)
  /\ \A t \in Tabs, s \in Slots : LoginDone(req[t][s]) => Untouched(req[t][s].tok)

\* No two answers carry the same token.
ApartOK ==
  /\ \A t, u \in Tabs :
       RefreshDone(refreshing[t]) /\ RefreshDone(refreshing[u]) /\ refreshing[t].new = refreshing[u].new => t = u
  /\ \A t, u \in Tabs, s \in Slots :
       RefreshDone(refreshing[t]) /\ LoginDone(req[u][s]) => refreshing[t].new # req[u][s].tok
  /\ \A t, u \in Tabs, s, v \in Slots :
       LoginDone(req[t][s]) /\ LoginDone(req[u][v]) /\ req[t][s].tok = req[u][v].tok => t = u /\ s = v

\* The server has used the token up, or may be about to, and the tab will hear of it.
Spending(f, n) == f.st \in {"found", "answered", "failed"} /\ f.tok = n

StoredOK ==
  stored.refresh # NoToken =>
    \/ stored.refresh \in live
    \/ stored.refresh = dead
    \/ \E t \in Tabs : Spending(refreshing[t], stored.refresh)
    \/ \E t \in Tabs, s \in Slots : LoggingOut(req[t][s], stored.refresh)

SInv == SessionTypeOK /\ ShapesOK /\ KnownOK /\ PendingOK /\ ApartOK /\ StoredOK

----------------------------------------------------------------------------
(* Values                                                                  *)

LEMMA NothingHasAShape ==
  /\ NoOne \in Someone /\ NoSession \in Stores /\ NoRefresh \in Refreshes
  /\ NoRequest \in Requests /\ Shape(NoRequest)
BY DEF NoOne, Someone, RoleNames, NoSession, Stores, NoRefresh, Refreshes, NoRequest, Requests, Shape, NoToken

LEMMA MeIsSomeone ==
  ASSUME SessionTypeOK, NEW u \in Users
  PROVE  Me(u) \in Someone
BY DEF SessionTypeOK, Me, Someone

\* Writing one request leaves the others alone.
LEMMA OneRequest ==
  ASSUME NEW q \in [Tabs -> [Slots -> Requests]], NEW t \in Tabs, NEW s \in Slots, NEW r \in Requests,
         NEW p, p = [q EXCEPT ![t][s] = r]
  PROVE  /\ p \in [Tabs -> [Slots -> Requests]] /\ p[t][s] = r
         /\ \A u \in Tabs, v \in Slots : u # t \/ v # s => p[u][v] = q[u][v]
OBVIOUS

----------------------------------------------------------------------------
(* Steps that issue no token and store none                                *)

\* The storage lets go of its refresh token, or the history says what became of it.
Excused ==
  stored'.refresh # stored.refresh \/ stored'.refresh = NoToken \/ dead' = stored.refresh

\* What a request may become in a step that issues no token.
Follows(r, r0) ==
  /\ r \in Requests /\ Shape(r) /\ r.tok <= Len(owner)
  /\ LoginDone(r) => r = r0
  /\ r.kind = "logout" => r.tok = stored.refresh \/ LoggingOut(r0, r.tok)
  /\ LoggingOut(r0, stored.refresh) => LoggingOut(r, stored.refresh) \/ Excused

\* The same of the refresh of a tab.
RefreshFollows(f, f0) ==
  /\ f \in Refreshes /\ f.tok <= Len(owner) /\ f.new <= Len(owner)
  /\ f.st \in {"sent", "found", "answered"} => f.tok # NoToken
  /\ RefreshDone(f) => f = f0
  /\ f.tok \in {f0.tok, stored.refresh, NoToken}
  /\ Spending(f0, stored.refresh) => Spending(f, stored.refresh) \/ Excused

\* The storage keeps its tokens, or is cleared.
StoreKept ==
  /\ stored' \in Stores
  /\ stored'.token \in {stored.token, NoToken} /\ stored'.refresh \in {stored.refresh, NoToken}

\* A step of one request alone, which may start the refresh of its tab.
Calm(t, s) ==
  /\ UNCHANGED <<live, owner, dead, cast>> /\ valid' \subseteq valid
  /\ refreshing' = refreshing \/ (refreshing[t].st = "idle" /\ StartRefresh(t))
  /\ role' \in [Users -> RoleNames] /\ StoreKept
  /\ page' \in [Tabs -> Screens] /\ shown' \in [Tabs -> Someone]
  /\ \E r : req' = [req EXCEPT ![t][s] = r] /\ Follows(r, req[t][s])

LEMMA SendIsCalm ==
  ASSUME SInv, NEW t \in Tabs, NEW s \in Slots, NEW r \in Requests, Send(t, s, r),
         r.tok <= Len(owner), r.ans = "none", r.kind # "none",
         r.kind \in {"login", "register"} => r.arg \in Users,
         r.kind = "visit" => r.arg \in Visited \cap MenuItems(r.me.role),
         r.kind = "logout" => r.tok = stored.refresh
  PROVE  \E k : req' = [req EXCEPT ![t][s] = k] /\ Follows(k, req[t][s])
<1> DEFINE k == [r EXCEPT !.st = "sent"]
<1>1. k \in Requests /\ k.st = "sent" /\ k.tok = r.tok /\ k.kind = r.kind /\ k.ans = r.ans
      /\ k.arg = r.arg /\ k.me = r.me
  BY DEF Requests
<1>2. req[t][s] = NoRequest /\ req' = [req EXCEPT ![t][s] = k]
  BY DEF Send, SInv, ShapesOK, Shape
<1> HIDE DEF k
<1>3. Follows(k, req[t][s])
  BY <1>1, <1>2 DEF Follows, Shape, LoginDone, LoggingOut, NoRequest
<1> QED BY <1>2, <1>3

LEMMA AnswerIsCalm ==
  ASSUME SInv, NEW t \in Tabs, NEW s \in Slots, NEW ans \in {"ok", "unauth", "forbidden", "lost"},
         NEW me \in Someone, Answer(t, s, ans, me), req[t][s].st \in {"sent", "answered"},
         ans = "ok" => req[t][s].kind # "login",
         req[t][s].kind = "visit" /\ ans = "unauth" => req[t][s].st = "sent" /\ me = req[t][s].me
  PROVE  \E k : req' = [req EXCEPT ![t][s] = k] /\ Follows(k, req[t][s])
<1> DEFINE r0 == req[t][s]
           k == [r0 EXCEPT !.st = "answered", !.ans = ans, !.me = me]
<1>0. r0 \in Requests /\ Shape(r0) /\ r0.tok <= Len(owner)
  BY DEF SInv, SessionTypeOK, ShapesOK, KnownOK
<1>1. k \in Requests /\ k.st = "answered" /\ k.tok = r0.tok /\ k.kind = r0.kind /\ k.ans = ans
      /\ k.arg = r0.arg /\ k.me = me
  BY <1>0 DEF Requests
<1>2. req' = [req EXCEPT ![t][s] = k]
  BY DEF Answer, SInv, SessionTypeOK
<1> HIDE DEF k
<1>3. Follows(k, r0)
  BY <1>0, <1>1 DEF Follows, Shape, LoginDone, LoggingOut
<1> QED BY <1>2, <1>3

LEMMA DoneIsCalm ==
  ASSUME SInv, NEW t \in Tabs, NEW s \in Slots, Done(t, s),
         req[t][s].kind # "logout" \/ Excused
  PROVE  \E k : req' = [req EXCEPT ![t][s] = k] /\ Follows(k, req[t][s])
<1>1. Follows(NoRequest, req[t][s])
  BY NothingHasAShape DEF Follows, NoRequest, LoginDone, LoggingOut, NoToken, SInv, SessionTypeOK
<1> QED BY <1>1 DEF Done

\* What a tab asks for.
LEMMA AskIsCalm ==
  ASSUME SInv, NEW t \in Tabs, NEW s \in Slots, Ask(t, s)
  PROVE  Calm(t, s)
<1>0. /\ stored \in Stores /\ stored.token \in Nat /\ stored.refresh \in Nat /\ stored.user \in Someone
      /\ stored.token <= Len(owner) /\ stored.refresh <= Len(owner)
      /\ role \in [Users -> RoleNames] /\ shown \in [Tabs -> Someone]
      /\ page \in [Tabs -> Screens]
      /\ req \in [Tabs -> [Slots -> Requests]]
  BY DEF SInv, SessionTypeOK, KnownOK, Stores
<1>3. req' = req => \E k : req' = [req EXCEPT ![t][s] = k] /\ Follows(k, req[t][s])
  <2>1. req = [req EXCEPT ![t][s] = req[t][s]]
    BY <1>0
  <2>2. Follows(req[t][s], req[t][s])
    BY <1>0 DEF Follows, ShapesOK, KnownOK, LoggingOut, SInv
  <2> QED BY <2>1, <2>2
<1>4. stored' = stored \/ stored' = NoSession => StoreKept
  BY <1>0, NothingHasAShape DEF StoreKept, NoSession
<1> DEFINE Follow == \E k : req' = [req EXCEPT ![t][s] = k] /\ Follows(k, req[t][s])
<1>5. CASE AskCheck(t, s)
  <2> DEFINE r == Request("check", "none")
  <2>1. r \in Requests /\ r.kind = "check" /\ r.tok = stored.token /\ r.ans = "none"
    BY <1>0, NothingHasAShape DEF Kinds, Request, NoRequest, Requests
  <2> HIDE DEF r
  <2>2. Send(t, s, r) => Follow
    BY <1>0, <2>1, SendIsCalm
  <2>3. Send(t, s, r) \/ req' = req
    BY <1>5 DEF AskCheck, r
  <2> QED BY <1>0, <1>3, <1>4, <1>5, <2>2, <2>3 DEF Screens, AskCheck, Calm, server
<1>6. CASE AskIdentity(t, s)
  <2> DEFINE r == Request("identity", IF stored.user = NoOne THEN "wait" ELSE "cached")
  <2>1. r \in Requests /\ r.kind = "identity" /\ r.tok = stored.token /\ r.ans = "none"
    BY <1>0, NothingHasAShape DEF Kinds, Request, NoRequest, Requests
  <2> HIDE DEF r
  <2>2. Send(t, s, r)
    BY <1>6 DEF AskIdentity, r
  <2>3. Follow
    BY <1>0, <2>1, <2>2, SendIsCalm
  <2> QED BY <1>0, <1>4, <1>6, <2>3 DEF AskIdentity, Calm, server
<1>7. CASE ClickLogout(t, s)
  <2> DEFINE r == [Request("logout", "none") EXCEPT !.tok = stored.refresh]
  <2>1. r \in Requests /\ r.kind = "logout" /\ r.tok = stored.refresh /\ r.ans = "none"
    BY <1>0, NothingHasAShape DEF Kinds, Request, NoRequest, Requests
  <2> HIDE DEF r
  <2>2. Send(t, s, r) => Follow
    BY <1>0, <2>1, SendIsCalm
  <2>3. /\ Send(t, s, r) \/ req' = req
        /\ stored' = stored \/ stored' = NoSession
        /\ page' = page \/ page' = [page EXCEPT ![t] = "login"]
    BY <1>7 DEF ClickLogout, r
  <2> QED BY <1>0, <1>3, <1>4, <1>7, <2>2, <2>3 DEF Screens, ClickLogout, Calm, server
<1>8. ASSUME NEW p \in Visited, Visit(t, s, p) PROVE Calm(t, s)
  <2> DEFINE r == [Request("visit", p) EXCEPT !.me = shown[t]]
  <2>0. shown[t] \in Someone
    BY <1>0
  <2>1. r \in Requests /\ r.kind = "visit" /\ r.tok = stored.token /\ r.ans = "none" /\ r.me = shown[t] /\ r.arg = p
    BY <1>0, <2>0, NothingHasAShape DEF Kinds, Request, NoRequest, Requests
  <2> HIDE DEF r
  <2>2. Send(t, s, r) /\ p \in MenuItems(shown[t].role)
    BY <1>8 DEF Visit, r
  <2>3. Follow
    BY <1>0, <2>1, <2>2, SendIsCalm
  <2> QED BY <1>0, <1>4, <1>8, <2>3 DEF Visit, Calm, server, screen
<1>9. ASSUME NEW u \in Users, SubmitLogin(t, s, u) \/ SubmitRegister(t, s, u) PROVE Calm(t, s)
  <2>1. ASSUME NEW kind \in {"login", "register"}, Send(t, s, Request(kind, u)) PROVE Follow
    <3> DEFINE r == Request(kind, u)
    <3>1. r \in Requests /\ r.kind = kind /\ r.tok = stored.token /\ r.ans = "none" /\ r.arg = u
      BY <1>0, NothingHasAShape DEF Kinds, Request, NoRequest, Requests
    <3> HIDE DEF r
    <3>2. Send(t, s, r)
      BY <2>1 DEF r
    <3> QED BY <1>0, <3>1, <3>2, SendIsCalm
  <2>2. Follow
    BY <1>9, <2>1 DEF SubmitLogin, SubmitRegister
  <2> QED BY <1>0, <1>4, <1>9, <2>2 DEF SubmitLogin, SubmitRegister, Calm, server, screen
<1> QED BY <1>5, <1>6, <1>7, <1>8, <1>9 DEF Ask

\* A refresh or a request that stays as it is follows itself.
LEMMA StayingFollows ==
  ASSUME SInv
  PROVE  /\ \A t \in Tabs : RefreshFollows(refreshing[t], refreshing[t])
         /\ \A t \in Tabs, s \in Slots : Follows(req[t][s], req[t][s])
BY DEF SInv, SessionTypeOK, ShapesOK, KnownOK, RefreshFollows, Follows, LoggingOut

----------------------------------------------------------------------------
(* What all these steps keep                                               *)

\* Some answer among these refreshes and requests carries the token.
Carried(n, refreshes, requests) ==
  \/ \E t \in Tabs : RefreshDone(refreshes[t]) /\ refreshes[t].new = n
  \/ \E t \in Tabs, s \in Slots : LoginDone(requests[t][s]) /\ requests[t][s].tok = n

\* A step that issues no token: what it stores nobody carries any longer, and
\* what it uses up somebody was spending.
Keeps ==
  /\ SessionTypeOK' /\ owner' = owner
  /\ stored'.token <= Len(owner) /\ stored'.refresh <= Len(owner)
  /\ \/ stored'.refresh \in {stored.refresh, NoToken}
     \/ stored'.refresh \in live' /\ ~Carried(stored'.refresh, refreshing', req')
  /\ \A t \in Tabs : RefreshFollows(refreshing'[t], refreshing[t])
  /\ \A t \in Tabs, s \in Slots : Follows(req'[t][s], req[t][s])
  /\ dead' \in {dead, stored.refresh}
  /\ live' \subseteq live
  /\ \A n \in live \ live' :
       \/ \E t \in Tabs : refreshing[t].tok = n /\ Spending(refreshing'[t], n)
       \/ \E t \in Tabs, s \in Slots : LoggingOut(req[t][s], n) /\ LoggingOut(req'[t][s], n)

LEMMA KeepsInv ==
  ASSUME SInv, Keeps
  PROVE  SInv'
<1>1. ShapesOK' /\ KnownOK'
  BY DEF Keeps, ShapesOK, KnownOK, Follows, RefreshFollows
<1>3. ASSUME NEW n, Untouched(n), Carried(n, refreshing', req') PROVE Untouched(n)'
  <2>1. n # NoToken
    BY <1>3 DEF Untouched, NoToken, SInv, SessionTypeOK
  <2>2. n # stored'.refresh
    BY <1>3, <2>1 DEF Keeps, Untouched
  <2>3. \A t \in Tabs : refreshing'[t].tok # n
    BY <1>3, <2>1 DEF Keeps, RefreshFollows, Untouched
  <2>4. \A t \in Tabs, s \in Slots : ~LoggingOut(req'[t][s], n)
    BY <1>3 DEF Keeps, Follows, Untouched, LoggingOut
  <2>5. n \in live'
    BY <1>3 DEF Keeps, Untouched
  <2> QED BY <2>2, <2>3, <2>4, <2>5 DEF Untouched
<1>4. PendingOK'
  <2>1. \A t \in Tabs : RefreshDone(refreshing'[t]) => Untouched(refreshing'[t].new)
    BY DEF SInv, PendingOK, Keeps, RefreshFollows
  <2>2. \A t \in Tabs, s \in Slots : LoginDone(req'[t][s]) => Untouched(req'[t][s].tok)
    BY DEF SInv, PendingOK, Keeps, Follows
  <2>3. \A t \in Tabs : RefreshDone(refreshing'[t]) => Carried(refreshing'[t].new, refreshing', req')
    BY DEF Carried
  <2>4. \A t \in Tabs, s \in Slots : LoginDone(req'[t][s]) => Carried(req'[t][s].tok, refreshing', req')
    BY DEF Carried
  <2> QED BY <1>3, <2>1, <2>2, <2>3, <2>4 DEF PendingOK
<1>5. ApartOK'
  <2>1. \A t \in Tabs : RefreshDone(refreshing'[t]) => refreshing'[t] = refreshing[t]
    BY DEF Keeps, RefreshFollows
  <2>2. \A t \in Tabs, s \in Slots : LoginDone(req'[t][s]) => req'[t][s] = req[t][s]
    BY DEF Keeps, Follows
  <2> QED BY <2>1, <2>2 DEF SInv, ApartOK
<1>6. StoredOK'
  <2> SUFFICES ASSUME stored'.refresh # NoToken, stored'.refresh \notin live', stored'.refresh # dead'
               PROVE  \/ \E t \in Tabs : Spending(refreshing'[t], stored'.refresh)
                      \/ \E t \in Tabs, s \in Slots : LoggingOut(req'[t][s], stored'.refresh)
    BY DEF StoredOK
  <2>1. stored'.refresh = stored.refresh /\ ~Excused
    BY DEF Keeps, Excused
  <2>2. CASE stored.refresh \in live
    BY <2>1, <2>2 DEF Keeps
  <2>3. CASE \E t \in Tabs : Spending(refreshing[t], stored.refresh)
    BY <2>1, <2>3 DEF Keeps, RefreshFollows
  <2>4. CASE \E t \in Tabs, s \in Slots : LoggingOut(req[t][s], stored.refresh)
    BY <2>1, <2>4 DEF Keeps, Follows
  <2>5. stored.refresh # dead
    BY <2>1 DEF Keeps
  <2> QED BY <2>1, <2>2, <2>3, <2>4, <2>5 DEF SInv, StoredOK
<1> QED BY <1>1, <1>4, <1>5, <1>6 DEF Keeps, SInv

LEMMA StartFollows ==
  ASSUME SInv, NEW t \in Tabs, refreshing[t].st = "idle", StartRefresh(t)
  PROVE  /\ refreshing' \in [Tabs -> Refreshes]
         /\ \A u \in Tabs : RefreshFollows(refreshing'[u], refreshing[u])
<1>1. PICK f : /\ refreshing' = [refreshing EXCEPT ![t] = f]
               /\ f \in Refreshes /\ f.new = NoToken /\ f.tok \in {stored.refresh, NoToken}
               /\ f.st \in {"sent", "failed"} /\ (f.st = "sent" => f.tok # NoToken)
  <2>1. stored.refresh \in Nat
    BY DEF SInv, SessionTypeOK, Stores
  <2> DEFINE f == IF stored.refresh = NoToken THEN [NoRefresh EXCEPT !.st = "failed"]
                  ELSE [NoRefresh EXCEPT !.st = "sent", !.tok = stored.refresh]
  <2>2. refreshing' = [refreshing EXCEPT ![t] = f]
    BY DEF StartRefresh
  <2>3. /\ f \in Refreshes /\ f.new = NoToken /\ f.tok \in {stored.refresh, NoToken}
        /\ f.st \in {"sent", "failed"} /\ (f.st = "sent" => f.tok # NoToken)
    BY <2>1, NothingHasAShape DEF NoRefresh, Refreshes
  <2> HIDE DEF f
  <2> QED BY <2>2, <2>3
<1>2. RefreshFollows(f, refreshing[t])
  BY <1>1 DEF RefreshFollows, RefreshDone, Spending, SInv, KnownOK, SessionTypeOK, NoToken
<1> QED BY <1>1, <1>2, StayingFollows DEF SInv, SessionTypeOK

LEMMA CalmKeeps ==
  ASSUME SInv, NEW t \in Tabs, NEW s \in Slots, Calm(t, s)
  PROVE  SInv'
<1>1. /\ \A u \in Tabs : RefreshFollows(refreshing'[u], refreshing[u])
      /\ refreshing' \in [Tabs -> Refreshes]
  BY StartFollows, StayingFollows DEF Calm, SInv, SessionTypeOK
<1>2. PICK k : req' = [req EXCEPT ![t][s] = k] /\ Follows(k, req[t][s])
  BY DEF Calm
<1>3. /\ \A u \in Tabs, v \in Slots : Follows(req'[u][v], req[u][v])
      /\ req' \in [Tabs -> [Slots -> Requests]]
  <2>1. req \in [Tabs -> [Slots -> Requests]] /\ k \in Requests
    BY <1>2 DEF SInv, SessionTypeOK, Follows
  <2>2. /\ req' \in [Tabs -> [Slots -> Requests]] /\ req'[t][s] = k
        /\ \A u \in Tabs, v \in Slots : u # t \/ v # s => req'[u][v] = req[u][v]
    BY <1>2, <2>1, OneRequest
  <2> QED BY <1>2, <2>2, StayingFollows
<1>4. SessionTypeOK'
  BY <1>1, <1>3 DEF Calm, StoreKept, SInv, SessionTypeOK
<1>5. Keeps
  <2>1. stored'.token <= Len(owner) /\ stored'.refresh <= Len(owner)
    BY DEF Calm, StoreKept, SInv, SessionTypeOK, KnownOK, NoToken
  <2> QED BY <1>1, <1>3, <1>4, <2>1 DEF Keeps, Calm, StoreKept
<1> QED BY <1>5, KeepsInv

LEMMA IssuedToAUser ==
  ASSUME NEW q \in Seq(Users), NEW n \in 1..Len(q)
  PROVE  q[n] \in Users
OBVIOUS

LEMMA SeqIsNotItsOwnAppend ==
  ASSUME NEW q \in Seq(Users), NEW u
  PROVE  Append(q, u) # q
<1>1. Len(Append(q, u)) = Len(q) + 1 /\ Len(q) \in Nat
  OBVIOUS
<1> QED BY <1>1

\* What the server answers, when it changes no token.
LEMMA ServeIsCalm ==
  ASSUME SInv, NEW t \in Tabs, NEW s \in Slots,
         \/ ServeRegister(t, s) \/ ServeOther(t, s) \/ Lose(t, s)
         \/ ServeLogin(t, s) /\ UNCHANGED owner
  PROVE  Calm(t, s)
<1> DEFINE r == req[t][s]
           Follow == \E k : req' = [req EXCEPT ![t][s] = k] /\ Follows(k, req[t][s])
<1>1. /\ r \in Requests /\ Shape(r) /\ r.me \in Someone /\ NoOne \in Someone
      /\ stored \in Stores /\ role \in [Users -> RoleNames] /\ shown \in [Tabs -> Someone]
      /\ page \in [Tabs -> Screens]
      /\ owner \in Seq(Users) /\ valid \subseteq 1..Len(owner)
  BY NothingHasAShape DEF SInv, SessionTypeOK, ShapesOK, Requests
<1>2. CASE ServeRegister(t, s)
  <2>1. r.arg \in Users
    BY <1>1, <1>2 DEF ServeRegister, Shape
  <2>2. role' \in [Users -> RoleNames]
    BY <1>1, <1>2, <2>1 DEF ServeRegister, RoleNames, PlatformRoles
  <2>3. Follow
    BY <1>1, <1>2, AnswerIsCalm DEF ServeRegister
  <2> QED BY <1>1, <1>2, <2>2, <2>3 DEF ServeRegister, Calm, StoreKept, screen
<1>3. CASE ServeOther(t, s)
  <2>1. ASSUME r.tok \in valid PROVE Me(owner[r.tok]) \in Someone
    <3>1. owner[r.tok] \in Users
      BY <1>1, <2>1, IssuedToAUser
    <3> QED BY <3>1, MeIsSomeone DEF SInv
  <2>2. PICK ans \in {"ok", "unauth", "forbidden"}, me \in Someone :
          Answer(t, s, ans, me) /\ (ans = "unauth" => me = r.me)
    BY <1>1, <1>3, <2>1 DEF ServeOther
  <2>3. r.st = "sent" /\ r.kind # "login"
    BY <1>3 DEF ServeOther, IsAuthPath
  <2>4. Follow
    BY <1>1, <2>2, <2>3, AnswerIsCalm
  <2> QED BY <1>1, <1>3, <2>4 DEF ServeOther, Calm, StoreKept, server, screen
<1>4. CASE Lose(t, s)
  <2>1. Follow
    BY <1>1, <1>4, AnswerIsCalm DEF Lose
  <2> QED BY <1>1, <1>4, <2>1 DEF Lose, Calm, StoreKept, server, screen
<1>5. CASE ServeLogin(t, s) /\ UNCHANGED owner
  <2>1. Answer(t, s, "unauth", NoOne) /\ UNCHANGED <<live, valid>>
    BY <1>1, <1>5, SeqIsNotItsOwnAppend DEF ServeLogin, Issue
  <2>2. Follow
    BY <1>1, <1>5, <2>1, AnswerIsCalm DEF ServeLogin
  <2> QED BY <1>1, <1>5, <2>1, <2>2 DEF ServeLogin, Calm, StoreKept, screen
<1> QED BY <1>2, <1>3, <1>4, <1>5

LEMMA AwaitIsCalm ==
  ASSUME SInv, NEW t \in Tabs, NEW s \in Slots, AwaitRefresh(t, s)
  PROVE  Calm(t, s)
<1> DEFINE r == req[t][s]
           k == [r EXCEPT !.st = "waiting"]
<1>1. /\ r \in Requests /\ Shape(r) /\ r.tok <= Len(owner) /\ stored \in Stores
      /\ role \in [Users -> RoleNames] /\ shown \in [Tabs -> Someone]
      /\ page \in [Tabs -> Screens]
  BY DEF SInv, SessionTypeOK, ShapesOK, KnownOK
<1>2. /\ k \in Requests /\ k.st = "waiting" /\ k.tok = r.tok /\ k.kind = r.kind /\ k.ans = r.ans
      /\ k.arg = r.arg /\ k.me = r.me
  BY <1>1 DEF Requests
<1>3. req' = [req EXCEPT ![t][s] = k]
  BY DEF AwaitRefresh, SInv, SessionTypeOK
<1>4. r.st = "answered" /\ r.ans = "unauth" /\ ~IsAuthPath(r)
  BY DEF AwaitRefresh
<1> HIDE DEF k
<1>5. Follows(k, r)
  BY <1>1, <1>2, <1>4 DEF Follows, Shape, LoginDone, LoggingOut, IsAuthPath
<1> QED BY <1>1, <1>3, <1>5 DEF AwaitRefresh, Calm, StoreKept, server, screen

\* What a caller makes of an answer, but for a login that succeeded.
LEMMA ReturnIsCalm ==
  ASSUME SInv, NEW t \in Tabs, NEW s \in Slots, Return(t, s),
         req[t][s].kind = "login" => req[t][s].ans # "ok"
  PROVE  Calm(t, s)
<1> DEFINE r == req[t][s]
<1>1. /\ r \in Requests /\ r.me \in Someone /\ stored \in Stores
      /\ role \in [Users -> RoleNames] /\ shown \in [Tabs -> Someone] /\ page \in [Tabs -> Screens]
  BY DEF SInv, SessionTypeOK, Requests
<1>2. /\ UNCHANGED <<live, valid, owner, role, refreshing, dead, cast>> /\ Done(t, s)
  BY DEF Return, LoginReturns, RegisterReturns, LogoutReturns, CheckReturns, IdentityReturns, VisitReturns, server
<1>3. /\ page' \in [Tabs -> Screens] /\ shown' \in [Tabs -> Someone]
  BY <1>1 DEF Return, LoginReturns, RegisterReturns, LogoutReturns, CheckReturns, IdentityReturns, VisitReturns, Screens
<1>4. StoreKept /\ (r.kind = "logout" => stored'.refresh = NoToken)
  <2>1. stored' \in {stored, NoSession, [stored EXCEPT !.user = r.me]}
    BY DEF Return, LoginReturns, RegisterReturns, LogoutReturns, CheckReturns, IdentityReturns, VisitReturns, Answered
  <2>2. StoreKept
    BY <1>1, <2>1, NothingHasAShape DEF StoreKept, Stores, NoSession
  <2>3. r.kind = "logout" => stored' = NoSession
    BY DEF Return, LoginReturns, RegisterReturns, LogoutReturns, CheckReturns, IdentityReturns, VisitReturns, Answered
  <2> QED BY <2>2, <2>3 DEF NoSession
<1>5. \E k : req' = [req EXCEPT ![t][s] = k] /\ Follows(k, req[t][s])
  BY <1>2, <1>4, DoneIsCalm DEF Excused
<1> QED BY <1>1, <1>2, <1>3, <1>4, <1>5 DEF Calm

----------------------------------------------------------------------------
(* The steps that are not calm                                             *)

\* Steps that leave the tokens, the requests and the refreshes alone.
LEMMA QuietKeeps ==
  ASSUME SInv,
         \/ \E t \in Tabs : FoldRegister(t)
         \/ \E n \in Tokens : ExpireAccess(n)
         \/ \E u \in Users, r \in PlatformRoles : ChangeRole(u, r)
  PROVE  SInv'
<1>1. UNCHANGED <<live, owner, stored, shown, refreshing, req, dead, cast>> /\ valid' \subseteq valid
  BY DEF FoldRegister, ExpireAccess, ChangeRole, server, screen
<1>2. role' \in [Users -> RoleNames] /\ page' \in [Tabs -> Screens]
  BY DEF FoldRegister, ExpireAccess, ChangeRole, server, screen, SInv, SessionTypeOK, RoleNames, Screens
<1>3. Keeps
  BY <1>1, <1>2, StayingFollows DEF Keeps, SInv, SessionTypeOK, KnownOK
<1> QED BY <1>3, KeepsInv

LEMMA LogoutServedKeeps ==
  ASSUME SInv, NEW t \in Tabs, NEW s \in Slots, ServeLogout(t, s)
  PROVE  SInv'
<1> DEFINE r == req[t][s]
           k == [r EXCEPT !.st = "answered", !.ans = "ok", !.me = NoOne]
<1>1. r \in Requests /\ Shape(r) /\ r.tok <= Len(owner) /\ r.kind = "logout" /\ r.st = "sent"
  BY DEF SInv, SessionTypeOK, ShapesOK, KnownOK, ServeLogout
<1>2. k \in Requests /\ k.st = "answered" /\ k.tok = r.tok /\ k.kind = r.kind /\ k.ans = "ok"
  BY <1>1, NothingHasAShape DEF Requests
<1>3. req' = [req EXCEPT ![t][s] = k]
  BY DEF ServeLogout, Answer, SInv, SessionTypeOK
<1> HIDE DEF k
<1>4. Follows(k, r)
  BY <1>1, <1>2 DEF Follows, Shape, LoginDone, LoggingOut
<1>5. /\ req' \in [Tabs -> [Slots -> Requests]] /\ req'[t][s] = k
      /\ \A u \in Tabs, v \in Slots : u # t \/ v # s => req'[u][v] = req[u][v]
  BY <1>2, <1>3, OneRequest DEF SInv, SessionTypeOK
<1>6. \A u \in Tabs, v \in Slots : Follows(req'[u][v], req[u][v])
  BY <1>4, <1>5, StayingFollows
<1>7. LoggingOut(req[t][s], r.tok) /\ LoggingOut(req'[t][s], r.tok)
  BY <1>1, <1>2, <1>5 DEF LoggingOut
<1>8. live' = live \ {r.tok} /\ UNCHANGED <<valid, owner, role, stored, page, shown, refreshing, dead, cast>>
  BY DEF ServeLogout, screen
<1>9. Keeps
  BY <1>5, <1>6, <1>7, <1>8, StayingFollows DEF Keeps, SInv, SessionTypeOK, KnownOK
<1> QED BY <1>9, KeepsInv

\* The refresh of a tab asks, loses its token or its answer.
LEMMA RefreshingKeeps ==
  ASSUME SInv, NEW t \in Tabs, RefreshLookup(t) \/ RefreshDropped(t) \/ LoseRefresh(t)
  PROVE  SInv'
<1> DEFINE f == refreshing[t]
<1>1. f \in Refreshes /\ f.tok <= Len(owner) /\ f.new <= Len(owner)
      /\ (f.st \in {"sent", "found", "answered"} => f.tok # NoToken)
  BY DEF SInv, SessionTypeOK, KnownOK
<1>2. PICK st \in {"found", "failed"} : refreshing' = [refreshing EXCEPT ![t].st = st]
  BY DEF RefreshLookup, RefreshDropped, LoseRefresh
<1> DEFINE k == [f EXCEPT !.st = st]
<1>3. /\ k \in Refreshes /\ k.st = st /\ k.tok = f.tok /\ k.new = f.new
      /\ refreshing' = [refreshing EXCEPT ![t] = k] /\ f.st \in {"sent", "found", "answered"}
  BY <1>1, <1>2 DEF Refreshes, RefreshLookup, RefreshDropped, LoseRefresh, SInv, SessionTypeOK
<1> HIDE DEF k
<1>4. RefreshFollows(k, f)
  BY <1>1, <1>3 DEF RefreshFollows, RefreshDone, Spending
<1>5. /\ refreshing' \in [Tabs -> Refreshes] /\ refreshing'[t] = k
      /\ \A u \in Tabs : RefreshFollows(refreshing'[u], refreshing[u])
  BY <1>3, <1>4, StayingFollows DEF SInv, SessionTypeOK
<1>6. UNCHANGED <<valid, owner, role, stored, page, shown, req, cast>> /\ dead' \in {dead, stored.refresh}
  BY DEF RefreshLookup, RefreshDropped, LoseRefresh, server, screen
<1>7. live' = live \/ (live' = live \ {f.tok} /\ st = "failed")
  <2>1. CASE RefreshDropped(t)
    <3>1. refreshing'[t].st = "failed" /\ live' = live \ {f.tok}
      BY <2>1 DEF RefreshDropped, SInv, SessionTypeOK
    <3> QED BY <3>1, <1>3, <1>5
  <2> QED BY <2>1 DEF RefreshLookup, LoseRefresh, server
<1>8. st = "failed" => refreshing[t].tok = f.tok /\ Spending(refreshing'[t], f.tok)
  BY <1>3, <1>5 DEF Spending
<1>9. stored.refresh \in Nat
  BY DEF SInv, SessionTypeOK, Stores
<1>10. Keeps
  <2>1. SessionTypeOK'
    BY <1>5, <1>6, <1>7, <1>9 DEF SInv, SessionTypeOK
  <2> QED BY <1>5, <1>6, <1>7, <1>8, <2>1, StayingFollows DEF Keeps, SInv, KnownOK
<1> QED BY <1>10, KeepsInv

\* The tab of a refresh that ended is out of it.
LEMMA IdleFollows ==
  ASSUME SInv, NEW t \in Tabs, refreshing' = [refreshing EXCEPT ![t] = NoRefresh],
         Spending(refreshing[t], stored.refresh) => Excused
  PROVE  /\ refreshing' \in [Tabs -> Refreshes]
         /\ \A u \in Tabs : RefreshFollows(refreshing'[u], refreshing[u])
         /\ \A u \in Tabs : RefreshDone(refreshing'[u]) => u # t
<1>1. /\ NoRefresh \in Refreshes /\ NoRefresh.st = "idle" /\ NoRefresh.tok = NoToken /\ NoRefresh.new = NoToken
  BY NothingHasAShape DEF NoRefresh
<1>2. /\ refreshing \in [Tabs -> Refreshes] /\ Len(owner) \in Nat
  BY DEF SInv, SessionTypeOK
<1>3. RefreshFollows(NoRefresh, refreshing[t])
  BY <1>1, <1>2 DEF RefreshFollows, RefreshDone, NoToken
<1>4. refreshing' \in [Tabs -> Refreshes] /\ refreshing'[t] = NoRefresh
      /\ \A u \in Tabs : u # t => refreshing'[u] = refreshing[u]
  BY <1>1, <1>2
<1> QED BY <1>1, <1>3, <1>4, StayingFollows DEF RefreshDone

\* Who waited for the refresh of a tab is sent once more, or hears of the 401.
Goes(k, r) ==
  /\ k \in Requests /\ k.kind = r.kind /\ k.arg = r.arg /\ k.me = r.me /\ k.tok <= Len(owner)
  /\ \/ k.st = "sent" /\ k.ans = "none"
     \/ k.st = "answered" /\ k.ans = r.ans

LEMMA WaiterGoes ==
  ASSUME NEW r \in Requests, NEW n \in Nat, n <= Len(owner), r.tok <= Len(owner)
  PROVE  /\ Goes([r EXCEPT !.st = "sent", !.tok = n, !.retried = TRUE, !.ans = "none"], r)
         /\ Goes([r EXCEPT !.st = "answered", !.retried = TRUE], r)
BY DEF Goes, Requests

LEMMA WaitersFollow ==
  ASSUME SInv, NEW t \in Tabs, req' \in [Tabs -> [Slots -> Requests]],
         \A u \in Tabs : u # t => req'[u] = req[u],
         \A s \in Slots : IF req[t][s].st # "waiting" THEN req'[t][s] = req[t][s]
                          ELSE Goes(req'[t][s], req[t][s])
  PROVE  \A u \in Tabs, v \in Slots : Follows(req'[u][v], req[u][v])
<1>1. ASSUME NEW s \in Slots, req[t][s].st = "waiting" PROVE Follows(req'[t][s], req[t][s])
  <2>1. Shape(req[t][s])
    BY DEF SInv, ShapesOK
  <2> QED BY <1>1, <2>1 DEF Goes, Follows, Shape, LoginDone, LoggingOut, IsAuthPath
<1>2. \A s \in Slots : Follows(req'[t][s], req[t][s])
  BY <1>1, StayingFollows
<1> QED BY <1>2, StayingFollows

LEMMA SucceedsKeeps ==
  ASSUME SInv, NEW t \in Tabs, RefreshSucceeds(t)
  PROVE  SInv'
<1> DEFINE f == refreshing[t]
           k == [s \in Slots |->
                   IF req[t][s].st # "waiting" THEN req[t][s]
                   ELSE [req[t][s] EXCEPT !.st = "sent", !.tok = f.new, !.retried = TRUE, !.ans = "none"]]
<1>1. f \in Refreshes /\ f.new <= Len(owner) /\ f.new \in Nat /\ f.me \in Someone /\ RefreshDone(f) /\ Untouched(f.new)
  BY DEF SInv, SessionTypeOK, KnownOK, PendingOK, Refreshes, RefreshSucceeds, RefreshDone
<1>2. req \in [Tabs -> [Slots -> Requests]]
  BY DEF SInv, SessionTypeOK
<1>3. ASSUME NEW s \in Slots, req[t][s].st = "waiting" PROVE k[s] \in Requests /\ Goes(k[s], req[t][s])
  <2>1. req[t][s] \in Requests /\ req[t][s].tok <= Len(owner)
    BY <1>2 DEF SInv, KnownOK
  <2>2. Goes([req[t][s] EXCEPT !.st = "sent", !.tok = f.new, !.retried = TRUE, !.ans = "none"], req[t][s])
    BY <1>1, <2>1, WaiterGoes
  <2> QED BY <1>3, <2>2 DEF Goes
<1>4. \A s \in Slots : req[t][s].st # "waiting" => k[s] = req[t][s]
  OBVIOUS
<1>5. /\ req' \in [Tabs -> [Slots -> Requests]]
      /\ \A u \in Tabs, v \in Slots : Follows(req'[u][v], req[u][v])
  <2>1. req' = [req EXCEPT ![t] = k]
    BY <1>2 DEF RefreshSucceeds
  <2>2. k \in [Slots -> Requests]
    <3>1. k = [s \in Slots |-> k[s]]
      OBVIOUS
    <3> HIDE DEF k
    <3>2. \A s \in Slots : k[s] \in Requests
      BY <1>2, <1>3, <1>4
    <3> QED BY <3>1, <3>2
  <2> HIDE DEF k
  <2>3. req' \in [Tabs -> [Slots -> Requests]] /\ req'[t] = k /\ \A u \in Tabs : u # t => req'[u] = req[u]
    BY <1>2, <2>1, <2>2
  <2> QED BY <1>3, <1>4, <2>3, WaitersFollow
<1>6. /\ stored' \in Stores /\ stored'.token = f.new /\ stored'.refresh = f.new
      /\ UNCHANGED <<live, valid, owner, role, page, shown, dead, cast>>
  BY <1>1 DEF RefreshSucceeds, Stores, server, screen
<1>7. Excused
  BY <1>1, <1>6 DEF Excused, Untouched
<1>8. /\ refreshing' \in [Tabs -> Refreshes]
      /\ \A u \in Tabs : RefreshFollows(refreshing'[u], refreshing[u])
      /\ \A u \in Tabs : RefreshDone(refreshing'[u]) => u # t
  BY <1>7, IdleFollows DEF RefreshSucceeds
<1>9. ~Carried(f.new, refreshing', req')
  <2>1. \A u \in Tabs : RefreshDone(refreshing'[u]) => refreshing'[u].new # f.new
    BY <1>1, <1>8 DEF RefreshFollows, SInv, ApartOK
  <2>2. \A u \in Tabs, v \in Slots : LoginDone(req'[u][v]) => req'[u][v].tok # f.new
    BY <1>1, <1>5 DEF Follows, SInv, ApartOK
  <2> QED BY <2>1, <2>2 DEF Carried
<1>10. Keeps
  <2>1. SessionTypeOK'
    BY <1>5, <1>6, <1>8 DEF SInv, SessionTypeOK
  <2>2. f.new \in live'
    BY <1>1, <1>6 DEF Untouched
  <2> QED BY <1>1, <1>5, <1>6, <1>8, <1>9, <2>1, <2>2 DEF Keeps
<1> QED BY <1>10, KeepsInv

LEMMA LoginReturnsKeeps ==
  ASSUME SInv, NEW t \in Tabs, NEW s \in Slots, LoginReturns(t, s), req[t][s].ans = "ok"
  PROVE  SInv'
<1> DEFINE r == req[t][s]
<1>1. /\ r \in Requests /\ r.tok <= Len(owner) /\ r.tok \in Nat /\ r.me \in Someone
      /\ LoginDone(r) /\ Untouched(r.tok) /\ req \in [Tabs -> [Slots -> Requests]]
  BY DEF SInv, SessionTypeOK, KnownOK, PendingOK, Requests, LoginReturns, LoginDone, Answered
<1>2. /\ stored' \in Stores /\ stored'.token = r.tok /\ stored'.refresh = r.tok
      /\ UNCHANGED <<live, valid, owner, role, shown, refreshing, dead, cast>>
      /\ page' \in [Tabs -> Screens] /\ req' = [req EXCEPT ![t][s] = NoRequest]
  BY <1>1 DEF LoginReturns, Stores, server, Done, SInv, SessionTypeOK, Screens
<1>3. /\ req' \in [Tabs -> [Slots -> Requests]] /\ req'[t][s] = NoRequest
      /\ \A u \in Tabs, v \in Slots : u # t \/ v # s => req'[u][v] = req[u][v]
  BY <1>1, <1>2, OneRequest, NothingHasAShape
<1>4. Follows(NoRequest, r)
  BY <1>1, NothingHasAShape DEF Follows, NoRequest, LoginDone, LoggingOut, NoToken, SInv, SessionTypeOK
<1>5. \A u \in Tabs, v \in Slots : Follows(req'[u][v], req[u][v])
  BY <1>3, <1>4, StayingFollows
<1>6. ~Carried(r.tok, refreshing', req')
  <2>1. \A u \in Tabs : RefreshDone(refreshing[u]) => refreshing[u].new # r.tok
    BY <1>1 DEF SInv, ApartOK
  <2>2. \A u \in Tabs, v \in Slots : LoginDone(req'[u][v]) => req'[u][v].tok # r.tok
    <3>1. ~LoginDone(NoRequest)
      BY DEF LoginDone, NoRequest
    <3> QED BY <1>1, <1>3, <3>1 DEF SInv, ApartOK
  <2> QED BY <1>2, <2>1, <2>2 DEF Carried
<1>7. Keeps
  <2>1. SessionTypeOK'
    BY <1>2, <1>3 DEF SInv, SessionTypeOK
  <2>2. r.tok \in live'
    BY <1>1, <1>2 DEF Untouched
  <2> QED BY <1>1, <1>2, <1>5, <1>6, <2>1, <2>2, StayingFollows DEF Keeps
<1> QED BY <1>7, KeepsInv

LEMMA FailsKeeps ==
  ASSUME SInv, NEW t \in Tabs, RefreshFails(t)
  PROVE  SInv'
<1>1. /\ req \in [Tabs -> [Slots -> Requests]] /\ page \in [Tabs -> Screens] /\ shown \in [Tabs -> Someone]
  BY DEF SInv, SessionTypeOK
<1>2. /\ stored' = NoSession /\ refreshing' = [refreshing EXCEPT ![t] = NoRefresh]
      /\ UNCHANGED <<live, valid, owner, role, dead, cast>>
      /\ page' \in [Tabs -> Screens] /\ shown' \in [Tabs -> Someone]
  BY <1>1, NothingHasAShape DEF RefreshFails, server, screen, Screens
<1>3. Excused /\ stored' \in Stores /\ stored'.token = NoToken /\ stored'.refresh = NoToken
  BY <1>2, NothingHasAShape DEF Excused, NoSession
<1>4. /\ refreshing' \in [Tabs -> Refreshes]
      /\ \A u \in Tabs : RefreshFollows(refreshing'[u], refreshing[u])
  BY <1>2, <1>3, IdleFollows
<1>5. /\ req' \in [Tabs -> [Slots -> Requests]]
      /\ \A u \in Tabs, v \in Slots : Follows(req'[u][v], req[u][v])
  <2>1. CASE AtLogin(t)
    <3> DEFINE k == [s \in Slots |-> IF req[t][s].st # "waiting" THEN req[t][s]
                                     ELSE [req[t][s] EXCEPT !.st = "answered", !.retried = TRUE]]
    <3>1. req' = [req EXCEPT ![t] = k]
      BY <1>1, <2>1 DEF RefreshFails
    <3>2. ASSUME NEW s \in Slots, req[t][s].st = "waiting" PROVE k[s] \in Requests /\ Goes(k[s], req[t][s])
      <4>1. req[t][s] \in Requests /\ req[t][s].tok <= Len(owner) /\ req[t][s].tok \in Nat
        BY <1>1 DEF SInv, KnownOK, Requests
      <4>2. Goes([req[t][s] EXCEPT !.st = "answered", !.retried = TRUE], req[t][s])
        BY <4>1, WaiterGoes
      <4> QED BY <3>2, <4>2 DEF Goes
    <3>3. \A s \in Slots : req[t][s].st # "waiting" => k[s] = req[t][s]
      OBVIOUS
    <3>4. k \in [Slots -> Requests]
      <4>1. k = [s \in Slots |-> k[s]]
        OBVIOUS
      <4> HIDE DEF k
      <4>2. \A s \in Slots : k[s] \in Requests
        BY <1>1, <3>2, <3>3
      <4> QED BY <4>1, <4>2
    <3> HIDE DEF k
    <3>5. req' \in [Tabs -> [Slots -> Requests]] /\ req'[t] = k /\ \A u \in Tabs : u # t => req'[u] = req[u]
      BY <1>1, <3>1, <3>4
    <3> QED BY <3>2, <3>3, <3>5, WaitersFollow
  <2>2. CASE ~AtLogin(t)
    <3>1. \A s \in Slots : Follows(NoRequest, req[t][s])
      BY <1>3, NothingHasAShape DEF Follows, NoRequest, LoginDone, LoggingOut, NoToken, SInv, SessionTypeOK
    <3>2. req' = [req EXCEPT ![t] = [s \in Slots |-> NoRequest]]
      BY <2>2 DEF RefreshFails
    <3>3. /\ req' \in [Tabs -> [Slots -> Requests]] /\ \A s \in Slots : req'[t][s] = NoRequest
          /\ \A u \in Tabs : u # t => req'[u] = req[u]
      BY <1>1, <3>2, NothingHasAShape
    <3> QED BY <3>1, <3>3, StayingFollows
  <2> QED BY <2>1, <2>2
<1>6. Keeps
  <2>1. SessionTypeOK'
    BY <1>2, <1>3, <1>4, <1>5 DEF SInv, SessionTypeOK
  <2> QED BY <1>2, <1>3, <1>4, <1>5, <2>1 DEF Keeps, NoToken, SInv, SessionTypeOK
<1> QED BY <1>6, KeepsInv

LEMMA ReloadKeeps ==
  ASSUME SInv, NEW t \in Tabs, Reload(t)
  PROVE  SInv'
<1>1. /\ req \in [Tabs -> [Slots -> Requests]] /\ page \in [Tabs -> Screens] /\ shown \in [Tabs -> Someone]
      /\ stored \in Stores /\ stored.refresh \in Nat
  BY DEF SInv, SessionTypeOK, Stores
<1>2. /\ refreshing' = [refreshing EXCEPT ![t] = NoRefresh]
      /\ UNCHANGED <<live, valid, owner, role, stored, cast>>
      /\ page' \in [Tabs -> Screens] /\ shown' \in [Tabs -> Someone] /\ dead' \in {dead, stored.refresh}
  BY <1>1, NothingHasAShape DEF Reload, server, Screens
<1>3. Spending(refreshing[t], stored.refresh) => Excused
  BY DEF Reload, Spending, Excused
<1>4. /\ refreshing' \in [Tabs -> Refreshes]
      /\ \A u \in Tabs : RefreshFollows(refreshing'[u], refreshing[u])
  BY <1>2, <1>3, IdleFollows
<1>5. \A s \in Slots : Follows(NoRequest, req[t][s])
  <2>1. \A s \in Slots : LoggingOut(req[t][s], stored.refresh) => Excused
    BY DEF Reload, LoggingOut, Excused
  <2> QED BY <2>1, NothingHasAShape DEF Follows, NoRequest, LoginDone, LoggingOut, NoToken, SInv, SessionTypeOK
<1>6. /\ req' \in [Tabs -> [Slots -> Requests]] /\ \A s \in Slots : req'[t][s] = NoRequest
      /\ \A u \in Tabs : u # t => req'[u] = req[u]
  BY <1>1, NothingHasAShape DEF Reload
<1>7. \A u \in Tabs, v \in Slots : Follows(req'[u][v], req[u][v])
  BY <1>5, <1>6, StayingFollows
<1>8. Keeps
  <2>1. SessionTypeOK'
    BY <1>1, <1>2, <1>4, <1>6 DEF SInv, SessionTypeOK
  <2> QED BY <1>1, <1>2, <1>4, <1>7, <2>1 DEF Keeps, SInv, KnownOK
<1> QED BY <1>8, KeepsInv

----------------------------------------------------------------------------
(* The steps that issue a token                                            *)

\* The new token is in one answer, and nobody knew it before.
Issues(n) ==
  /\ SessionTypeOK' /\ ShapesOK' /\ KnownOK' /\ n = Len(owner) + 1
  /\ stored' = stored /\ dead' = dead
  /\ n \in live' /\ \A m \in live \ live' : \E t \in Tabs : refreshing[t].tok = m /\ Spending(refreshing'[t], m)
  /\ \A t \in Tabs :
       /\ refreshing'[t].tok = refreshing[t].tok
       /\ Spending(refreshing[t], stored.refresh) => Spending(refreshing'[t], stored.refresh)
  /\ \A t \in Tabs, s \in Slots, m \in Nat : LoggingOut(req'[t][s], m) <=> LoggingOut(req[t][s], m)
  /\ \/ /\ \A t \in Tabs, s \in Slots : LoginDone(req'[t][s]) => req'[t][s] = req[t][s]
        /\ \E t \in Tabs :
             /\ refreshing'[t].new = n
             /\ \A u \in Tabs : u # t => refreshing'[u] = refreshing[u]
     \/ /\ refreshing' = refreshing
        /\ \E t \in Tabs, s \in Slots :
             /\ req'[t][s].tok = n
             /\ \A u \in Tabs, v \in Slots : u # t \/ v # s => req'[u][v] = req[u][v]

LEMMA IssuesInv ==
  ASSUME SInv, NEW n \in Nat, Issues(n)
  PROVE  SInv'
<1>1. /\ Len(owner) \in Nat /\ n \notin live /\ live \subseteq Nat
      /\ stored.refresh # n /\ stored.refresh \in Nat
      /\ \A t \in Tabs : refreshing[t].tok # n /\ refreshing[t].new # n /\ refreshing[t] \in Refreshes
      /\ \A t \in Tabs, s \in Slots : req[t][s].tok # n /\ req[t][s] \in Requests
  <2>1. /\ Len(owner) \in Nat /\ live \subseteq 1..Len(owner) /\ stored \in Stores
        /\ \A t \in Tabs : refreshing[t] \in Refreshes
        /\ \A t \in Tabs, s \in Slots : req[t][s] \in Requests
    BY DEF SInv, SessionTypeOK
  <2>2. /\ stored.refresh <= Len(owner)
        /\ \A t \in Tabs : refreshing[t].tok <= Len(owner) /\ refreshing[t].new <= Len(owner)
        /\ \A t \in Tabs, s \in Slots : req[t][s].tok <= Len(owner)
    BY DEF SInv, KnownOK
  <2>3. n = Len(owner) + 1
    BY DEF Issues
  <2> QED BY <2>1, <2>2, <2>3 DEF Refreshes, Requests, Stores
<1>2. ASSUME NEW m \in live, Untouched(m) PROVE Untouched(m)'
  BY <1>1, <1>2 DEF Issues, Untouched
<1>3. Untouched(n)'
  BY <1>1 DEF Issues, Untouched, LoggingOut
<1>4. /\ \A t \in Tabs : RefreshDone(refreshing[t]) => refreshing[t].new \in live /\ Untouched(refreshing[t].new)
      /\ \A t \in Tabs, s \in Slots : LoginDone(req[t][s]) => req[t][s].tok \in live /\ Untouched(req[t][s].tok)
  BY DEF SInv, PendingOK, Untouched
<1>5. PendingOK'
  <2>2. ASSUME NEW t \in Tabs, RefreshDone(refreshing'[t]) PROVE Untouched(refreshing[t].new)'
    BY <1>2, <1>3, <1>4, <2>2 DEF Issues, Untouched
  <2>3. ASSUME NEW t \in Tabs, NEW s \in Slots, LoginDone(req'[t][s]) PROVE Untouched(req[t][s].tok)'
    BY <1>2, <1>3, <1>4, <2>3 DEF Issues, Untouched
  <2> QED BY <2>2, <2>3 DEF PendingOK
<1>6. ApartOK'
  <2>1. CASE /\ \A t \in Tabs, s \in Slots : LoginDone(req'[t][s]) => req'[t][s] = req[t][s]
             /\ \E t \in Tabs :
                  /\ refreshing'[t].new = n
                  /\ \A u \in Tabs : u # t => refreshing'[u] = refreshing[u]
    BY <1>1, <2>1 DEF SInv, ApartOK
  <2>2. CASE /\ refreshing' = refreshing
             /\ \E t \in Tabs, s \in Slots :
                  /\ req'[t][s].tok = n
                  /\ \A u \in Tabs, v \in Slots : u # t \/ v # s => req'[u][v] = req[u][v]
    BY <1>1, <2>2 DEF SInv, ApartOK
  <2> QED BY <2>1, <2>2 DEF Issues
<1>7. StoredOK'
  <2> SUFFICES ASSUME stored.refresh # NoToken, stored.refresh \notin live', stored.refresh # dead
               PROVE  \/ \E t \in Tabs : Spending(refreshing'[t], stored.refresh)
                      \/ \E t \in Tabs, s \in Slots : LoggingOut(req'[t][s], stored.refresh)
    BY DEF StoredOK, Issues
  <2>1. CASE stored.refresh \in live
    BY <2>1 DEF Issues
  <2>2. CASE \E t \in Tabs : Spending(refreshing[t], stored.refresh)
    BY <2>2 DEF Issues
  <2>3. CASE \E t \in Tabs, s \in Slots : LoggingOut(req[t][s], stored.refresh)
    BY <1>1, <2>3 DEF Issues
  <2> QED BY <2>1, <2>2, <2>3 DEF SInv, StoredOK
<1> QED BY <1>5, <1>6, <1>7 DEF Issues, SInv

LEMMA IssueLengthens ==
  ASSUME SInv, NEW u \in Users, Issue(u)
  PROVE  /\ Len(owner) \in Nat /\ owner' \in Seq(Users) /\ Len(owner') = Len(owner) + 1
         /\ live \subseteq 1..Len(owner) /\ valid \subseteq 1..Len(owner)
BY DEF SInv, SessionTypeOK, Issue

LEMMA RotateKeeps ==
  ASSUME SInv, NEW t \in Tabs, RefreshRotate(t)
  PROVE  SInv'
<1> DEFINE f == refreshing[t]
           n == Len(owner) + 1
           k == [f EXCEPT !.st = "answered", !.new = n, !.me = Me(owner[f.tok])]
<1>1. f \in Refreshes /\ f.st = "found" /\ f.tok \in Nat /\ f.tok # NoToken /\ f.tok <= Len(owner)
  BY DEF SInv, SessionTypeOK, KnownOK, Refreshes, RefreshRotate
<1>2. owner[f.tok] \in Users /\ Me(owner[f.tok]) \in Someone
  <2>1. f.tok \in 1..Len(owner) /\ owner \in Seq(Users)
    BY <1>1 DEF SInv, SessionTypeOK, NoToken
  <2>2. owner[f.tok] \in Users
    BY <2>1, IssuedToAUser
  <2> QED BY <2>2, MeIsSomeone DEF SInv
<1>3. /\ Len(owner) \in Nat /\ n \in Nat /\ owner' \in Seq(Users) /\ Len(owner') = n
      /\ live \subseteq 1..Len(owner) /\ valid \subseteq 1..Len(owner)
  BY <1>2, IssueLengthens DEF RefreshRotate
<1>4. /\ k \in Refreshes /\ k.st = "answered" /\ k.tok = f.tok /\ k.new = n
  BY <1>1, <1>2, <1>3 DEF Refreshes
<1>5. /\ refreshing' = [refreshing EXCEPT ![t] = k]
      /\ live' = (live \ {f.tok}) \cup {n} /\ valid' = valid \cup {n}
      /\ UNCHANGED <<role, stored, page, shown, req, dead, cast>>
  BY DEF RefreshRotate, screen
<1> HIDE DEF k, n
<1>6. /\ refreshing' \in [Tabs -> Refreshes] /\ refreshing'[t] = k
      /\ \A u \in Tabs : u # t => refreshing'[u] = refreshing[u]
  BY <1>4, <1>5 DEF SInv, SessionTypeOK
<1>7. n = Len(owner) + 1
  BY DEF n
<1>8. SessionTypeOK'
  <2>1. n \in 1..n /\ 1..Len(owner) \subseteq 1..n
    BY <1>3, <1>7
  <2>2. live' \subseteq 1..n /\ valid' \subseteq 1..n
    BY <1>3, <1>5, <2>1
  <2> QED BY <1>3, <1>5, <1>6, <2>2 DEF SInv, SessionTypeOK
<1>9. ShapesOK'
  BY <1>5 DEF SInv, ShapesOK
<1>10. KnownOK'
  <2>1. \A m \in Nat : m <= Len(owner) => m <= Len(owner')
    BY <1>3, <1>7
  <2>2. /\ \A u \in Tabs : refreshing[u].tok \in Nat /\ refreshing[u].new \in Nat
        /\ \A u \in Tabs, s \in Slots : req[u][s].tok \in Nat
        /\ stored.token \in Nat /\ stored.refresh \in Nat
    BY DEF SInv, SessionTypeOK, Refreshes, Requests, Stores
  <2>3. k.new <= Len(owner')
    BY <1>3, <1>4
  <2> QED BY <1>1, <1>4, <1>5, <1>6, <2>1, <2>2, <2>3 DEF SInv, KnownOK
<1>11. Issues(n)
  <2>1. \A m \in live \ live' : refreshing[t].tok = m /\ Spending(refreshing'[t], m)
    BY <1>4, <1>5, <1>6 DEF Spending
  <2>2. \A u \in Tabs : /\ refreshing'[u].tok = refreshing[u].tok
                        /\ Spending(refreshing[u], stored.refresh) => Spending(refreshing'[u], stored.refresh)
    BY <1>4, <1>6 DEF Spending
  <2> QED BY <1>4, <1>5, <1>6, <1>7, <1>8, <1>9, <1>10, <2>1, <2>2 DEF Issues
<1> QED BY <1>3, <1>11, IssuesInv

LEMMA LoginServedKeeps ==
  ASSUME SInv, NEW t \in Tabs, NEW s \in Slots, ServeLogin(t, s), owner' # owner
  PROVE  SInv'
<1> DEFINE r == req[t][s]
           n == Len(owner) + 1
           k == [r EXCEPT !.st = "answered", !.ans = "ok", !.tok = n, !.me = Me(r.arg)]
<1>1. /\ r \in Requests /\ r.kind = "login" /\ r.st = "sent" /\ r.arg \in Users /\ Me(r.arg) \in Someone
      /\ req \in [Tabs -> [Slots -> Requests]]
  BY MeIsSomeone DEF SInv, SessionTypeOK, ShapesOK, Shape, ServeLogin
<1>2. /\ Issue(r.arg) /\ live' = live \cup {n} /\ valid' = valid \cup {n}
      /\ UNCHANGED <<role, stored, page, shown, refreshing, dead, cast>>
      /\ req' = [req EXCEPT ![t][s].st = "answered", ![t][s].ans = "ok", ![t][s].tok = n, ![t][s].me = Me(r.arg)]
  BY DEF ServeLogin, screen
<1>3. /\ Len(owner) \in Nat /\ n \in Nat /\ owner' \in Seq(Users) /\ Len(owner') = n
      /\ live \subseteq 1..Len(owner) /\ valid \subseteq 1..Len(owner)
  BY <1>1, <1>2, IssueLengthens
<1>4. k \in Requests /\ k.st = "answered" /\ k.ans = "ok" /\ k.tok = n /\ k.kind = "login" /\ k.arg = r.arg
  BY <1>1, <1>3 DEF Requests
<1>5. req' = [req EXCEPT ![t][s] = k]
  BY <1>1, <1>2
<1> HIDE DEF k, n
<1>6. /\ req' \in [Tabs -> [Slots -> Requests]] /\ req'[t][s] = k
      /\ \A u \in Tabs, v \in Slots : u # t \/ v # s => req'[u][v] = req[u][v]
  BY <1>1, <1>4, <1>5, OneRequest
<1>7. n = Len(owner) + 1
  BY DEF n
<1>8. SessionTypeOK'
  <2>1. live' \subseteq 1..Len(owner') /\ valid' \subseteq 1..Len(owner')
    BY <1>2, <1>3, <1>7
  <2> QED BY <1>2, <1>3, <1>6, <2>1 DEF SInv, SessionTypeOK
<1>9. ShapesOK'
  <2>1. Shape(k)
    BY <1>1, <1>4 DEF Shape
  <2> QED BY <1>6, <2>1 DEF SInv, ShapesOK
<1>10. KnownOK'
  <2>1. \A m \in Nat : m <= Len(owner) => m <= Len(owner')
    BY <1>3, <1>7
  <2>2. /\ \A u \in Tabs : refreshing[u].tok \in Nat /\ refreshing[u].new \in Nat
        /\ \A u \in Tabs, v \in Slots : req[u][v].tok \in Nat
        /\ stored.token \in Nat /\ stored.refresh \in Nat
    BY DEF SInv, SessionTypeOK, Refreshes, Requests, Stores
  <2>3. k.tok <= Len(owner')
    BY <1>3, <1>4
  <2>4. \A u \in Tabs, v \in Slots : req'[u][v].tok <= Len(owner')
    BY <1>6, <2>1, <2>2, <2>3 DEF SInv, KnownOK
  <2> QED BY <1>2, <2>1, <2>2, <2>4 DEF SInv, KnownOK
<1>11. Issues(n)
  <2>1. \A u \in Tabs, v \in Slots, m \in Nat : LoggingOut(req'[u][v], m) <=> LoggingOut(req[u][v], m)
    BY <1>1, <1>4, <1>6 DEF LoggingOut
  <2>2. live \ live' = {} /\ n \in live'
    BY <1>2
  <2>3. \E u \in Tabs, v \in Slots :
          /\ req'[u][v].tok = n
          /\ \A x \in Tabs, y \in Slots : x # u \/ y # v => req'[x][y] = req[x][y]
    <3>1. req'[t][s].tok = n
      BY <1>4, <1>6
    <3>2. \A x \in Tabs, y \in Slots : x # t \/ y # s => req'[x][y] = req[x][y]
      BY <1>6
    <3> QED BY <3>1, <3>2
  <2>4. /\ stored' = stored /\ dead' = dead /\ refreshing' = refreshing
    BY <1>2
  <2>5. \A m \in live \ live' : \E u \in Tabs : refreshing[u].tok = m /\ Spending(refreshing'[u], m)
    BY <2>2
  <2>6. \A u \in Tabs : /\ refreshing'[u].tok = refreshing[u].tok
                        /\ Spending(refreshing[u], stored.refresh) => Spending(refreshing'[u], stored.refresh)
    BY <2>4, Zenon
  <2> QED BY <1>7, <1>8, <1>9, <1>10, <2>1, <2>2, <2>3, <2>4, <2>5, <2>6, Zenon DEF Issues
<1> QED BY <1>3, <1>11, IssuesInv

----------------------------------------------------------------------------
(* The invariant                                                           *)

LEMMA InitInv == Init => SInv
<1> SUFFICES ASSUME Init PROVE SInv
  OBVIOUS
<1>1. PICK u \in Users :
        /\ owner = <<u>> /\ role \in [Users -> cast.roles]
        /\ stored \in {NoSession} \cup
             (IF role[u] = "none" THEN {} ELSE {[token |-> 1, refresh |-> 1, user |-> [who |-> u, role |-> role[u]]]})
  BY DEF Init
<1>2. role \in [Users -> RoleNames] /\ cast \in Casts
  BY <1>1, RolesAssumption DEF Init, RoleNames
<1>3. owner \in Seq(Users) /\ Len(owner) = 1 /\ owner[1] = u
  BY <1>1
<1>4. live \subseteq {1} /\ valid = live /\ (role[u] # "none" => 1 \in live)
  BY <1>3 DEF Init
<1>5. /\ stored \in Stores /\ stored.token <= 1 /\ stored.refresh <= 1
      /\ stored.refresh \in live \cup {NoToken}
  BY <1>1, <1>2, <1>4, NothingHasAShape DEF Stores, Someone, NoSession, NoToken
<1>6. /\ refreshing \in [Tabs -> Refreshes] /\ \A t \in Tabs : refreshing[t] = NoRefresh
      /\ req \in [Tabs -> [Slots -> Requests]] /\ \A t \in Tabs, s \in Slots : req[t][s] = NoRequest
  BY NothingHasAShape DEF Init
<1>7. SessionTypeOK
  <2>1. stored.user \in Someone
    BY <1>5 DEF Stores
  <2>2. page \in [Tabs -> Screens] /\ shown \in [Tabs -> Someone] /\ dead \in Nat
    BY <2>1 DEF Init, Screens, NoToken
  <2> QED BY <1>2, <1>3, <1>4, <1>5, <1>6, <2>2 DEF SessionTypeOK
<1>8. ShapesOK
  BY <1>6, NothingHasAShape DEF ShapesOK
<1>9. KnownOK
  BY <1>3, <1>5, <1>6 DEF KnownOK, NoRefresh, NoRequest, NoToken
<1>10. PendingOK /\ ApartOK
  BY <1>6 DEF PendingOK, ApartOK, RefreshDone, LoginDone, NoRefresh, NoRequest
<1>11. StoredOK
  BY <1>5 DEF StoredOK
<1> QED BY <1>7, <1>8, <1>9, <1>10, <1>11 DEF SInv

LEMMA NextKeeps == SInv /\ [Next]_vars => SInv'
<1> SUFFICES ASSUME SInv, [Next]_vars PROVE SInv'
  OBVIOUS
<1>1. ASSUME NEW t \in Tabs, NEW s \in Slots,
             Ask(t, s) \/ Serve(t, s) \/ AwaitRefresh(t, s) \/ Return(t, s) \/ Lose(t, s)
      PROVE  SInv'
  <2>1. CASE Ask(t, s)
    BY <2>1, AskIsCalm, CalmKeeps
  <2>2. CASE Serve(t, s)
    <3>1. CASE ServeLogin(t, s)
      BY <3>1, ServeIsCalm, CalmKeeps, LoginServedKeeps
    <3> QED BY <2>2, <3>1, ServeIsCalm, CalmKeeps, LogoutServedKeeps DEF Serve
  <2>3. CASE AwaitRefresh(t, s)
    BY <2>3, AwaitIsCalm, CalmKeeps
  <2>4. CASE Return(t, s)
    <3>1. CASE req[t][s].kind = "login" /\ req[t][s].ans = "ok"
      <4>1. LoginReturns(t, s)
        BY <2>4, <3>1 DEF Return, LoginReturns, RegisterReturns, LogoutReturns, CheckReturns, IdentityReturns,
                          VisitReturns, Answered
      <4> QED BY <3>1, <4>1, LoginReturnsKeeps
    <3> QED BY <2>4, <3>1, ReturnIsCalm, CalmKeeps
  <2>5. CASE Lose(t, s)
    BY <2>5, ServeIsCalm, CalmKeeps
  <2> QED BY <1>1, <2>1, <2>2, <2>3, <2>4, <2>5
<1>2. ASSUME NEW t \in Tabs, Refresh(t) \/ LoseRefresh(t) \/ Reload(t)
      PROVE  SInv'
  BY <1>2, RefreshingKeeps, RotateKeeps, SucceedsKeeps, FailsKeeps, ReloadKeeps DEF Refresh
<1>3. CASE UNCHANGED vars
  BY <1>3 DEF vars, SInv, SessionTypeOK, ShapesOK, KnownOK, PendingOK, Untouched, ApartOK, StoredOK
<1> QED BY <1>1, <1>2, <1>3, QuietKeeps DEF Next

\* The tokens, the requests and the refreshes stay within their values, and only
\* issued tokens are good (the storage and the maps of authorizedFetch).
THEOREM SessionTypeCorrect == Spec => []SessionTypeOK
<1>1. SInv => SessionTypeOK
  BY DEF SInv
<1> QED BY <1>1, InitInv, NextKeeps, PTL DEF Spec

\* The refresh token in the storage is good for one more refresh, or a tab is about
\* to replace or remove it, or the answer with its successor was lost (tryRefresh
\* and the session calls of all tabs against RefreshAccess).
THEOREM StoredRefreshStaysLive == Spec => []StoredRefreshIsLive
<1>1. SInv => StoredRefreshIsLive
  BY DEF SInv, StoredOK, StoredRefreshIsLive, Spending, LoggingOut
<1> QED BY <1>1, InitInv, NextKeeps, PTL DEF Spec

----------------------------------------------------------------------------
(* The menu and the server                                                 *)

\* What the layout offers a role, the list handler behind it answers; but for the
\* page of dangerous approvals, which the menu shows platform_ops as well.
LEMMA MenuAnswers ==
  ASSUME NEW r, NEW p \in MenuItems(r), p = "dangerous-approvals" => r # "platform_ops"
  PROVE  ServerAnswers(p, r)
BY DEF MenuItems, ServerAnswers, CanManageNodes, CanViewGlobalMembers, CanManageUsers, CanViewAudit,
       CanApproveDangerousOps, IsPlatformStaff, IsPlatformAdmin, Pages

\* A call of one request leaves the others alone.
LEMMA OthersStay ==
  ASSUME SInv, NEW t \in Tabs, NEW s \in Slots, NEW u \in Tabs, NEW v \in Slots, u # t \/ v # s,
         Ask(u, v) \/ Serve(u, v) \/ AwaitRefresh(u, v) \/ Return(u, v) \/ Lose(u, v)
  PROVE  req'[t][s] = req[t][s]
<1>0. req \in [Tabs -> [Slots -> Requests]]
  BY DEF SInv, SessionTypeOK
<1>1. ASSUME NEW r, Send(u, v, r) PROVE req'[t][s] = req[t][s]
  BY <1>0, <1>1 DEF Send
<1>2. ASSUME NEW ans, NEW me, Answer(u, v, ans, me) PROVE req'[t][s] = req[t][s]
  BY <1>0, <1>2 DEF Answer
<1>3. CASE Ask(u, v)
  BY <1>1, <1>3 DEF Ask, AskCheck, AskIdentity, ClickLogout, Visit, SubmitLogin, SubmitRegister
<1>4. CASE Serve(u, v)
  <2>1. CASE ServeLogin(u, v)
    BY <1>0, <1>2, <2>1 DEF ServeLogin
  <2>2. CASE ServeRegister(u, v) \/ ServeLogout(u, v) \/ ServeOther(u, v)
    BY <1>2, <2>2 DEF ServeRegister, ServeLogout, ServeOther
  <2> QED BY <1>4, <2>1, <2>2 DEF Serve
<1>5. CASE AwaitRefresh(u, v)
  BY <1>0, <1>5 DEF AwaitRefresh
<1>6. CASE Return(u, v)
  BY <1>0, <1>6 DEF Return, LoginReturns, RegisterReturns, LogoutReturns, CheckReturns, IdentityReturns, VisitReturns, Done
<1>7. CASE Lose(u, v)
  BY <1>2, <1>7 DEF Lose
<1> QED BY <1>3, <1>4, <1>5, <1>6, <1>7

\* Nothing but the guard of a handler makes an answer a refusal.
LEMMA OnlyHandlersForbid ==
  ASSUME SInv, [Next]_vars, NEW t \in Tabs, NEW s \in Slots,
         req[t][s].kind = "visit", req[t][s].st = "sent", req'[t][s].ans = "forbidden"
  PROVE  ServeOther(t, s)
<1>0. req \in [Tabs -> [Slots -> Requests]] /\ req[t][s].ans = "none" /\ NoRequest.ans = "none"
  BY DEF SInv, SessionTypeOK, ShapesOK, Shape, NoRequest
<1>1. req'[t][s] # req[t][s]
  BY <1>0
<1>2. ASSUME NEW u \in Tabs, NEW v \in Slots,
             Ask(u, v) \/ Serve(u, v) \/ AwaitRefresh(u, v) \/ Return(u, v) \/ Lose(u, v)
      PROVE  ServeOther(t, s)
  <2>1. u = t /\ v = s
    BY <1>1, <1>2, OthersStay
  <2>2. ~Ask(t, s)
    BY <1>1 DEF Ask, AskCheck, AskIdentity, ClickLogout, Visit, SubmitLogin, SubmitRegister, Send
  <2>3. ~AwaitRefresh(t, s) /\ ~Return(t, s)
    BY DEF AwaitRefresh, Return, LoginReturns, RegisterReturns, LogoutReturns, CheckReturns, IdentityReturns,
           VisitReturns, Answered
  <2>4. ~Lose(t, s)
    <3>1. ASSUME Answer(t, s, "lost", NoOne) PROVE req'[t][s].ans = "lost"
      BY <1>0, <3>1 DEF Answer, Requests
    <3> QED BY <3>1 DEF Lose
  <2>5. ~ServeLogin(t, s) /\ ~ServeRegister(t, s) /\ ~ServeLogout(t, s)
    BY DEF ServeLogin, ServeRegister, ServeLogout
  <2> QED BY <1>2, <2>1, <2>2, <2>3, <2>4, <2>5 DEF Serve
<1>3. ASSUME NEW u \in Tabs, Refresh(u) \/ LoseRefresh(u) \/ Reload(u) \/ FoldRegister(u) PROVE FALSE
  <2>1. CASE RefreshSucceeds(u)
    BY <1>0, <1>1, <2>1 DEF RefreshSucceeds
  <2>2. CASE RefreshFails(u)
    <3>1. CASE AtLogin(u)
      BY <1>0, <1>1, <2>2, <3>1 DEF RefreshFails
    <3>2. CASE ~AtLogin(u)
      BY <1>0, <1>1, <2>2, <3>2 DEF RefreshFails
    <3> QED BY <3>1, <3>2
  <2>3. CASE Reload(u)
    BY <1>0, <1>1, <2>3 DEF Reload
  <2> QED BY <1>1, <1>3, <2>1, <2>2, <2>3 DEF Refresh, RefreshLookup, RefreshRotate, RefreshDropped, LoseRefresh,
                                             FoldRegister
<1>4. (\E n \in Tokens : ExpireAccess(n)) \/ (\E u \in Users, r \in PlatformRoles : ChangeRole(u, r)) \/ UNCHANGED vars
        => req' = req
  BY DEF ExpireAccess, ChangeRole, vars
<1> QED BY <1>1, <1>2, <1>3, <1>4 DEF Next

\* The menu offers no page whose list the server refuses, unless the role has
\* changed since (Layout and accessControl against the guards of the handlers),
\* or platform_ops opens the page of dangerous approvals.
THEOREM OfferedPagesDoAnswer == Spec => OfferedPagesAnswer
<1>1. ASSUME SInv, [Next]_vars, NEW t \in Tabs, NEW s \in Slots,
             req[t][s].kind = "visit", req[t][s].st = "sent", req'[t][s].ans = "forbidden"
      PROVE  req[t][s].me # Me(owner[req[t][s].tok]) \/ OfferedInVain(req[t][s])
  <2> DEFINE r == req[t][s]
  <2>1. ServeOther(t, s)
    BY <1>1, OnlyHandlersForbid
  <2>2. req \in [Tabs -> [Slots -> Requests]] /\ r.arg \in Visited \cap MenuItems(r.me.role)
    BY <1>1 DEF SInv, SessionTypeOK, ShapesOK, Shape
  <2>3. ASSUME NEW ans, NEW me, Answer(t, s, ans, me) PROVE req'[t][s].ans = ans
    BY <2>2, <2>3 DEF Answer, Requests
  <2>4. ~ServerAnswers(r.arg, role[owner[r.tok]])
    BY <1>1, <2>1, <2>3 DEF ServeOther
  <2>5. Me(owner[r.tok]).role = role[owner[r.tok]]
    BY DEF Me
  <2> QED BY <2>2, <2>4, <2>5, MenuAnswers DEF OfferedInVain
<1>2. SInv /\ [Next]_vars =>
        [\A t \in Tabs, s \in Slots :
           req[t][s].kind = "visit" /\ req[t][s].st = "sent" /\ req'[t][s].ans = "forbidden"
             => req[t][s].me # Me(owner[req[t][s].tok]) \/ OfferedInVain(req[t][s])]_vars
  BY <1>1
<1> QED BY <1>2, InitInv, NextKeeps, PTL DEF Spec, OfferedPagesAnswer
=============================================================================
