------------------------------ MODULE Sessions -------------------------------
(***************************************************************************)
(* The sessions of one account: refresh tokens in Postgres, access tokens  *)
(* (JWTs, checked against the time of the last "sign out everywhere"),      *)
(* websocket tickets, websockets, phones that get notifications, admin-page *)
(* tokens and suspensions; internal/auth, internal/platform/revoke,         *)
(* internal/ws/ticket.go, internal/app/cleanup.go and wsauth.go.            *)
(*                                                                         *)
(* A request runs on a goroutine of its own and takes one step per database *)
(* statement, Redis command or section under a lock.  Time is counted in    *)
(* ticks of a millisecond; the lifetimes are scaled down, in the order they *)
(* have in the code.  Refresh tokens live for thirty days and do not expire *)
(* here.  Passwords, codes and Google tokens are left out: a sign-in is one *)
(* whose credentials were accepted.                                         *)
(*                                                                         *)
(* Requests and what they leave behind carry two history fields that the   *)
(* code does not have.  "gen" is the number of sign-outs that had begun     *)
(* when the session was started.  "unsure" marks a request that ran while a *)
(* sign-out did, whose revocation check failed and let it through, whose    *)
(* token expired while it was being checked, or that was decided on the     *)
(* answer another such request had left in the local cache; it passes on to *)
(* all that comes of the request.                                           *)
(***************************************************************************)
EXTENDS Integers, Sequences, FiniteSets

CONSTANTS Reqs,         \* requests that may run at a time
          AccessTTL,    \* lifetime of an access token
          AdminTTL,     \* lifetime of an admin-page token
          LocalTTL,     \* for how long revoke.Store trusts its last answer
          TicketTTL,    \* lifetime of a websocket ticket
          Roles,        \* may the account be an admin: a set of Booleans
          MaxTime,      \* bound: the last tick
          MaxRequests,  \* bound: requests started
          MaxTokens,    \* bound: tokens and tickets issued
          MaxLinks,     \* bound: websockets and phones of the account at a time
          MaxSignOuts,  \* bound: sign-outs begun
          MaxFaults     \* bound: failed statements and commands

ASSUME SessionsAssumption ==
  /\ {AccessTTL, AdminTTL, TicketTTL} \subseteq Nat \ {0}
  /\ LocalTTL \in Nat
  /\ {MaxTime, MaxRequests, MaxTokens, MaxLinks, MaxSignOuts, MaxFaults} \subseteq Nat
  /\ Roles # {} /\ Roles \subseteq BOOLEAN

VARIABLES now,          \* the clock, from 1 on
          isAdmin,      \* users.is_admin
          banned,       \* users.banned_at is set
          tokens,       \* issued: access and refresh tokens in pairs ("user"),
                        \* admin-page tokens ("admin") and tickets ("ticket")
          used,         \* Tickets.used: tickets remembered as redeemed
          key,          \* auth:revoked:{user} in Redis
          local,        \* the revoke.Store's entry for the user
          links,        \* registered websockets and rows of user_devices
          req,          \* requests in flight
          begun, done,  \* sign-outs begun; the last one that was completed
          banDone,      \* the suspension in force has been carried out
          started,      \* requests so far
          faults        \* failures so far

account == <<isAdmin, banned>>
caches == <<used, local, key>>
history == <<begun, done, banDone>>
vars == <<now, account, tokens, caches, links, req, history, started, faults>>

\* How long a revocation is kept: for the lifetime of an access token.
Keep == AccessTTL

Idle == [op |-> "none", pc |-> "idle", cred |-> 0, at |-> 0, reply |-> 0,
         gen |-> 0, unsure |-> FALSE]

Init == /\ now = 1
        /\ isAdmin \in Roles
        /\ banned = FALSE
        /\ tokens = <<>> /\ used = {}
        /\ key = [at |-> 0, until |-> 0]
        /\ local = [at |-> 0, checked |-> 0, unsure |-> FALSE]
        /\ links = {}
        /\ req = [r \in Reqs |-> Idle]
        /\ begun = 0 /\ done = 0 /\ banDone = FALSE
        /\ started = 0 /\ faults = 0

\* A sign-out is under way.
SignOutSteps == {"revoke", "mark", "remember", "disconnect", "forget"}
Open == \E r \in Reqs : req[r].pc \in SignOutSteps

\* Request r starts as op, at step pc, with a credential of age gen.
Start(r, op, pc, cred, gen, unsure, at) ==
  /\ req[r].pc = "idle"
  /\ started < MaxRequests
  /\ started' = started + 1
  /\ req' = [req EXCEPT ![r] = [op |-> op, pc |-> pc, cred |-> cred, at |-> at, reply |-> 0,
                                gen |-> gen, unsure |-> unsure \/ Open]]

Goto(r, pc) == req' = [req EXCEPT ![r].pc = pc, ![r].at = 0]
End(r) == req' = [req EXCEPT ![r] = Idle]

\* The token that request r adds to those of the account.
Token(r, kind, iat) == [kind |-> kind, live |-> kind = "user", iat |-> iat, own |-> req[r].op = "email",
                        uses |-> 0, gen |-> req[r].gen, unsure |-> req[r].unsure]

\* A websocket or a phone of request r.
Link(r, what) == /\ Cardinality(links) < MaxLinks
                 /\ links' = links \cup {[what |-> what, gen |-> req[r].gen, unsure |-> req[r].unsure]}

Tick == /\ now < MaxTime
        /\ now' = now + 1
        /\ UNCHANGED <<account, tokens, caches, links, req, history, started, faults>>

-----------------------------------------------------------------------------
(* Starting a session *)

\* Login, VerifyEmail, Google: the credentials are good, tokens are issued.
Login(r) == /\ Start(r, "login", "suspended", 0, begun, FALSE, 0)
            /\ UNCHANGED <<now, account, tokens, caches, links, history, faults>>

\* The statements on refresh_tokens: one that is not revoked, and revoking it.
GetRefreshToken(s) == tokens[s].live
RevokeRefreshToken(s) == [tokens EXCEPT ![s].live = FALSE]

\* Refresh: the token must be known and not revoked.
Refresh(r, s) == /\ GetRefreshToken(s)
                 /\ Start(r, "refresh", "rotate", s, tokens[s].gen, tokens[s].unsure, 0)
                 /\ UNCHANGED <<now, account, tokens, caches, links, history, faults>>

\* Refresh revokes the token it was given.
Rotate(r) == /\ req[r].pc = "rotate"
             /\ tokens' = RevokeRefreshToken(req[r].cred)
             /\ Goto(r, "suspended")
             /\ UNCHANGED <<now, account, caches, links, history, started, faults>>

\* A mistake: issue does not ask whether the account is suspended.
IssueUnchecked(r) == /\ req[r].pc = "suspended"
                     /\ req' = [req EXCEPT ![r].pc = "insert", ![r].at = now]
                     /\ UNCHANGED <<now, account, tokens, caches, links, history, started, faults>>

\* issue: no session for a suspended account.
Suspension(r) == /\ req[r].pc = "suspended"
                 /\ IF banned THEN End(r)
                    ELSE req' = [req EXCEPT ![r].pc = "insert", ![r].at = now]
                 /\ UNCHANGED <<now, account, tokens, caches, links, history, started, faults>>

\* issue: the access token, signed at some time since the last statement, and
\* the refresh token, which is stored: the client has its session.
CreateRefreshToken(r) ==
  /\ req[r].pc = "insert"
  /\ Len(tokens) < MaxTokens
  /\ \E t \in req[r].at .. now : tokens' = Append(tokens, Token(r, "user", t))
  /\ End(r)
  /\ UNCHANGED <<now, account, caches, links, history, started, faults>>

\* Revoke: one device logs out.
Revoke(s) == /\ tokens[s].live
             /\ tokens' = RevokeRefreshToken(s)
             /\ UNCHANGED <<now, account, caches, links, req, history, started, faults>>

\* AdminVerify: a token for the admin page, which is not stored anywhere.
AdminVerify == /\ isAdmin
               /\ started < MaxRequests
               /\ started' = started + 1
               /\ Len(tokens) < MaxTokens
               /\ tokens' = Append(tokens, [kind |-> "admin", live |-> FALSE, iat |-> now, own |-> FALSE,
                                            uses |-> 0, gen |-> begun, unsure |-> Open])
               /\ UNCHANGED <<now, account, caches, links, req, history, faults>>

-----------------------------------------------------------------------------
(* Requests with a token *)

\* Authenticate: the access token is well signed and has not expired.
Call(r, s) == /\ tokens[s].kind = "user"
              /\ now < tokens[s].iat + AccessTTL
              /\ Start(r, "call", "check", s, tokens[s].gen, tokens[s].unsure, 0)
              /\ UNCHANGED <<now, account, tokens, caches, links, history, faults>>

\* The admin page's Authenticate.
AdminCall(r, s) == /\ tokens[s].kind = "admin"
                   /\ now < tokens[s].iat + AdminTTL
                   /\ Start(r, "admin", "check", s, tokens[s].gen, tokens[s].unsure, 0)
                   /\ UNCHANGED <<now, account, tokens, caches, links, history, faults>>

TicketEnd(t) == tokens[t].iat + TicketTTL

\* Redeem: the ticket is well signed and has not expired.
Connect(r, t) == /\ tokens[t].kind = "ticket"
                 /\ now < TicketEnd(t)
                 /\ Start(r, "ticket", "redeem", t, tokens[t].gen, tokens[t].unsure, now)
                 /\ UNCHANGED <<now, account, tokens, caches, links, history, faults>>

\* A mistake: the sweep of the map comes after the ticket was put there, and
\* takes the tickets that have not expired.
RedeemSweepsWrong(r) ==
  LET t == req[r].cred
  IN /\ req[r].pc = "redeem"
     /\ IF t \in used
        THEN End(r) /\ UNCHANGED <<tokens, used>>
        ELSE /\ used' = {u \in used \cup {t} : req[r].at >= TicketEnd(u)}
             /\ tokens' = [tokens EXCEPT ![t].uses = @ + 1]
             /\ Goto(r, "check")
     /\ UNCHANGED <<now, account, local, key, links, history, started, faults>>

\* Redeem, under the mutex: a ticket works once; tickets that had expired when
\* the request read the clock are forgotten.
Redeem(r) ==
  LET t == req[r].cred
  IN /\ req[r].pc = "redeem"
     /\ IF t \in used
        THEN End(r) /\ UNCHANGED <<tokens, used>>
        ELSE /\ used' = {u \in used : req[r].at < TicketEnd(u)} \cup {t}
             /\ tokens' = [tokens EXCEPT ![t].uses = @ + 1]
             /\ Goto(r, "check")
     /\ UNCHANGED <<now, account, local, key, links, history, started, faults>>

\* When the credential of a request was issued.
Issued(r) == tokens[req[r].cred].iat

\* Revoked's verdict on a request, from an entry with time at: 0 stands for
\* no revocation.
IsRevoked(r, at) == at # 0 /\ Issued(r) <= at
Admit(r, unsure) ==
  req' = [req EXCEPT ![r] = [req[r] EXCEPT !.pc = "in", !.at = 0, !.reply = 0,
                                           !.unsure = req[r].unsure \/ unsure]]
Decide(r, at, unsure) ==
  IF IsRevoked(r, at)
  THEN End(r)
  ELSE Admit(r, unsure \/ (req[r].op # "admin" /\ now >= Issued(r) + AccessTTL))

\* Revoked: the local answer, if it is young enough.
LocalRevoked(r) == /\ req[r].pc = "check"
                   /\ IF local.checked # 0 /\ now - local.checked <= LocalTTL
                      THEN Decide(r, local.at, local.unsure)
                      ELSE Goto(r, "get")
                   /\ UNCHANGED <<now, account, tokens, caches, links, history, started, faults>>

\* Revoked: ask Redis.  A key that has expired is not there.
GetRevoked(r) == /\ req[r].pc = "get"
                 /\ req' = [req EXCEPT ![r].pc = "keep", ![r].at = now,
                                       ![r].reply = IF now < key.until THEN key.at ELSE 0]
                 /\ UNCHANGED <<now, account, tokens, caches, links, history, started, faults>>

\* Redis does not answer: an app's request is let through, a ticket and an
\* admin are not.
RevokedFails(r) == /\ req[r].pc = "get"
                   /\ faults < MaxFaults
                   /\ faults' = faults + 1
                   /\ IF req[r].op = "call"
                      THEN Admit(r, TRUE)
                      ELSE End(r)
                   /\ UNCHANGED <<now, account, tokens, caches, links, history, started>>

\* Revoked: the reply, received at some moment since it was asked for, becomes
\* the local answer.
KeepReply(r) == /\ req[r].pc = "keep"
                /\ \E t \in req[r].at .. now :
                     local' = [at |-> req[r].reply, checked |-> t, unsure |-> req[r].unsure]
                /\ Decide(r, req[r].reply, FALSE)
                /\ UNCHANGED <<now, account, tokens, used, key, links, history, started, faults>>

\* A request that was admitted does what it does not concern sessions.
Answer(r) == /\ req[r].pc = "in"
             /\ req[r].op \in {"call", "admin"}
             /\ End(r)
             /\ UNCHANGED <<now, account, tokens, caches, links, history, started, faults>>

\* wsTicket: the websocket of a browser is prepared.
IssueTicket(r) == /\ req[r].pc = "in" /\ req[r].op = "call"
                  /\ Len(tokens) < MaxTokens
                  /\ tokens' = Append(tokens, Token(r, "ticket", now))
                  /\ End(r)
                  /\ UNCHANGED <<now, account, caches, links, history, started, faults>>

\* Serve: the websocket is opened and registered with the hub.
Serve(r) == /\ req[r].pc = "in" /\ req[r].op \in {"call", "ticket"}
            /\ Link(r, "socket")
            /\ End(r)
            /\ UNCHANGED <<now, account, tokens, caches, history, started, faults>>

\* RegisterDevice: the phone gets notifications.
RegisterDevice(r) == /\ req[r].pc = "in" /\ req[r].op = "call"
                     /\ Link(r, "phone")
                     /\ End(r)
                     /\ UNCHANGED <<now, account, tokens, caches, history, started, faults>>

-----------------------------------------------------------------------------
(* Signing out everywhere *)

\* RevokeAllRefreshTokens begins: for LogoutAll, a changed or reset password
\* ("all"), a changed address ("email") or a suspension, which is stored first
\* and which an admin cannot get ("ban").
SignOut(r, op) ==
  /\ req[r].pc = "idle"
  /\ begun < MaxSignOuts
  /\ started < MaxRequests
  /\ started' = started + 1
  /\ op = "ban" => ~isAdmin
  /\ banned' = (banned \/ op = "ban")
  /\ begun' = begun + 1
  /\ req' = [x \in Reqs |->
               IF x = r THEN [Idle EXCEPT !.op = op, !.pc = "revoke", !.gen = begun + 1, !.unsure = Open]
               ELSE IF req[x].pc = "idle" THEN Idle
               ELSE [req[x] EXCEPT !.unsure = TRUE]]
  /\ UNCHANGED <<now, isAdmin, tokens, caches, links, done, banDone, faults>>

\* Who ends all sessions.
LogoutAll(r) == SignOut(r, "all")
ConfirmEmailChange(r) == SignOut(r, "email")
Ban(r) == SignOut(r, "ban")

\* All refresh tokens of the account, in one statement.
RevokeAllUserRefreshTokens(r) ==
  /\ req[r].pc = "revoke"
  /\ tokens' = [s \in DOMAIN tokens |-> [tokens[s] EXCEPT !.live = FALSE]]
  /\ req' = [req EXCEPT ![r].pc = "mark", ![r].at = now]
  /\ UNCHANGED <<now, account, caches, links, history, started, faults>>

\* A mistake: the revocation is kept for less than a token lives.
RevokeAllTooShort(r) ==
  /\ req[r].pc = "mark"
  /\ \E at \in req[r].at .. now :
       /\ key' = [at |-> at, until |-> now + Keep - 1]
       /\ req' = [req EXCEPT ![r].pc = "remember", ![r].at = at]
  /\ UNCHANGED <<now, account, tokens, used, local, links, history, started, faults>>

\* RevokeAll: the time, read since the last statement, is stored in Redis.
RevokeAll(r) ==
  /\ req[r].pc = "mark"
  /\ \E at \in req[r].at .. now :
       /\ key' = [at |-> at, until |-> now + Keep]
       /\ req' = [req EXCEPT ![r].pc = "remember", ![r].at = at]
  /\ UNCHANGED <<now, account, tokens, used, local, links, history, started, faults>>

\* RevokeAll: and in the local cache.
RememberRevoked(r) ==
  /\ req[r].pc = "remember"
  /\ local' = [at |-> req[r].at, checked |-> now, unsure |-> FALSE]
  /\ Goto(r, "disconnect")
  /\ UNCHANGED <<now, account, tokens, used, key, links, history, started, faults>>

\* Hub.Disconnect: the account's websockets are closed.
Disconnect(r) == /\ req[r].pc = "disconnect"
                 /\ links' = {x \in links : x.what # "socket"}
                 /\ Goto(r, "forget")
                 /\ UNCHANGED <<now, account, tokens, caches, history, started, faults>>

\* ForgetDevices, which completes the sign-out.  ConfirmEmailChange goes on.
ForgetDevices(r) ==
  /\ req[r].pc = "forget"
  /\ links' = {x \in links : x.what # "phone"}
  /\ done' = IF req[r].gen > done THEN req[r].gen ELSE done
  /\ banDone' = IF req[r].op = "ban" THEN banned ELSE banDone
  /\ req' = [req EXCEPT ![r] = IF req[r].op = "email"
                               THEN [req[r] EXCEPT !.pc = "sleep", !.at = now] ELSE Idle]
  /\ UNCHANGED <<now, account, tokens, caches, begun, started, faults>>

\* A mistake: ConfirmEmailChange does not wait.
NoSleep(r) == /\ req[r].pc = "sleep"
              /\ Goto(r, "suspended")
              /\ UNCHANGED <<now, account, tokens, caches, links, history, started, faults>>

\* ConfirmEmailChange waits two milliseconds before it issues new tokens.
Sleep(r) == /\ req[r].pc = "sleep"
            /\ now >= req[r].at + 2
            /\ Goto(r, "suspended")
            /\ UNCHANGED <<now, account, tokens, caches, links, history, started, faults>>

\* A statement or command of a sign-out fails and the rest is not done.
SignOutFails(r) == /\ req[r].pc \in {"revoke", "mark", "forget"}
                   /\ faults < MaxFaults
                   /\ faults' = faults + 1
                   /\ End(r)
                   /\ UNCHANGED <<now, account, tokens, caches, links, history, started>>

\* Unban, LiftExpired.
Unban == /\ banned
         /\ banned' = FALSE
         /\ banDone' = FALSE
         /\ UNCHANGED <<now, isAdmin, tokens, caches, links, req, begun, done, started, faults>>

-----------------------------------------------------------------------------
SignIn(r) == \/ Login(r)
             \/ \E s \in DOMAIN tokens : Refresh(r, s)
             \/ Rotate(r) \/ Suspension(r) \/ CreateRefreshToken(r)

Request(r) == \/ \E s \in DOMAIN tokens : Call(r, s) \/ AdminCall(r, s) \/ Connect(r, s)
              \/ Redeem(r) \/ LocalRevoked(r) \/ GetRevoked(r) \/ RevokedFails(r) \/ KeepReply(r)
              \/ Answer(r) \/ IssueTicket(r) \/ Serve(r) \/ RegisterDevice(r)

Ending(r) == \/ LogoutAll(r) \/ ConfirmEmailChange(r) \/ Ban(r)
             \/ RevokeAllUserRefreshTokens(r) \/ RevokeAll(r) \/ RememberRevoked(r)
             \/ Disconnect(r) \/ ForgetDevices(r) \/ Sleep(r) \/ SignOutFails(r)

Next == \/ Tick \/ Unban \/ AdminVerify
        \/ \E s \in DOMAIN tokens : Revoke(s)
        \/ \E r \in Reqs : SignIn(r) \/ Request(r) \/ Ending(r)

Spec == Init /\ [][Next]_vars

-----------------------------------------------------------------------------
(* Properties *)

Tokens == [kind : {"user", "admin", "ticket"}, live : BOOLEAN, iat : 1 .. now, own : BOOLEAN,
           uses : Nat, gen : 0 .. begun, unsure : BOOLEAN]
Steps == SignOutSteps \cup {"idle", "rotate", "suspended", "insert", "check", "redeem",
                            "get", "keep", "in", "sleep"}

\* The type of the state: times are never ahead of the clock (auth, revoke and
\* tickets all take the server's own), credentials of requests exist.
TypeOK ==
  /\ now \in Nat \ {0} /\ isAdmin \in BOOLEAN /\ banned \in BOOLEAN /\ banDone \in BOOLEAN
  /\ begun \in Nat /\ done \in 0 .. begun /\ faults \in 0 .. MaxFaults
  /\ tokens \in Seq(Tokens)
  /\ used \subseteq {t \in DOMAIN tokens : tokens[t].kind = "ticket"}
  /\ key \in [at : 0 .. now, until : Nat]
  /\ local \in [at : 0 .. now, checked : 0 .. now, unsure : BOOLEAN]
  /\ links \subseteq [what : {"socket", "phone"}, gen : 0 .. begun, unsure : BOOLEAN]
  /\ req \in [Reqs -> [op : {"none", "login", "refresh", "call", "admin", "ticket", "all", "email", "ban"},
                       pc : Steps, cred : Nat, at : 0 .. now, reply : 0 .. now,
                       gen : 0 .. begun, unsure : BOOLEAN]]
  /\ \A r \in Reqs : req[r].op \in {"refresh", "call", "admin", "ticket"} => req[r].cred \in DOMAIN tokens

\* What a completed sign-out leaves nothing of: x was begun before it.
Older(x) == ~x.unsure /\ x.gen < done

\* Signing out everywhere (sessionEnder.RevokeAllRefreshTokens) works: once it
\* is completed, no refresh token, websocket, phone or admitted request goes
\* back to a session started before it, except through requests that ran while
\* it did, that Redis's failure let through or whose token expired while they
\* were being checked.  This holds for as long as the tokens live, although the
\* revocation in Redis expires, and whatever the local cache of answers holds.
\* An admin-page token, which lives longer than a revocation is kept, is
\* covered for only that time.
NoOldSession ==
  ~Open => /\ \A s \in DOMAIN tokens : tokens[s].live => ~Older(tokens[s])
           /\ \A x \in links : ~Older(x)
           /\ \A r \in Reqs :
                /\ req[r].pc = "in"
                /\ req[r].op = "admin" => now < Issued(r) + Keep
                => ~Older(req[r])

\* A suspension that was carried out keeps the account out until it is lifted:
\* apart from requests that ran while it began, nothing of a session is left,
\* and none is started (Ban, and issue's check).
BannedStaysOut ==
  banned /\ banDone /\ ~Open =>
    /\ \A s \in DOMAIN tokens : tokens[s].live => tokens[s].unsure
    /\ \A x \in links : x.unsure

\* The session that ConfirmEmailChange gives the device that changed the
\* address is not ended by its own sign-out: neither Redis nor the local cache
\* refuses its access token, unless another sign-out began later or meanwhile.
OwnSessionWorks ==
  \A s \in DOMAIN tokens :
    tokens[s].own /\ ~tokens[s].unsure /\ tokens[s].gen = begun =>
      key.at < tokens[s].iat /\ local.at < tokens[s].iat

\* A ticket opens one websocket as long as it is valid, although the map of
\* redeemed tickets is swept (Tickets.Redeem).
TicketOnce ==
  \A t \in DOMAIN tokens : now < TicketEnd(t) => tokens[t].uses <= 1

\* A ticket that opened a websocket is remembered for as long as it is valid.
Redeemed ==
  \A t \in DOMAIN tokens : tokens[t].uses > 0 => /\ tokens[t].kind = "ticket"
                                                 /\ now < TicketEnd(t) => t \in used

-----------------------------------------------------------------------------
(* What each request relies on between its steps                           *)

SigningIn == {"login", "refresh", "email"}
Presenting == {"call", "admin", "ticket"}
Ends == {"all", "email", "ban"}
Sure == {s \in DOMAIN tokens : ~tokens[s].unsure}

\* Which operation a step belongs to, and what a request carries: the age of
\* its credential, that of a session which is not old, or of the last sign-out.
Course(r) ==
  LET q == req[r]
  IN /\ q.pc = "idle" <=> q.op = "none"
     /\ q.pc \in SignOutSteps => q.op \in Ends
     /\ q.pc = "sleep" => q.op = "email"
     /\ q.pc \in {"suspended", "insert"} => q.op \in SigningIn
     /\ q.pc = "insert" => q.at > 0
     /\ q.pc = "rotate" => q.op = "refresh"
     /\ q.pc = "redeem" => q.op = "ticket"
     /\ q.pc \in {"check", "get", "keep", "in"} => q.op \in Presenting
     /\ q.op = "ticket" => tokens[q.cred].kind = "ticket"
     /\ q.op \in Presenting \cup {"refresh"} =>
          q.gen = tokens[q.cred].gen /\ (tokens[q.cred].unsure => q.unsure)
     /\ q.op \in SigningIn /\ ~q.unsure => q.gen >= done
     /\ q.op \in Ends /\ ~q.unsure => q.gen = begun

\* Redis, and an answer with time at, refuse the tokens of sessions before g
\* for as long as they are valid.
KeyKnows(g) == \A s \in Sure : tokens[s].gen < g =>
                 tokens[s].iat <= key.at /\ tokens[s].iat + Keep <= key.until
Knows(at, g) == \A s \in Sure : tokens[s].gen < g =>
                  tokens[s].iat <= at \/ now >= tokens[s].iat + Keep
LocalKnows(g) == local.checked # 0 /\ ~local.unsure => Knows(local.at, g)

\* What a sign-out has done so far: it meets no request and no token that is
\* not marked, or older than the time it will store.
Carrying(r) ==
  LET q == req[r]
  IN /\ (\E x \in Reqs \ {r} : req[x].pc \in SignOutSteps) /\ q.pc # "idle" => q.unsure
     /\ q.pc \in SignOutSteps => \A s \in Sure : tokens[s].gen < q.gen
     /\ q.pc \in {"mark", "remember"} => \A s \in Sure : tokens[s].iat <= q.at
     /\ q.pc \in SignOutSteps \ {"revoke"} => \A s \in Sure : ~tokens[s].live
     /\ q.pc \in {"remember", "disconnect", "forget"} => KeyKnows(q.gen)
     /\ q.pc \in {"disconnect", "forget"} => LocalKnows(q.gen)
     /\ q.pc = "forget" => \A x \in links : x.what = "socket" => x.unsure

\* A reply from Redis is still good when it is used, and who was admitted on
\* one may come in.
Admitted(r) ==
  /\ req[r].pc = "keep" /\ ~req[r].unsure => Knows(req[r].reply, done)
  /\ req[r].pc = "in" /\ ~req[r].unsure /\ req[r].gen < done =>
       req[r].op = "admin" /\ now >= Issued(r) + Keep

\* All revocations that are stored, remembered or on their way are before t.
Quiet(t) == key.at < t /\ local.at < t /\ \A x \in Reqs : req[x].reply < t

\* The device that changed the address gets its tokens late enough.
Waited(r) ==
  req[r].op = "email" /\ ~req[r].unsure =>
    /\ req[r].pc = "sleep" => Quiet(req[r].at + 1)
    /\ req[r].pc = "suspended" => Quiet(now)
    /\ req[r].pc = "insert" => Quiet(req[r].at)

\* What is left of the sessions from before the last completed sign-out.
OldIsOut ==
  /\ KeyKnows(done) /\ LocalKnows(done)
  /\ \A s \in Sure : tokens[s].live => tokens[s].gen >= done
  /\ \A x \in links : x.unsure \/ x.gen >= done

\* What is left under a suspension that was carried out.
BanHolds ==
  /\ banDone => banned
  /\ banned => ~isAdmin
  /\ banDone => /\ \A s \in Sure : ~tokens[s].live /\ tokens[s].gen < done
                /\ \A x \in links : x.unsure
                /\ \A r \in Reqs : req[r].pc = "insert" => req[r].unsure

OwnIsLater == \A s \in Sure : tokens[s].own /\ tokens[s].gen = begun => Quiet(tokens[s].iat)

\* The types of tokens, answers and connections; a ticket works once
\* (ticket.go, Redeem); and what Redis, the local answers and each request
\* between two of its steps know is enough to keep old sessions out
\* (revoke.Store).
SessionsInv ==
  /\ TypeOK /\ TicketOnce /\ Redeemed
  /\ \A r \in Reqs : Course(r) /\ Carrying(r) /\ Admitted(r) /\ Waited(r)
  /\ OldIsOut /\ BanHolds /\ OwnIsLater
=============================================================================
