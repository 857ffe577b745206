--------------------------- MODULE SessionsProofs ---------------------------
(***************************************************************************)
(* Sessions proved for any requests, lifetimes of tokens and of the local  *)
(* answers, bounds and failures.                                           *)
(***************************************************************************)
EXTENDS Sessions, SequenceTheorems, TLAPS

Records == [op : {"none", "login", "refresh", "call", "admin", "ticket", "all", "email", "ban"},
            pc : Steps, cred : Nat, at : 0 .. now, reply : 0 .. now, gen : 0 .. begun, unsure : BOOLEAN]

\* A request's record has its type, and the credential exists.
Typed(r) == /\ req[r] \in Records
            /\ req[r].op \in {"refresh", "call", "admin", "ticket"} => req[r].cred \in DOMAIN tokens

OfRequest(r) == Course(r) /\ Carrying(r) /\ Admitted(r) /\ Waited(r)

LEMMA TypeOKIs ==
  TypeOK <=>
    /\ now \in Nat \ {0} /\ isAdmin \in BOOLEAN /\ banned \in BOOLEAN /\ banDone \in BOOLEAN
    /\ begun \in Nat /\ done \in 0 .. begun /\ faults \in 0 .. MaxFaults
    /\ tokens \in Seq(Tokens)
    /\ used \subseteq {t \in DOMAIN tokens : tokens[t].kind = "ticket"}
    /\ key \in [at : 0 .. now, until : Nat]
    /\ local \in [at : 0 .. now, checked : 0 .. now, unsure : BOOLEAN]
    /\ links \subseteq [what : {"socket", "phone"}, gen : 0 .. begun, unsure : BOOLEAN]
    /\ req \in [Reqs -> Records]
    /\ \A r \in Reqs : Typed(r)
BY DEF TypeOK, Typed, Records

LEMMA Constants == Keep \in Nat \ {0} /\ TicketTTL \in Nat \ {0} /\ MaxFaults \in Nat
BY SessionsAssumption DEF Keep

(* Tokens of one type are of every type their elements have. *)
LEMMA Retyped ==
  ASSUME NEW S, NEW T, NEW q \in Seq(S), \A i \in 1 .. Len(q) : q[i] \in T
  PROVE  q \in Seq(T)
BY ElementOfSeq, IsASeq

(* What a step may do to the tokens of the account: it may end some, redeem
   some and add some. *)
Lasting == \A s \in DOMAIN tokens :
             /\ s \in DOMAIN tokens' /\ tokens'[s].kind = tokens[s].kind
             /\ tokens'[s].iat = tokens[s].iat /\ tokens'[s].own = tokens[s].own
             /\ tokens'[s].gen = tokens[s].gen /\ (tokens'[s].unsure <=> tokens[s].unsure)
             /\ tokens'[s].live => tokens[s].live

\* A token that nobody had yet may appear.
Welcome(x) == x.unsure \/ /\ ~Open /\ ~banDone /\ x.gen >= done
                          /\ x.own /\ x.gen = begun => Quiet(x.iat)

Arriving == \A s \in DOMAIN tokens' \ DOMAIN tokens : Welcome(tokens'[s])

\* A link may appear.
Joining == \A x \in links' \ links : x.unsure \/ (~Open /\ ~banDone /\ x.gen >= done)

\* A step of r that moves nothing of what the others rely on.
Calm ==
  /\ UNCHANGED <<now, account, local, key, history>>
  /\ Lasting /\ Arriving /\ Joining
  /\ \A x \in Reqs : /\ req'[x].reply \in {req[x].reply, 0, key.at}
                     /\ req'[x].pc \in SignOutSteps => req[x].pc \in SignOutSteps
                     /\ req'[x].pc = "insert" /\ banDone => req'[x].unsure

LEMMA QuietStays ==
  ASSUME SessionsInv, Calm, NEW t \in Nat, Quiet(t)
  PROVE  Quiet(t)'
<1>1. key' = key /\ local' = local /\ key.at \in Nat
  BY DEF Calm, SessionsInv, TypeOK
<1>2. ASSUME NEW x \in Reqs PROVE req'[x].reply < t
  <2>1. req'[x].reply \in {req[x].reply, 0, key.at}
    BY DEF Calm
  <2> QED BY <1>1, <2>1 DEF Quiet
<1> QED BY <1>1, <1>2 DEF Quiet

(* Of the sure tokens, those that come are of no old session. *)
LEMMA SureTokens ==
  ASSUME SessionsInv, Calm, NEW s \in Sure'
  PROVE  \/ /\ s \in Sure /\ tokens'[s].gen = tokens[s].gen /\ tokens'[s].iat = tokens[s].iat
            /\ tokens'[s].own = tokens[s].own /\ (tokens'[s].live => tokens[s].live)
         \/ /\ ~Open /\ ~banDone /\ tokens'[s].gen >= done
            /\ tokens'[s].own /\ tokens'[s].gen = begun => Quiet(tokens'[s].iat)
BY DEF Sure, Calm, Lasting, Arriving, Welcome

LEMMA KnowsStays ==
  ASSUME SessionsInv, Calm, TypeOK'
  PROVE  /\ \A g \in Nat : (g <= done \/ Open) /\ KeyKnows(g) => KeyKnows(g)'
         /\ \A g \in Nat : (g <= done \/ Open) /\ LocalKnows(g) => LocalKnows(g)'
         /\ \A at \in Nat : Knows(at, done) => Knows(at, done)'
<1>1. /\ now' = now /\ key' = key /\ local' = local /\ done' = done /\ done \in Nat
      /\ \A s \in Sure' : tokens'[s].gen \in Nat
  <2>1. \A s \in DOMAIN tokens' : tokens'[s] \in Tokens'
    BY DEF TypeOK
  <2> QED BY <2>1 DEF Calm, history, SessionsInv, TypeOK, Sure, Tokens
<1> QED BY <1>1, SureTokens DEF KeyKnows, LocalKnows, Knows

(* A request that does not move keeps what it relies on. *)
LEMMA RestKeeps ==
  ASSUME SessionsInv, Calm, TypeOK', NEW x \in Reqs, req'[x] = req[x]
  PROVE  OfRequest(x)'
<1>1. /\ OfRequest(x) /\ Typed(x) /\ req[x] \in Records /\ now \in Nat /\ begun \in Nat /\ done \in Nat
      /\ now' = now /\ begun' = begun /\ done' = done
  BY TypeOKIs DEF SessionsInv, OfRequest, Calm, history
<1>2. Course(x)'
  BY <1>1 DEF OfRequest, Course, Typed, Calm, Lasting, Presenting
<1>3. Carrying(x)'
  <2>1. (\E y \in Reqs \ {x} : req[y].pc \in SignOutSteps)' => \E y \in Reqs \ {x} : req[y].pc \in SignOutSteps
    BY DEF Calm
  <2>2. req[x].pc \in SignOutSteps => Open /\ req[x].gen \in Nat
    BY <1>1 DEF Open, Records
  <2>3. req[x].pc \in SignOutSteps => \A y \in links' : y.unsure \/ y \in links
    BY <2>2 DEF Calm, Joining
  <2>4. {"mark", "remember", "disconnect", "forget"} \subseteq SignOutSteps
    BY DEF SignOutSteps
  <2> QED BY <1>1, <2>1, <2>2, <2>3, <2>4, SureTokens, KnowsStays DEF OfRequest, Carrying
<1>4. Admitted(x)'
  <2>1. req[x].pc = "in" => Issued(x)' = Issued(x)
    BY <1>1 DEF OfRequest, Course, Typed, Presenting, Calm, Lasting, Issued
  <2>2. req[x].reply \in Nat
    BY <1>1 DEF Records
  <2> QED BY <1>1, <2>1, <2>2, KnowsStays DEF OfRequest, Admitted, Keep
<1>5. Waited(x)'
  <2>1. req[x].at \in Nat
    BY <1>1 DEF Records
  <2> QED BY <1>1, <2>1, QuietStays DEF OfRequest, Waited
<1> QED BY <1>2, <1>3, <1>4, <1>5 DEF OfRequest

LEMMA CalmKeeps ==
  ASSUME SessionsInv, Calm, TypeOK', TicketOnce', Redeemed',
         \A x \in Reqs : req'[x] = req[x] \/ OfRequest(x)'
  PROVE  SessionsInv'
<1>1. now' = now /\ begun' = begun /\ done' = done /\ done \in Nat /\ now \in Nat /\ UNCHANGED <<banned, banDone, isAdmin>>
  BY DEF SessionsInv, TypeOK, Calm, history, account
<1>2. \A x \in Reqs : OfRequest(x)'
  BY RestKeeps
<1>3. OldIsOut'
  BY <1>1, KnowsStays, SureTokens DEF SessionsInv, OldIsOut, Calm, Joining
<1>4. BanHolds'
  BY <1>1, SureTokens DEF SessionsInv, BanHolds, Calm, Joining
<1>5. OwnIsLater'
  <2>1. \A s \in Sure' : tokens'[s].iat \in Nat
    <3>1. \A s \in DOMAIN tokens' : tokens'[s] \in Tokens'
      BY DEF TypeOK
    <3> QED BY <1>1, <3>1 DEF Sure, Tokens
  <2> QED BY <1>1, <2>1, SureTokens, QuietStays DEF SessionsInv, OwnIsLater
<1> QED BY <1>2, <1>3, <1>4, <1>5 DEF SessionsInv, OfRequest


-----------------------------------------------------------------------------
(* Steps that only move one request.                                        *)

\* r goes on as q.
Moves(r, q) == /\ q \in Records
               /\ req' = [req EXCEPT ![r] = q]
               /\ q.op \in {"refresh", "call", "admin", "ticket"} => q.cred \in DOMAIN tokens

LEMMA MovesTypes ==
  ASSUME SessionsInv, NEW r \in Reqs, NEW q, Moves(r, q), now' = now, begun' = begun,
         DOMAIN tokens \subseteq DOMAIN tokens'
  PROVE  /\ req' \in [Reqs -> Records'] /\ (\A x \in Reqs : Typed(x)')
         /\ req'[r] = q /\ \A x \in Reqs \ {r} : req'[x] = req[x]
<1>1. req \in [Reqs -> Records] /\ (\A x \in Reqs : Typed(x)) /\ Records' = Records
  BY TypeOKIs DEF SessionsInv, Records
<1>2. req' \in [Reqs -> Records'] /\ req'[r] = q /\ \A x \in Reqs \ {r} : req'[x] = req[x]
  BY <1>1 DEF Moves
<1>3. ASSUME NEW x \in Reqs PROVE Typed(x)'
  <2>1. CASE x = r
    BY <1>1, <1>2, <2>1 DEF Moves, Typed
  <2>2. CASE x # r
    BY <1>1, <1>2, <2>2 DEF Typed
  <2> QED BY <2>1, <2>2
<1> QED BY <1>2, <1>3

\* Where a request may go without a word to the others.
MayGo(r, q) == /\ q.reply \in {req[r].reply, 0, key.at}
               /\ q.pc \in SignOutSteps => req[r].pc \in SignOutSteps
               /\ q.pc = "insert" /\ banDone => q.unsure

LEMMA MovesCalm ==
  ASSUME SessionsInv, NEW r \in Reqs, NEW q, Moves(r, q), MayGo(r, q), UNCHANGED <<now, account, local, key, history>>,
         Lasting, Arriving, Joining
  PROVE  Calm
<1>1. req'[r] = q /\ \A x \in Reqs \ {r} : req'[x] = req[x]
  BY MovesTypes DEF Lasting, history
<1> QED BY <1>1 DEF Calm, MayGo, SessionsInv, BanHolds

LEMMA PlainKeeps ==
  ASSUME SessionsInv, NEW r \in Reqs, NEW q, Moves(r, q), MayGo(r, q),
         UNCHANGED <<now, account, tokens, caches, links, history>>, faults' \in 0 .. MaxFaults,
         req'[r] = q => OfRequest(r)'
  PROVE  SessionsInv'
<1>1. TypeOK /\ TicketOnce /\ Redeemed
  BY DEF SessionsInv
<1>2. /\ req' \in [Reqs -> Records'] /\ (\A x \in Reqs : Typed(x)')
      /\ req'[r] = q /\ \A x \in Reqs \ {r} : req'[x] = req[x]
  BY MovesTypes DEF history
<1>3. TypeOK'
  BY <1>1, <1>2, TypeOKIs DEF TypeOK, Typed, Records, history, account, caches, Tokens
<1>4. TicketOnce' /\ Redeemed'
  BY <1>1 DEF TicketOnce, Redeemed, TicketEnd, caches
<1>5. Calm
  BY MovesCalm DEF Lasting, Arriving, Joining, caches
<1> QED BY <1>2, <1>3, <1>4, <1>5, CalmKeeps

(* A request that is over. *)
LEMMA IdleOK ==
  ASSUME NEW r \in Reqs, req'[r] = Idle
  PROVE  OfRequest(r)'
BY DEF Idle, OfRequest, Course, Carrying, Admitted, Waited, SignOutSteps, SigningIn, Presenting, Ends

LEMMA EndMoves ==
  ASSUME SessionsInv, NEW r \in Reqs, End(r)
  PROVE  Moves(r, Idle) /\ MayGo(r, Idle)
BY DEF SessionsInv, TypeOK, End, Moves, MayGo, Idle, Records, Steps, SignOutSteps

LEMMA EndKeeps ==
  ASSUME SessionsInv, NEW r \in Reqs, End(r), UNCHANGED <<now, account, tokens, caches, links, history>>,
         faults' \in 0 .. MaxFaults
  PROVE  SessionsInv'
BY EndMoves, IdleOK, PlainKeeps

(* While somebody else signs the account out, a request is not sure. *)
LEMMA OthersOpen ==
  ASSUME NEW r \in Reqs, NEW q, Moves(r, q), req \in [Reqs -> Records], Open => q.unsure
  PROVE  (\E x \in Reqs \ {r} : req[x].pc \in SignOutSteps)' => q.unsure
BY DEF Moves, Open

(* A request that starts. *)
LEMMA StartKeeps ==
  ASSUME SessionsInv, NEW r \in Reqs, NEW op \in {"login", "refresh", "call", "admin", "ticket"},
         NEW pc \in {"suspended", "rotate", "check", "redeem"}, NEW cred \in Nat, NEW gen \in 0 .. begun,
         NEW unsure \in BOOLEAN, NEW at \in 0 .. now, Start(r, op, pc, cred, gen, unsure, at),
         UNCHANGED <<now, account, tokens, caches, links, history, faults>>,
         op = "login" => pc = "suspended" /\ gen = begun,
         op = "refresh" => pc = "rotate" /\ (~unsure => gen >= done),
         op \in {"call", "admin"} => pc = "check",
         op = "ticket" => pc = "redeem" /\ tokens[cred].kind = "ticket",
         op # "login" => cred \in DOMAIN tokens /\ gen = tokens[cred].gen /\ (tokens[cred].unsure => unsure)
  PROVE  SessionsInv'
<1> DEFINE u == unsure \/ Open
           q == [op |-> op, pc |-> pc, cred |-> cred, at |-> at, reply |-> 0, gen |-> gen, unsure |-> u]
<1>1. /\ TypeOK /\ req[r].pc = "idle" /\ req' = [req EXCEPT ![r] = q]
      /\ begun' = begun /\ done' = done /\ tokens' = tokens
  BY DEF Start, SessionsInv, TypeOK, history
<1>2. u \in BOOLEAN /\ (~u => ~unsure /\ ~Open)
  OBVIOUS
<1> HIDE DEF u
<1>3. /\ q.op = op /\ q.pc = pc /\ q.cred = cred /\ q.reply = 0 /\ q.gen = gen
      /\ q.unsure = u /\ q \in Records
  BY <1>1, <1>2 DEF Records, Steps, TypeOK
<1> HIDE DEF q
<1>4. Moves(r, q) /\ MayGo(r, q)
  BY <1>1, <1>3 DEF Moves, MayGo, SignOutSteps
<1>5. ASSUME req'[r] = q PROVE OfRequest(r)'
  <2>1. Course(r)'
    <3>1. /\ op = "login" => gen >= done
          /\ tokens'[cred].gen = tokens[cred].gen /\ (tokens'[cred].unsure <=> tokens[cred].unsure)
          /\ tokens'[cred].kind = tokens[cred].kind
      BY <1>1 DEF TypeOK
    <3>2. op # "login" => q.gen = tokens'[q.cred].gen /\ (tokens'[q.cred].unsure => q.unsure)
      BY <1>2, <1>3, <3>1
    <3> QED BY <1>1, <1>2, <1>3, <1>5, <3>1, <3>2 DEF Course, SignOutSteps, SigningIn, Presenting, Ends
  <2>2. Carrying(r)'
    BY <1>1, <1>2, <1>3, <1>4, <1>5, OthersOpen DEF Carrying, SignOutSteps, TypeOK, Records
  <2> QED BY <1>3, <1>5, <2>1, <2>2 DEF OfRequest, Admitted, Waited
<1> QED BY <1>1, <1>4, <1>5, PlainKeeps DEF TypeOK

LEMMA StartsKeep ==
  ASSUME SessionsInv, NEW r \in Reqs
  PROVE  /\ Login(r) => SessionsInv'
         /\ \A s \in DOMAIN tokens : Refresh(r, s) \/ Call(r, s) \/ AdminCall(r, s) \/ Connect(r, s) => SessionsInv'
<1>1. /\ TypeOK /\ begun \in 0 .. begun /\ 0 \in 0 .. now /\ now \in 0 .. now /\ 0 \in Nat
      /\ \A s \in DOMAIN tokens : s \in Nat /\ tokens[s] \in Tokens
  BY DEF SessionsInv, TypeOK
<1>2. CASE Login(r)
  BY <1>1, <1>2, StartKeeps DEF Login
<1>3. ASSUME NEW s \in DOMAIN tokens, Refresh(r, s) PROVE SessionsInv'
  <2>1. ~tokens[s].unsure => tokens[s].gen >= done
    BY <1>3 DEF SessionsInv, OldIsOut, Sure, Refresh, GetRefreshToken
  <2>2. tokens[s].gen \in 0 .. begun /\ tokens[s].unsure \in BOOLEAN
    BY <1>1 DEF Tokens
  <2> QED BY <1>1, <1>3, <2>1, <2>2, StartKeeps DEF Refresh
<1>4. ASSUME NEW s \in DOMAIN tokens, Call(r, s) \/ AdminCall(r, s) \/ Connect(r, s) PROVE SessionsInv'
  <2>1. tokens[s].gen \in 0 .. begun /\ tokens[s].unsure \in BOOLEAN
    BY <1>1 DEF Tokens
  <2>2. CASE Call(r, s)
    BY <1>1, <2>1, <2>2, StartKeeps DEF Call
  <2>3. CASE AdminCall(r, s)
    BY <1>1, <2>1, <2>3, StartKeeps DEF AdminCall
  <2>4. CASE Connect(r, s)
    BY <1>1, <2>1, <2>4, StartKeeps DEF Connect
  <2> QED BY <1>4, <2>2, <2>3, <2>4
<1> QED BY <1>2, <1>3, <1>4

(* What is known of a request under way: its fields, and that nobody else is
   signing the account out if it is sure. *)
LEMMA UnderWay ==
  ASSUME SessionsInv, NEW r \in Reqs
  PROVE  /\ TypeOK /\ Typed(r) /\ req[r] \in Records /\ OfRequest(r) /\ req \in [Reqs -> Records]
         /\ req[r].unsure \in BOOLEAN /\ req[r].at \in 0 .. now /\ req[r].gen \in 0 .. begun
         /\ now \in Nat /\ begun \in Nat /\ done \in 0 .. begun
         /\ req[r].pc \notin SignOutSteps \cup {"idle"} /\ Open => req[r].unsure
<1>1. /\ TypeOK /\ Typed(r) /\ req[r] \in Records /\ OfRequest(r) /\ req \in [Reqs -> Records]
  BY TypeOKIs DEF SessionsInv, OfRequest
<1>2. req[r].unsure \in BOOLEAN /\ req[r].at \in 0 .. now /\ req[r].gen \in 0 .. begun
  BY <1>1 DEF Records
<1>3. req[r].pc \notin SignOutSteps \cup {"idle"} /\ Open => req[r].unsure
  BY <1>1 DEF Open, OfRequest, Carrying
<1> QED BY <1>1, <1>2, <1>3 DEF TypeOK

(* A request that takes one more step, with the same credential. *)
SameAs(q, r) == q.op = req[r].op /\ q.cred = req[r].cred /\ q.gen = req[r].gen

LEMMA StepMoves ==
  ASSUME SessionsInv, NEW r \in Reqs, NEW q \in Records, SameAs(q, r), req' = [req EXCEPT ![r] = q]
  PROVE  Moves(r, q)
BY UnderWay DEF Typed, Moves, SameAs

LEMMA GotoMoves ==
  ASSUME SessionsInv, NEW r \in Reqs, NEW pc \in Steps, Goto(r, pc)
  PROVE  \E q : /\ Moves(r, q) /\ SameAs(q, r) /\ q.pc = pc /\ q.at = 0 /\ q.reply = req[r].reply
                /\ q.unsure = req[r].unsure
<1> DEFINE q == [req[r] EXCEPT !.pc = pc, !.at = 0]
<1>1. req[r] \in Records /\ req \in [Reqs -> Records] /\ 0 \in 0 .. now
  BY UnderWay
<1>2. /\ q \in Records /\ SameAs(q, r) /\ q.pc = pc /\ q.at = 0 /\ q.reply = req[r].reply
      /\ q.unsure = req[r].unsure
  BY <1>1 DEF Records, SameAs
<1>3. req' = [req EXCEPT ![r] = q]
  BY <1>1, Zenon DEF Goto
<1> QED BY <1>2, <1>3, StepMoves

(* A request that goes on with its credential keeps its course. *)
LEMMA CourseStays ==
  ASSUME SessionsInv, NEW r \in Reqs, NEW q, Moves(r, q), SameAs(q, r), req[r].unsure => q.unsure,
         req'[r] = q, Lasting, UNCHANGED history, req[r].pc # "idle", q.pc \in Steps,
         q.pc \in SignOutSteps => req[r].pc \in SignOutSteps,
         q.pc = "sleep" => q.op = "email",
         q.pc \in {"suspended", "insert"} => q.op \in SigningIn,
         q.pc = "insert" => q.at > 0,
         q.pc \notin {"rotate", "redeem", "idle"},
         q.pc \in {"check", "get", "keep", "in"} => q.op \in Presenting
  PROVE  Course(r)'
<1>1. Course(r) /\ Typed(r) /\ UNCHANGED <<begun, done>>
  BY UnderWay DEF OfRequest, history
<1>2. q.op \in {"refresh", "call", "admin", "ticket"} =>
        /\ tokens'[q.cred].kind = tokens[q.cred].kind /\ tokens'[q.cred].gen = tokens[q.cred].gen
        /\ (tokens'[q.cred].unsure <=> tokens[q.cred].unsure)
  BY <1>1 DEF Lasting, Typed, SameAs
<1> QED BY <1>1, <1>2 DEF Course, SameAs, Presenting

(* A step outside the sign-outs has little to carry. *)
LEMMA NotSigningOut ==
  ASSUME SessionsInv, NEW r \in Reqs, NEW q, Moves(r, q), req[r].unsure => q.unsure, req'[r] = q,
         req[r].pc \notin SignOutSteps \cup {"idle"}, q.pc \notin SignOutSteps
  PROVE  Carrying(r)'
<1>1. (\E x \in Reqs \ {r} : req[x].pc \in SignOutSteps)' => q.unsure
  BY UnderWay, OthersOpen
<1>2. {"mark", "remember", "disconnect", "forget", "revoke"} = SignOutSteps
  BY DEF SignOutSteps
<1> QED BY <1>1, <1>2 DEF Carrying

(* The verdict on a request lets nobody in whom the answer refuses. *)
LEMMA DecideMoves ==
  ASSUME SessionsInv, NEW r \in Reqs, NEW at \in Nat, NEW unsure \in BOOLEAN, Decide(r, at, unsure),
         req[r].pc \in {"check", "get", "keep"}, ~req[r].unsure /\ ~unsure => Knows(at, done),
         UNCHANGED <<now, tokens, history>>
  PROVE  \E q : /\ Moves(r, q) /\ MayGo(r, q) /\ (req'[r] = q => OfRequest(r)')
                /\ q.pc \notin SignOutSteps \cup {"insert"} /\ q.reply = 0
<1>1. CASE End(r)
  BY <1>1, EndMoves, IdleOK DEF Idle, SignOutSteps
<1>2. CASE ~IsRevoked(r, at) /\ Admit(r, unsure \/ (req[r].op # "admin" /\ now >= Issued(r) + AccessTTL))
  <2> DEFINE late == req[r].op # "admin" /\ now >= Issued(r) + AccessTTL
             u == req[r].unsure \/ (unsure \/ late)
             q == [req[r] EXCEPT !.pc = "in", !.at = 0, !.reply = 0, !.unsure = u]
  <2>1. /\ req[r] \in Records /\ Typed(r) /\ Course(r) /\ req[r].unsure \in BOOLEAN /\ now \in Nat /\ done \in Nat
        /\ req \in [Reqs -> Records] /\ TypeOK
    BY UnderWay DEF OfRequest
  <2>2. u \in BOOLEAN
    OBVIOUS
  <2>3. req' = [req EXCEPT ![r] = q]
    BY <1>2, <2>1, Zenon DEF Admit
  <2> HIDE DEF u
  <2>4. q \in Records /\ SameAs(q, r) /\ q.pc = "in" /\ q.at = 0 /\ q.reply = 0 /\ q.unsure = u
    <3>1. "in" \in Steps /\ 0 \in 0 .. now
      BY <2>1 DEF Steps
    <3>2. q.pc = "in" /\ q.at = 0 /\ q.reply = 0 /\ q.unsure = u
      BY <2>1 DEF Records
    <3>3. SameAs(q, r)
      BY <2>1 DEF Records, SameAs
    <3>4. q \in Records
      BY <2>1, <2>2, <3>1 DEF Records
    <3> QED BY <3>2, <3>3, <3>4
  <2> HIDE DEF q
  <2>5. Moves(r, q)
    BY <2>3, <2>4, StepMoves
  <2>6. /\ req[r].op \in Presenting /\ "in" \in Steps /\ "in" \notin SignOutSteps
        /\ req[r].pc \notin SignOutSteps \cup {"idle"}
    BY <2>1 DEF Course, Steps, SignOutSteps
  <2>7. req[r].unsure => q.unsure
    BY <2>4 DEF u
  <2>8. ~q.unsure /\ q.gen < done => q.op = "admin" /\ now >= Issued(r) + Keep
    <3>1. SUFFICES ASSUME ~u, req[r].gen < done PROVE req[r].op = "admin" /\ now >= Issued(r) + Keep
      BY <2>4 DEF SameAs
    <3>2. Knows(at, done) /\ ~req[r].unsure /\ ~late
      BY <3>1 DEF u
    <3>3. req[r].cred \in Sure /\ tokens[req[r].cred].gen < done /\ tokens[req[r].cred] \in Tokens
      BY <2>1, <2>6, <3>1, <3>2 DEF Course, Typed, Presenting, Sure, TypeOK
    <3>4. Issued(r) <= at \/ now >= Issued(r) + Keep
      BY <3>2, <3>3 DEF Knows, Issued
    <3>5. Issued(r) \in Nat /\ Issued(r) > 0
      BY <2>1, <3>3 DEF Tokens, Issued
    <3>6. now >= Issued(r) + Keep
      BY <1>2, <3>4, <3>5 DEF IsRevoked
    <3> QED BY <3>2, <3>6 DEF Keep
  <2>9. MayGo(r, q) /\ q.pc \notin SignOutSteps \cup {"insert"} /\ q.reply = 0
    BY <2>4, <2>6 DEF MayGo
  <2>10. ASSUME req'[r] = q PROVE OfRequest(r)'
    <3>1. Course(r)'
      BY <2>4, <2>5, <2>6, <2>7, <2>10, CourseStays DEF Lasting, SameAs
    <3>2. Carrying(r)'
      BY <2>4, <2>5, <2>6, <2>7, <2>10, NotSigningOut
    <3>3. Admitted(r)' /\ Waited(r)'
      BY <2>4, <2>8, <2>10 DEF Admitted, Waited, Issued, SameAs, history, Keep
    <3> QED BY <3>1, <3>2, <3>3 DEF OfRequest
  <2> QED BY <2>5, <2>9, <2>10
<1> QED BY <1>1, <1>2 DEF Decide

LEMMA QuietLater ==
  ASSUME SessionsInv, NEW t \in Nat, NEW u \in Nat, t <= u, Quiet(t)
  PROVE  Quiet(u)
<1>1. key.at \in Nat /\ local.at \in Nat /\ now \in Nat /\ \A x \in Reqs : req[x].reply \in Nat
  <2>1. \A x \in Reqs : req[x] \in Records
    BY UnderWay
  <2> QED BY <2>1 DEF SessionsInv, TypeOK, Records
<1> QED BY <1>1 DEF Quiet

(* A request that is not signing out goes on, as sure as it was. *)
LEMMA GoesOnKeeps ==
  ASSUME SessionsInv, NEW r \in Reqs, NEW q, Moves(r, q), SameAs(q, r), q.unsure = req[r].unsure,
         UNCHANGED <<now, account, tokens, caches, links, history, faults>>,
         req[r].pc \notin SignOutSteps \cup {"idle"}, q.pc \in {"suspended", "insert", "get", "keep"},
         q.pc \in {"suspended", "insert"} => q.op \in SigningIn,
         q.pc = "insert" => q.at > 0 /\ ~banDone,
         q.pc \in {"get", "keep"} => q.op \in Presenting,
         q.pc = "keep" /\ ~q.unsure => Knows(q.reply, done),
         q.reply \in {req[r].reply, 0, key.at},
         q.op = "email" /\ ~q.unsure /\ q.pc = "suspended" => Quiet(now),
         q.op = "email" /\ ~q.unsure /\ q.pc = "insert" => Quiet(q.at)
  PROVE  SessionsInv'
<1>1. q.pc \in Steps /\ q.pc \notin SignOutSteps /\ q \in Records
  BY DEF Steps, SignOutSteps, Moves
<1>2. MayGo(r, q)
  BY <1>1 DEF MayGo
<1>3. Lasting /\ Calm
  BY <1>2, MovesCalm DEF Lasting, Arriving, Joining, caches
<1>4. faults' \in 0 .. MaxFaults /\ now' = now /\ done' = done /\ tokens' = tokens /\ now \in Nat
  BY UnderWay DEF TypeOK, history
<1>5. ASSUME req'[r] = q PROVE OfRequest(r)'
  <2>1. Course(r)'
    BY <1>1, <1>3, <1>5, CourseStays
  <2>2. Carrying(r)'
    BY <1>1, <1>5, NotSigningOut
  <2>3. Admitted(r)'
    BY <1>4, <1>5 DEF Admitted, Knows, Sure
  <2>4. Waited(r)'
    <3>1. q.at \in Nat /\ now \in Nat
      BY <1>1, <1>4 DEF Records
    <3>2. ASSUME NEW t \in Nat, Quiet(t)
          PROVE  key'.at < t /\ local'.at < t /\ \A x \in Reqs : req'[x].reply < t
      BY <1>3, <3>2, QuietStays DEF Quiet
    <3>3. Quiet(now) => Quiet(now)'
      BY <1>4, <3>1, <3>2 DEF Quiet
    <3>4. Quiet(q.at) => key'.at < q.at /\ local'.at < q.at /\ \A x \in Reqs : req'[x].reply < q.at
      BY <3>1, <3>2
    <3>5. Quiet(q.at) => Quiet(req[r].at)'
      BY <1>5, <3>4 DEF Quiet
    <3> QED BY <1>5, <3>3, <3>5 DEF Waited
  <2> QED BY <2>1, <2>2, <2>3, <2>4 DEF OfRequest
<1> QED BY <1>2, <1>4, <1>5, PlainKeeps

LEMMA SuspensionKeeps ==
  ASSUME SessionsInv, NEW r \in Reqs, Suspension(r)
  PROVE  SessionsInv'
<1>1. /\ req[r] \in Records /\ req \in [Reqs -> Records] /\ OfRequest(r) /\ TypeOK /\ now \in Nat /\ req[r].unsure \in BOOLEAN
      /\ req[r].pc = "suspended" /\ req[r].pc \notin SignOutSteps \cup {"idle"} /\ req[r].op \in SigningIn
  BY UnderWay DEF Suspension, SignOutSteps, OfRequest, Course
<1>2. CASE End(r)
  BY <1>1, <1>2, EndKeeps DEF Suspension, TypeOK
<1>3. CASE ~banned /\ req' = [req EXCEPT ![r].pc = "insert", ![r].at = now]
  <2> DEFINE q == [req[r] EXCEPT !.pc = "insert", !.at = now]
  <2>1. /\ q \in Records /\ SameAs(q, r) /\ q.pc = "insert" /\ q.at = now /\ q.reply = req[r].reply
        /\ q.unsure = req[r].unsure
    <3>1. "insert" \in Steps /\ now \in 0 .. now
      BY <1>1 DEF Steps
    <3> QED BY <1>1, <3>1 DEF Records, SameAs
  <2>2. req' = [req EXCEPT ![r] = q]
    BY <1>1, <1>3, Zenon
  <2> HIDE DEF q
  <2>3. Moves(r, q)
    BY <2>1, <2>2, StepMoves
  <2>4. ~banDone /\ now > 0
    BY <1>3 DEF SessionsInv, BanHolds, TypeOK
  <2>5. q.op = "email" /\ ~q.unsure => Quiet(now)
    BY <1>1, <2>1 DEF OfRequest, Waited, SameAs
  <2> QED BY <1>1, <2>1, <2>3, <2>4, <2>5, GoesOnKeeps DEF Suspension, SameAs
<1> QED BY <1>2, <1>3 DEF Suspension

LEMMA LocalRevokedKeeps ==
  ASSUME SessionsInv, NEW r \in Reqs, LocalRevoked(r)
  PROVE  SessionsInv'
<1>1. /\ req[r] \in Records /\ OfRequest(r) /\ TypeOK /\ req[r].pc = "check" /\ req[r].op \in Presenting
      /\ UNCHANGED <<now, account, tokens, caches, links, history, faults>>
      /\ local.at \in Nat /\ local.unsure \in BOOLEAN /\ faults' \in 0 .. MaxFaults
  <2>1. /\ req[r] \in Records /\ OfRequest(r) /\ TypeOK /\ req[r].pc = "check"
        /\ UNCHANGED <<now, account, tokens, caches, links, history, faults>>
    BY UnderWay DEF LocalRevoked
  <2>2. req[r].op \in Presenting
    BY <2>1 DEF OfRequest, Course
  <2>3. local.at \in Nat /\ local.unsure \in BOOLEAN /\ faults' \in 0 .. MaxFaults
    BY <2>1 DEF TypeOK
  <2> QED BY <2>1, <2>2, <2>3
<1>2. CASE local.checked # 0 /\ Decide(r, local.at, local.unsure)
  <2>1. ~req[r].unsure /\ ~local.unsure => Knows(local.at, done)
    BY <1>2 DEF SessionsInv, OldIsOut, LocalKnows
  <2> QED BY <1>1, <1>2, <2>1, DecideMoves, PlainKeeps
<1>3. CASE Goto(r, "get")
  <2>1. PICK q : /\ Moves(r, q) /\ SameAs(q, r) /\ q.pc = "get" /\ q.reply = req[r].reply /\ q.unsure = req[r].unsure
    BY <1>3, GotoMoves DEF Steps
  <2> QED BY <1>1, <2>1, GoesOnKeeps DEF SignOutSteps, SameAs
<1> QED BY <1>2, <1>3 DEF LocalRevoked

LEMMA GetRevokedKeeps ==
  ASSUME SessionsInv, NEW r \in Reqs, GetRevoked(r)
  PROVE  SessionsInv'
<1>1. /\ req[r] \in Records /\ req \in [Reqs -> Records] /\ OfRequest(r) /\ TypeOK /\ now \in Nat
      /\ req[r].pc = "get" /\ req[r].pc \notin SignOutSteps \cup {"idle"} /\ req[r].op \in Presenting
      /\ key.at \in 0 .. now /\ key.until \in Nat
  BY UnderWay DEF GetRevoked, SignOutSteps, OfRequest, Course, TypeOK
<1> DEFINE found == IF now < key.until THEN key.at ELSE 0
           q == [req[r] EXCEPT !.pc = "keep", !.at = now, !.reply = found]
<1>2. found \in 0 .. now /\ found \in {0, key.at}
  BY <1>1
<1>3. Knows(found, done)
  <2>1. KeyKnows(done) /\ \A s \in Sure : tokens[s].iat \in Nat
    <3>1. \A s \in DOMAIN tokens : tokens[s] \in Tokens
      BY <1>1 DEF TypeOK
    <3> QED BY <1>1, <3>1 DEF SessionsInv, OldIsOut, Tokens, Sure
  <2>2. Keep \in Nat
    BY Constants
  <2> QED BY <1>1, <2>1, <2>2 DEF KeyKnows, Knows
<1>4. req' = [req EXCEPT ![r] = q]
  BY <1>1, Zenon DEF GetRevoked
<1> HIDE DEF found
<1>5. q \in Records /\ SameAs(q, r) /\ q.pc = "keep" /\ q.reply = found /\ q.unsure = req[r].unsure
  <2>1. "keep" \in Steps /\ now \in 0 .. now
    BY <1>1 DEF Steps
  <2> QED BY <1>1, <1>2, <2>1 DEF Records, SameAs
<1> HIDE DEF q
<1>6. Moves(r, q)
  BY <1>4, <1>5, StepMoves
<1> QED BY <1>1, <1>2, <1>3, <1>5, <1>6, GoesOnKeeps DEF GetRevoked, SameAs

LEMMA RevokedFailsKeeps ==
  ASSUME SessionsInv, NEW r \in Reqs, RevokedFails(r)
  PROVE  SessionsInv'
<1>1. /\ req[r] \in Records /\ req \in [Reqs -> Records] /\ OfRequest(r) /\ TypeOK /\ now \in Nat /\ req[r].pc = "get"
      /\ UNCHANGED <<now, account, tokens, caches, links, history>> /\ faults' \in 0 .. MaxFaults
  <2>1. faults \in 0 .. MaxFaults /\ MaxFaults \in Nat
    BY Constants DEF SessionsInv, TypeOK
  <2> QED BY <2>1, UnderWay DEF RevokedFails
<1>2. CASE End(r)
  BY <1>1, <1>2, EndKeeps
<1>3. CASE req[r].op = "call" /\ Admit(r, TRUE)
  <2>1. ~IsRevoked(r, 0)
    BY DEF IsRevoked
  <2>2. Decide(r, 0, TRUE)
    BY <1>3, <2>1 DEF Decide, Admit
  <2> QED BY <1>1, <2>2, DecideMoves, PlainKeeps
<1> QED BY <1>2, <1>3 DEF RevokedFails

LEMMA AnswerKeeps ==
  ASSUME SessionsInv, NEW r \in Reqs, Answer(r)
  PROVE  SessionsInv'
BY EndKeeps DEF Answer, SessionsInv, TypeOK

LEMMA SignOutFailsKeeps ==
  ASSUME SessionsInv, NEW r \in Reqs, SignOutFails(r)
  PROVE  SessionsInv'
<1>1. faults' \in 0 .. MaxFaults
  BY Constants DEF SignOutFails, SessionsInv, TypeOK
<1> QED BY <1>1, EndKeeps DEF SignOutFails

LEMMA SleepKeeps ==
  ASSUME SessionsInv, NEW r \in Reqs, Sleep(r)
  PROVE  SessionsInv'
<1>1. /\ req[r] \in Records /\ OfRequest(r) /\ now \in Nat /\ req[r].pc = "sleep" /\ req[r].op = "email"
      /\ req[r].at \in Nat /\ now >= req[r].at + 2
  BY UnderWay DEF Sleep, OfRequest, Course, Records
<1>2. PICK q : /\ Moves(r, q) /\ SameAs(q, r) /\ q.pc = "suspended" /\ q.reply = req[r].reply /\ q.unsure = req[r].unsure
  BY GotoMoves DEF Sleep, Steps
<1>3. ~q.unsure => Quiet(now)
  BY <1>1, <1>2, QuietLater DEF OfRequest, Waited
<1> QED BY <1>1, <1>2, <1>3, GoesOnKeeps DEF Sleep, SameAs, SignOutSteps, SigningIn

-----------------------------------------------------------------------------
(* Steps that issue, end or redeem tokens.                                  *)

\* No ticket is forgotten or used twice as long as it is valid.
TicketsKept == /\ used' \subseteq {t \in DOMAIN tokens' : tokens'[t].kind = "ticket"}
               /\ \A s \in DOMAIN tokens' : tokens'[s].uses > 0 =>
                    /\ tokens'[s].kind = "ticket"
                    /\ now < tokens'[s].iat + TicketTTL => s \in used' /\ tokens'[s].uses <= 1

LEMMA TokensKeep ==
  ASSUME SessionsInv, UNCHANGED <<now, account, local, key, links, history, faults>>,
         tokens' \in Seq(Tokens), Lasting, Arriving, TicketsKept,
         \/ req' = req
         \/ \E r \in Reqs : \E q : Moves(r, q) /\ MayGo(r, q) /\ (req'[r] = q => OfRequest(r)')
  PROVE  SessionsInv'
<1>1. TypeOK /\ TicketOnce /\ Redeemed /\ Joining /\ DOMAIN tokens \subseteq DOMAIN tokens'
  BY DEF SessionsInv, Joining, Lasting
<1>2. TypeOK' <=> req' \in [Reqs -> Records'] /\ (\A x \in Reqs : Typed(x)')
  <2>1. Tokens' = Tokens /\ now' = now /\ begun' = begun /\ done' = done
    BY DEF Tokens, history
  <2> QED BY <1>1, <2>1, TypeOKIs DEF TypeOK, Typed, Records, history, account, TicketsKept
<1>3. TicketOnce' /\ Redeemed'
  <2>1. \A s \in DOMAIN tokens' : tokens'[s].uses \in Nat
    <3>1. \A s \in DOMAIN tokens' : tokens'[s] \in Tokens
      OBVIOUS
    <3> QED BY <3>1 DEF Tokens
  <2> QED BY <2>1 DEF TicketOnce, Redeemed, TicketEnd, TicketsKept
<1>4. CASE req' = req
  <2>1. Calm
    BY <1>1, <1>4 DEF Calm, SessionsInv, BanHolds
  <2>2. req \in [Reqs -> Records] /\ (\A x \in Reqs : Typed(x)) /\ Records' = Records
    BY UnderWay, TypeOKIs DEF SessionsInv, Records, history
  <2>3. \A x \in Reqs : Typed(x)'
    BY <1>1, <1>4, <2>2 DEF Typed
  <2> QED BY <1>2, <1>3, <1>4, <2>1, <2>2, <2>3, CalmKeeps
<1>5. CASE \E r \in Reqs : \E q : Moves(r, q) /\ MayGo(r, q) /\ (req'[r] = q => OfRequest(r)')
  <2>1. PICK r \in Reqs : \E p : Moves(r, p) /\ MayGo(r, p) /\ (req'[r] = p => OfRequest(r)')
    BY <1>5
  <2>4. PICK q : Moves(r, q) /\ MayGo(r, q) /\ (req'[r] = q => OfRequest(r)')
    BY <2>1
  <2>2. Calm
    BY <1>1, <2>4, MovesCalm
  <2>3. /\ req' \in [Reqs -> Records'] /\ (\A x \in Reqs : Typed(x)')
        /\ req'[r] = q /\ \A x \in Reqs \ {r} : req'[x] = req[x]
    BY <1>1, <2>4, MovesTypes DEF history
  <2> QED BY <1>2, <1>3, <2>4, <2>2, <2>3, CalmKeeps
<1> QED BY <1>4, <1>5

(* One more token. *)
LEMMA AppendKeeps ==
  ASSUME SessionsInv, UNCHANGED <<now, account, caches, links, history, faults>>,
         NEW x \in Tokens, x.uses = 0, Welcome(x), tokens' = Append(tokens, x),
         req' = req \/ \E r \in Reqs : End(r)
  PROVE  SessionsInv'
<1>1. /\ TypeOK /\ tokens \in Seq(Tokens) /\ Len(tokens) \in Nat /\ DOMAIN tokens = 1 .. Len(tokens)
      /\ tokens' \in Seq(Tokens) /\ DOMAIN tokens' = 1 .. Len(tokens) + 1
      /\ tokens'[Len(tokens) + 1] = x /\ \A s \in DOMAIN tokens : tokens'[s] = tokens[s] /\ s \in DOMAIN tokens'
  BY AppendProperties DEF SessionsInv, TypeOK
<1>2. Lasting
  BY <1>1 DEF Lasting
<1>3. Arriving
  BY <1>1 DEF Arriving
<1>4. TicketsKept
  BY <1>1 DEF TicketsKept, SessionsInv, TypeOK, TicketOnce, Redeemed, TicketEnd, caches
<1>5. ASSUME NEW r \in Reqs, End(r) PROVE SessionsInv'
  <2>1. Moves(r, Idle) /\ MayGo(r, Idle) /\ (req'[r] = Idle => OfRequest(r)')
    BY <1>5, EndMoves, IdleOK
  <2> QED BY <1>1, <1>2, <1>3, <1>4, <2>1, TokensKeep DEF caches
<1> QED BY <1>1, <1>2, <1>3, <1>4, <1>5, TokensKeep DEF caches

LEMMA CreateKeeps ==
  ASSUME SessionsInv, NEW r \in Reqs, CreateRefreshToken(r)
  PROVE  SessionsInv'
<1>1. /\ req[r] \in Records /\ OfRequest(r) /\ TypeOK /\ now \in Nat /\ begun \in Nat /\ req[r].unsure \in BOOLEAN
      /\ req[r].gen \in 0 .. begun /\ req[r].at \in 0 .. now
      /\ req[r].pc = "insert" /\ req[r].pc \notin SignOutSteps \cup {"idle"} /\ req[r].at > 0 /\ req[r].op \in SigningIn
      /\ Open => req[r].unsure
  BY UnderWay DEF CreateRefreshToken, SignOutSteps, OfRequest, Course
<1>2. PICK t \in req[r].at .. now : tokens' = Append(tokens, Token(r, "user", t))
  BY DEF CreateRefreshToken
<1> DEFINE own == req[r].op = "email"
           x == [kind |-> "user", live |-> TRUE, iat |-> t, own |-> own,
                 uses |-> 0, gen |-> req[r].gen, unsure |-> req[r].unsure]
<1>3. tokens' = Append(tokens, x)
  BY <1>2 DEF Token
<1>4. own \in BOOLEAN /\ (own <=> req[r].op = "email") /\ t \in 1 .. now /\ t \in Nat
  BY <1>1
<1> HIDE DEF own
<1>5. x \in Tokens /\ x.uses = 0 /\ x.iat = t /\ x.own = own /\ x.gen = req[r].gen /\ x.unsure = req[r].unsure
  BY <1>1, <1>4 DEF Tokens
<1> HIDE DEF x
<1>6. Welcome(x)
  <2>1. SUFFICES ASSUME ~req[r].unsure PROVE Welcome(x)
    BY <1>5 DEF Welcome
  <2>2. ~Open /\ ~banDone /\ x.gen >= done
    BY <1>1, <1>5, <2>1 DEF OfRequest, Course, SessionsInv, BanHolds
  <2>3. own => Quiet(req[r].at)
    BY <1>1, <1>4, <2>1 DEF OfRequest, Waited
  <2>4. own => Quiet(t)
    BY <1>1, <1>4, <2>3, QuietLater
  <2> QED BY <1>5, <2>2, <2>4 DEF Welcome
<1> QED BY <1>3, <1>5, <1>6, AppendKeeps DEF CreateRefreshToken

LEMMA AdminVerifyKeeps ==
  ASSUME SessionsInv, AdminVerify
  PROVE  SessionsInv'
<1> DEFINE u == Open
           x == [kind |-> "admin", live |-> FALSE, iat |-> now, own |-> FALSE, uses |-> 0, gen |-> begun, unsure |-> u]
<1>1. tokens' = Append(tokens, x) /\ isAdmin
  BY DEF AdminVerify
<1>2. u \in BOOLEAN /\ (~u => ~Open)
  BY DEF Open
<1> HIDE DEF u
<1>3. now \in Nat \ {0} /\ begun \in Nat /\ done \in 0 .. begun
  BY DEF SessionsInv, TypeOK
<1>4. x \in Tokens /\ x.uses = 0 /\ x.own = FALSE /\ x.gen = begun /\ x.unsure = u
  BY <1>2, <1>3 DEF Tokens
<1> HIDE DEF x
<1>5. Welcome(x)
  BY <1>1, <1>2, <1>3, <1>4 DEF Welcome, SessionsInv, BanHolds
<1> QED BY <1>1, <1>4, <1>5, AppendKeeps DEF AdminVerify

(* Nobody who was let in brings back a session from before a sign-out or a
   suspension. *)
LEMMA InIsYoung ==
  ASSUME SessionsInv, NEW r \in Reqs, req[r].pc = "in", req[r].op # "admin", ~req[r].unsure
  PROVE  ~Open /\ ~banDone /\ req[r].gen >= done
<1>1. /\ req[r] \in Records /\ OfRequest(r) /\ TypeOK /\ begun \in Nat /\ done \in Nat /\ Typed(r)
      /\ req[r].gen \in 0 .. begun /\ req[r].op \in Presenting /\ (Open => req[r].unsure)
  BY UnderWay DEF SignOutSteps, OfRequest, Course
<1>2. req[r].gen >= done
  BY <1>1 DEF OfRequest, Admitted
<1>3. req[r].cred \in Sure /\ tokens[req[r].cred].gen = req[r].gen
  BY <1>1 DEF OfRequest, Course, Typed, Presenting, Sure
<1> QED BY <1>1, <1>2, <1>3 DEF SessionsInv, BanHolds

LEMMA IssueTicketKeeps ==
  ASSUME SessionsInv, NEW r \in Reqs, IssueTicket(r)
  PROVE  SessionsInv'
<1> DEFINE x == [kind |-> "ticket", live |-> FALSE, iat |-> now, own |-> FALSE,
                 uses |-> 0, gen |-> req[r].gen, unsure |-> req[r].unsure]
<1>1. /\ now \in Nat \ {0} /\ req[r].gen \in 0 .. begun /\ req[r].unsure \in BOOLEAN
      /\ req[r].pc = "in" /\ req[r].op = "call"
  BY UnderWay DEF IssueTicket, TypeOK
<1>2. Token(r, "ticket", now) = x
  BY <1>1 DEF Token
<1>3. tokens' = Append(tokens, x)
  BY <1>2 DEF IssueTicket
<1>4. x \in Tokens /\ x.uses = 0 /\ x.own = FALSE /\ x.gen = req[r].gen /\ x.unsure = req[r].unsure
  BY <1>1 DEF Tokens
<1> HIDE DEF x
<1>5. Welcome(x)
  BY <1>1, <1>4, InIsYoung DEF Welcome
<1> QED BY <1>3, <1>4, <1>5, AppendKeeps DEF IssueTicket

(* Tokens that change only in whether they are live. *)
LEMMA LiveKeeps ==
  ASSUME SessionsInv, UNCHANGED <<now, account, caches, links, history, faults>>,
         tokens' \in Seq(Tokens), Lasting, DOMAIN tokens' = DOMAIN tokens,
         \A s \in DOMAIN tokens : tokens'[s].uses = tokens[s].uses,
         \/ req' = req
         \/ \E r \in Reqs : \E q : Moves(r, q) /\ MayGo(r, q) /\ (req'[r] = q => OfRequest(r)')
  PROVE  SessionsInv'
<1>1. Arriving
  BY DEF Arriving
<1>2. TicketsKept
  BY DEF TicketsKept, SessionsInv, TypeOK, TicketOnce, Redeemed, TicketEnd, caches, Lasting
<1> QED BY <1>1, <1>2, TokensKeep DEF caches

LEMMA OneEnds ==
  ASSUME SessionsInv, NEW s \in DOMAIN tokens, tokens' = RevokeRefreshToken(s)
  PROVE  /\ tokens' \in Seq(Tokens) /\ Lasting /\ DOMAIN tokens' = DOMAIN tokens
         /\ \A i \in DOMAIN tokens : tokens'[i].uses = tokens[i].uses
<1>1. tokens \in Seq(Tokens) /\ DOMAIN tokens = 1 .. Len(tokens) /\ \A i \in DOMAIN tokens : tokens[i] \in Tokens
  BY DEF SessionsInv, TypeOK
<1> DEFINE x == [tokens[s] EXCEPT !.live = FALSE]
<1>2. /\ x \in Tokens /\ x.kind = tokens[s].kind /\ x.iat = tokens[s].iat /\ x.own = tokens[s].own /\ x.gen = tokens[s].gen
      /\ x.unsure = tokens[s].unsure /\ ~x.live /\ x.uses = tokens[s].uses
  BY <1>1 DEF Tokens
<1>3. tokens' = [tokens EXCEPT ![s] = x]
  BY Zenon DEF RevokeRefreshToken
<1> HIDE DEF x
<1>4. tokens' \in Seq(Tokens) /\ DOMAIN tokens' = DOMAIN tokens
  BY <1>1, <1>2, <1>3
<1>5. tokens'[s] = x /\ \A i \in DOMAIN tokens \ {s} : tokens'[i] = tokens[i]
  BY <1>1, <1>3
<1> QED BY <1>2, <1>4, <1>5 DEF Lasting

LEMMA RevokeKeeps ==
  ASSUME SessionsInv, NEW s \in DOMAIN tokens, Revoke(s)
  PROVE  SessionsInv'
BY OneEnds, LiveKeeps DEF Revoke

LEMMA RotateKeeps ==
  ASSUME SessionsInv, NEW r \in Reqs, Rotate(r)
  PROVE  SessionsInv'
<1>1. /\ req[r] \in Records /\ OfRequest(r) /\ Typed(r) /\ TypeOK /\ req[r].op = "refresh" /\ req[r].cred \in DOMAIN tokens
      /\ req[r].pc = "rotate" /\ req[r].pc \notin SignOutSteps \cup {"idle"}
      /\ UNCHANGED <<now, account, caches, links, history, faults>>
  BY UnderWay DEF Rotate, OfRequest, Course, SignOutSteps, Typed
<1>2. /\ tokens' \in Seq(Tokens) /\ Lasting /\ DOMAIN tokens' = DOMAIN tokens
      /\ \A i \in DOMAIN tokens : tokens'[i].uses = tokens[i].uses
  BY <1>1, OneEnds DEF Rotate
<1>3. PICK q : /\ Moves(r, q) /\ SameAs(q, r) /\ q.pc = "suspended" /\ q.reply = req[r].reply /\ q.unsure = req[r].unsure
  BY GotoMoves DEF Rotate, Steps
<1>4. MayGo(r, q)
  BY <1>3 DEF MayGo, SignOutSteps
<1>5. ASSUME req'[r] = q PROVE OfRequest(r)'
  <2>1. Course(r)'
    BY <1>1, <1>2, <1>3, <1>5, CourseStays DEF SameAs, SigningIn, Steps, SignOutSteps
  <2>2. Carrying(r)'
    BY <1>1, <1>3, <1>5, NotSigningOut DEF SignOutSteps
  <2> QED BY <1>1, <1>3, <1>5, <2>1, <2>2 DEF OfRequest, Admitted, Waited, SameAs
<1> QED BY <1>1, <1>2, <1>3, <1>4, <1>5, LiveKeeps

(* A token that is used once more. *)
LEMMA OneIsUsed ==
  ASSUME SessionsInv, NEW t \in DOMAIN tokens, tokens' = [tokens EXCEPT ![t].uses = @ + 1]
  PROVE  /\ tokens' \in Seq(Tokens) /\ Lasting /\ DOMAIN tokens' = DOMAIN tokens
         /\ tokens[t].uses \in Nat /\ tokens'[t].uses = tokens[t].uses + 1
         /\ \A i \in DOMAIN tokens \ {t} : tokens'[i] = tokens[i]
<1>1. tokens \in Seq(Tokens) /\ DOMAIN tokens = 1 .. Len(tokens) /\ \A i \in DOMAIN tokens : tokens[i] \in Tokens
  BY DEF SessionsInv, TypeOK
<1>2. tokens[t] \in Tokens /\ tokens[t].uses \in Nat /\ tokens[t].uses + 1 \in Nat
  BY <1>1 DEF Tokens
<1> DEFINE x == [tokens[t] EXCEPT !.uses = tokens[t].uses + 1]
<1>3. /\ x \in Tokens /\ x.kind = tokens[t].kind /\ x.iat = tokens[t].iat /\ x.own = tokens[t].own /\ x.gen = tokens[t].gen
      /\ x.unsure = tokens[t].unsure /\ x.live = tokens[t].live /\ x.uses = tokens[t].uses + 1
  BY <1>2 DEF Tokens
<1>4. tokens' = [tokens EXCEPT ![t] = x]
  BY Zenon
<1> HIDE DEF x
<1>5. tokens' \in Seq(Tokens) /\ DOMAIN tokens' = DOMAIN tokens
  BY <1>1, <1>3, <1>4
<1>6. tokens'[t] = x /\ \A i \in DOMAIN tokens \ {t} : tokens'[i] = tokens[i]
  BY <1>1, <1>4
<1> QED BY <1>2, <1>3, <1>5, <1>6 DEF Lasting

LEMMA RedeemKeeps ==
  ASSUME SessionsInv, NEW r \in Reqs, Redeem(r)
  PROVE  SessionsInv'
<1> DEFINE t == req[r].cred
<1>1. /\ req[r] \in Records /\ OfRequest(r) /\ Typed(r) /\ TypeOK /\ req[r].op = "ticket" /\ t \in DOMAIN tokens
      /\ tokens[t].kind = "ticket"
      /\ req[r].pc = "redeem" /\ req[r].pc \notin SignOutSteps \cup {"idle"} /\ req[r].at \in 0 .. now
      /\ UNCHANGED <<now, account, local, key, links, history, faults>>
  BY UnderWay DEF Redeem, OfRequest, Course, SignOutSteps, Typed
<1>2. CASE End(r) /\ UNCHANGED <<tokens, used>>
  BY <1>1, <1>2, EndKeeps DEF caches, TypeOK
<1>3. CASE /\ t \notin used
           /\ used' = {u \in used : req[r].at < TicketEnd(u)} \cup {t}
           /\ tokens' = [tokens EXCEPT ![t].uses = @ + 1]
           /\ Goto(r, "check")
  <2>1. (\A i \in DOMAIN tokens : tokens[i] \in Tokens) /\ now \in Nat
    BY <1>1 DEF TypeOK
  <2>2. /\ tokens' \in Seq(Tokens) /\ Lasting /\ DOMAIN tokens' = DOMAIN tokens
        /\ tokens[t].uses \in Nat /\ tokens'[t].uses = tokens[t].uses + 1
        /\ \A i \in DOMAIN tokens \ {t} : tokens'[i] = tokens[i]
    BY <1>1, <1>3, OneIsUsed
  <2>3. Arriving
    BY <2>2 DEF Arriving
  <2>7. TicketsKept
    <3>1. used' \subseteq {i \in DOMAIN tokens' : tokens'[i].kind = "ticket"}
      BY <1>1, <1>3, <2>2 DEF TypeOK, Lasting
    <3>2. ASSUME NEW i \in DOMAIN tokens', tokens'[i].uses > 0
          PROVE  /\ tokens'[i].kind = "ticket"
                 /\ now < tokens'[i].iat + TicketTTL => i \in used' /\ tokens'[i].uses <= 1
      <4>1. CASE i = t
        <5>1. now < TicketEnd(t) => tokens[t].uses = 0
          BY <1>1, <1>3, <2>2 DEF SessionsInv, Redeemed
        <5>2. tokens'[t].iat = tokens[t].iat /\ tokens'[t].kind = "ticket"
          BY <1>1, <2>2 DEF Lasting
        <5> QED BY <1>1, <1>3, <2>2, <4>1, <5>1, <5>2 DEF TicketEnd
      <4>2. CASE i # t
        <5>1. i \in DOMAIN tokens /\ tokens'[i] = tokens[i] /\ tokens[i].iat \in Nat
          BY <2>1, <2>2, <4>2 DEF Tokens
        <5>2. now < TicketEnd(i) => req[r].at < TicketEnd(i)
          BY <1>1, <2>1, <5>1, Constants DEF TicketEnd
        <5> QED BY <1>3, <3>2, <5>1, <5>2 DEF SessionsInv, TicketOnce, Redeemed, TicketEnd
      <4> QED BY <4>1, <4>2
    <3> QED BY <3>1, <3>2 DEF TicketsKept
  <2>8. PICK q : /\ Moves(r, q) /\ SameAs(q, r) /\ q.pc = "check" /\ q.reply = req[r].reply /\ q.unsure = req[r].unsure
    BY <1>3, GotoMoves DEF Steps
  <2>9. MayGo(r, q)
    BY <2>8 DEF MayGo, SignOutSteps
  <2>10. ASSUME req'[r] = q PROVE OfRequest(r)'
    <3>1. Course(r)'
      BY <1>1, <2>2, <2>8, <2>10, CourseStays DEF SameAs, Presenting, Steps, SignOutSteps
    <3>2. Carrying(r)'
      BY <1>1, <2>8, <2>10, NotSigningOut DEF SignOutSteps
    <3> QED BY <1>1, <2>8, <2>10, <3>1, <3>2 DEF OfRequest, Admitted, Waited, SameAs
  <2> QED BY <1>1, <2>2, <2>3, <2>7, <2>8, <2>9, <2>10, TokensKeep
<1> QED BY <1>2, <1>3 DEF Redeem

(* All refresh tokens end, in one statement. *)
LEMMA RevokeAllUserKeeps ==
  ASSUME SessionsInv, NEW r \in Reqs, RevokeAllUserRefreshTokens(r)
  PROVE  SessionsInv'
<1>1. /\ req[r] \in Records /\ req \in [Reqs -> Records] /\ OfRequest(r) /\ Typed(r) /\ TypeOK /\ now \in Nat
      /\ req[r].pc = "revoke" /\ req[r].op \in Ends /\ req[r].unsure \in BOOLEAN /\ req[r].gen \in Nat
      /\ UNCHANGED <<now, account, caches, links, history, faults>>
      /\ tokens \in Seq(Tokens) /\ DOMAIN tokens = 1 .. Len(tokens) /\ \A i \in DOMAIN tokens : tokens[i] \in Tokens
  <2>1. /\ req[r] \in Records /\ req \in [Reqs -> Records] /\ OfRequest(r) /\ Typed(r) /\ TypeOK /\ now \in Nat
        /\ req[r].pc = "revoke" /\ req[r].unsure \in BOOLEAN /\ req[r].gen \in Nat
        /\ UNCHANGED <<now, account, caches, links, history, faults>>
    BY UnderWay DEF RevokeAllUserRefreshTokens
  <2>2. req[r].op \in Ends
    BY <2>1 DEF OfRequest, Course, SignOutSteps
  <2>3. tokens \in Seq(Tokens) /\ DOMAIN tokens = 1 .. Len(tokens) /\ \A i \in DOMAIN tokens : tokens[i] \in Tokens
    BY <2>1 DEF TypeOK
  <2> QED BY <2>1, <2>2, <2>3
<1> DEFINE x(s) == [tokens[s] EXCEPT !.live = FALSE]
<1>2. ASSUME NEW s \in DOMAIN tokens
      PROVE  /\ x(s) \in Tokens /\ x(s).kind = tokens[s].kind /\ x(s).iat = tokens[s].iat /\ x(s).own = tokens[s].own
             /\ x(s).gen = tokens[s].gen /\ x(s).unsure = tokens[s].unsure /\ ~x(s).live /\ x(s).uses = tokens[s].uses
  <2>1. tokens[s] \in Tokens
    BY <1>1
  <2> QED BY <2>1 DEF Tokens
<1>3. tokens' = [s \in DOMAIN tokens |-> x(s)]
  BY DEF RevokeAllUserRefreshTokens
<1> HIDE DEF x
<1>4. tokens' \in Seq(Tokens) /\ DOMAIN tokens' = DOMAIN tokens /\ \A s \in DOMAIN tokens : tokens'[s] = x(s)
  BY <1>1, <1>2, <1>3
<1>5. /\ Lasting /\ \A s \in DOMAIN tokens : tokens'[s].uses = tokens[s].uses /\ ~tokens'[s].live
  BY <1>2, <1>4 DEF Lasting
<1> DEFINE q == [req[r] EXCEPT !.pc = "mark", !.at = now]
<1>6. /\ q \in Records /\ SameAs(q, r) /\ q.pc = "mark" /\ q.at = now /\ q.reply = req[r].reply
      /\ q.unsure = req[r].unsure
  <2>1. "mark" \in Steps /\ now \in 0 .. now
    BY <1>1 DEF Steps, SignOutSteps
  <2> QED BY <1>1, <2>1 DEF Records, SameAs
<1>7. req' = [req EXCEPT ![r] = q]
  BY Zenon DEF RevokeAllUserRefreshTokens
<1> HIDE DEF q
<1>8. Moves(r, q)
  BY <1>6, <1>7, StepMoves
<1>9. MayGo(r, q)
  BY <1>1, <1>6 DEF MayGo, SignOutSteps
<1>10. ASSUME req'[r] = q PROVE OfRequest(r)'
  <2>1. Course(r)'
    BY <1>1, <1>5, <1>6, <1>8, <1>10, CourseStays DEF SameAs, SignOutSteps, Steps
  <2>2. \A s \in Sure' : s \in Sure /\ tokens'[s].gen = tokens[s].gen /\ tokens'[s].iat = tokens[s].iat /\ ~tokens'[s].live
    BY <1>4, <1>5 DEF Sure, Lasting
  <2>3. \A s \in Sure : tokens[s].gen < req[r].gen /\ tokens[s].iat <= now
    BY <1>1 DEF OfRequest, Carrying, SignOutSteps, Sure, Tokens
  <2>4. (\E y \in Reqs \ {r} : req[y].pc \in SignOutSteps)' => \E y \in Reqs \ {r} : req[y].pc \in SignOutSteps
    BY <1>1, <1>7
  <2>5. (\E y \in Reqs \ {r} : req[y].pc \in SignOutSteps)' => q.unsure
    BY <1>1, <1>6, <2>4 DEF OfRequest, Carrying
  <2>6. Carrying(r)'
    BY <1>6, <1>10, <2>2, <2>3, <2>5 DEF Carrying, SameAs
  <2> QED BY <1>6, <1>10, <2>1, <2>6 DEF OfRequest, Admitted, Waited
<1> QED BY <1>1, <1>4, <1>5, <1>8, <1>9, <1>10, LiveKeeps

-----------------------------------------------------------------------------
(* Steps that open or close links.                                          *)

LEMMA LinksKeep ==
  ASSUME SessionsInv, UNCHANGED <<now, account, tokens, caches, history, faults>>,
         links' \subseteq [what : {"socket", "phone"}, gen : 0 .. begun, unsure : BOOLEAN], Joining,
         NEW r \in Reqs, NEW q, Moves(r, q), MayGo(r, q), req'[r] = q => OfRequest(r)'
  PROVE  SessionsInv'
<1>1. TypeOK /\ TicketOnce /\ Redeemed /\ Lasting /\ Arriving
  BY DEF SessionsInv, Lasting, Arriving
<1>2. /\ req' \in [Reqs -> Records'] /\ (\A x \in Reqs : Typed(x)')
      /\ req'[r] = q /\ \A x \in Reqs \ {r} : req'[x] = req[x]
  BY MovesTypes DEF history
<1>3. TypeOK'
  BY <1>1, <1>2, TypeOKIs DEF TypeOK, Typed, Records, history, account, caches, Tokens
<1>4. TicketOnce' /\ Redeemed'
  BY <1>1 DEF TicketOnce, Redeemed, TicketEnd, caches
<1>5. Calm
  BY <1>1, MovesCalm DEF caches
<1> QED BY <1>2, <1>3, <1>4, <1>5, CalmKeeps

LEMMA LinkKeeps ==
  ASSUME SessionsInv, NEW r \in Reqs, Serve(r) \/ RegisterDevice(r)
  PROVE  SessionsInv'
<1>1. /\ req[r].pc = "in" /\ req[r].op # "admin" /\ End(r)
      /\ UNCHANGED <<now, account, tokens, caches, history, faults>>
  BY DEF Serve, RegisterDevice
<1>2. PICK what \in {"socket", "phone"} : links' = links \cup {[what |-> what, gen |-> req[r].gen, unsure |-> req[r].unsure]}
  BY DEF Serve, RegisterDevice, Link
<1>3. req[r].gen \in 0 .. begun /\ req[r].unsure \in BOOLEAN
  BY UnderWay
<1> DEFINE x == [what |-> what, gen |-> req[r].gen, unsure |-> req[r].unsure]
<1>4. x \in [what : {"socket", "phone"}, gen : 0 .. begun, unsure : BOOLEAN] /\ x.gen = req[r].gen /\ x.unsure = req[r].unsure
  BY <1>3
<1>5. links' = links \cup {x}
  BY <1>2
<1> HIDE DEF x
<1>6. Joining
  BY <1>1, <1>4, <1>5, InIsYoung DEF Joining
<1>7. links' \subseteq [what : {"socket", "phone"}, gen : 0 .. begun, unsure : BOOLEAN]
  BY <1>4, <1>5 DEF SessionsInv, TypeOK
<1> QED BY <1>1, <1>6, <1>7, EndMoves, IdleOK, LinksKeep

LEMMA DisconnectKeeps ==
  ASSUME SessionsInv, NEW r \in Reqs, Disconnect(r)
  PROVE  SessionsInv'
<1>1. /\ OfRequest(r) /\ req[r].pc = "disconnect" /\ req[r].op \in Ends /\ req \in [Reqs -> Records]
      /\ UNCHANGED <<now, account, tokens, caches, history, faults>>
      /\ links' = {x \in links : x.what # "socket"}
  BY UnderWay DEF Disconnect, OfRequest, Course, SignOutSteps
<1>2. links' \subseteq [what : {"socket", "phone"}, gen : 0 .. begun, unsure : BOOLEAN] /\ Joining
  BY <1>1 DEF SessionsInv, TypeOK, Joining
<1>3. PICK q : /\ Moves(r, q) /\ SameAs(q, r) /\ q.pc = "forget" /\ q.reply = req[r].reply /\ q.unsure = req[r].unsure
  BY GotoMoves DEF Disconnect, Steps, SignOutSteps
<1>4. MayGo(r, q)
  BY <1>1, <1>3 DEF MayGo, SignOutSteps
<1>5. ASSUME req'[r] = q PROVE OfRequest(r)'
  <2>1. Course(r)'
    BY <1>1, <1>3, <1>5, CourseStays DEF SameAs, SignOutSteps, Steps, Lasting
  <2>2. (\E y \in Reqs \ {r} : req[y].pc \in SignOutSteps)' => q.unsure
    BY <1>1, <1>3 DEF OfRequest, Carrying, Moves
  <2>3. KeyKnows(req[r].gen) /\ LocalKnows(req[r].gen)
    BY <1>1 DEF OfRequest, Carrying
  <2>4. KeyKnows(req[r].gen)' /\ LocalKnows(req[r].gen)'
    BY <1>1, <1>3, <1>5, <2>3 DEF KeyKnows, LocalKnows, Knows, Sure, caches, SameAs
  <2>5. Carrying(r)'
    BY <1>1, <1>3, <1>5, <2>2, <2>4 DEF OfRequest, Carrying, SameAs, Sure, SignOutSteps
  <2> QED BY <1>3, <1>5, <2>1, <2>5 DEF OfRequest, Admitted, Waited
<1> QED BY <1>1, <1>2, <1>3, <1>4, <1>5, LinksKeep

-----------------------------------------------------------------------------
(* Steps that store or learn of a revocation.                               *)

\* Revocations that are later are not heard of.
NoneLater == \A t \in Nat : Quiet(t) => key'.at < t /\ local'.at < t /\ \A y \in Reqs : req'[y].reply < t

LEMMA WaitedStays ==
  ASSUME SessionsInv, NoneLater, NEW x \in Reqs, req'[x] = req[x], now' = now
  PROVE  Waited(x)'
<1>1. req[x].at \in Nat /\ now \in Nat /\ Waited(x)
  BY UnderWay DEF OfRequest, Records
<1>2. /\ Quiet(req[x].at + 1) => Quiet(req[x].at + 1)'
      /\ Quiet(now) => Quiet(now)'
      /\ Quiet(req[x].at) => Quiet(req[x].at)'
  BY <1>1 DEF NoneLater, Quiet
<1> QED BY <1>1, <1>2 DEF Waited

LEMMA OwnStays ==
  ASSUME SessionsInv, NoneLater, UNCHANGED <<tokens, begun>>
  PROVE  OwnIsLater'
<1>1. \A s \in Sure : tokens[s].iat \in Nat
  <2>1. \A s \in DOMAIN tokens : tokens[s] \in Tokens
    BY DEF SessionsInv, TypeOK
  <2> QED BY <2>1 DEF Sure, Tokens
<1>2. ASSUME NEW s \in Sure', tokens'[s].own, tokens'[s].gen = begun' PROVE Quiet(tokens[s].iat)'
  <2>1. s \in Sure /\ Quiet(tokens[s].iat) /\ tokens[s].iat \in Nat
    BY <1>1, <1>2 DEF SessionsInv, OwnIsLater, Sure
  <2> QED BY <2>1 DEF NoneLater, Quiet
<1> QED BY <1>2 DEF OwnIsLater

(* The types, when only one request and what is cached change. *)
LEMMA CachesTyped ==
  ASSUME SessionsInv, NEW r \in Reqs, NEW q, Moves(r, q), UNCHANGED <<now, account, tokens, used, links, begun, faults>>,
         key' \in [at : 0 .. now, until : Nat], local' \in [at : 0 .. now, checked : 0 .. now, unsure : BOOLEAN],
         done' \in 0 .. begun, banDone' \in BOOLEAN
  PROVE  /\ TypeOK' /\ TicketOnce' /\ Redeemed'
         /\ req'[r] = q /\ \A x \in Reqs \ {r} : req'[x] = req[x]
<1>1. TypeOK /\ TicketOnce /\ Redeemed
  BY DEF SessionsInv
<1>2. /\ req' \in [Reqs -> Records'] /\ (\A x \in Reqs : Typed(x)')
      /\ req'[r] = q /\ \A x \in Reqs \ {r} : req'[x] = req[x]
  BY MovesTypes
<1>3. TypeOK'
  <2>1. Tokens' = Tokens
    BY DEF Tokens
  <2> QED BY <1>1, <1>2, <2>1, TypeOKIs DEF TypeOK, Typed, Records, account
<1> QED BY <1>1, <1>2, <1>3 DEF TicketOnce, Redeemed, TicketEnd

(* Who is signing the account out meets no sure request and no young token. *)
LEMMA WhileOpen ==
  ASSUME SessionsInv, NEW r \in Reqs, req[r].pc \in SignOutSteps
  PROVE  /\ \A x \in Reqs \ {r} : req[x].pc # "idle" => req[x].unsure
         /\ \A s \in Sure : tokens[s].gen < req[r].gen /\ tokens[s].gen < begun
         /\ req[r].op \in Ends
<1>1. \A x \in Reqs \ {r} : req[x].pc # "idle" => req[x].unsure
  BY DEF SessionsInv, Carrying
<1>2. \A s \in Sure : tokens[s].gen < req[r].gen
  BY DEF SessionsInv, Carrying
<1>3. req[r].gen \in 0 .. begun /\ begun \in Nat
  BY UnderWay
<1>4. \A s \in Sure : tokens[s].gen \in Nat
  <2>1. \A s \in DOMAIN tokens : tokens[s] \in Tokens
    BY DEF SessionsInv, TypeOK
  <2> QED BY <1>3, <2>1 DEF Sure, Tokens
<1>5. req[r].op \in Ends
  BY DEF SessionsInv, Course
<1> QED BY <1>1, <1>2, <1>3, <1>4, <1>5

LEMMA KeepReplyKeeps ==
  ASSUME SessionsInv, NEW r \in Reqs, KeepReply(r)
  PROVE  SessionsInv'
<1>1. /\ req[r] \in Records /\ OfRequest(r) /\ TypeOK /\ now \in Nat /\ req[r].pc = "keep" /\ req[r].reply \in 0 .. now
      /\ req[r].at \in 0 .. now /\ req[r].unsure \in BOOLEAN
      /\ UNCHANGED <<now, account, tokens, used, key, links, history, faults>> /\ Decide(r, req[r].reply, FALSE)
  <2>1. req[r] \in Records
    BY UnderWay
  <2> QED BY <2>1, UnderWay DEF KeepReply, Records
<1>2. PICK t \in req[r].at .. now : local' = [at |-> req[r].reply, checked |-> t, unsure |-> req[r].unsure]
  BY DEF KeepReply
<1>3. /\ local'.at = req[r].reply /\ local'.unsure = req[r].unsure
      /\ local' \in [at : 0 .. now, checked : 0 .. now, unsure : BOOLEAN]
  BY <1>1, <1>2
<1>4. ~req[r].unsure => Knows(req[r].reply, done)
  BY <1>1 DEF OfRequest, Admitted
<1>5. PICK q : /\ Moves(r, q) /\ MayGo(r, q) /\ (req'[r] = q => OfRequest(r)')
               /\ q.pc \notin SignOutSteps \cup {"insert"} /\ q.reply = 0
  <2>1. /\ req[r].reply \in Nat /\ FALSE \in BOOLEAN /\ req[r].pc \in {"check", "get", "keep"}
        /\ ~req[r].unsure /\ ~FALSE => Knows(req[r].reply, done)
        /\ UNCHANGED <<now, tokens, history>>
    BY <1>1, <1>4
  <2> QED BY <1>1, <2>1, DecideMoves, Zenon
<1>6. /\ TypeOK' /\ TicketOnce' /\ Redeemed'
      /\ req'[r] = q /\ \A x \in Reqs \ {r} : req'[x] = req[x]
  BY <1>1, <1>3, <1>5, CachesTyped DEF TypeOK, history
<1>7. NoneLater
  BY <1>1, <1>3, <1>5, <1>6 DEF NoneLater, Quiet
<1>8. ASSUME NEW x \in Reqs \ {r} PROVE OfRequest(x)'
  <2>1. OfRequest(x) /\ req'[x] = req[x]
    BY <1>6, UnderWay
  <2>2. Course(x)' /\ Admitted(x)'
    BY <1>1, <2>1 DEF OfRequest, Course, Admitted, Issued, Knows, Sure, history
  <2>3. req[x].pc \in SignOutSteps => req[r].unsure
    BY <1>1, WhileOpen
  <2>4. KeyKnows(req[x].gen) => KeyKnows(req[x].gen)'
    BY <1>1, <2>1 DEF KeyKnows, Sure
  <2>5. req[x].pc \in SignOutSteps => LocalKnows(req[x].gen)'
    BY <1>3, <2>3 DEF LocalKnows
  <2>6. Carrying(x)'
    BY <1>1, <1>5, <1>6, <2>1, <2>4, <2>5 DEF OfRequest, Carrying, Sure, SignOutSteps
  <2> QED BY <1>1, <1>7, <2>1, <2>2, <2>6, WaitedStays DEF OfRequest
<1>9. OldIsOut'
  BY <1>1, <1>3, <1>4 DEF SessionsInv, OldIsOut, KeyKnows, LocalKnows, Knows, Sure, history
<1>10. BanHolds'
  BY <1>1, <1>5, <1>6 DEF SessionsInv, BanHolds, Sure, history, account
<1>11. OwnIsLater'
  BY <1>1, <1>7, OwnStays DEF history
<1> QED BY <1>5, <1>6, <1>8, <1>9, <1>10, <1>11 DEF SessionsInv, OfRequest

(* RevokeAll stores its time in Redis, and then in the local cache. *)
LEMMA RevokeAllKeeps ==
  ASSUME SessionsInv, NEW r \in Reqs, RevokeAll(r)
  PROVE  SessionsInv'
<1>1. /\ req[r] \in Records /\ req \in [Reqs -> Records] /\ OfRequest(r) /\ TypeOK /\ now \in Nat /\ begun \in Nat
      /\ req[r].pc = "mark" /\ req[r].pc \in SignOutSteps /\ req[r].at \in 0 .. now /\ req[r].unsure \in BOOLEAN
      /\ UNCHANGED <<now, account, tokens, used, local, links, history, faults>>
  BY UnderWay DEF RevokeAll, SignOutSteps
<1>2. PICK at \in req[r].at .. now : /\ key' = [at |-> at, until |-> now + Keep]
                                     /\ req' = [req EXCEPT ![r].pc = "remember", ![r].at = at]
  BY DEF RevokeAll
<1>3. at \in 0 .. now /\ key' \in [at : 0 .. now, until : Nat] /\ key'.at = at /\ key'.until = now + Keep
  BY <1>1, <1>2, Constants
<1> DEFINE q == [req[r] EXCEPT !.pc = "remember", !.at = at]
<1>4. /\ q \in Records /\ SameAs(q, r) /\ q.pc = "remember" /\ q.at = at /\ q.reply = req[r].reply
      /\ q.unsure = req[r].unsure
  <2>1. "remember" \in Steps
    BY DEF Steps, SignOutSteps
  <2> QED BY <1>1, <1>3, <2>1 DEF Records, SameAs
<1>5. req' = [req EXCEPT ![r] = q]
  BY <1>2, Zenon
<1> HIDE DEF q
<1>6. Moves(r, q)
  BY <1>4, <1>5, StepMoves
<1>7. /\ TypeOK' /\ TicketOnce' /\ Redeemed'
      /\ req'[r] = q /\ \A x \in Reqs \ {r} : req'[x] = req[x]
  <2>1. local \in [at : 0 .. now, checked : 0 .. now, unsure : BOOLEAN] /\ done \in 0 .. begun /\ banDone \in BOOLEAN
    BY <1>1 DEF TypeOK
  <2> QED BY <1>1, <1>3, <1>6, <2>1, CachesTyped DEF history
<1>8. \A s \in Sure : tokens[s].iat <= at /\ tokens[s].iat \in 1 .. now
  <2>1. \A s \in DOMAIN tokens : tokens[s] \in Tokens
    BY <1>1 DEF TypeOK
  <2>2. \A s \in Sure : tokens[s].iat <= req[r].at /\ tokens[s].iat \in 1 .. now
    BY <1>1, <2>1 DEF OfRequest, Carrying, Sure, Tokens
  <2> QED BY <1>1, <1>2, <2>2
<1>9. \A s \in Sure' : tokens'[s].iat <= key'.at /\ tokens'[s].iat + Keep <= key'.until
  BY <1>1, <1>3, <1>8, Constants DEF Sure
<1>10. OldIsOut'
  BY <1>1, <1>9 DEF SessionsInv, OldIsOut, KeyKnows, LocalKnows, Knows, Sure, history
<1>11. BanHolds'
  BY <1>1, <1>4, <1>7 DEF SessionsInv, BanHolds, Sure, history, account
<1>12. OwnIsLater'
  BY <1>1, WhileOpen DEF OwnIsLater, Sure, history
<1>13. (\E y \in Reqs \ {r} : req[y].pc \in SignOutSteps)' => q.unsure
  BY <1>1, <1>4, <1>7 DEF OfRequest, Carrying
<1>14. OfRequest(r)'
  <2>1. Course(r)'
    BY <1>1, <1>4, <1>6, <1>7, WhileOpen, CourseStays DEF SameAs, SignOutSteps, Steps, Lasting, history
  <2>2. Carrying(r)'
    BY <1>1, <1>4, <1>7, <1>8, <1>9, <1>13 DEF OfRequest, Carrying, SameAs, Sure, KeyKnows, SignOutSteps
  <2> QED BY <1>4, <1>7, <2>1, <2>2 DEF OfRequest, Admitted, Waited
<1>15. ASSUME NEW x \in Reqs \ {r} PROVE OfRequest(x)'
  <2>1. OfRequest(x) /\ req'[x] = req[x] /\ (req[x].pc # "idle" => req[x].unsure)
    BY <1>1, <1>7, UnderWay, WhileOpen
  <2>2. Course(x)' /\ Admitted(x)'
    BY <1>1, <2>1 DEF OfRequest, Course, Admitted, history
  <2>3. Waited(x)'
    BY <2>1 DEF Waited
  <2>4. LocalKnows(req[x].gen) => LocalKnows(req[x].gen)'
    BY <1>1, <2>1 DEF LocalKnows, Knows, Sure
  <2>5. KeyKnows(req[x].gen)'
    BY <1>9 DEF KeyKnows
  <2>6. Carrying(x)'
    BY <1>1, <2>1, <2>4, <2>5 DEF OfRequest, Carrying, Sure
  <2> QED BY <2>2, <2>3, <2>6 DEF OfRequest
<1> QED BY <1>7, <1>10, <1>11, <1>12, <1>14, <1>15 DEF SessionsInv, OfRequest

LEMMA RememberKeeps ==
  ASSUME SessionsInv, NEW r \in Reqs, RememberRevoked(r)
  PROVE  SessionsInv'
<1>1. /\ req[r] \in Records /\ req \in [Reqs -> Records] /\ OfRequest(r) /\ TypeOK /\ now \in Nat /\ begun \in Nat
      /\ req[r].pc = "remember" /\ req[r].pc \in SignOutSteps /\ req[r].at \in 0 .. now
      /\ UNCHANGED <<now, account, tokens, used, key, links, history, faults>>
      /\ local' = [at |-> req[r].at, checked |-> now, unsure |-> FALSE]
  BY UnderWay DEF RememberRevoked, SignOutSteps
<1>2. local' \in [at : 0 .. now, checked : 0 .. now, unsure : BOOLEAN] /\ local'.at = req[r].at
  BY <1>1
<1>3. PICK q : /\ Moves(r, q) /\ SameAs(q, r) /\ q.pc = "disconnect" /\ q.reply = req[r].reply /\ q.unsure = req[r].unsure
  BY GotoMoves DEF RememberRevoked, Steps, SignOutSteps
<1>4. /\ TypeOK' /\ TicketOnce' /\ Redeemed'
      /\ req'[r] = q /\ \A x \in Reqs \ {r} : req'[x] = req[x]
  <2>1. key \in [at : 0 .. now, until : Nat] /\ done \in 0 .. begun /\ banDone \in BOOLEAN
    BY <1>1 DEF TypeOK
  <2> QED BY <1>1, <1>2, <1>3, <2>1, CachesTyped DEF history
<1>5. \A s \in Sure' : tokens'[s].iat <= local'.at
  BY <1>1, <1>2 DEF OfRequest, Carrying, Sure
<1>6. OldIsOut'
  BY <1>1, <1>5 DEF SessionsInv, OldIsOut, KeyKnows, LocalKnows, Knows, Sure, history
<1>7. BanHolds'
  BY <1>1, <1>3, <1>4 DEF SessionsInv, BanHolds, Sure, history, account
<1>8. OwnIsLater'
  BY <1>1, WhileOpen DEF OwnIsLater, Sure, history
<1>9. (\E y \in Reqs \ {r} : req[y].pc \in SignOutSteps)' => q.unsure
  BY <1>1, <1>3, <1>4 DEF OfRequest, Carrying
<1>10. OfRequest(r)'
  <2>1. Course(r)'
    BY <1>1, <1>3, <1>4, WhileOpen, CourseStays DEF SameAs, SignOutSteps, Steps, Lasting, history
  <2>2. KeyKnows(req[r].gen)'
    BY <1>1, <1>3, <1>4 DEF OfRequest, Carrying, SameAs, Sure, KeyKnows
  <2>3. LocalKnows(req[r].gen)'
    BY <1>5 DEF LocalKnows, Knows
  <2>4. Carrying(r)'
    BY <1>1, <1>3, <1>4, <1>9, <2>2, <2>3 DEF OfRequest, Carrying, SameAs, Sure, SignOutSteps
  <2> QED BY <1>3, <1>4, <2>1, <2>4 DEF OfRequest, Admitted, Waited
<1>11. ASSUME NEW x \in Reqs \ {r} PROVE OfRequest(x)'
  <2>1. OfRequest(x) /\ req'[x] = req[x] /\ (req[x].pc # "idle" => req[x].unsure)
    BY <1>1, <1>4, UnderWay, WhileOpen
  <2>2. Course(x)' /\ Admitted(x)'
    BY <1>1, <2>1 DEF OfRequest, Course, Admitted, history
  <2>3. Waited(x)'
    BY <2>1 DEF Waited
  <2>4. LocalKnows(req[x].gen)'
    BY <1>5 DEF LocalKnows, Knows
  <2>5. KeyKnows(req[x].gen) => KeyKnows(req[x].gen)'
    BY <1>1, <2>1 DEF KeyKnows, Sure
  <2>6. Carrying(x)'
    BY <1>1, <2>1, <2>4, <2>5 DEF OfRequest, Carrying, Sure
  <2> QED BY <2>2, <2>3, <2>6 DEF OfRequest
<1> QED BY <1>4, <1>6, <1>7, <1>8, <1>10, <1>11 DEF SessionsInv, OfRequest

(* A sign-out is complete. *)
LEMMA ForgetKeeps ==
  ASSUME SessionsInv, NEW r \in Reqs, ForgetDevices(r)
  PROVE  SessionsInv'
<1>1. /\ req[r] \in Records /\ req \in [Reqs -> Records] /\ OfRequest(r) /\ TypeOK /\ now \in Nat /\ begun \in Nat
      /\ done \in 0 .. begun /\ req[r].gen \in 0 .. begun /\ req[r].unsure \in BOOLEAN
      /\ req[r].pc = "forget" /\ req[r].pc \in SignOutSteps
      /\ UNCHANGED <<now, account, tokens, caches, begun, faults>>
      /\ links' = {x \in links : x.what # "phone"}
      /\ done' = (IF req[r].gen > done THEN req[r].gen ELSE done)
      /\ banDone' = (IF req[r].op = "ban" THEN banned ELSE banDone)
  BY UnderWay DEF ForgetDevices, SignOutSteps
<1>2. /\ done' \in 0 .. begun /\ done' >= done /\ done' >= req[r].gen /\ (done' = done \/ done' = req[r].gen)
      /\ banDone' \in BOOLEAN
  BY <1>1 DEF TypeOK
<1>3. PICK q : /\ Moves(r, q) /\ q.pc \in {"idle", "sleep"} /\ (q.pc = "idle" => q = Idle)
               /\ q.pc = "sleep" => SameAs(q, r) /\ q.op = "email" /\ q.at = now /\ q.reply = req[r].reply
                                    /\ q.unsure = req[r].unsure
  <2>1. CASE req[r].op = "email"
    <3> DEFINE q == [req[r] EXCEPT !.pc = "sleep", !.at = now]
    <3>1. /\ q \in Records /\ SameAs(q, r) /\ q.pc = "sleep" /\ q.at = now /\ q.reply = req[r].reply
          /\ q.unsure = req[r].unsure
      <4>1. "sleep" \in Steps /\ now \in 0 .. now
        BY <1>1 DEF Steps
      <4> QED BY <1>1, <4>1 DEF Records, SameAs
    <3>2. req' = [req EXCEPT ![r] = q]
      BY <2>1, Zenon DEF ForgetDevices
    <3> HIDE DEF q
    <3>3. Moves(r, q)
      BY <3>1, <3>2, StepMoves
    <3> QED BY <2>1, <3>1, <3>3 DEF SameAs
  <2>2. CASE req[r].op # "email"
    <3>1. End(r)
      BY <2>2 DEF ForgetDevices, End
    <3> QED BY <3>1, EndMoves DEF Idle
  <2> QED BY <2>1, <2>2
<1>4. /\ req'[r] = q /\ \A x \in Reqs \ {r} : req'[x] = req[x]
  BY <1>1, <1>3, MovesTypes
<1>5. TypeOK' /\ TicketOnce' /\ Redeemed'
  <2>1. /\ req' \in [Reqs -> Records'] /\ (\A x \in Reqs : Typed(x)')
    BY <1>1, <1>3, MovesTypes
  <2>2. Tokens' = Tokens
    BY <1>1 DEF Tokens
  <2>3. TypeOK'
    BY <1>1, <1>2, <2>1, <2>2, TypeOKIs DEF TypeOK, Typed, Records, account, caches
  <2> QED BY <1>1, <2>3 DEF SessionsInv, TicketOnce, Redeemed, TicketEnd, caches
<1>6. /\ \A s \in Sure : tokens[s].gen < req[r].gen /\ tokens[s].gen < begun /\ ~tokens[s].live /\ tokens[s].gen \in Nat
      /\ \A x \in Reqs \ {r} : req[x].pc # "idle" => req[x].unsure
  <2>1. \A s \in DOMAIN tokens : tokens[s] \in Tokens
    BY <1>1 DEF TypeOK
  <2>2. \A s \in Sure : ~tokens[s].live /\ tokens[s].gen \in Nat
    BY <1>1, <2>1 DEF OfRequest, Carrying, SignOutSteps, Sure, Tokens
  <2> QED BY <1>1, <2>2, WhileOpen
<1>7. \A x \in links' : x \in links /\ x.unsure
  <2>1. \A x \in links' : x.what = "socket" /\ x \in links
    BY <1>1 DEF TypeOK
  <2> QED BY <1>1, <2>1 DEF OfRequest, Carrying
<1>8. KeyKnows(done)' /\ LocalKnows(done)'
  <2>1. KeyKnows(done) /\ LocalKnows(done) /\ KeyKnows(req[r].gen) /\ LocalKnows(req[r].gen)
    BY <1>1 DEF SessionsInv, OldIsOut, OfRequest, Carrying
  <2>2. \A g \in Nat : /\ g = done \/ g = req[r].gen
                       => /\ \A s \in Sure' : tokens'[s].gen < g =>
                               tokens'[s].iat <= key'.at /\ tokens'[s].iat + Keep <= key'.until
                          /\ local'.checked # 0 /\ ~local'.unsure =>
                               \A s \in Sure' : tokens'[s].gen < g => tokens'[s].iat <= local'.at \/ now' >= tokens'[s].iat + Keep
    BY <1>1, <2>1 DEF KeyKnows, LocalKnows, Knows, Sure, caches
  <2>3. done' \in Nat
    BY <1>1, <1>2
  <2> QED BY <1>2, <2>2, <2>3 DEF KeyKnows, LocalKnows, Knows
<1>9. OldIsOut'
  BY <1>1, <1>6, <1>7, <1>8 DEF OldIsOut, Sure
<1>10. BanHolds'
  <2>1. banned' = banned /\ isAdmin' = isAdmin
    BY <1>1 DEF account
  <2>2. \A s \in Sure' : ~tokens'[s].live /\ tokens'[s].gen < done'
    <3>1. \A s \in Sure' : s \in Sure /\ tokens'[s] = tokens[s]
      BY <1>1 DEF Sure
    <3> QED BY <1>1, <1>2, <1>6, <3>1
  <2>3. \A x \in Reqs : req'[x].pc = "insert" => req'[x].unsure
    BY <1>3, <1>4, <1>6
  <2> QED BY <1>1, <1>7, <2>1, <2>2, <2>3 DEF SessionsInv, BanHolds
<1>11. OwnIsLater'
  BY <1>1, <1>6 DEF OwnIsLater, Sure
<1>12. (\E y \in Reqs \ {r} : req[y].pc \in SignOutSteps)' => req[r].unsure
  BY <1>1, <1>4 DEF OfRequest, Carrying
<1>13. OfRequest(r)'
  <2>1. CASE q.pc = "idle"
    BY <1>3, <1>4, <2>1, IdleOK
  <2>2. CASE q.pc = "sleep"
    <3>1. req[r].unsure \/ req[r].gen = begun
      BY <1>1, WhileOpen DEF OfRequest, Course
    <3>2. Course(r)'
      BY <1>1, <1>2, <1>3, <1>4, <2>2, <3>1 DEF Course, SignOutSteps, Ends, SigningIn, Presenting, SameAs
    <3>3. Carrying(r)'
      BY <1>3, <1>4, <1>12, <2>2 DEF Carrying, SignOutSteps
    <3>4. Quiet(req[r].at + 1)'
      <4>1. \A x \in Reqs : req[x].reply \in 0 .. now
        BY <1>1 DEF Records
      <4>2. \A x \in Reqs : req'[x].reply \in 0 .. now
        BY <1>3, <1>4, <2>2, <4>1
      <4>3. key'.at \in 0 .. now /\ local'.at \in 0 .. now /\ req'[r].at = now
        BY <1>1, <1>3, <1>4, <2>2 DEF TypeOK, caches
      <4> QED BY <1>1, <4>2, <4>3 DEF Quiet
    <3> QED BY <1>3, <1>4, <2>2, <3>2, <3>3, <3>4 DEF OfRequest, Admitted, Waited
  <2> QED BY <1>3, <2>1, <2>2
<1>14. ASSUME NEW x \in Reqs \ {r} PROVE OfRequest(x)'
  <2>1. OfRequest(x) /\ req'[x] = req[x] /\ (req[x].pc # "idle" => req[x].unsure)
    BY <1>1, <1>4, <1>6, UnderWay
  <2>2. Course(x)'
    <3>1. req[x].pc = "idle" => req[x].op = "none"
      BY <2>1 DEF OfRequest, Course
    <3> QED BY <1>1, <2>1, <3>1 DEF OfRequest, Course, SigningIn, Ends
  <2>3. Admitted(x)' /\ Waited(x)'
    BY <2>1 DEF Admitted, Waited
  <2>4. /\ KeyKnows(req[x].gen) => KeyKnows(req[x].gen)'
        /\ LocalKnows(req[x].gen) => LocalKnows(req[x].gen)'
    BY <1>1, <2>1 DEF KeyKnows, LocalKnows, Knows, Sure, caches
  <2>5. Carrying(x)'
    BY <1>1, <2>1, <2>4 DEF OfRequest, Carrying, Sure
  <2> QED BY <2>2, <2>3, <2>5 DEF OfRequest
<1> QED BY <1>5, <1>9, <1>10, <1>11, <1>13, <1>14 DEF SessionsInv, OfRequest

(* A sign-out begins: who is under way is not sure any more. *)
LEMMA SignOutKeeps ==
  ASSUME SessionsInv, NEW r \in Reqs, NEW op \in Ends, SignOut(r, op)
  PROVE  SessionsInv'
<1> DEFINE u == Open
           q == [Idle EXCEPT !.op = op, !.pc = "revoke", !.gen = begun + 1, !.unsure = u]
<1>1. /\ req \in [Reqs -> Records] /\ TypeOK /\ now \in Nat \ {0} /\ begun \in Nat /\ done \in 0 .. begun
      /\ banned \in BOOLEAN /\ isAdmin \in BOOLEAN
      /\ req[r].pc = "idle" /\ (op = "ban" => ~isAdmin) /\ (banned' <=> banned \/ op = "ban") /\ begun' = begun + 1
      /\ UNCHANGED <<now, isAdmin, tokens, caches, links, done, banDone, faults>>
      /\ req' = [x \in Reqs |-> IF x = r THEN q ELSE IF req[x].pc = "idle" THEN Idle ELSE [req[x] EXCEPT !.unsure = TRUE]]
  BY UnderWay DEF SignOut, TypeOK
<1>2. u \in BOOLEAN /\ (u <=> \E x \in Reqs : req[x].pc \in SignOutSteps)
  BY DEF Open
<1> HIDE DEF u
<1>3. q.op = op /\ q.pc = "revoke" /\ q.gen = begun + 1 /\ q.unsure = u /\ q.reply = 0 /\ q \in Records'
  <2>1. q.op = op /\ q.pc = "revoke" /\ q.gen = begun + 1 /\ q.unsure = u /\ q.reply = 0
    BY DEF Idle
  <2>2. Idle \in Records'
    BY <1>1 DEF Idle, Records, Steps
  <2>3. begun + 1 \in 0 .. begun'
    BY <1>1
  <2>4. ASSUME NEW d \in Records'
        PROVE  [d EXCEPT !.op = op, !.pc = "revoke", !.gen = begun + 1, !.unsure = u] \in Records'
    BY <1>2, <2>3 DEF Records, Ends, Steps, SignOutSteps
  <2> QED BY <2>1, <2>2, <2>4
<1> HIDE DEF q
<1> DEFINE n(x) == [req[x] EXCEPT !.unsure = TRUE]
<1>4. ASSUME NEW x \in Reqs
      PROVE  /\ n(x) \in Records' /\ n(x).op = req[x].op /\ n(x).pc = req[x].pc /\ n(x).cred = req[x].cred
             /\ n(x).at = req[x].at /\ n(x).reply = req[x].reply /\ n(x).gen = req[x].gen /\ n(x).unsure = TRUE
  <2>1. req[x] \in Records
    BY <1>1
  <2>2. /\ n(x) \in Records /\ n(x).op = req[x].op /\ n(x).pc = req[x].pc /\ n(x).cred = req[x].cred
        /\ n(x).at = req[x].at /\ n(x).reply = req[x].reply /\ n(x).gen = req[x].gen /\ n(x).unsure = TRUE
    BY <2>1 DEF Records
  <2>3. Records \subseteq Records'
    BY <1>1 DEF Records
  <2> QED BY <2>2, <2>3
<1>5. /\ req'[r] = q
      /\ \A x \in Reqs \ {r} : req'[x] = (IF req[x].pc = "idle" THEN Idle ELSE n(x))
      /\ DOMAIN req' = Reqs
  BY <1>1
<1> HIDE DEF n
<1>6. Idle \in Records' /\ Idle.op = "none" /\ Idle.pc = "idle"
  BY <1>1 DEF Idle, Records, Steps
<1>7. TypeOK'
  <2>1. req' \in [Reqs -> Records']
    <3>1. \A x \in Reqs : req'[x] \in Records'
      BY <1>3, <1>4, <1>5, <1>6
    <3>2. req' = [x \in Reqs |-> req'[x]]
      BY <1>1
    <3> QED BY <3>1, <3>2
  <2>2. \A x \in Reqs : Typed(x)'
    <3>1. \A x \in Reqs : Typed(x)
      BY UnderWay
    <3> QED BY <1>1, <1>3, <1>4, <1>5, <1>6, <2>1, <3>1 DEF Typed, Ends
  <2>3. tokens' \in Seq(Tokens')
    <3>1. Tokens \subseteq Tokens'
      BY <1>1 DEF Tokens
    <3>2. tokens \in Seq(Tokens) /\ \A i \in 1 .. Len(tokens) : tokens[i] \in Tokens
      BY <1>1 DEF TypeOK
    <3> QED BY <1>1, <3>1, <3>2, Retyped
  <2>4. links' \subseteq [what : {"socket", "phone"}, gen : 0 .. begun, unsure : BOOLEAN]'
    BY <1>1 DEF TypeOK
  <2>5. now' \in Nat \ {0} /\ begun' \in Nat /\ done' \in 0 .. begun' /\ faults' \in 0 .. MaxFaults
    BY <1>1 DEF TypeOK
  <2>7. isAdmin' \in BOOLEAN /\ banDone' \in BOOLEAN
    BY <1>1 DEF TypeOK
  <2>8. banned' \in BOOLEAN
    BY DEF SignOut
  <2>6. /\ used' \subseteq {t \in DOMAIN tokens' : tokens'[t].kind = "ticket"}
        /\ key' \in [at : 0 .. now', until : Nat]
        /\ local' \in [at : 0 .. now', checked : 0 .. now', unsure : BOOLEAN]
    BY <1>1 DEF TypeOK, caches
  <2> QED BY <2>1, <2>2, <2>3, <2>4, <2>5, <2>6, <2>7, <2>8 DEF TypeOK, Typed, Records
<1>8. TicketOnce' /\ Redeemed'
  BY <1>1 DEF SessionsInv, TicketOnce, Redeemed, TicketEnd, caches
<1>9. OldIsOut'
  BY <1>1 DEF SessionsInv, OldIsOut, KeyKnows, LocalKnows, Knows, Sure, caches
<1>10. BanHolds'
  <2>1. \A x \in Reqs : req'[x].pc = "insert" => req'[x].unsure
    BY <1>3, <1>4, <1>5, <1>6
  <2> QED BY <1>1, <2>1 DEF SessionsInv, BanHolds, Sure
<1>11. \A s \in Sure : tokens[s].gen \in Nat /\ tokens[s].gen <= begun
  <2>1. \A s \in DOMAIN tokens : tokens[s] \in Tokens
    BY <1>1 DEF TypeOK
  <2> QED BY <1>1, <2>1 DEF Sure, Tokens
<1>12. OwnIsLater'
  BY <1>1, <1>11 DEF OwnIsLater, Sure
<1>13. OfRequest(r)'
  <2>1. (\E x \in Reqs \ {r} : req[x].pc \in SignOutSteps)' => q.unsure
    BY <1>2, <1>3, <1>4, <1>5, <1>6 DEF SignOutSteps
  <2>2. Course(r)'
    BY <1>1, <1>3, <1>5 DEF Course, Ends, SignOutSteps, SigningIn, Presenting
  <2>3. Carrying(r)'
    BY <1>1, <1>3, <1>5, <1>11, <2>1 DEF Carrying, Sure, SignOutSteps
  <2> QED BY <1>3, <1>5, <2>2, <2>3 DEF OfRequest, Admitted, Waited
<1>14. ASSUME NEW x \in Reqs \ {r} PROVE OfRequest(x)'
  <2>1. CASE req[x].pc = "idle"
    BY <1>5, <2>1, IdleOK
  <2>2. CASE req[x].pc # "idle"
    <3>1. /\ OfRequest(x) /\ req'[x].op = req[x].op /\ req'[x].pc = req[x].pc /\ req'[x].cred = req[x].cred
          /\ req'[x].at = req[x].at /\ req'[x].reply = req[x].reply /\ req'[x].gen = req[x].gen /\ req'[x].unsure
      <4>1. req'[x] = n(x)
        BY <1>5, <2>2
      <4>2. OfRequest(x)
        BY UnderWay
      <4> QED BY <1>4, <4>1, <4>2
    <3>2. Course(x)'
      BY <1>1, <3>1 DEF OfRequest, Course
    <3>3. /\ KeyKnows(req[x].gen) => KeyKnows(req[x].gen)'
          /\ LocalKnows(req[x].gen) => LocalKnows(req[x].gen)'
      BY <1>1, <3>1 DEF KeyKnows, LocalKnows, Knows, Sure, caches
    <3>4. Carrying(x)'
      BY <1>1, <3>1, <3>3 DEF OfRequest, Carrying, Sure
    <3>5. Admitted(x)' /\ Waited(x)'
      BY <3>1 DEF Admitted, Waited
    <3> QED BY <3>2, <3>4, <3>5 DEF OfRequest
  <2> QED BY <2>1, <2>2
<1> QED BY <1>7, <1>8, <1>9, <1>10, <1>12, <1>13, <1>14 DEF SessionsInv, OfRequest

-----------------------------------------------------------------------------
(* Steps of nobody's request.                                               *)

LEMMA TickKeeps ==
  ASSUME SessionsInv, Tick
  PROVE  SessionsInv'
<1>1. /\ TypeOK /\ now \in Nat \ {0} /\ now' = now + 1 /\ req \in [Reqs -> Records]
      /\ (\A x \in Reqs : Typed(x) /\ OfRequest(x))
      /\ UNCHANGED <<account, tokens, caches, links, req, history, started, faults>>
      /\ \A s \in DOMAIN tokens : tokens[s] \in Tokens
  BY UnderWay, TypeOKIs DEF Tick, SessionsInv, TypeOK, OfRequest
<1>2. TypeOK'
  <2>1. Records \subseteq Records' /\ Tokens \subseteq Tokens'
    BY <1>1 DEF Records, Tokens, history
  <2>2. tokens' \in Seq(Tokens')
    <3>1. tokens \in Seq(Tokens) /\ \A i \in 1 .. Len(tokens) : tokens[i] \in Tokens
      BY <1>1 DEF TypeOK
    <3> QED BY <1>1, <2>1, <3>1, Retyped
  <2>3. req' \in [Reqs -> Records'] /\ \A x \in Reqs : Typed(x)'
    BY <1>1, <2>1 DEF Typed
  <2>4. /\ key' \in [at : 0 .. now, until : Nat]'
        /\ local' \in [at : 0 .. now, checked : 0 .. now, unsure : BOOLEAN]'
        /\ links' \subseteq [what : {"socket", "phone"}, gen : 0 .. begun, unsure : BOOLEAN]'
    <3>1. key \in [at : 0 .. now, until : Nat] /\ key' = key
      BY <1>1 DEF TypeOK, caches
    <3>2. local \in [at : 0 .. now, checked : 0 .. now, unsure : BOOLEAN] /\ local' = local
      BY <1>1 DEF TypeOK, caches
    <3>3. links \subseteq [what : {"socket", "phone"}, gen : 0 .. begun, unsure : BOOLEAN] /\ links' = links /\ begun' = begun
      BY <1>1 DEF TypeOK, history
    <3> QED BY <1>1, <3>1, <3>2, <3>3
  <2>5. /\ now' \in Nat \ {0} /\ begun' \in Nat /\ done' \in 0 .. begun' /\ faults' \in 0 .. MaxFaults
        /\ used' \subseteq {t \in DOMAIN tokens' : tokens'[t].kind = "ticket"}
    BY <1>1 DEF TypeOK, caches, history
  <2>6. isAdmin' \in BOOLEAN /\ banned' \in BOOLEAN /\ banDone' \in BOOLEAN
    BY <1>1 DEF TypeOK, account, history
  <2> QED BY <2>2, <2>3, <2>4, <2>5, <2>6 DEF TypeOK, Typed, Records
<1>3. /\ \A s \in DOMAIN tokens : tokens[s].iat \in Nat /\ TicketEnd(s)' = TicketEnd(s) /\ TicketEnd(s) \in Nat
      /\ \A s \in Sure : tokens[s].iat \in Nat /\ tokens[s].iat + Keep \in Nat
  BY <1>1, Constants DEF TicketEnd, Tokens, Sure
<1>4. TicketOnce' /\ Redeemed'
  BY <1>1, <1>3 DEF SessionsInv, TicketOnce, Redeemed, caches
<1>5. /\ \A g \in Nat : KeyKnows(g) => KeyKnows(g)'
      /\ \A at, g \in Nat : Knows(at, g) => Knows(at, g)'
      /\ \A g \in Nat : LocalKnows(g) => LocalKnows(g)'
  BY <1>1, <1>3 DEF KeyKnows, Knows, LocalKnows, Sure, caches
<1>6. OldIsOut' /\ BanHolds'
  <2>1. done \in Nat
    BY <1>1 DEF TypeOK
  <2>2. KeyKnows(done)' /\ LocalKnows(done)'
    BY <1>1, <1>3 DEF SessionsInv, OldIsOut, KeyKnows, Knows, LocalKnows, Sure, caches, history
  <2> QED BY <1>1, <2>2 DEF SessionsInv, OldIsOut, BanHolds, Sure, history, account
<1>7. \A t \in Nat : Quiet(t) => Quiet(t)'
  BY <1>1 DEF Quiet, caches
<1>8. OwnIsLater'
  <2>1. NoneLater
    BY <1>1 DEF NoneLater, Quiet, caches
  <2> QED BY <1>1, <2>1, OwnStays DEF history
<1>9. ASSUME NEW x \in Reqs PROVE OfRequest(x)'
  <2>1. OfRequest(x) /\ req'[x] = req[x] /\ req[x] \in Records /\ Typed(x)
    BY <1>1
  <2>2. Course(x)'
    BY <1>1, <2>1 DEF OfRequest, Course, history
  <2>3. Carrying(x)'
    <3>1. /\ KeyKnows(req[x].gen) => KeyKnows(req[x].gen)'
          /\ LocalKnows(req[x].gen) => LocalKnows(req[x].gen)'
      BY <1>1, <1>3, <2>1 DEF KeyKnows, Knows, LocalKnows, Sure, caches
    <3> QED BY <1>1, <2>1, <3>1 DEF OfRequest, Carrying, Sure
  <2>4. Admitted(x)'
    <3>1. Knows(req[x].reply, done) => Knows(req[x].reply, done)'
      BY <1>1, <1>3, <2>1 DEF Knows, Sure, history
    <3>2. req[x].pc = "in" => Issued(x) \in Nat /\ Issued(x)' = Issued(x)
      BY <1>1, <1>3, <2>1 DEF OfRequest, Course, Presenting, Typed, Issued
    <3> QED BY <1>1, <2>1, <3>1, <3>2, Constants DEF OfRequest, Admitted, history, Keep
  <2>5. Waited(x)'
    <3>1. req[x].at \in Nat
      BY <2>1 DEF Records
    <3>2. /\ Quiet(req[x].at + 1) => Quiet(req[x].at + 1)'
          /\ Quiet(req[x].at) => Quiet(req[x].at)'
      BY <1>1 DEF Quiet, caches
    <3>3. Quiet(now) => Quiet(now + 1)
      BY <1>1, QuietLater
    <3>4. Quiet(now) => Quiet(now)'
      BY <1>1, <3>3 DEF Quiet, caches
    <3> QED BY <2>1, <3>2, <3>4 DEF OfRequest, Waited
  <2> QED BY <2>2, <2>3, <2>4, <2>5 DEF OfRequest
<1> QED BY <1>2, <1>4, <1>6, <1>8, <1>9 DEF SessionsInv, OfRequest

LEMMA UnbanKeeps ==
  ASSUME SessionsInv, Unban
  PROVE  SessionsInv'
<1>1. /\ banned' = FALSE /\ banDone' = FALSE
      /\ UNCHANGED <<now, isAdmin, tokens, caches, links, req, begun, done, started, faults>>
  BY DEF Unban
<1>2. TypeOK' /\ TicketOnce' /\ Redeemed'
  <2>1. Tokens' = Tokens
    BY <1>1 DEF Tokens
  <2> QED BY <1>1, <2>1 DEF SessionsInv, TypeOK, TicketOnce, Redeemed, TicketEnd, caches
<1>3. OldIsOut' /\ BanHolds'
  BY <1>1 DEF SessionsInv, OldIsOut, BanHolds, KeyKnows, LocalKnows, Knows, Sure, caches
<1>4. \A x \in Reqs : Course(x)' /\ Admitted(x)'
  BY <1>1 DEF SessionsInv, Course, Admitted, Issued, Knows, Sure
<1>5. \A x \in Reqs : Carrying(x)'
  BY <1>1 DEF SessionsInv, Carrying, KeyKnows, LocalKnows, Knows, Sure, caches
<1>6. OwnIsLater' /\ \A x \in Reqs : Waited(x)'
  BY <1>1 DEF SessionsInv, OwnIsLater, Waited, Quiet, Sure, caches
<1> QED BY <1>2, <1>3, <1>4, <1>5, <1>6 DEF SessionsInv

-----------------------------------------------------------------------------
(* Every step.                                                              *)

LEMMA SignInKeeps ==
  ASSUME SessionsInv, NEW r \in Reqs, SignIn(r)
  PROVE  SessionsInv'
<1>1. CASE Login(r) \/ \E s \in DOMAIN tokens : Refresh(r, s)
  BY <1>1, StartsKeep
<1>2. CASE Rotate(r)
  BY <1>2, RotateKeeps
<1>3. CASE Suspension(r)
  BY <1>3, SuspensionKeeps
<1>4. CASE CreateRefreshToken(r)
  BY <1>4, CreateKeeps
<1> QED BY <1>1, <1>2, <1>3, <1>4 DEF SignIn

LEMMA RequestKeeps ==
  ASSUME SessionsInv, NEW r \in Reqs, Request(r)
  PROVE  SessionsInv'
<1>1. CASE \E s \in DOMAIN tokens : Call(r, s) \/ AdminCall(r, s) \/ Connect(r, s)
  BY <1>1, StartsKeep
<1>2. CASE Redeem(r)
  BY <1>2, RedeemKeeps
<1>3. CASE LocalRevoked(r)
  BY <1>3, LocalRevokedKeeps
<1>4. CASE GetRevoked(r)
  BY <1>4, GetRevokedKeeps
<1>5. CASE RevokedFails(r)
  BY <1>5, RevokedFailsKeeps
<1>6. CASE KeepReply(r)
  BY <1>6, KeepReplyKeeps
<1>7. CASE Answer(r)
  BY <1>7, AnswerKeeps
<1>8. CASE IssueTicket(r)
  BY <1>8, IssueTicketKeeps
<1>9. CASE Serve(r) \/ RegisterDevice(r)
  BY <1>9, LinkKeeps
<1> QED BY <1>1, <1>2, <1>3, <1>4, <1>5, <1>6, <1>7, <1>8, <1>9 DEF Request

LEMMA EndingKeeps ==
  ASSUME SessionsInv, NEW r \in Reqs, Ending(r)
  PROVE  SessionsInv'
<1>1. CASE LogoutAll(r) \/ ConfirmEmailChange(r) \/ Ban(r)
  <2>1. PICK op \in Ends : SignOut(r, op)
    BY <1>1 DEF LogoutAll, ConfirmEmailChange, Ban, Ends
  <2> QED BY <2>1, SignOutKeeps
<1>2. CASE RevokeAllUserRefreshTokens(r)
  BY <1>2, RevokeAllUserKeeps
<1>3. CASE RevokeAll(r)
  BY <1>3, RevokeAllKeeps
<1>4. CASE RememberRevoked(r)
  BY <1>4, RememberKeeps
<1>5. CASE Disconnect(r)
  BY <1>5, DisconnectKeeps
<1>6. CASE ForgetDevices(r)
  BY <1>6, ForgetKeeps
<1>7. CASE Sleep(r)
  BY <1>7, SleepKeeps
<1>8. CASE SignOutFails(r)
  BY <1>8, SignOutFailsKeeps
<1> QED BY <1>1, <1>2, <1>3, <1>4, <1>5, <1>6, <1>7, <1>8 DEF Ending

LEMMA NextKeeps ==
  ASSUME SessionsInv, Next
  PROVE  SessionsInv'
<1>1. CASE Tick
  BY <1>1, TickKeeps
<1>2. CASE Unban
  BY <1>2, UnbanKeeps
<1>3. CASE AdminVerify
  BY <1>3, AdminVerifyKeeps
<1>4. CASE \E s \in DOMAIN tokens : Revoke(s)
  BY <1>4, RevokeKeeps
<1>5. CASE \E r \in Reqs : SignIn(r) \/ Request(r) \/ Ending(r)
  BY <1>5, SignInKeeps, RequestKeeps, EndingKeeps
<1> QED BY <1>1, <1>2, <1>3, <1>4, <1>5 DEF Next

LEMMA StutterKeeps ==
  ASSUME SessionsInv, UNCHANGED vars
  PROVE  SessionsInv'
<1>1. UNCHANGED <<now, isAdmin, banned, tokens, used, local, key, links, req, begun, done, banDone, started, faults>>
  BY DEF vars, account, caches, history
<1>2. TypeOK' /\ TicketOnce' /\ Redeemed'
  BY <1>1 DEF SessionsInv, TypeOK, Tokens, TicketOnce, Redeemed, TicketEnd
<1>3. OldIsOut' /\ BanHolds'
  BY <1>1 DEF SessionsInv, OldIsOut, BanHolds, KeyKnows, LocalKnows, Knows, Sure
<1>4. \A x \in Reqs : Course(x)' /\ Admitted(x)'
  BY <1>1 DEF SessionsInv, Course, Admitted, Issued, Knows, Sure
<1>5. \A x \in Reqs : Carrying(x)'
  BY <1>1 DEF SessionsInv, Carrying, KeyKnows, LocalKnows, Knows, Sure
<1>6. OwnIsLater' /\ \A x \in Reqs : Waited(x)'
  BY <1>1 DEF SessionsInv, OwnIsLater, Waited, Quiet, Sure
<1> QED BY <1>2, <1>3, <1>4, <1>5, <1>6 DEF SessionsInv

LEMMA InitHolds == Init => SessionsInv
<1> SUFFICES ASSUME Init PROVE SessionsInv
  OBVIOUS
<1>1. Sure = {} /\ DOMAIN tokens = {}
  BY DEF Init, Sure
<1>2. Idle \in Records /\ Idle.op = "none" /\ Idle.pc = "idle" /\ Idle.reply = 0
  BY DEF Init, Idle, Records, Steps
<1>3. \A x \in Reqs : req[x] = Idle
  BY DEF Init
<1>4. TypeOK
  <2>1. /\ now \in Nat \ {0} /\ begun \in Nat /\ done \in 0 .. begun /\ faults \in 0 .. MaxFaults
        /\ used \subseteq {t \in DOMAIN tokens : tokens[t].kind = "ticket"}
        /\ links \subseteq [what : {"socket", "phone"}, gen : 0 .. begun, unsure : BOOLEAN]
    BY Constants DEF Init
  <2>2. isAdmin \in BOOLEAN /\ banned \in BOOLEAN /\ banDone \in BOOLEAN
    BY SessionsAssumption DEF Init
  <2>3. tokens \in Seq(Tokens)
    BY DEF Init
  <2>4. key \in [at : 0 .. now, until : Nat] /\ local \in [at : 0 .. now, checked : 0 .. now, unsure : BOOLEAN]
    BY DEF Init
  <2>5. req \in [Reqs -> Records] /\ \A x \in Reqs : Typed(x)
    BY <1>2, <1>3 DEF Init, Typed
  <2> QED BY <2>1, <2>2, <2>3, <2>4, <2>5, TypeOKIs
<1>5. TicketOnce /\ Redeemed
  BY <1>1 DEF TicketOnce, Redeemed
<1>6. OldIsOut /\ BanHolds /\ OwnIsLater
  BY <1>1 DEF Init, OldIsOut, BanHolds, OwnIsLater, KeyKnows, LocalKnows, Knows
<1>7. ASSUME NEW x \in Reqs PROVE OfRequest(x)
  <2>1. /\ req[x].op = "none" /\ req[x].pc = "idle"
    BY <1>2, <1>3
  <2> QED BY <2>1 DEF OfRequest, Course, Carrying, Admitted, Waited, SignOutSteps, SigningIn, Presenting, Ends
<1> QED BY <1>4, <1>5, <1>6, <1>7 DEF SessionsInv, OfRequest

\* Redis, the local answers of revoke.Store and every request between two of
\* its steps know enough to keep old sessions out; a ticket works once
\* (ticket.go, Redeem; revoke.go, RevokeAll and Revoked).
THEOREM SessionsInvHolds == Spec => []SessionsInv
<1>1. SessionsInv /\ [Next]_vars => SessionsInv'
  BY NextKeeps, StutterKeeps
<1> QED BY <1>1, InitHolds, PTL DEF Spec

\* After sessionEnder.RevokeAllRefreshTokens nothing goes back to a session
\* that was started before: no refresh token, websocket or phone, and no
\* admitted request, whatever of it crossed which step.
THEOREM NoOldSessionHolds == Spec => []NoOldSession
<1>1. SessionsInv => NoOldSession
  <2> SUFFICES ASSUME SessionsInv PROVE NoOldSession
    OBVIOUS
  <2>1. ASSUME NEW x PROVE Older(x) => ~x.unsure /\ x.gen < done
    BY DEF Older
  <2>2. /\ \A s \in DOMAIN tokens : tokens[s].gen \in Nat
        /\ \A x \in links : x.gen \in Nat
        /\ done \in Nat /\ now \in Nat /\ Keep \in Nat
    <3>1. \A s \in DOMAIN tokens : tokens[s] \in Tokens
      BY DEF SessionsInv, TypeOK
    <3> QED BY <3>1, Constants DEF SessionsInv, TypeOK, Tokens
  <2>3. \A s \in DOMAIN tokens : tokens[s].live => ~Older(tokens[s])
    BY <2>2 DEF SessionsInv, OldIsOut, Sure, Older
  <2>4. \A x \in links : ~Older(x)
    BY <2>2 DEF SessionsInv, OldIsOut, Older
  <2>5. ASSUME NEW r \in Reqs, req[r].pc = "in", req[r].op = "admin" => now < Issued(r) + Keep, Older(req[r])
        PROVE  FALSE
    <3>1. req[r].op = "admin" /\ now >= Issued(r) + Keep
      BY <2>5 DEF SessionsInv, Admitted, Older
    <3>2. Issued(r) \in Nat
      <4>1. req[r].cred \in DOMAIN tokens
        BY <3>1 DEF SessionsInv, TypeOK
      <4>2. tokens[req[r].cred] \in Tokens
        BY <4>1 DEF SessionsInv, TypeOK
      <4> QED BY <4>2 DEF Tokens, Issued
    <3> QED BY <2>2, <2>5, <3>1, <3>2
  <2> QED BY <2>3, <2>4, <2>5 DEF NoOldSession
<1> QED BY <1>1, SessionsInvHolds, PTL

\* A suspension that was carried out keeps the account out until it is lifted:
\* issue asks for it, and what was on its way is marked (admin.go, Ban).
THEOREM BannedStaysOutHolds == Spec => []BannedStaysOut
<1>1. SessionsInv => BannedStaysOut
  BY DEF SessionsInv, BanHolds, Sure, BannedStaysOut
<1> QED BY <1>1, SessionsInvHolds, PTL

\* The device that changed the address stays signed in: neither Redis nor the
\* local answer of revoke.Store refuses the token ConfirmEmailChange gave it.
THEOREM OwnSessionWorksHolds == Spec => []OwnSessionWorks
<1>1. SessionsInv => OwnSessionWorks
  BY DEF SessionsInv, OwnIsLater, Quiet, Sure, OwnSessionWorks
<1> QED BY <1>1, SessionsInvHolds, PTL
=============================================================================
