--------------------------- MODULE AccountsProofs ---------------------------
(***************************************************************************)
(* Accounts proved for any accounts, addresses, requests and limit of      *)
(* guesses.                                                                *)
(***************************************************************************)
EXTENDS Accounts, FiniteSetTheorems, TLAPS

(* A request that is under way has all its fields; one that is not has no more
   than its result. *)
LEMMA Fields ==
  ASSUME TypeOK, NEW s \in Slots
  PROVE  /\ req[s].at \notin Over => req[s] \in Requests
         /\ req[s] \in [at : Over] \/ req[s] \in Requests
         /\ req[s] \in Requests => req[s].at \in Under /\ req[s].at \notin Over
BY DEF TypeOK, Requests, Over, Under, Before, Reading, NoAccountYet

(* Only the request s moves, to the step at, with an account if it got one. *)
Moves(s, at) == /\ req' \in [Slots -> [at : Over] \cup Requests]
                /\ \A t \in Slots \ {s} : req'[t] = req[t]
                /\ req'[s].at = at
                /\ at \notin Over => /\ req'[s] \in Requests
                                    /\ req'[s].op = req[s].op /\ req'[s].email = req[s].email
                                    /\ req'[s].purpose = req[s].purpose /\ req'[s].guess = req[s].guess
                                    /\ req'[s].got = req[s].got

LEMMA GotoMoves ==
  ASSUME TypeOK, NEW s \in Slots, req[s].at \notin Over, NEW at \in Under, Goto(s, at)
  PROVE  Moves(s, at) /\ req'[s].id = req[s].id
BY Fields DEF TypeOK, Goto, Moves, Requests

LEMMA AnswerMoves ==
  ASSUME TypeOK, NEW s \in Slots, NEW at \in Over, Answer(s, at)
  PROVE  Moves(s, at)
BY DEF TypeOK, Answer, Moves

LEMMA FindMoves ==
  ASSUME TypeOK, NEW s \in Slots, req[s].at \notin Over, NEW at \in Under, NEW u \in Ids,
         req' = [req EXCEPT ![s].at = at, ![s].id = u]
  PROVE  Moves(s, at) /\ req'[s].id = u
<1> DEFINE new == [req[s] EXCEPT !.at = at, !.id = u]
<1>1. req[s] \in Requests /\ req \in [Slots -> [at : Over] \cup Requests]
  BY Fields DEF TypeOK
<1>2. /\ new \in Requests /\ new.at = at /\ new.id = u
      /\ new.op = req[s].op /\ new.email = req[s].email /\ new.purpose = req[s].purpose
      /\ new.guess = req[s].guess /\ new.got = req[s].got
  BY <1>1 DEF Requests
<1>3. req' = [req EXCEPT ![s] = new]
  BY <1>1, Zenon
<1> HIDE DEF new
<1>4. req'[s] = new /\ \A t \in Slots \ {s} : req'[t] = req[t]
  BY <1>1, <1>3
<1>5. req' \in [Slots -> [at : Over] \cup Requests]
  BY <1>1, <1>2, <1>3
<1> QED BY <1>2, <1>4, <1>5 DEF Moves

-----------------------------------------------------------------------------
(* Whose address an account has.  What AccountsInv says of it is inductive  *)
(* without the codes' counts.                                               *)

AddressInv == TypeOK /\ VerifiedIsProven /\ Asked /\ OwnAddress

AskedOf(s) ==
  req[s].at \notin Over =>
    /\ req[s].at \in NoAccountYet \/ (req[s].id \in Ids /\ users[req[s].id] # NoUser)
    /\ req[s].at \in NoAccountYet => req[s].id = None
    /\ req[s].purpose = "email" <=> req[s].op \in {"startChange", "confirm"}
    /\ req[s].at \in Reading \cup {"check"} => req[s].op \in {"verify", "reset", "adminVerify", "confirm"}
    /\ req[s].at \in Reading \cup {"change"} => req[s].got.code \in Codes /\ req[s].got.to \in Emails
    /\ req[s].at = "change" => <<req[s].id, req[s].got.to>> \in proven
    /\ req[s].at \in {"google", "complete", "evict"} => req[s].email = Google
    /\ req[s].at \in {"google", "complete", "evict", "setPassword", "verified"} => req[s].purpose # "email"

OwnOf(s) ==
  req[s].at \notin Over \cup NoAccountYet /\ req[s].purpose # "email" =>
    /\ Belongs(req[s].id, req[s].email)
    /\ req[s].at \in Reading => Belongs(req[s].id, req[s].got.to)
    /\ req[s].at \in {"setPassword", "verified"} /\ req[s].id \in There =>
         <<req[s].id, users[req[s].id].email>> \in proven

OwnRow(k) == codes[k].code # None => /\ users[k[1]] # NoUser /\ codes[k].to \in Emails
                                     /\ k[2] # "email" => Belongs(k[1], codes[k].to)

LEMMA ByRequest == /\ Asked <=> \A s \in Slots : AskedOf(s)
                   /\ OwnAddress <=> (\A s \in Slots : OwnOf(s)) /\ (\A k \in Keys : OwnRow(k))
BY DEF Asked, OwnAddress, AskedOf, OwnOf, OwnRow, Busy

(* No account is forgotten, and one keeps its address or gets a proven one. *)
Grow == /\ proven \subseteq proven'
        /\ \A u \in Ids : users[u] # NoUser =>
             /\ users'[u] # NoUser
             /\ u \in There' => u \in There /\ (users'[u].email = users[u].email \/ <<u, users'[u].email>> \in proven')

LEMMA GrowBelongs ==
  ASSUME Grow, NEW u \in Ids, users[u] # NoUser, NEW e, Belongs(u, e)
  PROVE  Belongs(u, e)'
BY DEF Grow, Belongs

LEMMA GrowRequests ==
  ASSUME AddressInv, Grow, NEW t \in Slots, req'[t] = req[t]
  PROVE  AskedOf(t)' /\ OwnOf(t)'
<1>1. AskedOf(t) /\ OwnOf(t)
  BY ByRequest DEF AddressInv
<1>2. AskedOf(t)'
  BY <1>1 DEF AskedOf, Grow
<1>3. ASSUME req[t].at \notin Over \cup NoAccountYet PROVE req[t].id \in Ids /\ users[req[t].id] # NoUser
  BY <1>1, <1>3 DEF AskedOf
<1>4. OwnOf(t)'
  BY <1>1, <1>3, GrowBelongs DEF OwnOf, Grow
<1> QED BY <1>2, <1>4

LEMMA GrowRows ==
  ASSUME AddressInv, Grow, NEW k \in Keys, codes'[k] = codes[k]
  PROVE  OwnRow(k)'
<1>1. OwnRow(k) /\ k[1] \in Ids
  BY ByRequest DEF AddressInv, Keys
<1> QED BY <1>1, GrowBelongs DEF OwnRow, Grow

(* A step of s keeps AddressInv if it does so for s, the rows it writes and the
   accounts. *)
LEMMA OneMoves ==
  ASSUME AddressInv, NEW s \in Slots, \A t \in Slots \ {s} : req'[t] = req[t], Grow, TypeOK', VerifiedIsProven',
         AskedOf(s)', OwnOf(s)', \A k \in Keys : codes'[k] = codes[k] \/ OwnRow(k)'
  PROVE  AddressInv'
<1>1. \A t \in Slots : AskedOf(t)' /\ OwnOf(t)'
  BY GrowRequests
<1>2. \A k \in Keys : OwnRow(k)'
  BY GrowRows
<1>3. Asked' /\ OwnAddress'
  BY <1>1, <1>2 DEF Asked, OwnAddress, AskedOf, OwnOf, OwnRow, Busy
<1> QED BY <1>3 DEF AddressInv

(* One that changes no account needs less. *)
LEMMA CalmMoves ==
  ASSUME AddressInv, NEW s \in Slots, NEW at, Moves(s, at), UNCHANGED <<users, proven>>,
         codes' \in [Keys -> Rows], link' \in Ids \cup {None}, signup' \in BOOLEAN,
         told' \in [Codes -> {NoCode} \cup [key : Keys, to : Emails]],
         used' \in [Codes -> Nat], tries' \in [Codes -> Nat],
         slipped' \subseteq Codes \cup {None}, ended' \subseteq Codes \cup {None},
         AskedOf(s)', OwnOf(s)', \A k \in Keys : codes'[k] = codes[k] \/ OwnRow(k)'
  PROVE  AddressInv'
<1>1. Grow
  BY DEF Grow, There
<1>2. TypeOK'
  BY DEF AddressInv, TypeOK, Moves, There
<1>3. VerifiedIsProven'
  BY DEF AddressInv, VerifiedIsProven, There
<1>4. \A t \in Slots \ {s} : req'[t] = req[t]
  BY DEF Moves
<1> QED BY <1>1, <1>2, <1>3, <1>4, OneMoves

LEMMA CalmKeeps ==
  ASSUME AddressInv, NEW s \in Slots, NEW at, Moves(s, at), UNCHANGED <<users, codes, link, told, proven, used>>,
         signup' \in BOOLEAN, tries' \in [Codes -> Nat], slipped' \subseteq Codes \cup {None},
         ended' \subseteq Codes \cup {None}, AskedOf(s)', OwnOf(s)'
  PROVE  AddressInv'
BY CalmMoves DEF AddressInv, TypeOK

(* What the handlers ask for. *)
Legal(op, at, id, e, p, g) ==
  /\ op \in Ops /\ e \in Emails /\ p \in Purposes /\ g \in Codes \cup {None}
  /\ \/ at \in {"register", "lookup", "google", "complete"} /\ id = None
     \/ at \in {"reauth", "check"} /\ id \in There /\ (p # "email" => e = users[id].email)
  /\ p = "email" <=> op \in {"startChange", "confirm"}
  /\ at = "check" => op = "confirm"
  /\ at \in {"google", "complete"} => e = Google /\ p # "email"

LEMMA LegalKeeps ==
  ASSUME AddressInv, NEW s \in Slots, NEW op, NEW at, NEW id, NEW e, NEW p, NEW g,
         Ask(s, op, at, id, e, p, g), Legal(op, at, id, e, p, g),
         UNCHANGED <<users, codes, link, signup, history>>
  PROVE  AddressInv'
<1> DEFINE r == Request(op, at, id, e, p, g)
<1>1. id \in Ids \cup {None} /\ (at \in {"reauth", "check"} => id \in Ids /\ users[id] # NoUser)
  BY DEF Legal, There, NoUser
<1>2. /\ r.op = op /\ r.at = at /\ r.id = id /\ r.email = e /\ r.purpose = p
      /\ at \notin Over \cup Reading \cup {"change", "evict", "setPassword", "verified"}
      /\ at \in NoAccountYet <=> at \in {"register", "lookup", "google", "complete"}
  BY DEF Legal, Request, NoAccountYet, Reading, Over
<1>3. r \in Requests
  BY <1>1 DEF Request, Requests, NoCode, Rows, Under, Before, NoAccountYet, Legal
<1> HIDE DEF r
<1>4. req' = [req EXCEPT ![s] = r]
  BY DEF Ask, r
<1>5. Grow /\ VerifiedIsProven' /\ \A k \in Keys : codes'[k] = codes[k]
  BY DEF AddressInv, VerifiedIsProven, There, Grow, history
<1>6. req'[s] = r /\ (\A t \in Slots \ {s} : req'[t] = req[t]) /\ TypeOK'
  BY <1>3, <1>4 DEF AddressInv, TypeOK, There, history
<1>7. AskedOf(s)'
  BY <1>1, <1>2, <1>6 DEF AskedOf, Legal
<1>8. OwnOf(s)'
  BY <1>1, <1>2, <1>6 DEF OwnOf, Belongs, There, Legal
<1> QED BY <1>5, <1>6, <1>7, <1>8, OneMoves

LEMMA StartKeeps ==
  ASSUME AddressInv, NEW s \in Slots, Start(s)
  PROVE  AddressInv'
<1>1. /\ \A p \in Purposes : Guesses(p) \subseteq Codes \cup {None}
      /\ {"verify", "reset", "admin", "email"} = Purposes /\ Google \in Emails /\ None \in Codes \cup {None}
  BY AccountsAssumption DEF Guesses, Purposes
<1>2. \A u \in There : u \in Ids /\ users[u].email \in Emails
  BY DEF AddressInv, TypeOK, UserRows, There, NoUser, Deleted
<1> USE DEF Legal, Ops
<1>3. CASE AskRegister(s)
  <2>1. PICK e \in Emails : Ask(s, "register", "register", None, e, "verify", None)
    BY <1>3 DEF AskRegister
  <2> QED BY <1>1, <2>1, LegalKeeps DEF Start
<1>4. CASE AskResend(s)
  <2>1. PICK e \in Emails : Ask(s, "resend", "lookup", None, e, "verify", None)
    BY <1>4 DEF AskResend
  <2> QED BY <1>1, <2>1, LegalKeeps DEF Start
<1>5. CASE AskVerify(s)
  <2>1. PICK e \in Emails, g \in Guesses("verify") : Ask(s, "verify", "lookup", None, e, "verify", g)
    BY <1>5 DEF AskVerify
  <2> QED BY <1>1, <2>1, LegalKeeps DEF Start
<1>6. CASE AskForgot(s)
  <2>1. PICK e \in Emails : Ask(s, "forgot", "lookup", None, e, "reset", None)
    BY <1>6 DEF AskForgot
  <2> QED BY <1>1, <2>1, LegalKeeps DEF Start
<1>7. CASE AskReset(s)
  <2>1. PICK e \in Emails, g \in Guesses("reset") : Ask(s, "reset", "lookup", None, e, "reset", g)
    BY <1>7 DEF AskReset
  <2> QED BY <1>1, <2>1, LegalKeeps DEF Start
<1>8. CASE AskAdminLogin(s)
  <2>1. PICK e \in Emails : Ask(s, "adminStart", "lookup", None, e, "admin", None)
    BY <1>8 DEF AskAdminLogin
  <2> QED BY <1>1, <2>1, LegalKeeps DEF Start
<1>9. CASE AskAdminVerify(s)
  <2>1. PICK e \in Emails, g \in Guesses("admin") : Ask(s, "adminVerify", "lookup", None, e, "admin", g)
    BY <1>9 DEF AskAdminVerify
  <2> QED BY <1>1, <2>1, LegalKeeps DEF Start
<1>10. CASE AskGoogle(s) \/ AskComplete(s)
  BY <1>1, <1>10, LegalKeeps DEF Start, AskGoogle, AskComplete
<1>11. CASE AskStartChange(s)
  <2>1. PICK u \in There, e \in Emails : Ask(s, "startChange", "reauth", u, e, "email", None)
    BY <1>11 DEF AskStartChange
  <2> QED BY <1>1, <2>1, LegalKeeps DEF Start
<1>12. CASE AskConfirm(s)
  <2>1. PICK u \in There, g \in Guesses("email") : Ask(s, "confirm", "check", u, users[u].email, "email", g)
    BY <1>12 DEF AskConfirm
  <2> QED BY <1>1, <1>2, <2>1, LegalKeeps DEF Start
<1>13. CASE AskDelete(s)
  <2>1. PICK u \in There : Ask(s, "delete", "reauth", u, users[u].email, "verify", None)
    BY <1>13 DEF AskDelete
  <2> QED BY <1>1, <1>2, <2>1, LegalKeeps DEF Start
<1> QED BY <1>3, <1>4, <1>5, <1>6, <1>7, <1>8, <1>9, <1>10, <1>11, <1>12, <1>13 DEF Start

LEMMA AnswerKeeps ==
  ASSUME NEW s \in Slots, req'[s].at \in Over
  PROVE  AskedOf(s)' /\ OwnOf(s)'
BY DEF AskedOf, OwnOf

(* A request that ends and changes no more. *)
LEMMA EndKeeps ==
  ASSUME AddressInv, NEW s \in Slots, NEW at \in Over, Answer(s, at),
         UNCHANGED <<users, codes, link, told, proven, used>>,
         signup' \in BOOLEAN, tries' \in [Codes -> Nat], slipped' \subseteq Codes \cup {None},
         ended' \subseteq Codes \cup {None}
  PROVE  AddressInv'
BY AnswerMoves, AnswerKeeps, CalmKeeps DEF Moves, AddressInv

(* What is known of a request under way. *)
LEMMA UnderWay ==
  ASSUME AddressInv, NEW s \in Slots, req[s].at \notin Over
  PROVE  req[s] \in Requests /\ AskedOf(s) /\ OwnOf(s)
BY Fields, ByRequest DEF AddressInv

LEMMA ExistingKeeps ==
  ASSUME AddressInv, NEW s \in Slots, Existing(s)
  PROVE  AddressInv'
<1>1. TypeOK /\ req[s].at = "existing" /\ req[s].at \notin Over /\ AskedOf(s) /\ req[s] \in Requests
  BY UnderWay DEF Existing, At, Over, AddressInv
<1>2. UNCHANGED <<users, codes, link, signup, told, proven, used, tries, slipped, ended>>
  BY DEF Existing, history
<1>3. CASE Answer(s, "err") \/ Answer(s, "ok")
  BY <1>1, <1>2, <1>3, EndKeeps DEF Over, TypeOK
<1>4. CASE \E u \in Having(req[s].email) : req' = [req EXCEPT ![s].at = "gap", ![s].id = u]
  <2>1. PICK u \in Having(req[s].email) : req' = [req EXCEPT ![s].at = "gap", ![s].id = u]
    BY <1>4
  <2>2. u \in Ids /\ users[u].st = "there" /\ users[u].email = req[s].email
    BY <2>1 DEF Having, There
  <2>3. Moves(s, "gap") /\ req'[s].id = u
    BY <1>1, <2>1, <2>2, FindMoves DEF Under, Before
  <2>4. AskedOf(s)' /\ OwnOf(s)'
    BY <1>1, <1>2, <2>2, <2>3
       DEF AskedOf, OwnOf, Moves, Over, NoAccountYet, Reading, Belongs, There, NoUser
  <2> QED BY <1>2, <2>3, <2>4, CalmKeeps DEF AddressInv, TypeOK
<1> QED BY <1>3, <1>4 DEF Existing

LEMMA LookupKeeps ==
  ASSUME AddressInv, NEW s \in Slots, Lookup(s)
  PROVE  AddressInv'
<1>1. TypeOK /\ req[s].at = "lookup" /\ req[s].at \notin Over /\ AskedOf(s) /\ req[s] \in Requests
  BY UnderWay DEF Lookup, At, Over, AddressInv
<1>2. UNCHANGED <<users, codes, link, signup, told, proven, used, tries, slipped, ended>>
  BY DEF Lookup, history
<1>3. CASE Answer(s, "err") \/ Answer(s, "ok")
  BY <1>1, <1>2, <1>3, EndKeeps DEF Over, TypeOK
<1>4. ASSUME NEW u \in Having(req[s].email), NEW at \in {"check", "gap"}, at = "check" => req[s].op \in {"verify", "reset", "adminVerify"},
             req' = [req EXCEPT ![s].at = at, ![s].id = u]
      PROVE  AddressInv'
  <2>1. u \in Ids /\ users[u].st = "there" /\ users[u].email = req[s].email
    BY DEF Having, There
  <2>2. Moves(s, at) /\ req'[s].id = u
    BY <1>1, <1>4, <2>1, FindMoves DEF Under, Before
  <2>3. AskedOf(s)' /\ OwnOf(s)'
    BY <1>1, <1>2, <1>4, <2>1, <2>2
       DEF AskedOf, OwnOf, Moves, Over, NoAccountYet, Reading, Belongs, There, NoUser
  <2> QED BY <1>2, <2>2, <2>3, CalmKeeps DEF AddressInv, TypeOK
<1> QED BY <1>3, <1>4 DEF Lookup

LEMMA GapKeeps ==
  ASSUME AddressInv, NEW s \in Slots, ResendGap(s)
  PROVE  AddressInv'
<1>1. TypeOK /\ req[s].at = "gap" /\ req[s].at \notin Over /\ AskedOf(s) /\ OwnOf(s) /\ req[s] \in Requests
  BY UnderWay DEF ResendGap, At, Over, AddressInv
<1>2. UNCHANGED <<users, codes, link, signup, told, proven, used, tries, slipped, ended>>
  BY DEF ResendGap, history
<1>3. CASE Answer(s, "err") \/ Answer(s, "ok")
  BY <1>1, <1>2, <1>3, EndKeeps DEF Over, TypeOK
<1>4. ASSUME NEW at \in {"inUse", "put"}, Goto(s, at)
      PROVE  AddressInv'
  <2>1. Moves(s, at) /\ req'[s].id = req[s].id
    BY <1>1, <1>4, GotoMoves DEF Under, Before
  <2>2. AskedOf(s)' /\ OwnOf(s)'
    BY <1>1, <1>2, <1>4, <2>1
       DEF AskedOf, OwnOf, Moves, Over, NoAccountYet, Reading, Belongs, There
  <2> QED BY <1>2, <2>1, <2>2, CalmKeeps DEF AddressInv, TypeOK
<1> QED BY <1>3, <1>4 DEF ResendGap

LEMMA ReauthKeeps ==
  ASSUME AddressInv, NEW s \in Slots, Reauth(s)
  PROVE  AddressInv'
<1>1. TypeOK /\ req[s].at = "reauth" /\ req[s].at \notin Over /\ AskedOf(s) /\ OwnOf(s) /\ req[s] \in Requests
  BY UnderWay DEF Reauth, At, Over, AddressInv
<1>2. UNCHANGED <<users, codes, link, signup, told, proven, used, tries, slipped, ended>>
  BY DEF Reauth, history
<1>3. CASE Answer(s, "err")
  BY <1>1, <1>2, <1>3, EndKeeps DEF Over, TypeOK
<1>4. ASSUME NEW at \in {"delete", "gap"}, Goto(s, at)
      PROVE  AddressInv'
  <2>1. Moves(s, at) /\ req'[s].id = req[s].id
    BY <1>1, <1>4, GotoMoves DEF Under, Before
  <2>2. AskedOf(s)' /\ OwnOf(s)'
    BY <1>1, <1>2, <1>4, <2>1
       DEF AskedOf, OwnOf, Moves, Over, NoAccountYet, Reading, Belongs, There
  <2> QED BY <1>2, <2>1, <2>2, CalmKeeps DEF AddressInv, TypeOK
<1> QED BY <1>3, <1>4 DEF Reauth

LEMMA GoogleKeeps ==
  ASSUME AddressInv, NEW s \in Slots, GoogleSignIn(s)
  PROVE  AddressInv'
<1>1. TypeOK /\ req[s].at = "google" /\ req[s].at \notin Over /\ AskedOf(s) /\ req[s] \in Requests
  BY UnderWay DEF GoogleSignIn, At, Over, AddressInv
<1>2. UNCHANGED <<users, codes, link, told, proven, used, tries, slipped, ended>> /\ signup' \in BOOLEAN
  BY <1>1 DEF GoogleSignIn, history, TypeOK
<1>3. CASE Answer(s, "ok")
  BY <1>1, <1>2, <1>3, EndKeeps DEF Over, TypeOK
<1>4. ASSUME NEW u \in Having(Google), NEW at \in {"link", "evict"}, req' = [req EXCEPT ![s].at = at, ![s].id = u]
      PROVE  AddressInv'
  <2>1. u \in Ids /\ users[u].st = "there" /\ users[u].email = Google
    BY DEF Having, There
  <2>2. Moves(s, at) /\ req'[s].id = u
    BY <1>1, <1>4, <2>1, FindMoves DEF Under, Before
  <2>3. AskedOf(s)' /\ OwnOf(s)'
    BY <1>1, <1>2, <1>4, <2>1, <2>2
       DEF AskedOf, OwnOf, Moves, Over, NoAccountYet, Reading, Belongs, There, NoUser
  <2> QED BY <1>2, <2>2, <2>3, CalmKeeps DEF AddressInv, TypeOK
<1>5. CASE \E u \in Having(Google) : req' = [req EXCEPT ![s].id = u, ![s].at = IF users[u].verified THEN "link" ELSE "evict"]
  <2>1. PICK u \in Having(Google) : req' = [req EXCEPT ![s].id = u, ![s].at = IF users[u].verified THEN "link" ELSE "evict"]
    BY <1>5
  <2> DEFINE at == IF users[u].verified THEN "link" ELSE "evict"
  <2>2. req' = [req EXCEPT ![s].at = at, ![s].id = u]
    BY <2>1
  <2>3. at \in {"link", "evict"}
    OBVIOUS
  <2> QED BY <1>4, <2>2, <2>3
<1> QED BY <1>3, <1>5 DEF GoogleSignIn

LEMMA PutKeeps ==
  ASSUME AddressInv, NEW s \in Slots, PutCode(s)
  PROVE  AddressInv'
<1>1. TypeOK /\ req[s].at = "put" /\ req[s].at \notin Over /\ AskedOf(s) /\ OwnOf(s) /\ req[s] \in Requests
  BY UnderWay DEF PutCode, At, Over, AddressInv
<1>2. UNCHANGED <<users, link, signup, told, proven, used, tries, slipped>>
  BY DEF PutCode
<1>3. CASE Answer(s, "err") /\ UNCHANGED <<codes, ended>>
  BY <1>1, <1>2, <1>3, EndKeeps DEF Over, TypeOK
<1>4. CASE Store(s, NewCode(s, req[s].email)) /\ Goto(s, "mail")
  <2> DEFINE row == NewCode(s, req[s].email)
  <2>1. Key(s) \in Keys /\ Key(s)[1] = req[s].id /\ Key(s)[2] = req[s].purpose /\ users[req[s].id] # NoUser
    BY <1>1 DEF Key, Keys, AskedOf, Requests, NoAccountYet
  <2>2. row \in Rows /\ row.to = req[s].email /\ row.to \in Emails
    BY <1>1 DEF NewCode, Rows, Requests, Codes
  <2> HIDE DEF row
  <2>3. codes' = [codes EXCEPT ![Key(s)] = row] /\ ended' = ended \cup {codes[Key(s)].code}
    BY <1>4 DEF Store, UpsertEmailCode, row
  <2>4. Moves(s, "mail") /\ req'[s].id = req[s].id
    BY <1>1, <1>4, GotoMoves DEF Under
  <2>5. AskedOf(s)' /\ OwnOf(s)'
    BY <1>1, <1>2, <2>4 DEF AskedOf, OwnOf, Moves, Over, NoAccountYet, Reading, Belongs, There
  <2>6. codes' \in [Keys -> Rows] /\ ended' \subseteq Codes \cup {None}
    BY <1>1, <2>1, <2>2, <2>3 DEF TypeOK, Rows
  <2>7. \A k \in Keys : codes'[k] = codes[k] \/ OwnRow(k)'
    BY <1>1, <1>2, <2>1, <2>2, <2>3 DEF TypeOK, OwnRow, OwnOf, Belongs, There, NoAccountYet, Over
  <2> QED BY <1>1, <1>2, <2>4, <2>5, <2>6, <2>7, CalmMoves DEF TypeOK
<1> QED BY <1>3, <1>4 DEF PutCode

LEMMA MailKeeps ==
  ASSUME AddressInv, NEW s \in Slots, Mail(s)
  PROVE  AddressInv'
<1>1. TypeOK /\ req[s].at = "mail" /\ req[s].at \notin Over /\ AskedOf(s) /\ req[s] \in Requests
  BY UnderWay DEF Mail, At, Over, AddressInv
<1>2. UNCHANGED <<users, codes, link, signup, proven, used, tries, slipped, ended>>
  BY DEF Mail
<1>3. Moves(s, "ok") \/ Moves(s, "err")
  BY <1>1, AnswerMoves DEF Mail, Over
<1>4. told' \in [Codes -> {NoCode} \cup [key : Keys, to : Emails]]
  <2>1. Key(s) \in Keys /\ req[s].email \in Emails
    BY <1>1 DEF Key, Keys, AskedOf, Requests, NoAccountYet
  <2> QED BY <1>1, <2>1 DEF Mail, TypeOK
<1>5. AskedOf(s)' /\ OwnOf(s)'
  BY <1>3, AnswerKeeps DEF Moves, Over
<1> QED BY <1>1, <1>2, <1>3, <1>4, <1>5, CalmMoves DEF TypeOK

LEMMA InUseKeeps ==
  ASSUME AddressInv, NEW s \in Slots, EmailInUse(s)
  PROVE  AddressInv'
<1>1. TypeOK /\ req[s].at = "inUse" /\ req[s].at \notin Over /\ AskedOf(s) /\ OwnOf(s) /\ req[s] \in Requests
  BY UnderWay DEF EmailInUse, At, Over, AddressInv
<1>2. UNCHANGED <<users, link, signup, told, proven, used, tries, slipped>>
  BY DEF EmailInUse
<1>3. CASE Goto(s, "put") /\ UNCHANGED <<codes, ended>>
  <2>1. Moves(s, "put") /\ req'[s].id = req[s].id
    BY <1>1, <1>3, GotoMoves DEF Under, Before
  <2>2. AskedOf(s)' /\ OwnOf(s)'
    BY <1>1, <1>2, <2>1 DEF AskedOf, OwnOf, Moves, Over, NoAccountYet, Reading, Belongs, There
  <2> QED BY <1>1, <1>2, <1>3, <2>1, <2>2, CalmKeeps DEF TypeOK
<1>4. CASE /\ Answer(s, "ok") /\ (ended' = ended \/ ended' = ended \cup {codes[Key(s)].code})
           /\ codes' = codes \/ codes' = [codes EXCEPT ![Key(s)] = NewCode(None, req[s].email)]
  <2>1. Key(s) \in Keys
    BY <1>1 DEF Key, Keys, AskedOf, Requests, NoAccountYet
  <2>2. Moves(s, "ok")
    BY <1>1, <1>4, AnswerMoves DEF Over
  <2>3. AskedOf(s)' /\ OwnOf(s)'
    BY <2>2, AnswerKeeps DEF Moves, Over
  <2> DEFINE row == NewCode(None, req[s].email)
  <2>4. row \in Rows /\ row.code = None
    BY <1>1 DEF NewCode, Rows, Requests
  <2>5. codes' = codes \/ codes' = [codes EXCEPT ![Key(s)] = row]
    BY <1>4
  <2> HIDE DEF row
  <2>6. codes' \in [Keys -> Rows] /\ ended' \subseteq Codes \cup {None}
    BY <1>1, <1>4, <2>1, <2>4, <2>5 DEF TypeOK, Rows
  <2>7. \A k \in Keys : codes'[k] = codes[k] \/ OwnRow(k)'
    BY <1>1, <2>1, <2>4, <2>5 DEF TypeOK, OwnRow
  <2> QED BY <1>1, <1>2, <2>2, <2>3, <2>6, <2>7, CalmMoves DEF TypeOK
<1> QED BY <1>3, <1>4 DEF EmailInUse

LEMMA GetKeeps ==
  ASSUME AddressInv, NEW s \in Slots, GetCode(s)
  PROVE  AddressInv'
<1> DEFINE row == codes[Key(s)]
<1>1. TypeOK /\ req[s].at = "check" /\ req[s].at \notin Over /\ AskedOf(s) /\ OwnOf(s) /\ req[s] \in Requests
  BY UnderWay DEF GetCode, At, Over, AddressInv
<1>2. UNCHANGED <<users, codes, link, signup, told, proven, used, ended>>
  BY DEF GetCode
<1>3. Key(s) \in Keys /\ Key(s)[1] = req[s].id /\ Key(s)[2] = req[s].purpose
  BY <1>1 DEF Key, Keys, AskedOf, Requests, NoAccountYet
<1>4. row \in Rows
  BY <1>1, <1>3 DEF TypeOK
<1>5. OwnRow(Key(s))
  BY <1>3, ByRequest DEF AddressInv
<1>6. tries' \in [Codes -> Nat] /\ slipped' \subseteq Codes \cup {None}
  BY <1>1, <1>4 DEF GetCode, TypeOK, Rows
<1>7. CASE Answer(s, "err")
  BY <1>1, <1>2, <1>6, <1>7, EndKeeps DEF Over, TypeOK
<1>8. ASSUME row.code # None, NEW at \in {"consume", "bump"}, req' = [req EXCEPT ![s].at = at, ![s].got = row]
      PROVE  AddressInv'
  <2> DEFINE new == [req[s] EXCEPT !.at = at, !.got = row]
  <2>1. /\ new \in Requests /\ new.at = at /\ new.id = req[s].id /\ new.op = req[s].op
        /\ new.email = req[s].email /\ new.purpose = req[s].purpose /\ new.got = row
    BY <1>1, <1>4 DEF Requests, Under, Reading
  <2>2. req' = [req EXCEPT ![s] = new]
    BY <1>1, <1>8, Zenon DEF TypeOK
  <2>3. row.code \in Codes /\ row.to \in Emails
    BY <1>4, <1>5, <1>8 DEF OwnRow, Rows
  <2>4. row.to = codes[Key(s)].to
    OBVIOUS
  <2> HIDE DEF new, row
  <2>5. req'[s] = new /\ (\A t \in Slots \ {s} : req'[t] = req[t]) /\ req' \in [Slots -> [at : Over] \cup Requests]
    BY <1>1, <2>1, <2>2 DEF TypeOK
  <2>6. AskedOf(s)'
    BY <1>1, <1>2, <2>1, <2>3, <2>5 DEF AskedOf, Over, NoAccountYet, Reading
  <2>7. OwnOf(s)'
    BY <1>1, <1>2, <1>3, <1>5, <1>8, <2>1, <2>4, <2>5 DEF OwnOf, OwnRow, Over, NoAccountYet, Reading, Belongs, There, row
  <2>8. Grow /\ VerifiedIsProven'
    BY <1>2 DEF Grow, There, AddressInv, VerifiedIsProven
  <2>9. TypeOK'
    BY <1>1, <1>2, <1>6, <2>5 DEF TypeOK, There
  <2> QED BY <1>2, <2>5, <2>6, <2>7, <2>8, <2>9, OneMoves
<1> QED BY <1>7, <1>8 DEF GetCode

LEMMA BumpKeeps ==
  ASSUME AddressInv, NEW s \in Slots, BumpAttempts(s)
  PROVE  AddressInv'
<1> DEFINE row == codes[Key(s)]
<1>1. TypeOK /\ req[s].at = "bump" /\ req[s].at \notin Over /\ AskedOf(s) /\ OwnOf(s) /\ req[s] \in Requests
  BY UnderWay DEF BumpAttempts, At, Over, AddressInv
<1>2. UNCHANGED <<users, link, signup, told, proven, used, tries, slipped>>
  BY DEF BumpAttempts
<1>3. Key(s) \in Keys /\ row \in Rows
  BY <1>1 DEF Key, Keys, AskedOf, Requests, NoAccountYet, TypeOK
<1>4. CASE Answer(s, "err") /\ UNCHANGED <<codes, ended>>
  BY <1>1, <1>2, <1>4, EndKeeps DEF Over, TypeOK
<1>5. CASE /\ codes' = [codes EXCEPT ![Key(s)].bad = @ + 1]
           /\ ended' \in {ended, ended \cup {row.code}}
           /\ Goto(s, "kill") \/ Answer(s, "err")
  <2> DEFINE new == [row EXCEPT !.bad = @ + 1]
  <2>1. new \in Rows /\ new.code = row.code /\ new.to = row.to
    BY <1>3 DEF Rows
  <2>2. codes' = [codes EXCEPT ![Key(s)] = new]
    BY <1>5
  <2> HIDE DEF new
  <2>3. codes' \in [Keys -> Rows] /\ ended' \subseteq Codes \cup {None}
    BY <1>1, <1>3, <1>5, <2>1, <2>2 DEF TypeOK, Rows
  <2>4. \A k \in Keys : codes'[k] = codes[k] \/ OwnRow(k)'
    BY <1>1, <1>2, <1>3, <2>1, <2>2, ByRequest DEF TypeOK, OwnRow, Belongs, There, AddressInv
  <2>5. CASE Answer(s, "err")
    <3>1. Moves(s, "err")
      BY <1>1, <2>5, AnswerMoves DEF Over
    <3>2. AskedOf(s)' /\ OwnOf(s)'
      BY <3>1, AnswerKeeps DEF Moves, Over
    <3> QED BY <1>1, <1>2, <2>3, <2>4, <3>1, <3>2, CalmMoves DEF TypeOK
  <2>6. CASE Goto(s, "kill")
    <3>1. Moves(s, "kill") /\ req'[s].id = req[s].id
      BY <1>1, <2>6, GotoMoves DEF Under, Reading
    <3>2. AskedOf(s)' /\ OwnOf(s)'
      BY <1>1, <1>2, <3>1 DEF AskedOf, OwnOf, Moves, Over, NoAccountYet, Reading, Belongs, There
    <3> QED BY <1>1, <1>2, <2>3, <2>4, <3>1, <3>2, CalmMoves DEF TypeOK
  <2> QED BY <1>5, <2>5, <2>6
<1> QED BY <1>4, <1>5 DEF BumpAttempts

(* The row that is deleted leaves one that is well typed and nobody's. *)
LEMMA DeleteRow ==
  ASSUME TypeOK, NEW s \in Slots, Key(s) \in Keys, DeleteCode(s)
  PROVE  /\ codes' \in [Keys -> Rows] /\ ended' \subseteq Codes \cup {None}
         /\ \A k \in Keys : codes'[k] = codes[k] \/ OwnRow(k)'
<1> DEFINE row == NoCode
<1>1. row \in Rows /\ row.code = None
  BY DEF NoCode, Rows
<1>2. codes' = [codes EXCEPT ![Key(s)] = row] /\ ended' \in {ended, ended \cup {codes[Key(s)].code}}
  BY DEF DeleteCode
<1> HIDE DEF row
<1> QED BY <1>1, <1>2 DEF TypeOK, Rows, OwnRow

LEMMA KillKeeps ==
  ASSUME AddressInv, NEW s \in Slots, KillCode(s)
  PROVE  AddressInv'
<1>1. TypeOK /\ req[s].at = "kill" /\ req[s].at \notin Over /\ AskedOf(s) /\ req[s] \in Requests
  BY UnderWay DEF KillCode, At, Over, AddressInv
<1>2. UNCHANGED <<users, link, signup, told, proven, used, tries, slipped>>
  BY DEF KillCode
<1>3. Key(s) \in Keys
  BY <1>1 DEF Key, Keys, AskedOf, Requests, NoAccountYet
<1>4. Moves(s, "err")
  BY <1>1, AnswerMoves DEF KillCode, Over
<1>5. AskedOf(s)' /\ OwnOf(s)'
  BY <1>4, AnswerKeeps DEF Moves, Over
<1> QED BY <1>1, <1>2, <1>3, <1>4, <1>5, DeleteRow, CalmMoves DEF KillCode, TypeOK

LEMMA ConsumeKeeps ==
  ASSUME AddressInv, NEW s \in Slots, Consume(s)
  PROVE  AddressInv'
<1> DEFINE u == req[s].id
           e == req[s].got.to
<1>1. TypeOK /\ req[s].at = "consume" /\ req[s].at \notin Over /\ AskedOf(s) /\ OwnOf(s) /\ req[s] \in Requests
  BY UnderWay DEF Consume, At, Over, AddressInv
<1>2. UNCHANGED <<users, link, signup, told, tries, slipped>> /\ DeleteCode(s) /\ Accepted(s)
  BY DEF Consume
<1>3. Key(s) \in Keys /\ u \in Ids /\ users[u] # NoUser /\ e \in Emails /\ req[s].got.code \in Codes
      /\ req[s].op \in {"verify", "reset", "adminVerify", "confirm"}
      /\ (req[s].purpose = "email" <=> req[s].op = "confirm")
  BY <1>1 DEF Key, Keys, AskedOf, Requests, NoAccountYet, Reading
<1>4. PICK at \in {"ok", "verified", "setPassword", "change"} :
        /\ at = "change" => req[s].op = "confirm"
        /\ at \in {"setPassword", "verified"} => req[s].op # "confirm"
        /\ IF at = "ok" THEN Answer(s, "ok") ELSE Goto(s, at)
  BY <1>2, <1>3 DEF Accepted
<1>5. Moves(s, at) /\ (at # "ok" => req'[s].id = req[s].id)
  BY <1>1, <1>4, AnswerMoves, GotoMoves DEF Under, Over
<1>6. proven' = proven \cup {<<u, e>>} /\ used' \in [Codes -> Nat]
  BY <1>1, <1>2, <1>3 DEF Accepted, TypeOK
<1>7. Grow /\ VerifiedIsProven' /\ \A t \in Slots \ {s} : req'[t] = req[t]
  BY <1>2, <1>5, <1>6 DEF Grow, There, AddressInv, VerifiedIsProven, Moves
<1>8. codes' \in [Keys -> Rows] /\ ended' \subseteq Codes \cup {None} /\ \A k \in Keys : codes'[k] = codes[k] \/ OwnRow(k)'
  BY <1>1, <1>2, <1>3, DeleteRow
<1>9. TypeOK'
  BY <1>1, <1>2, <1>3, <1>5, <1>6, <1>8 DEF TypeOK, There, Moves
<1>10. AskedOf(s)'
  BY <1>1, <1>2, <1>3, <1>4, <1>5, <1>6 DEF AskedOf, Over, NoAccountYet, Reading, Moves
<1>11. OwnOf(s)'
  <2>1. SUFFICES ASSUME at # "ok", req[s].purpose # "email"
                 PROVE  /\ Belongs(req[s].id, req[s].email)'
                        /\ at \in {"setPassword", "verified"} /\ u \in There' => <<u, users'[u].email>> \in proven'
    BY <1>5 DEF OwnOf, Over, Reading, Moves
  <2>2. Belongs(u, req[s].email) /\ Belongs(u, e)
    BY <1>1, <2>1 DEF OwnOf, Over, NoAccountYet, Reading
  <2> QED BY <1>2, <1>5, <1>6, <2>1, <2>2 DEF Belongs, There, Moves, Over
<1> QED BY <1>7, <1>8, <1>9, <1>10, <1>11, OneMoves

(* A row is written that takes nobody's address. *)
LEMMA WriteUser ==
  ASSUME TypeOK, NEW u \in Ids, NEW row \in {Deleted} \cup UserRows, users' = [users EXCEPT ![u] = row],
         row \in UserRows => \A v \in There \ {u} : users[v].email # row.email
  PROVE  /\ users' \in [Ids -> {NoUser, Deleted} \cup UserRows]
         /\ \A v, w \in There' : users'[v].email = users'[w].email => v = w
         /\ users'[u] = row /\ \A v \in Ids \ {u} : users'[v] = users[v]
         /\ users'[u] # NoUser /\ (u \in There' <=> row \in UserRows)
<1>1. /\ row \in UserRows => row.st = "there"
      /\ row = Deleted => row.st = "deleted" /\ row \notin UserRows
      /\ NoUser.st = "none"
  BY DEF UserRows, Deleted, NoUser
<1>2. users'[u] = row /\ (\A v \in Ids \ {u} : users'[v] = users[v]) /\ users' \in [Ids -> {NoUser, Deleted} \cup UserRows]
  BY DEF TypeOK
<1>3. users'[u] # NoUser /\ (u \in There' <=> row \in UserRows)
  BY <1>1, <1>2 DEF There
<1>4. \A v \in There' \ {u} : v \in There /\ users'[v] = users[v]
  BY <1>2 DEF There
<1>5. \A v, w \in There' : users'[v].email = users'[w].email => v = w
  BY <1>2, <1>3, <1>4 DEF TypeOK
<1> QED BY <1>2, <1>3, <1>5

(* An account that is there is a row of the table. *)
LEMMA ThereRow ==
  ASSUME TypeOK, NEW u \in There
  PROVE  u \in Ids /\ users[u] \in UserRows /\ users[u] # NoUser /\ users[u].email \in Emails
BY DEF TypeOK, There, UserRows, NoUser, Deleted

(* Writing the password or the mark of an account changes no address. *)
LEMMA SameAddress ==
  ASSUME TypeOK, NEW u \in There, NEW row \in UserRows, row.email = users[u].email, users' = [users EXCEPT ![u] = row],
         proven \subseteq proven'
  PROVE  /\ Grow
         /\ users' \in [Ids -> {NoUser, Deleted} \cup UserRows]
         /\ \A v, w \in There' : users'[v].email = users'[w].email => v = w
         /\ users'[u] = row /\ (\A v \in Ids \ {u} : users'[v] = users[v]) /\ u \in Ids
<1>1. u \in Ids /\ \A v \in There \ {u} : users[v].email # row.email
  BY ThereRow DEF TypeOK
<1>2. /\ users' \in [Ids -> {NoUser, Deleted} \cup UserRows]
      /\ \A v, w \in There' : users'[v].email = users'[w].email => v = w
      /\ users'[u] = row /\ \A v \in Ids \ {u} : users'[v] = users[v]
      /\ users'[u] # NoUser
  BY <1>1, WriteUser
<1>3. Grow
  BY <1>1, <1>2 DEF Grow, There
<1> QED BY <1>1, <1>2, <1>3

LEMMA PasswordKeeps ==
  ASSUME AddressInv, NEW s \in Slots, SetPasswordHash(s)
  PROVE  AddressInv'
<1> DEFINE u == req[s].id
<1>1. TypeOK /\ req[s].at = "setPassword" /\ req[s].at \notin Over /\ AskedOf(s) /\ OwnOf(s) /\ req[s] \in Requests
  BY UnderWay DEF SetPasswordHash, At, Over, AddressInv
<1>2. UNCHANGED <<codes, link, signup, told, proven, used, tries, slipped, ended>>
  BY DEF SetPasswordHash, history
<1>3. Moves(s, "verified") /\ req'[s].id = req[s].id
  BY <1>1, GotoMoves DEF SetPasswordHash, Under
<1>4. CASE u \notin There /\ users' = users
  <2>1. AskedOf(s)' /\ OwnOf(s)'
    BY <1>1, <1>2, <1>3, <1>4 DEF AskedOf, OwnOf, Moves, Over, NoAccountYet, Reading, Belongs, There
  <2> QED BY <1>1, <1>2, <1>3, <1>4, <2>1, CalmKeeps DEF TypeOK
<1>5. CASE u \in There /\ users' = [users EXCEPT ![u].pw = TRUE]
  <2> DEFINE row == [users[u] EXCEPT !.pw = TRUE]
  <2>1. row \in UserRows /\ row.email = users[u].email /\ row.verified = users[u].verified
    BY <1>1, <1>5, ThereRow DEF UserRows
  <2>2. users' = [users EXCEPT ![u] = row]
    BY <1>5
  <2> HIDE DEF row
  <2>3. /\ users' \in [Ids -> {NoUser, Deleted} \cup UserRows] /\ (\A v, w \in There' : users'[v].email = users'[w].email => v = w)
        /\ users'[u] = row /\ (\A v \in Ids \ {u} : users'[v] = users[v]) /\ u \in Ids
    BY <1>1, <1>2, <1>5, <2>1, <2>2, SameAddress
  <2>4. Grow
    BY <1>1, <1>2, <1>5, <2>1, <2>2, SameAddress
  <2>5. VerifiedIsProven'
    BY <1>2, <1>5, <2>1, <2>3 DEF AddressInv, VerifiedIsProven, There
  <2>6. TypeOK'
    BY <1>1, <1>2, <1>3, <2>3 DEF TypeOK, Moves
  <2>7. AskedOf(s)'
    BY <1>1, <1>2, <1>3, <2>4 DEF AskedOf, Over, NoAccountYet, Reading, Moves, Grow
  <2>8. OwnOf(s)'
    BY <1>1, <1>2, <1>3, <1>5, <2>1, <2>3 DEF OwnOf, Over, NoAccountYet, Reading, Moves, Belongs, There
  <2> QED BY <1>2, <1>3, <2>4, <2>5, <2>6, <2>7, <2>8, OneMoves DEF Moves
<1> QED BY <1>4, <1>5 DEF SetPasswordHash

LEMMA MarkKeeps ==
  ASSUME AddressInv, NEW s \in Slots, MarkVerified(s)
  PROVE  AddressInv'
<1> DEFINE u == req[s].id
<1>1. TypeOK /\ req[s].at = "verified" /\ req[s].at \notin Over /\ AskedOf(s) /\ OwnOf(s) /\ req[s] \in Requests
  BY UnderWay DEF MarkVerified, At, Over, AddressInv
<1>2. UNCHANGED <<codes, link, signup, told, proven, used, tries, slipped, ended>>
  BY DEF MarkVerified, history
<1>3. PICK at \in {"link", "ok"} : Moves(s, at) /\ (at = "link" => req'[s].id = req[s].id)
  BY <1>1, GotoMoves, AnswerMoves DEF MarkVerified, Under, Over
<1>4. CASE u \notin There /\ users' = users
  <2>1. AskedOf(s)' /\ OwnOf(s)'
    BY <1>1, <1>2, <1>3, <1>4 DEF AskedOf, OwnOf, Moves, Over, NoAccountYet, Reading, Belongs, There
  <2> QED BY <1>1, <1>2, <1>3, <1>4, <2>1, CalmKeeps DEF TypeOK
<1>5. CASE u \in There /\ users' = [users EXCEPT ![u].verified = TRUE]
  <2> DEFINE row == [users[u] EXCEPT !.verified = TRUE]
  <2>1. row \in UserRows /\ row.email = users[u].email
    BY <1>1, <1>5, ThereRow DEF UserRows
  <2>2. users' = [users EXCEPT ![u] = row]
    BY <1>5
  <2> HIDE DEF row
  <2>3. /\ users' \in [Ids -> {NoUser, Deleted} \cup UserRows] /\ (\A v, w \in There' : users'[v].email = users'[w].email => v = w)
        /\ users'[u] = row /\ (\A v \in Ids \ {u} : users'[v] = users[v]) /\ u \in Ids
    BY <1>1, <1>2, <1>5, <2>1, <2>2, SameAddress
  <2>4. Grow
    BY <1>1, <1>2, <1>5, <2>1, <2>2, SameAddress
  <2>5. <<u, users[u].email>> \in proven
    BY <1>1, <1>5 DEF OwnOf, AskedOf, Over, NoAccountYet
  <2>6. VerifiedIsProven'
    BY <1>2, <1>5, <2>1, <2>3, <2>5 DEF AddressInv, VerifiedIsProven, There
  <2>7. TypeOK'
    BY <1>1, <1>2, <1>3, <2>3 DEF TypeOK, Moves
  <2>8. AskedOf(s)'
    BY <1>1, <1>2, <1>3, <2>4 DEF AskedOf, Over, NoAccountYet, Reading, Moves, Grow
  <2>9. OwnOf(s)'
    BY <1>1, <1>2, <1>3, <1>5, <2>1, <2>3 DEF OwnOf, Over, NoAccountYet, Reading, Moves, Belongs, There
  <2> QED BY <1>2, <1>3, <2>4, <2>6, <2>7, <2>8, <2>9, OneMoves DEF Moves
<1> QED BY <1>4, <1>5 DEF MarkVerified

LEMMA ChangeKeeps ==
  ASSUME AddressInv, NEW s \in Slots, ChangeEmail(s)
  PROVE  AddressInv'
<1> DEFINE u == req[s].id
           e == req[s].got.to
<1>1. TypeOK /\ req[s].at = "change" /\ req[s].at \notin Over /\ AskedOf(s) /\ req[s] \in Requests
  BY UnderWay DEF ChangeEmail, At, Over, AddressInv
<1>2. UNCHANGED <<codes, link, signup, told, proven, used, tries, slipped, ended>>
  BY DEF ChangeEmail, history
<1>3. CASE Answer(s, "err") /\ users' = users
  BY <1>1, <1>2, <1>3, EndKeeps DEF Over, TypeOK
<1>4. CASE /\ u \in There /\ Having(e) \ {u} = {} /\ Answer(s, "ok")
           /\ users' = [users EXCEPT ![u].email = e, ![u].verified = TRUE]
  <2> DEFINE row == [users[u] EXCEPT !.email = e, !.verified = TRUE]
  <2>1. users[u] \in UserRows /\ e \in Emails /\ <<u, e>> \in proven /\ u \in Ids
    BY <1>1, <1>4, ThereRow DEF AskedOf, NoAccountYet
  <2>2. row \in UserRows /\ row.email = e
    BY <2>1 DEF UserRows
  <2>3. users' = [users EXCEPT ![u] = row]
    BY <1>1, <1>4, <2>1, Zenon DEF TypeOK
  <2> HIDE DEF row, e
  <2>4. \A v \in There \ {u} : users[v].email # row.email
    BY <1>4, <2>2 DEF Having
  <2>5. /\ users' \in [Ids -> {NoUser, Deleted} \cup UserRows]
        /\ \A v, w \in There' : users'[v].email = users'[w].email => v = w
        /\ users'[u] = row /\ (\A v \in Ids \ {u} : users'[v] = users[v]) /\ users'[u] # NoUser
    BY <1>1, <2>1, <2>2, <2>3, <2>4, WriteUser
  <2> HIDE DEF u
  <2>6. Grow /\ VerifiedIsProven'
    <3>1. proven' = proven /\ u \in There
      BY <1>2, <1>4
    <3>2. Grow
      BY <2>1, <2>2, <2>5, <3>1 DEF Grow, There
    <3>3. \A v \in There' \ {u} : v \in There /\ users'[v] = users[v]
      BY <2>5 DEF There
    <3>4. VerifiedIsProven'
      BY <2>1, <2>2, <2>5, <3>1, <3>3 DEF AddressInv, VerifiedIsProven
    <3> QED BY <3>2, <3>4
  <2>7. Moves(s, "ok")
    BY <1>1, <1>4, AnswerMoves DEF Over
  <2>8. TypeOK'
    BY <1>1, <1>2, <2>5, <2>7 DEF TypeOK, Moves
  <2>9. AskedOf(s)' /\ OwnOf(s)'
    BY <2>7, AnswerKeeps DEF Moves, Over
  <2> QED BY <1>2, <2>6, <2>7, <2>8, <2>9, OneMoves DEF Moves
<1> QED BY <1>3, <1>4 DEF ChangeEmail

LEMMA EvictKeeps ==
  ASSUME AddressInv, NEW s \in Slots, Evict(s)
  PROVE  AddressInv'
<1> DEFINE u == req[s].id
<1>1. TypeOK /\ req[s].at = "evict" /\ req[s].at \notin Over /\ AskedOf(s) /\ OwnOf(s) /\ req[s] \in Requests
  BY UnderWay DEF Evict, At, Over, AddressInv
<1>2. UNCHANGED <<codes, link, signup, told, used, tries, slipped, ended>> /\ proven' = proven \cup {<<u, Google>>}
  BY DEF Evict
<1>3. Moves(s, "verified") /\ req'[s].id = req[s].id
  BY <1>1, GotoMoves DEF Evict, Under
<1>4. u \in Ids /\ users[u] # NoUser /\ req[s].email = Google /\ Google \in Emails /\ Belongs(u, Google)
  BY <1>1, AccountsAssumption DEF AskedOf, OwnOf, Over, NoAccountYet
<1>5. /\ Grow /\ users' \in [Ids -> {NoUser, Deleted} \cup UserRows]
      /\ \A v, w \in There' : users'[v].email = users'[w].email => v = w
      /\ There' = There /\ \A v \in There : users'[v].email = users[v].email /\ users'[v].verified = users[v].verified
  <2>1. CASE u \notin There /\ users' = users
    BY <1>1, <1>2, <2>1 DEF Grow, There, TypeOK
  <2>2. CASE u \in There /\ users' = [users EXCEPT ![u].pw = FALSE]
    <3> DEFINE row == [users[u] EXCEPT !.pw = FALSE]
    <3>1. row \in UserRows /\ row.email = users[u].email /\ row.verified = users[u].verified /\ row.st = "there"
      BY <1>1, <2>2, ThereRow DEF UserRows
    <3>2. users' = [users EXCEPT ![u] = row]
      BY <2>2
    <3> HIDE DEF row
    <3>3. /\ Grow /\ users' \in [Ids -> {NoUser, Deleted} \cup UserRows]
          /\ \A v, w \in There' : users'[v].email = users'[w].email => v = w
          /\ users'[u] = row /\ \A v \in Ids \ {u} : users'[v] = users[v]
      <4>1. proven \subseteq proven' /\ TypeOK /\ u \in There
        BY <1>1, <1>2, <2>2
      <4> HIDE DEF u
      <4> QED BY <3>1, <3>2, <4>1, SameAddress
    <3> QED BY <2>2, <3>1, <3>3 DEF There
  <2> QED BY <2>1, <2>2 DEF Evict
<1>6. VerifiedIsProven'
  BY <1>2, <1>5 DEF AddressInv, VerifiedIsProven
<1>7. TypeOK'
  BY <1>1, <1>2, <1>3, <1>4, <1>5 DEF TypeOK, Moves
<1>8. AskedOf(s)'
  BY <1>1, <1>2, <1>3, <1>4, <1>5 DEF AskedOf, Over, NoAccountYet, Reading, Moves, Grow
<1>9. OwnOf(s)'
  BY <1>1, <1>2, <1>3, <1>4, <1>5 DEF OwnOf, Over, NoAccountYet, Reading, Moves, Belongs
<1> QED BY <1>2, <1>3, <1>5, <1>6, <1>7, <1>8, <1>9, OneMoves DEF Moves

LEMMA LinkKeeps ==
  ASSUME AddressInv, NEW s \in Slots, CreateIdentity(s)
  PROVE  AddressInv'
<1>1. TypeOK /\ req[s].at = "link" /\ req[s].at \notin Over
  BY DEF CreateIdentity, At, Over, AddressInv
<1>2. UNCHANGED <<users, codes, signup, told, proven, used, tries, slipped, ended>> /\ link' \in Ids \cup {None}
  BY <1>1 DEF CreateIdentity, history, There, TypeOK
<1>3. PICK at \in Over : Moves(s, at)
  BY <1>1, AnswerMoves DEF CreateIdentity, Over
<1>4. AskedOf(s)' /\ OwnOf(s)'
  BY <1>3, AnswerKeeps DEF Moves
<1> QED BY <1>1, <1>2, <1>3, <1>4, CalmMoves DEF TypeOK

(* A new account. *)
LEMMA NewUser ==
  ASSUME AddressInv, NEW u \in Ids, users[u] = NoUser, NEW row \in UserRows, users' = [users EXCEPT ![u] = row],
         Having(row.email) = {}, proven \subseteq proven', row.verified => <<u, row.email>> \in proven'
  PROVE  /\ Grow /\ VerifiedIsProven'
         /\ users' \in [Ids -> {NoUser, Deleted} \cup UserRows]
         /\ \A v, w \in There' : users'[v].email = users'[w].email => v = w
         /\ users'[u] = row /\ users'[u] # NoUser /\ u \in There'
<1>1. /\ users' \in [Ids -> {NoUser, Deleted} \cup UserRows]
      /\ \A v, w \in There' : users'[v].email = users'[w].email => v = w
      /\ users'[u] = row /\ (\A v \in Ids \ {u} : users'[v] = users[v])
      /\ users'[u] # NoUser /\ u \in There'
  BY WriteUser DEF AddressInv, Having
<1>2. Grow
  BY <1>1 DEF Grow, There
<1>3. VerifiedIsProven'
  BY <1>1 DEF AddressInv, VerifiedIsProven, There
<1> QED BY <1>1, <1>2, <1>3

LEMMA CompleteKeeps ==
  ASSUME AddressInv, NEW s \in Slots, CreateGoogleUser(s)
  PROVE  AddressInv'
<1>1. TypeOK /\ req[s].at = "complete" /\ req[s].at \notin Over
  BY DEF CreateGoogleUser, At, Over, AddressInv
<1>2. UNCHANGED <<codes, signup, told, used, tries, slipped, ended>>
  BY DEF CreateGoogleUser
<1>3. CASE Answer(s, "err") /\ UNCHANGED <<users, link, proven>>
  BY <1>1, <1>2, <1>3, EndKeeps DEF Over, TypeOK
<1>4. CASE /\ Having(Google) = {} /\ Answer(s, "ok")
           /\ \E u \in Ids : /\ users[u] = NoUser
                             /\ users' = [users EXCEPT ![u] = User(Google, FALSE, TRUE)]
                             /\ link' = u
                             /\ proven' = proven \cup {<<u, Google>>}
  <2>1. PICK u \in Ids : /\ users[u] = NoUser
                         /\ users' = [users EXCEPT ![u] = User(Google, FALSE, TRUE)]
                         /\ link' = u
                         /\ proven' = proven \cup {<<u, Google>>}
    BY <1>4
  <2> DEFINE row == User(Google, FALSE, TRUE)
  <2>2. row \in UserRows /\ row.email = Google /\ Google \in Emails
    BY AccountsAssumption DEF User, UserRows
  <2>3. users' = [users EXCEPT ![u] = row]
    BY <2>1
  <2> HIDE DEF row
  <2>4. /\ Grow /\ VerifiedIsProven' /\ users' \in [Ids -> {NoUser, Deleted} \cup UserRows]
        /\ \A v, w \in There' : users'[v].email = users'[w].email => v = w
    BY <1>4, <2>1, <2>2, <2>3, NewUser
  <2>5. Moves(s, "ok")
    BY <1>1, <1>4, AnswerMoves DEF Over
  <2>6. TypeOK'
    <3>1. proven' \subseteq Ids \X Emails /\ link' \in Ids \cup {None}
      BY <1>1, <2>1, <2>2 DEF TypeOK
    <3> QED BY <1>1, <1>2, <2>4, <2>5, <3>1 DEF TypeOK, Moves
  <2>7. AskedOf(s)' /\ OwnOf(s)'
    BY <2>5, AnswerKeeps DEF Moves, Over
  <2> QED BY <1>2, <2>4, <2>5, <2>6, <2>7, OneMoves DEF Moves
<1> QED BY <1>3, <1>4 DEF CreateGoogleUser

LEMMA CreateKeeps ==
  ASSUME AddressInv, NEW s \in Slots, CreateUser(s)
  PROVE  AddressInv'
<1>1. TypeOK /\ req[s].at = "register" /\ req[s].at \notin Over /\ AskedOf(s) /\ req[s] \in Requests
  BY UnderWay DEF CreateUser, At, Over, AddressInv
<1>2. UNCHANGED <<codes, link, signup, told, proven, used, tries, slipped, ended>>
  BY DEF CreateUser, history
<1>3. CASE Answer(s, "err") /\ UNCHANGED users
  BY <1>1, <1>2, <1>3, EndKeeps DEF Over, TypeOK
<1>4. CASE Goto(s, "existing") /\ UNCHANGED users
  <2>1. Moves(s, "existing") /\ req'[s].id = req[s].id
    BY <1>1, <1>4, GotoMoves DEF Under, Before
  <2>2. AskedOf(s)' /\ OwnOf(s)'
    BY <1>1, <1>2, <1>4, <2>1 DEF AskedOf, OwnOf, Moves, Over, NoAccountYet, Reading
  <2> QED BY <1>1, <1>2, <1>4, <2>1, <2>2, CalmKeeps DEF TypeOK
<1>5. CASE /\ Having(req[s].email) = {}
           /\ \E u \in Ids : /\ users[u] = NoUser
                             /\ users' = [users EXCEPT ![u] = User(req[s].email, TRUE, FALSE)]
                             /\ req' = [req EXCEPT ![s].at = "gap", ![s].id = u]
  <2>1. PICK u \in Ids : /\ users[u] = NoUser
                         /\ users' = [users EXCEPT ![u] = User(req[s].email, TRUE, FALSE)]
                         /\ req' = [req EXCEPT ![s].at = "gap", ![s].id = u]
    BY <1>5
  <2> DEFINE row == User(req[s].email, TRUE, FALSE)
  <2>2. row \in UserRows /\ row.email = req[s].email /\ row.verified = FALSE
    BY <1>1 DEF User, UserRows, Requests
  <2>3. users' = [users EXCEPT ![u] = row]
    BY <2>1
  <2> HIDE DEF row
  <2>4. /\ Grow /\ VerifiedIsProven' /\ users' \in [Ids -> {NoUser, Deleted} \cup UserRows]
        /\ \A v, w \in There' : users'[v].email = users'[w].email => v = w
        /\ users'[u] = row /\ users'[u] # NoUser
    BY <1>2, <1>5, <2>1, <2>2, <2>3, NewUser
  <2>5. Moves(s, "gap") /\ req'[s].id = u
    BY <1>1, <2>1, FindMoves DEF Under, Before
  <2>6. TypeOK'
    BY <1>1, <1>2, <2>4, <2>5 DEF TypeOK, Moves
  <2>7. AskedOf(s)' /\ OwnOf(s)'
    BY <1>1, <1>2, <2>2, <2>4, <2>5 DEF AskedOf, OwnOf, Moves, Over, NoAccountYet, Reading, Belongs
  <2> QED BY <1>2, <2>4, <2>5, <2>6, <2>7, OneMoves DEF Moves
<1> QED BY <1>3, <1>4, <1>5 DEF CreateUser

LEMMA DeleteKeeps ==
  ASSUME AddressInv, NEW s \in Slots, DeleteUser(s)
  PROVE  AddressInv'
<1> DEFINE u == req[s].id
<1>1. TypeOK /\ req[s].at = "delete" /\ req[s].at \notin Over /\ AskedOf(s) /\ req[s] \in Requests
  BY UnderWay DEF DeleteUser, At, Over, AddressInv
<1>2. UNCHANGED <<signup, told, proven, used, tries, slipped>> /\ u \in Ids
  BY <1>1 DEF DeleteUser, AskedOf, NoAccountYet
<1>3. Deleted \notin UserRows
  BY DEF Deleted, UserRows
<1>4. /\ users' \in [Ids -> {NoUser, Deleted} \cup UserRows]
      /\ \A v, w \in There' : users'[v].email = users'[w].email => v = w
      /\ users'[u] # NoUser /\ u \notin There' /\ \A v \in Ids \ {u} : users'[v] = users[v]
  <2>1. users' = [users EXCEPT ![u] = Deleted]
    BY DEF DeleteUser
  <2> QED BY <1>1, <1>2, <1>3, <2>1, WriteUser
<1>5. Grow /\ VerifiedIsProven'
  BY <1>2, <1>4 DEF Grow, There, AddressInv, VerifiedIsProven
<1>6. codes' = [k \in Keys |-> IF k[1] = u THEN NoCode ELSE codes[k]] /\ NoCode \in Rows /\ NoCode.code = None
  BY DEF DeleteUser, NoCode, Rows
<1>7. codes' \in [Keys -> Rows] /\ \A k \in Keys : codes'[k] = codes[k] \/ OwnRow(k)'
  BY <1>1, <1>6 DEF TypeOK, OwnRow
<1>8. link' \in Ids \cup {None} /\ ended' \subseteq Codes \cup {None}
  <2>1. \A p \in Purposes : codes[<<u, p>>] \in Rows
    BY <1>1, <1>2 DEF TypeOK, Keys
  <2>2. \A p \in Purposes : codes[<<u, p>>].code \in Codes \cup {None}
    BY <2>1 DEF Rows
  <2>3. ended' = ended \cup {codes[<<u, p>>].code : p \in Purposes}
    BY DEF DeleteUser
  <2> HIDE DEF u
  <2>4. ended' \subseteq Codes \cup {None}
    <3>1. ended \subseteq Codes \cup {None}
      BY <1>1 DEF TypeOK
    <3> QED BY <2>2, <2>3, <3>1, Zenon
  <2>5. link' \in Ids \cup {None}
    BY <1>1 DEF DeleteUser, TypeOK
  <2> QED BY <2>4, <2>5
<1>9. Moves(s, "ok")
  BY <1>1, AnswerMoves DEF DeleteUser, Over
<1>10. TypeOK'
  BY <1>1, <1>2, <1>4, <1>7, <1>8, <1>9 DEF TypeOK, Moves
<1>11. AskedOf(s)' /\ OwnOf(s)'
  BY <1>9, AnswerKeeps DEF Moves, Over
<1> QED BY <1>5, <1>7, <1>9, <1>10, <1>11, OneMoves DEF Moves

LEMMA RowsKeep ==
  ASSUME AddressInv, UNCHANGED <<users, link, signup, req, told, proven, used, tries, slipped>>,
         codes' \in [Keys -> Rows], ended' \subseteq Codes \cup {None},
         \A k \in Keys : codes'[k].code # None => codes'[k].code = codes[k].code /\ codes'[k].to = codes[k].to
  PROVE  AddressInv'
<1>1. Grow /\ VerifiedIsProven' /\ TypeOK'
  BY DEF Grow, There, AddressInv, VerifiedIsProven, TypeOK
<1>2. \A t \in Slots : AskedOf(t)' /\ OwnOf(t)'
  BY <1>1, GrowRequests
<1>3. \A k \in Keys : OwnRow(k)'
  BY ByRequest DEF AddressInv, OwnRow, Belongs, There
<1>4. Asked' /\ OwnAddress'
  BY <1>2, <1>3 DEF Asked, OwnAddress, AskedOf, OwnOf, OwnRow, Busy
<1> QED BY <1>1, <1>4 DEF AddressInv

LEMMA AgesKeep ==
  ASSUME AddressInv, NEW k \in Keys, CodeAges(k)
  PROVE  AddressInv'
<1> DEFINE row == [codes[k] EXCEPT !.age = IF @ = "new" THEN "old" ELSE "over"]
<1>1. codes \in [Keys -> Rows] /\ ended' \subseteq Codes \cup {None}
  BY DEF AddressInv, TypeOK, CodeAges, history
<1>2. row \in Rows /\ row.code = codes[k].code /\ row.to = codes[k].to
  BY <1>1 DEF Rows
<1>3. codes' = [codes EXCEPT ![k] = row]
  BY DEF CodeAges
<1> HIDE DEF row
<1>4. codes' \in [Keys -> Rows] /\ \A l \in Keys : codes'[l].code = codes[l].code /\ codes'[l].to = codes[l].to
  BY <1>1, <1>2, <1>3
<1> QED BY <1>1, <1>4, RowsKeep DEF CodeAges, history

LEMMA ExpiryKeeps ==
  ASSUME AddressInv, DeleteExpiredEmailCodes
  PROVE  AddressInv'
<1>1. codes \in [Keys -> Rows] /\ ended \subseteq Codes \cup {None} /\ NoCode \in Rows /\ NoCode.code = None
  BY DEF AddressInv, TypeOK, NoCode, Rows
<1>2. codes' = [k \in Keys |-> IF codes[k].age = "over" THEN NoCode ELSE codes[k]]
  BY DEF DeleteExpiredEmailCodes
<1>3. codes' \in [Keys -> Rows] /\ \A k \in Keys : codes'[k] = codes[k] \/ codes'[k].code = None
  BY <1>1, <1>2
<1>4. \A k \in Keys : codes[k].code \in Codes \cup {None}
  BY <1>1 DEF Rows
<1>5. ended' = ended \cup {codes[k].code : k \in {x \in Keys : codes[x].age = "over"}}
  BY DEF DeleteExpiredEmailCodes
<1>6. ended' \subseteq Codes \cup {None}
  BY <1>1, <1>4, <1>5
<1> QED BY <1>3, <1>6, RowsKeep DEF DeleteExpiredEmailCodes

LEMMA AddressInit == Init => AddressInv
<1> SUFFICES ASSUME Init PROVE AddressInv
  OBVIOUS
<1>1. PICK u \in Ids, e \in Emails, p \in Purposes, to \in Emails, pw, v, adm \in BOOLEAN, bad \in 0 .. MaxAttempts - 1 :
        /\ p \in {"email", "admin"} => v
        /\ p = "admin" => adm
        /\ (to = e) <=> p # "email"
        /\ pw \/ v
        /\ tries = [c \in Codes |-> IF c = First THEN bad ELSE 0]
        /\ users = [x \in Ids |-> IF x = u THEN [User(e, pw, v) EXCEPT !.admin = adm] ELSE NoUser]
        /\ codes = [k \in Keys |-> IF k = <<u, p>> THEN [NewCode(First, to) EXCEPT !.age = "old", !.bad = bad] ELSE NoCode]
        /\ told = [c \in Codes |-> IF c = First THEN [key |-> <<u, p>>, to |-> to] ELSE NoCode]
        /\ proven = IF v THEN {<<u, e>>} ELSE {}
  BY Zenon DEF Init
<1> DEFINE user == [User(e, pw, v) EXCEPT !.admin = adm]
           row == [NewCode(First, to) EXCEPT !.age = "old", !.bad = bad]
<1>2. user \in UserRows /\ user.st = "there" /\ user.email = e /\ user.verified = v /\ user # NoUser /\ NoUser.st = "none"
  BY DEF User, UserRows, NoUser
<1>3. bad \in Nat /\ row \in Rows /\ row.to = to /\ NoCode \in Rows /\ NoCode.code = None /\ First \in Codes
  <2>1. bad \in Nat
    BY AccountsAssumption
  <2>2. First \in Codes
    BY DEF Codes
  <2>3. NoCode \in Rows /\ NoCode.code = None
    BY DEF NoCode, Rows
  <2>4. row \in Rows /\ row.to = to
    BY <2>1, <2>2 DEF NewCode, Rows
  <2> QED BY <2>1, <2>2, <2>3, <2>4
<1>4. users = [x \in Ids |-> IF x = u THEN user ELSE NoUser] /\ codes = [k \in Keys |-> IF k = <<u, p>> THEN row ELSE NoCode]
  BY <1>1
<1> HIDE DEF user, row
<1>5. There = {u}
  BY <1>2, <1>4 DEF There
<1>6. told \in [Codes -> {NoCode} \cup [key : Keys, to : Emails]]
  BY <1>1 DEF Keys
<1>7. /\ link = None /\ signup = FALSE /\ req = [s \in Slots |-> [at |-> "unused"]]
      /\ used = [c \in Codes |-> 0] /\ slipped = {} /\ ended = {}
  BY DEF Init
<1>8. TypeOK
  <2>1. users \in [Ids -> {NoUser, Deleted} \cup UserRows] /\ \A x, y \in There : users[x].email = users[y].email => x = y
    BY <1>2, <1>4, <1>5
  <2>2. codes \in [Keys -> Rows]
    BY <1>3, <1>4
  <2>3. req \in [Slots -> [at : Over] \cup Requests]
    BY <1>7 DEF Over
  <2>4. tries \in [Codes -> Nat] /\ used \in [Codes -> Nat] /\ proven \subseteq Ids \X Emails
    BY <1>1, <1>3, <1>7
  <2> QED BY <1>6, <1>7, <2>1, <2>2, <2>3, <2>4 DEF TypeOK
<1>9. VerifiedIsProven
  BY <1>1, <1>2, <1>4, <1>5 DEF VerifiedIsProven
<1>10. Busy = {}
  BY <1>7 DEF Busy, Over
<1>11. \A k \in Keys : codes[k].code # None => k = <<u, p>> /\ codes[k] = row
  BY <1>3, <1>4
<1>12. OwnAddress
  <2>1. \A k \in Keys : codes[k].code # None => k[1] = u /\ k[2] = p /\ codes[k].to = to
    BY <1>3, <1>11
  <2>2. users[u] # NoUser /\ users[u].email = e
    BY <1>2, <1>4
  <2> QED BY <1>1, <1>10, <2>1, <2>2 DEF OwnAddress, Belongs
<1> QED BY <1>8, <1>9, <1>10, <1>12 DEF AddressInv, Asked

(* A failing statement. *)
LEMMA SlipsAre ==
  ASSUME AddressInv, NEW s \in Slots, req[s].at \notin Over
  PROVE  Slips(s) \subseteq Codes \cup {None}
<1>1. TypeOK /\ AskedOf(s) /\ req[s] \in Requests
  BY UnderWay DEF AddressInv
<1>2. CASE At(s, "bump")
  BY <1>1, <1>2 DEF Slips, At, AskedOf, Reading, Over
<1>3. CASE At(s, "kill")
  <2>1. Key(s) \in Keys
    BY <1>1, <1>3 DEF Key, Keys, AskedOf, Requests, NoAccountYet, At, Over
  <2> QED BY <1>1, <1>3, <2>1 DEF Slips, At, TypeOK, Rows
<1>4. CASE ~At(s, "bump") /\ ~At(s, "kill")
  BY <1>4 DEF Slips
<1> QED BY <1>2, <1>3, <1>4

LEMMA FailKeeps ==
  ASSUME AddressInv, NEW s \in Slots, Fails(s)
  PROVE  AddressInv'
<1>1. slipped' \subseteq Codes \cup {None}
  BY SlipsAre DEF Fails, AddressInv, TypeOK
<1> QED BY <1>1, EndKeeps DEF Fails, Over, AddressInv, TypeOK

LEMMA AddressStep == AddressInv /\ [Next]_vars => AddressInv'
<1> SUFFICES ASSUME AddressInv, [Next]_vars PROVE AddressInv'
  OBVIOUS
<1>1. CASE UNCHANGED vars
  BY <1>1 DEF vars, history, AddressInv, TypeOK, VerifiedIsProven, Asked, OwnAddress, Belongs, There, Busy
<1>2. ASSUME NEW s \in Slots, Step(s) PROVE AddressInv'
  BY <1>2, StartKeeps, CreateKeeps, ExistingKeeps, LookupKeeps, GapKeeps, PutKeeps, MailKeeps, ReauthKeeps,
     InUseKeeps, GetKeeps, BumpKeeps, KillKeeps, ConsumeKeeps, PasswordKeeps, MarkKeeps, ChangeKeeps,
     GoogleKeeps, EvictKeeps, LinkKeeps, CompleteKeeps, DeleteKeeps, FailKeeps DEF Step
<1>3. ASSUME NEW k \in Keys, CodeAges(k) PROVE AddressInv'
  BY <1>3, AgesKeep
<1>4. CASE DeleteExpiredEmailCodes
  BY <1>4, ExpiryKeeps
<1> QED BY <1>1, <1>2, <1>3, <1>4 DEF Next

-----------------------------------------------------------------------------
(* The codes.  OneKey, Counted, Kept and CodeLimits are taken apart by code *)
(* and by key, so that a step is asked only what it does to its own.       *)

Early(s) == At(s, "unused") \/ req[s].at \in Before

(* Uses, as a predicate of a code and a key. *)
Use(c, k) == \/ k \in Keys /\ codes[k].code = c /\ c # None
             \/ \E t \in Slots : req[t].at \in Reading /\ req[t].got.code = c /\ Key(t) = k
             \/ c \in Codes /\ told[c] # NoCode /\ told[c].key = k
             \/ c \in Slots /\ At(c, "mail") /\ Key(c) = k

(* OneKey without pairs. *)
OneUse == /\ \A c, k, l : Use(c, k) /\ Use(c, l) => k = l
          /\ \A s \in Slots : Early(s) => used[s] = 0 /\ tries[s] = 0 /\ \A k : ~Use(s, k)

RowsOf(c) == {k \in Keys : codes[k].code = c}
Dead(c) == used[c] > 0 \/ tries[c] >= MaxAttempts
Sent(c) == told[c] # NoCode \/ (c \in Slots /\ At(c, "mail"))

(* What holds of a code that never slipped ... *)
Alone(c) ==
  c \notin slipped =>
    /\ used[c] <= 1 /\ tries[c] <= MaxAttempts /\ (used[c] > 0 => tries[c] < MaxAttempts)
    /\ \A k \in RowsOf(c) : used[c] = 0 /\ tries[c] <= codes[k].bad + (IF Bumping(c) = {} THEN 0 ELSE 1)
    /\ \A t \in Readers(c) : used[c] = 0 /\ Readers(c) = {t} /\ (At(t, "consume") => tries[c] < MaxAttempts)

(* ... of one that was made ... *)
Delivered(c) ==
  Sent(c) => \/ c \in ended
             \/ /\ \A k \in RowsOf(c) : codes[k].bad + Cardinality(Bumping(c)) <= tries[c]
                /\ RowsOf(c) = {} => Dead(c)
                /\ \A t \in Readers(c) : At(t, "kill") => Dead(c)

CodeOK(c) == IsFiniteSet(Bumping(c)) /\ Alone(c) /\ Delivered(c)

(* ... and of the row of a key. *)
KeyOK(k) == codes[k].code \notin slipped \cup {None} /\ codes[k].bad >= MaxAttempts => \E t \in Slots : At(t, "kill") /\ Key(t) = k

CodesInv == OneUse /\ (\A c \in Codes : CodeOK(c)) /\ (\A k \in Keys : KeyOK(k))

(* These are the invariants that the runs check. *)
LEMMA CodesAre ==
  ASSUME AddressInv, CodesInv
  PROVE  OneKey /\ Counted /\ Kept /\ CodeLimits /\ MailedCodeWorks
<1>1. \A x \in Uses : Use(x[1], x[2])
  BY DEF Uses, Use
<1>2. OneKey
  BY <1>1 DEF CodesInv, OneUse, OneKey, Early
<1>3. \A k \in Keys : codes[k].code \in Codes \cup {None}
  BY DEF AddressInv, TypeOK, Rows
<1>4. \A t \in Slots : req[t].at \in Reading => req[t].got.code \in Codes /\ t \in Readers(req[t].got.code)
  BY ByRequest DEF AddressInv, AskedOf, Readers, Reading, Over
<1>5. Counted
  <2>1. \A k \in Keys : KeyOK(k)
    BY DEF CodesInv
  <2>2. \A k \in Keys : codes[k].code \notin slipped \cup {None} =>
          /\ used[codes[k].code] = 0
          /\ tries[codes[k].code] <= codes[k].bad + (IF Bumping(codes[k].code) = {} THEN 0 ELSE 1)
    BY <1>3 DEF CodesInv, CodeOK, Alone, RowsOf
  <2>3. \A t \in Slots : req[t].at \in Reading /\ req[t].got.code \notin slipped =>
          LET c == req[t].got.code
          IN used[c] = 0 /\ Readers(c) = {t} /\ (At(t, "consume") => tries[c] < MaxAttempts)
    BY <1>4 DEF CodesInv, CodeOK, Alone
  <2> QED BY <2>1, <2>2, <2>3 DEF Counted, KeyOK
<1>6. Kept
  BY DEF CodesInv, CodeOK, Delivered, Kept, Sent, RowsOf, Dead
<1>7. CodeLimits
  BY DEF CodesInv, CodeOK, Alone, CodeLimits
<1>8. ASSUME NEW c \in Codes, told[c] # NoCode, c \notin ended, ~Dead(c)
      PROVE  codes[told[c].key].code = c /\ codes[told[c].key].bad <= tries[c]
  <2>1. Delivered(c) /\ IsFiniteSet(Bumping(c)) /\ Sent(c)
    BY <1>8 DEF CodesInv, CodeOK, Sent
  <2>2. PICK k \in Keys : codes[k].code = c /\ codes[k].bad + Cardinality(Bumping(c)) <= tries[c]
    BY <1>8, <2>1 DEF Delivered, RowsOf
  <2>3. c # None
    BY AccountsAssumption DEF Codes
  <2>4. Use(c, k) /\ Use(c, told[c].key)
    BY <1>8, <2>2, <2>3 DEF Use
  <2>5. k = told[c].key
    BY <2>4 DEF CodesInv, OneUse
  <2>6. codes[k].bad \in Nat /\ tries[c] \in Nat /\ Cardinality(Bumping(c)) \in Nat
    BY <2>1, FS_CardinalityType DEF AddressInv, TypeOK, Rows
  <2> QED BY <2>2, <2>5, <2>6
<1>9. MailedCodeWorks
  BY <1>8 DEF MailedCodeWorks, Dead
<1> QED BY <1>2, <1>5, <1>6, <1>7, <1>9

(* A step that uses no code where it was not used keeps OneUse. *)
LEMMA OneUseKept ==
  ASSUME OneUse, \A c, k : Use(c, k)' => Use(c, k),
         \A s \in Slots : Early(s)' => Early(s) /\ used'[s] = used[s] /\ tries'[s] = tries[s]
  PROVE  OneUse'
BY DEF OneUse

(* A step that leaves a code alone, or takes its row away and notes it. *)
Same(c) ==
  /\ Readers(c)' = Readers(c) /\ Bumping(c)' = Bumping(c) /\ \A t \in Readers(c) : req'[t].at = req[t].at
  /\ used'[c] = used[c] /\ tries'[c] = tries[c]
  /\ slipped \subseteq slipped' /\ ended \subseteq ended' /\ (Sent(c)' => Sent(c))
  /\ RowsOf(c)' \subseteq RowsOf(c) /\ \A k \in RowsOf(c)' : codes'[k].bad >= codes[k].bad
  /\ c \in ended' \/ (RowsOf(c)' = RowsOf(c) /\ \A k \in RowsOf(c) : codes'[k].bad = codes[k].bad)

LEMMA SameKeeps ==
  ASSUME TypeOK, NEW c \in Codes, CodeOK(c), Same(c), codes' \in [Keys -> Rows]
  PROVE  CodeOK(c)'
<1>1. \A k \in Keys : codes[k].bad \in Nat /\ codes'[k].bad \in Nat
  BY DEF TypeOK, Rows
<1>2. RowsOf(c) \subseteq Keys /\ used[c] \in Nat /\ tries[c] \in Nat
  BY DEF RowsOf, TypeOK
<1>3. Alone(c)'
  <2>1. SUFFICES ASSUME c \notin slipped' PROVE Alone(c)'
    BY DEF Alone
  <2>2. c \notin slipped /\ Alone(c)
    BY <2>1 DEF Same, CodeOK
  <2>3. ASSUME NEW k \in RowsOf(c)'
        PROVE  used'[c] = 0 /\ tries'[c] <= codes'[k].bad + (IF Bumping(c)' = {} THEN 0 ELSE 1)
    BY <1>1, <1>2, <2>2, <2>3 DEF Alone, Same
  <2> QED BY <2>2, <2>3 DEF Alone, Same, At
<1>4. Delivered(c)'
  <2>1. CASE c \in ended'
    BY <2>1 DEF Delivered
  <2>2. CASE c \notin ended'
    BY <2>2 DEF Delivered, Same, CodeOK, Dead, At
  <2> QED BY <2>1, <2>2
<1> QED BY <1>3, <1>4 DEF CodeOK, Same

(* Nobody begins or ends to check a code. *)
StillReaders == \A t \in Slots : req[t].at \in Reading \/ req'[t].at \in Reading => req'[t] = req[t]

LEMMA StillSame ==
  ASSUME StillReaders, NEW c
  PROVE  Readers(c)' = Readers(c) /\ Bumping(c)' = Bumping(c) /\ \A t \in Readers(c) : req'[t].at = req[t].at
BY DEF StillReaders, Readers, Bumping, At, Reading

(* Rows age or go, and codes come out of the mail. *)
Fades ==
  /\ UNCHANGED <<used, tries, slipped>> /\ ended \subseteq ended'
  /\ codes' \in [Keys -> Rows]
  /\ \A k \in Keys : \/ codes'[k].code = codes[k].code /\ codes'[k].bad = codes[k].bad
                     \/ codes'[k].code = None /\ codes[k].code \in ended'
  /\ \A t \in Slots : /\ Early(t)' => Early(t)
                      /\ At(t, "mail")' => At(t, "mail") /\ req'[t] = req[t]
  /\ \A c \in Codes : told'[c] # told[c] => c \in Slots /\ At(c, "mail") /\ told'[c].key = Key(c)

LEMMA FadesKeep ==
  ASSUME AddressInv, CodesInv, StillReaders, Fades
  PROVE  CodesInv'
<1>1. ASSUME NEW c, NEW k, Use(c, k)' PROVE Use(c, k)
  <2>1. CASE k \in Keys /\ codes'[k].code = c /\ c # None
    BY <2>1 DEF Use, Fades
  <2>2. CASE \E t \in Slots : req'[t].at \in Reading /\ req'[t].got.code = c /\ Key(t)' = k
    <3>1. PICK t \in Slots : req'[t].at \in Reading /\ req'[t].got.code = c /\ Key(t)' = k
      BY <2>2
    <3>2. req'[t] = req[t]
      BY <3>1 DEF StillReaders
    <3> QED BY <3>1, <3>2 DEF Use, Key
  <2>3. CASE c \in Codes /\ told'[c] # NoCode /\ told'[c].key = k
    BY <2>3 DEF Use, Fades
  <2>4. CASE c \in Slots /\ At(c, "mail")' /\ Key(c)' = k
    BY <2>4 DEF Use, Fades, Key
  <2> QED BY <1>1, <2>1, <2>2, <2>3, <2>4 DEF Use
<1>2. OneUse'
  BY <1>1, OneUseKept DEF Fades, CodesInv
<1>3. ASSUME NEW c \in Codes PROVE CodeOK(c)'
  <2>1. RowsOf(c)' \subseteq RowsOf(c) /\ \A k \in RowsOf(c)' : codes'[k].bad = codes[k].bad
    BY AccountsAssumption DEF RowsOf, Fades, Codes
  <2>2. c \notin ended' => RowsOf(c)' = RowsOf(c)
    BY AccountsAssumption DEF RowsOf, Fades, Codes
  <2>3. Sent(c)' => Sent(c)
    BY DEF Sent, Fades
  <2>4. \A k \in RowsOf(c)' : codes'[k].bad \in Nat
    BY DEF Fades, RowsOf, Rows
  <2>5. Same(c)
    BY <2>1, <2>2, <2>3, <2>4, StillSame DEF Same, Fades
  <2> QED BY <2>5, SameKeeps DEF AddressInv, CodesInv, Fades
<1>4. ASSUME NEW k \in Keys PROVE KeyOK(k)'
  <2>1. SUFFICES ASSUME codes'[k].code \notin slipped' \cup {None}, codes'[k].bad >= MaxAttempts
                 PROVE  \E t \in Slots : At(t, "kill")' /\ Key(t)' = k
    BY DEF KeyOK
  <2>2. PICK t \in Slots : At(t, "kill") /\ Key(t) = k
    BY <2>1 DEF Fades, CodesInv, KeyOK
  <2>3. req'[t] = req[t]
    BY <2>2 DEF StillReaders, At, Reading
  <2> QED BY <2>2, <2>3 DEF At, Key
<1> QED BY <1>2, <1>3, <1>4 DEF CodesInv

(* The step of a request that has nothing to do with codes, or not yet. *)
Quiet(s) == /\ UNCHANGED <<codes, told, used, tries, slipped, ended>>
            /\ \A t \in Slots \ {s} : req'[t] = req[t]
            /\ req[s].at \notin Reading \cup {"mail"} /\ req'[s].at \notin Reading \cup {"mail"}
            /\ Early(s)' => Early(s)

LEMMA QuietKeeps ==
  ASSUME AddressInv, CodesInv, NEW s \in Slots, Quiet(s)
  PROVE  CodesInv'
<1>1. StillReaders
  BY DEF Quiet, StillReaders
<1>2. \A t \in Slots \ {s} : (Early(t)' => Early(t)) /\ (At(t, "mail")' => At(t, "mail") /\ req'[t] = req[t])
  BY DEF Quiet, Early, At
<1>3. ~At(s, "mail")'
  BY DEF Quiet, At
<1>4. Fades
  BY <1>2, <1>3 DEF Quiet, Fades, AddressInv, TypeOK
<1> QED BY <1>1, <1>4, FadesKeep

LEMMA MovesQuiet ==
  ASSUME AddressInv, CodesInv, NEW s \in Slots, NEW at, Moves(s, at),
         UNCHANGED <<codes, told, used, tries, slipped, ended>>,
         {req[s].at, at} \cap (Reading \cup {"mail"}) = {}, at # "unused", at \in Before => req[s].at \in Before
  PROVE  CodesInv'
<1>1. Quiet(s)
  BY DEF Quiet, Moves, Early, At
<1> QED BY <1>1, QuietKeeps

LEMMA StartQuiet ==
  ASSUME AddressInv, CodesInv, NEW s \in Slots, Start(s)
  PROVE  CodesInv'
<1> DEFINE First6 == {"register", "lookup", "google", "complete", "reauth", "check"}
<1>1. ASSUME NEW op, NEW at \in First6, NEW id, NEW e, NEW p, NEW g, Ask(s, op, at, id, e, p, g)
      PROVE  req'[s].at \in First6 /\ \A t \in Slots \ {s} : req'[t] = req[t]
  BY <1>1 DEF Ask, Request, AddressInv, TypeOK
<1>2. req'[s].at \in First6 /\ \A t \in Slots \ {s} : req'[t] = req[t]
  BY <1>1 DEF Start, AskRegister, AskResend, AskVerify, AskForgot, AskReset, AskAdminLogin, AskAdminVerify,
              AskGoogle, AskComplete, AskStartChange, AskConfirm, AskDelete
<1>3. At(s, "unused") /\ UNCHANGED <<codes, told, used, tries, slipped, ended>>
  BY DEF Start, history
<1>4. Quiet(s)
  BY <1>2, <1>3 DEF Quiet, Early, At, Reading
<1> QED BY <1>4, QuietKeeps

LEMMA QuietSteps ==
  ASSUME AddressInv, CodesInv, NEW s \in Slots,
         \/ CreateUser(s) \/ Existing(s) \/ Lookup(s) \/ ResendGap(s) \/ Reauth(s)
         \/ SetPasswordHash(s) \/ MarkVerified(s) \/ ChangeEmail(s)
         \/ GoogleSignIn(s) \/ Evict(s) \/ CreateIdentity(s) \/ CreateGoogleUser(s)
  PROVE  CodesInv'
<1>1. TypeOK /\ req[s].at \notin Over
  BY DEF AddressInv, Over, At, CreateUser, Existing, Lookup, ResendGap, Reauth, SetPasswordHash, MarkVerified,
         ChangeEmail, GoogleSignIn, Evict, CreateIdentity, CreateGoogleUser
<1>2. UNCHANGED <<codes, told, used, tries, slipped, ended>>
  BY DEF history, CreateUser, Existing, Lookup, ResendGap, Reauth, SetPasswordHash, MarkVerified,
         ChangeEmail, GoogleSignIn, Evict, CreateIdentity, CreateGoogleUser
<1> DEFINE Ends == {"ok", "err"}
<1>3. \A at \in Ends : Answer(s, at) => Moves(s, at)
  BY <1>1, AnswerMoves DEF Over
<1>4. \A at \in Under : Goto(s, at) => Moves(s, at)
  BY <1>1, GotoMoves
<1>5. \A at \in Under, u \in Ids : req' = [req EXCEPT ![s].at = at, ![s].id = u] => Moves(s, at)
  BY <1>1, FindMoves
<1>6. /\ {"existing", "gap", "check", "inUse", "put", "delete", "verified", "link", "change", "evict"} \subseteq Under
      /\ \A e : Having(e) \subseteq Ids
  BY DEF Under, Before, Having, There
<1>7. ASSUME NEW at, Moves(s, at), at \in Ends \/ (at \in Before /\ req[s].at \in Before) \/ at \in {"check", "delete", "verified", "link", "evict"},
             req[s].at \notin Reading \cup {"mail"}
      PROVE  CodesInv'
  BY <1>2, <1>7, MovesQuiet DEF Reading, Before
<1>8. CASE CreateUser(s)
  <2>1. req[s].at = "register" /\ \E at \in Ends \cup {"gap", "existing"} : Moves(s, at)
    BY <1>3, <1>4, <1>5, <1>6, <1>8 DEF CreateUser, At
  <2> QED BY <1>7, <2>1 DEF Before, Reading
<1>9. CASE Existing(s)
  <2>1. req[s].at = "existing" /\ \E at \in Ends \cup {"gap"} : Moves(s, at)
    BY <1>3, <1>5, <1>6, <1>9 DEF Existing, At
  <2> QED BY <1>7, <2>1 DEF Before, Reading
<1>10. CASE Lookup(s)
  <2>1. req[s].at = "lookup" /\ \E at \in Ends \cup {"gap", "check"} : Moves(s, at)
    BY <1>3, <1>5, <1>6, <1>10 DEF Lookup, At
  <2> QED BY <1>7, <2>1 DEF Before, Reading
<1>11. CASE ResendGap(s)
  <2>1. req[s].at = "gap" /\ \E at \in Ends \cup {"inUse", "put"} : Moves(s, at)
    BY <1>3, <1>4, <1>6, <1>11 DEF ResendGap, At
  <2> QED BY <1>7, <2>1 DEF Before, Reading
<1>12. CASE Reauth(s)
  <2>1. req[s].at = "reauth" /\ \E at \in Ends \cup {"delete", "gap"} : Moves(s, at)
    BY <1>3, <1>4, <1>6, <1>12 DEF Reauth, At
  <2> QED BY <1>7, <2>1 DEF Before, Reading
<1>13. CASE SetPasswordHash(s) \/ MarkVerified(s) \/ ChangeEmail(s) \/ Evict(s) \/ CreateIdentity(s) \/ CreateGoogleUser(s)
  <2>1. /\ req[s].at \in {"setPassword", "verified", "change", "evict", "link", "complete"}
        /\ \E at \in Ends \cup {"verified", "link"} : Moves(s, at)
    BY <1>3, <1>4, <1>6, <1>13 DEF SetPasswordHash, MarkVerified, ChangeEmail, Evict, CreateIdentity, CreateGoogleUser, At
  <2> QED BY <1>7, <2>1 DEF Reading
<1>14. CASE GoogleSignIn(s)
  <2>1. req[s].at = "google" /\ \E at \in Ends \cup {"link", "evict"} : Moves(s, at)
    <3>1. CASE Answer(s, "ok")
      BY <1>3, <1>14, <3>1 DEF GoogleSignIn, At
    <3>2. CASE \E u \in Having(Google) : req' = [req EXCEPT ![s].id = u, ![s].at = IF users[u].verified THEN "link" ELSE "evict"]
      <4>1. PICK u \in Having(Google) : req' = [req EXCEPT ![s].id = u, ![s].at = IF users[u].verified THEN "link" ELSE "evict"]
        BY <3>2
      <4> DEFINE at == IF users[u].verified THEN "link" ELSE "evict"
      <4>2. req' = [req EXCEPT ![s].at = at, ![s].id = u] /\ at \in {"link", "evict"}
        BY <4>1
      <4> QED BY <1>5, <1>6, <1>14, <4>2 DEF GoogleSignIn, At
    <3> QED BY <1>14, <3>1, <3>2 DEF GoogleSignIn
  <2> QED BY <1>7, <2>1 DEF Reading
<1> QED BY <1>8, <1>9, <1>10, <1>11, <1>12, <1>13, <1>14

(* The mail, and rows that go. *)
LEMMA MailCodes ==
  ASSUME AddressInv, CodesInv, NEW s \in Slots, Mail(s)
  PROVE  CodesInv'
<1>1. TypeOK /\ At(s, "mail") /\ (Moves(s, "ok") \/ Moves(s, "err"))
  BY AnswerMoves DEF Mail, At, Over, AddressInv
<1>2. StillReaders
  BY <1>1 DEF StillReaders, Moves, At, Reading
<1>3. \A t \in Slots : (Early(t)' => Early(t)) /\ (At(t, "mail")' => At(t, "mail") /\ req'[t] = req[t])
  BY <1>1 DEF Early, At, Moves, Before
<1>4. \A c \in Codes : told'[c] # told[c] => c \in Slots /\ At(c, "mail") /\ told'[c].key = Key(c)
  BY <1>1 DEF Mail, TypeOK
<1>5. Fades
  BY <1>1, <1>3, <1>4 DEF Fades, Mail, TypeOK
<1> QED BY <1>2, <1>5, FadesKeep

LEMMA InUseCodes ==
  ASSUME AddressInv, CodesInv, NEW s \in Slots, EmailInUse(s)
  PROVE  CodesInv'
<1>1. TypeOK /\ At(s, "inUse") /\ req[s].at \notin Over /\ AskedOf(s) /\ req[s] \in Requests
  BY UnderWay DEF EmailInUse, At, Over, AddressInv
<1>2. Moves(s, "ok") \/ Moves(s, "put")
  BY <1>1, AnswerMoves, GotoMoves DEF EmailInUse, Over, Under, Before
<1>3. StillReaders
  BY <1>1, <1>2 DEF StillReaders, Moves, At, Reading
<1>4. \A t \in Slots : (Early(t)' => Early(t)) /\ (At(t, "mail")' => At(t, "mail") /\ req'[t] = req[t])
  BY <1>1, <1>2 DEF Early, At, Moves, Before
<1>5. Key(s) \in Keys
  BY <1>1 DEF Key, Keys, AskedOf, Requests, NoAccountYet, At
<1> DEFINE row == NewCode(None, req[s].email)
<1>6. row \in Rows /\ row.code = None
  BY <1>1 DEF NewCode, Rows, Requests
<1>7. \/ codes' = codes /\ ended \subseteq ended'
      \/ codes' = [codes EXCEPT ![Key(s)] = row] /\ ended' = ended \cup {codes[Key(s)].code}
  BY DEF EmailInUse
<1> HIDE DEF row
<1>8. codes' \in [Keys -> Rows] /\ ended \subseteq ended'
  BY <1>1, <1>5, <1>6, <1>7 DEF TypeOK
<1>9. \A k \in Keys : \/ codes'[k].code = codes[k].code /\ codes'[k].bad = codes[k].bad
                      \/ codes'[k].code = None /\ codes[k].code \in ended'
  BY <1>1, <1>5, <1>6, <1>7 DEF TypeOK
<1>10. Fades
  BY <1>4, <1>8, <1>9 DEF Fades, EmailInUse
<1> QED BY <1>3, <1>10, FadesKeep

LEMMA DeleteCodes ==
  ASSUME AddressInv, CodesInv, NEW s \in Slots, DeleteUser(s)
  PROVE  CodesInv'
<1> DEFINE u == req[s].id
<1>1. TypeOK /\ At(s, "delete") /\ Moves(s, "ok")
  BY AnswerMoves DEF DeleteUser, Over, AddressInv
<1>2. StillReaders
  BY <1>1 DEF StillReaders, Moves, At, Reading
<1>3. \A t \in Slots : (Early(t)' => Early(t)) /\ (At(t, "mail")' => At(t, "mail") /\ req'[t] = req[t])
  BY <1>1 DEF Early, At, Moves, Before
<1>4. codes' = [k \in Keys |-> IF k[1] = u THEN NoCode ELSE codes[k]] /\ NoCode \in Rows /\ NoCode.code = None
  BY DEF DeleteUser, NoCode, Rows
<1>5. codes' \in [Keys -> Rows]
  BY <1>1, <1>4 DEF TypeOK
<1>6. ended' = ended \cup {codes[<<u, p>>].code : p \in Purposes}
  BY DEF DeleteUser
<1>7. ASSUME NEW k \in Keys, k[1] = u PROVE codes[k].code \in ended'
  <2>1. k = <<u, k[2]>> /\ k[2] \in Purposes
    BY <1>7 DEF Keys
  <2> HIDE DEF u
  <2> QED BY <1>6, <2>1
<1> HIDE DEF u
<1>8. \A k \in Keys : \/ codes'[k].code = codes[k].code /\ codes'[k].bad = codes[k].bad
                      \/ codes'[k].code = None /\ codes[k].code \in ended'
  BY <1>4, <1>7
<1>9. Fades
  BY <1>3, <1>5, <1>6, <1>8 DEF Fades, DeleteUser
<1> QED BY <1>2, <1>9, FadesKeep

(* A failing statement: its request lets go of the code it was checking. *)
LEMMA FailCodes ==
  ASSUME AddressInv, CodesInv, NEW s \in Slots, Fails(s)
  PROVE  CodesInv'
<1>1. TypeOK /\ Moves(s, "err") /\ req'[s].at = "err"
  BY AnswerMoves DEF Fails, Over, AddressInv, Moves
<1>2. UNCHANGED <<codes, told, used, tries, ended>> /\ slipped' = slipped \cup Slips(s)
  BY DEF Fails
<1>3. \A t \in Slots \ {s} : req'[t] = req[t]
  BY <1>1 DEF Moves
<1>4. ASSUME NEW c, NEW k, Use(c, k)' PROVE Use(c, k)
  <2>1. CASE \E t \in Slots : req'[t].at \in Reading /\ req'[t].got.code = c /\ Key(t)' = k
    BY <1>1, <1>3, <2>1 DEF Use, Key, Reading
  <2>2. CASE c \in Slots /\ At(c, "mail")' /\ Key(c)' = k
    BY <1>1, <1>3, <2>2 DEF Use, Key, At
  <2> QED BY <1>2, <1>4, <2>1, <2>2 DEF Use
<1>5. \A t \in Slots : Early(t)' => Early(t)
  BY <1>1, <1>3 DEF Early, At, Before
<1>6. OneUse'
  BY <1>2, <1>4, <1>5, OneUseKept DEF CodesInv
<1>7. ASSUME NEW c \in Codes PROVE CodeOK(c)'
  <2>1. CodeOK(c)
    BY DEF CodesInv
  <2>2. Readers(c)' = Readers(c) \ {s} /\ Bumping(c)' = Bumping(c) \ {s}
    BY <1>1, <1>3 DEF Readers, Bumping, At, Reading
  <2>3. \A t \in Readers(c)' : t # s /\ t \in Slots /\ req'[t] = req[t]
    BY <1>3, <2>2 DEF Readers
  <2>4. RowsOf(c)' = RowsOf(c) /\ (Sent(c)' => Sent(c)) /\ Dead(c)' = Dead(c)
    BY <1>1, <1>2, <1>3 DEF RowsOf, Sent, Dead, At
  <2>5. /\ IsFiniteSet(Bumping(c)') /\ Cardinality(Bumping(c)') <= Cardinality(Bumping(c))
        /\ Cardinality(Bumping(c)') \in Nat /\ Cardinality(Bumping(c)) \in Nat
    <3>1. IsFiniteSet(Bumping(c))
      BY <2>1 DEF CodeOK
    <3> QED BY <2>2, <3>1, FS_Subset, FS_CardinalityType
  <2>6. Alone(c)'
    <3>1. SUFFICES ASSUME c \notin slipped' PROVE Alone(c)'
      BY DEF Alone
    <3>2. c \notin slipped /\ Alone(c)
      BY <1>2, <2>1, <3>1 DEF CodeOK
    <3>3. s \notin Bumping(c)
      <4>1. At(s, "bump") => Slips(s) = {req[s].got.code}
        BY DEF Slips, At
      <4>2. SUFFICES ASSUME s \in Bumping(c) PROVE FALSE
        OBVIOUS
      <4>3. At(s, "bump") /\ req[s].got.code = c
        BY <4>2 DEF Bumping, Readers
      <4>4. Slips(s) = {c}
        BY <4>1, <4>3
      <4> QED BY <1>2, <3>1, <4>4
    <3>4. ASSUME NEW t \in Readers(c)'
          PROVE  used'[c] = 0 /\ Readers(c)' = {t} /\ (At(t, "consume")' => tries'[c] < MaxAttempts)
      BY <1>2, <2>2, <2>3, <3>2 DEF Alone, At
    <3> QED BY <1>2, <2>2, <2>4, <3>2, <3>3, <3>4 DEF Alone
  <2>7. Delivered(c)'
    <3>1. \A k \in RowsOf(c) : codes[k].bad \in Nat
      BY <1>1 DEF RowsOf, TypeOK, Rows
    <3>2. tries[c] \in Nat
      BY <1>1 DEF TypeOK
    <3>3. CASE c \in ended \/ ~Sent(c)
      BY <1>2, <2>4, <3>3 DEF Delivered
    <3>4. CASE c \notin ended /\ Sent(c)
      <4>1. /\ \A k \in RowsOf(c) : codes[k].bad + Cardinality(Bumping(c)) <= tries[c]
            /\ RowsOf(c) = {} => Dead(c)
            /\ \A t \in Readers(c) : At(t, "kill") => Dead(c)
        BY <2>1, <3>4 DEF CodeOK, Delivered
      <4>2. \A k \in RowsOf(c) : codes[k].bad + Cardinality(Bumping(c)') <= tries[c]
        BY <2>5, <3>1, <3>2, <4>1
      <4>3. \A t \in Readers(c)' : At(t, "kill")' => Dead(c)
        BY <2>2, <2>3, <4>1 DEF At
      <4> QED BY <1>2, <2>4, <4>1, <4>2, <4>3 DEF Delivered
    <3> QED BY <3>3, <3>4
  <2> QED BY <2>5, <2>6, <2>7 DEF CodeOK
<1>8. ASSUME NEW k \in Keys PROVE KeyOK(k)'
  <2>1. SUFFICES ASSUME codes'[k].code \notin slipped' \cup {None}, codes'[k].bad >= MaxAttempts
                 PROVE  \E t \in Slots : At(t, "kill")' /\ Key(t)' = k
    BY DEF KeyOK
  <2>2. PICK t \in Slots : At(t, "kill") /\ Key(t) = k
    BY <1>2, <2>1 DEF CodesInv, KeyOK
  <2>3. t # s
    BY <1>2, <2>1, <2>2 DEF Slips, At
  <2> QED BY <1>3, <2>2, <2>3 DEF At, Key
<1> QED BY <1>6, <1>7, <1>8 DEF CodesInv

(* Time and the janitor. *)
LEMMA TimeCodes ==
  ASSUME AddressInv, CodesInv, (\E k \in Keys : CodeAges(k)) \/ DeleteExpiredEmailCodes
  PROVE  CodesInv'
<1>1. UNCHANGED <<req, told, used, tries, slipped>> /\ codes \in [Keys -> Rows]
  BY DEF CodeAges, DeleteExpiredEmailCodes, history, AddressInv, TypeOK
<1>2. StillReaders
  BY <1>1 DEF StillReaders
<1>3. \A t \in Slots : (Early(t)' => Early(t)) /\ (At(t, "mail")' => At(t, "mail") /\ req'[t] = req[t])
  BY <1>1 DEF Early, At
<1>4. /\ codes' \in [Keys -> Rows] /\ ended \subseteq ended'
      /\ \A k \in Keys : \/ codes'[k].code = codes[k].code /\ codes'[k].bad = codes[k].bad
                         \/ codes'[k].code = None /\ codes[k].code \in ended'
  <2>1. CASE \E k \in Keys : CodeAges(k)
    <3>0. PICK k \in Keys : CodeAges(k)
      BY <2>1
    <3> DEFINE row == [codes[k] EXCEPT !.age = IF @ = "new" THEN "old" ELSE "over"]
    <3>1. row \in Rows /\ row.code = codes[k].code /\ row.bad = codes[k].bad
      BY <1>1 DEF Rows
    <3>2. codes' = [codes EXCEPT ![k] = row] /\ ended' = ended
      BY <3>0 DEF CodeAges, history
    <3> HIDE DEF row
    <3> QED BY <1>1, <3>1, <3>2
  <2>2. CASE DeleteExpiredEmailCodes
    <3>1. codes' = [k \in Keys |-> IF codes[k].age = "over" THEN NoCode ELSE codes[k]] /\ NoCode \in Rows /\ NoCode.code = None
      BY <2>2 DEF DeleteExpiredEmailCodes, NoCode, Rows
    <3>2. ended' = ended \cup {codes[k].code : k \in {x \in Keys : codes[x].age = "over"}}
      BY <2>2 DEF DeleteExpiredEmailCodes
    <3> QED BY <1>1, <3>1, <3>2
  <2> QED BY <2>1, <2>2
<1>5. Fades
  BY <1>1, <1>3, <1>4 DEF Fades
<1> QED BY <1>2, <1>5, FadesKeep

(* A new code: nobody has used, guessed or seen it. *)
LEMMA PutCodes ==
  ASSUME AddressInv, CodesInv, NEW s \in Slots, PutCode(s)
  PROVE  CodesInv'
<1>1. TypeOK /\ At(s, "put") /\ req[s].at = "put" /\ req[s].at \notin Over /\ AskedOf(s) /\ req[s] \in Requests
  BY UnderWay DEF PutCode, At, Over, AddressInv
<1>2. CASE Answer(s, "err") /\ UNCHANGED <<codes, ended>>
  <2>1. Moves(s, "err")
    BY <1>1, <1>2, AnswerMoves DEF Over
  <2> QED BY <1>1, <1>2, <2>1, MovesQuiet DEF PutCode, Before, Reading
<1>3. CASE Store(s, NewCode(s, req[s].email)) /\ Goto(s, "mail")
  <2> DEFINE row == NewCode(s, req[s].email)
             key == Key(s)
  <2>1. key \in Keys /\ s \in Codes /\ s # None
    BY <1>1, AccountsAssumption DEF Key, Keys, AskedOf, Requests, NoAccountYet, Codes
  <2>2. row \in Rows /\ row.code = s /\ row.bad = 0
    BY <1>1, <2>1 DEF NewCode, Rows, Requests
  <2>3. codes' = [codes EXCEPT ![key] = row] /\ ended' = ended \cup {codes[key].code}
    BY <1>3 DEF Store, UpsertEmailCode
  <2>4. Moves(s, "mail") /\ req'[s].id = req[s].id
    BY <1>1, <1>3, GotoMoves DEF Under
  <2>5. Key(s)' = key /\ (\A t \in Slots \ {s} : req'[t] = req[t]) /\ At(s, "mail")' /\ req'[s].at = "mail"
    BY <2>4 DEF Moves, Key, Over, At
  <2> HIDE DEF row, key
  <2>6. StillReaders
    BY <1>1, <2>5 DEF StillReaders, Reading
  <2>7. codes' \in [Keys -> Rows] /\ codes'[key] = row /\ \A k \in Keys \ {key} : codes'[k] = codes[k]
    BY <1>1, <2>1, <2>2, <2>3 DEF TypeOK
  <2>8. Early(s) /\ used[s] = 0 /\ tries[s] = 0 /\ \A k : ~Use(s, k)
    BY <1>1 DEF CodesInv, OneUse, Early, Before
  <2>9. UNCHANGED <<told, used, tries, slipped>>
    BY DEF PutCode
  <2>10. ASSUME NEW c, NEW k, Use(c, k)' PROVE Use(c, k) \/ (c = s /\ k = key)
    <3>1. CASE k \in Keys /\ codes'[k].code = c /\ c # None
      BY <2>2, <2>7, <3>1 DEF Use
    <3>2. CASE \E t \in Slots : req'[t].at \in Reading /\ req'[t].got.code = c /\ Key(t)' = k
      <4>1. PICK t \in Slots : req'[t].at \in Reading /\ req'[t].got.code = c /\ Key(t)' = k
        BY <3>2
      <4>2. req'[t] = req[t]
        BY <2>6, <4>1 DEF StillReaders
      <4> QED BY <4>1, <4>2 DEF Use, Key
    <3>3. CASE c \in Codes /\ told'[c] # NoCode /\ told'[c].key = k
      BY <2>9, <3>3 DEF Use
    <3>4. CASE c \in Slots /\ At(c, "mail")' /\ Key(c)' = k
      BY <2>5, <3>4 DEF Use, At, Key
    <3> QED BY <2>10, <3>1, <3>2, <3>3, <3>4 DEF Use
  <2>11. \A t \in Slots : Early(t)' => Early(t) /\ t # s
    BY <2>5 DEF Early, At, Before
  <2>12. OneUse'
    BY <2>8, <2>9, <2>10, <2>11 DEF CodesInv, OneUse
  <2>13. ASSUME NEW c \in Codes \ {s} PROVE CodeOK(c)'
    <3>1. RowsOf(c)' \subseteq RowsOf(c) /\ \A k \in RowsOf(c)' : codes'[k].bad = codes[k].bad
      BY <2>2, <2>7 DEF RowsOf
    <3>2. c \notin ended' => RowsOf(c)' = RowsOf(c)
      BY <2>2, <2>3, <2>7 DEF RowsOf
    <3>3. Sent(c)' => Sent(c)
      BY <2>5, <2>9 DEF Sent, At
    <3>4. \A k \in RowsOf(c)' : codes'[k].bad \in Nat
      BY <2>7 DEF RowsOf, Rows
    <3>5. Same(c)
      BY <2>3, <2>6, <2>9, <3>1, <3>2, <3>3, <3>4, StillSame DEF Same
    <3> QED BY <1>1, <2>7, <3>5, SameKeeps DEF CodesInv
  <2>14. CodeOK(s)'
    <3>1. Readers(s) = {} /\ Bumping(s) = {}
      BY <2>8 DEF Use, Readers, Bumping
    <3>2. Readers(s)' = {} /\ Bumping(s)' = {}
      BY <2>6, <3>1, StillSame
    <3>3. RowsOf(s)' = {key}
      <4>1. \A k \in Keys : codes[k].code # s
        BY <2>1, <2>8 DEF Use
      <4> QED BY <2>1, <2>2, <2>7, <4>1 DEF RowsOf
    <3>4. IsFiniteSet(Bumping(s)') /\ Cardinality(Bumping(s)') = 0
      BY <3>2, FS_EmptySet
    <3>5. Alone(s)'
      BY <2>2, <2>7, <2>8, <2>9, <3>2, <3>3, AccountsAssumption DEF Alone
    <3>6. Delivered(s)'
      BY <2>2, <2>7, <2>8, <2>9, <3>2, <3>3, <3>4 DEF Delivered
    <3> QED BY <3>4, <3>5, <3>6 DEF CodeOK
  <2>15. ASSUME NEW k \in Keys PROVE KeyOK(k)'
    <3>1. SUFFICES ASSUME codes'[k].code \notin slipped' \cup {None}, codes'[k].bad >= MaxAttempts
                   PROVE  \E t \in Slots : At(t, "kill")' /\ Key(t)' = k
      BY DEF KeyOK
    <3>2. k # key
      BY <2>2, <2>7, <3>1, AccountsAssumption
    <3>3. PICK t \in Slots : At(t, "kill") /\ Key(t) = k
      BY <2>7, <2>9, <3>1, <3>2 DEF CodesInv, KeyOK
    <3>4. req'[t] = req[t]
      BY <2>6, <3>3 DEF StillReaders, At, Reading
    <3> QED BY <3>3, <3>4 DEF At, Key
  <2> QED BY <2>12, <2>13, <2>14, <2>15 DEF CodesInv
<1> QED BY <1>2, <1>3 DEF PutCode

(* A request that checks a code has the only key it is for. *)
LEMMA ReaderFacts ==
  ASSUME AddressInv, CodesInv, NEW s \in Slots, req[s].at \in Reading
  PROVE  LET c == req[s].got.code
         IN  /\ Key(s) \in Keys /\ c \in Codes /\ c # None /\ s \in Readers(c)
             /\ Use(c, Key(s)) /\ RowsOf(c) \subseteq {Key(s)}
             /\ (codes[Key(s)].code = c => RowsOf(c) = {Key(s)})
             /\ \A t \in Slots : ~Early(t) \/ c # t
<1> DEFINE c == req[s].got.code
<1>1. AskedOf(s) /\ req[s] \in Requests /\ req[s].at \notin NoAccountYet
  BY UnderWay DEF Reading, Over, NoAccountYet
<1>2. Key(s) \in Keys
  BY <1>1 DEF Key, Keys, AskedOf, Requests, Reading, Over
<1>3. c \in Codes /\ c # None
  BY <1>1, AccountsAssumption DEF AskedOf, Reading, Over, Codes
<1>4. s \in Readers(c) /\ Use(c, Key(s))
  BY DEF Readers, Use
<1>5. RowsOf(c) \subseteq {Key(s)}
  BY <1>3, <1>4 DEF RowsOf, CodesInv, OneUse, Use
<1>6. \A t \in Slots : ~Early(t) \/ c # t
  BY <1>4 DEF CodesInv, OneUse
<1>7. codes[Key(s)].code = c => Key(s) \in RowsOf(c)
  BY <1>2 DEF RowsOf
<1> QED BY <1>2, <1>3, <1>4, <1>5, <1>6, <1>7

(* What a request that leaves its check, or goes on in it, does to the readers. *)
LEMMA ReaderMoves ==
  ASSUME NEW s \in Slots, NEW c, req[s].at \in Reading, req[s].got.code = c, NEW at, Moves(s, at), at \in Reading => req'[s].got = req[s].got
  PROVE  /\ \A d \in Codes \ {c} : /\ Readers(d)' = Readers(d) /\ Bumping(d)' = Bumping(d)
                                   /\ \A t \in Readers(d) : req'[t].at = req[t].at
         /\ Readers(c)' = IF at \in Reading THEN Readers(c) ELSE Readers(c) \ {s}
         /\ at # "bump" => Bumping(c)' = Bumping(c) \ {s}
         /\ \A t \in Readers(c) \ {s} : req'[t].at = req[t].at
<1>1. \A t \in Slots \ {s} : req'[t] = req[t]
  BY DEF Moves
<1>2. req'[s].at = at
  BY DEF Moves
<1>3. Readers(c)' = IF at \in Reading THEN Readers(c) ELSE Readers(c) \ {s}
  BY <1>1, <1>2 DEF Readers
<1>4. at # "bump" => Bumping(c)' = Bumping(c) \ {s}
  BY <1>1, <1>2 DEF Readers, Bumping, At, Reading
<1>5. \A d \in Codes \ {c} : Readers(d)' = Readers(d) /\ Bumping(d)' = Bumping(d)
  BY <1>1, <1>2 DEF Readers, Bumping, At
<1>6. \A d : \A t \in Readers(d) : t # s => req'[t].at = req[t].at
  BY <1>1 DEF Readers
<1>7. \A d \in Codes \ {c} : s \notin Readers(d)
  BY DEF Readers
<1> QED BY <1>3, <1>4, <1>5, <1>6, <1>7

(* The check takes no code to a new key. *)
LEMMA ReaderUses ==
  ASSUME AddressInv, CodesInv, NEW s \in Slots, req[s].at \in Reading, NEW at, Moves(s, at), at \in Reading \cup {"change", "verified", "setPassword", "ok", "err"},
         at \in Reading => req'[s].id = req[s].id /\ req'[s].got = req[s].got,
         told' = told, \A k \in Keys : codes'[k].code # None => codes'[k].code = codes[k].code,
         \A t \in Slots : t # req[s].got.code => used'[t] = used[t] /\ tries'[t] = tries[t]
  PROVE  OneUse'
<1>1. (\A t \in Slots \ {s} : req'[t] = req[t]) /\ req'[s].at = at
  BY DEF Moves
<1>2. at \in Reading => Key(s)' = Key(s)
  BY DEF Moves, Key, Reading, Over
<1>3. ASSUME NEW c, NEW k, Use(c, k)' PROVE Use(c, k)
  <2>1. CASE k \in Keys /\ codes'[k].code = c /\ c # None
    BY <2>1 DEF Use
  <2>2. CASE \E t \in Slots : req'[t].at \in Reading /\ req'[t].got.code = c /\ Key(t)' = k
    <3>1. PICK t \in Slots : req'[t].at \in Reading /\ req'[t].got.code = c /\ Key(t)' = k
      BY <2>2
    <3>2. CASE t = s
      BY <1>1, <1>2, <3>1, <3>2 DEF Use
    <3>3. CASE t # s
      BY <1>1, <3>1, <3>3 DEF Use, Key
    <3> QED BY <3>2, <3>3
  <2>3. CASE c \in Codes /\ told'[c] # NoCode /\ told'[c].key = k
    BY <2>3 DEF Use
  <2>4. CASE c \in Slots /\ At(c, "mail")' /\ Key(c)' = k
    BY <1>1, <2>4 DEF Use, At, Key, Reading
  <2> QED BY <1>3, <2>1, <2>2, <2>3, <2>4 DEF Use
<1>4. ASSUME NEW t \in Slots, Early(t)' PROVE Early(t) /\ used'[t] = used[t] /\ tries'[t] = tries[t]
  <2>1. Early(t)
    BY <1>1, <1>4 DEF Early, At, Before, Reading
  <2>2. t # req[s].got.code
    BY <2>1, ReaderFacts
  <2> QED BY <2>1, <2>2
<1> QED BY <1>3, <1>4, OneUseKept DEF CodesInv

(* What the end of a check, or a counted guess, does to rows: only its own is
   counted or deleted, and another code that this hits is noted. *)
OwnRowOnly(s) ==
  /\ codes' \in [Keys -> Rows] /\ ended \subseteq ended'
  /\ \A k \in Keys \ {Key(s)} : codes'[k] = codes[k]
  /\ \/ codes'[Key(s)].code = codes[Key(s)].code /\ codes'[Key(s)].bad >= codes[Key(s)].bad
     \/ codes'[Key(s)].code = None
  /\ codes'[Key(s)] = codes[Key(s)] \/ codes[Key(s)].code \in ended' \cup {req[s].got.code}

LEMMA ReaderOthers ==
  ASSUME AddressInv, CodesInv, NEW s \in Slots, req[s].at \in Reading, NEW at, Moves(s, at), at # "mail",
         OwnRowOnly(s), UNCHANGED <<told, slipped>>,
         \A d \in Codes \ {req[s].got.code} : used'[d] = used[d] /\ tries'[d] = tries[d]
  PROVE  \A d \in Codes \ {req[s].got.code} : CodeOK(d)'
<1> DEFINE c == req[s].got.code
           key == Key(s)
<1>1. key \in Keys /\ c \in Codes
  BY ReaderFacts
<1>2. \A d \in Codes \ {c} : /\ Readers(d)' = Readers(d) /\ Bumping(d)' = Bumping(d)
                             /\ \A t \in Readers(d) : req'[t].at = req[t].at
  <2>1. at \in Reading => req'[s].got = req[s].got
    BY DEF Moves, Reading, Over
  <2> QED BY <2>1, ReaderMoves
<1>3. \A d \in Codes : Sent(d)' => Sent(d)
  BY DEF Sent, At, Moves
<1>4. /\ codes' \in [Keys -> Rows] /\ ended \subseteq ended'
      /\ \A k \in Keys \ {key} : codes'[k] = codes[k]
      /\ (codes'[key].code = codes[key].code /\ codes'[key].bad >= codes[key].bad) \/ codes'[key].code = None
      /\ codes'[key] = codes[key] \/ codes[key].code \in ended' \cup {c}
  BY DEF OwnRowOnly
<1> HIDE DEF c, key
<1>5. ASSUME NEW d \in Codes \ {c} PROVE CodeOK(d)'
  <2>1. d # None
    BY AccountsAssumption DEF Codes
  <2>2. \A k \in Keys : codes[k].bad \in Nat
    BY DEF AddressInv, TypeOK, Rows
  <2>3. RowsOf(d)' \subseteq RowsOf(d) /\ \A k \in RowsOf(d)' : codes'[k].bad >= codes[k].bad
    BY <1>1, <1>4, <2>1, <2>2 DEF RowsOf
  <2>4. d \in ended' \/ (RowsOf(d)' = RowsOf(d) /\ \A k \in RowsOf(d) : codes'[k].bad = codes[k].bad)
    BY <1>4, <2>1 DEF RowsOf
  <2>5. Same(d)
    BY <1>2, <1>3, <1>4, <2>3, <2>4 DEF Same, c
  <2> QED BY <1>4, <2>5, SameKeeps DEF AddressInv, CodesInv
<1> QED BY <1>5 DEF c

(* A request that is no killer of its row, or whose row is gone. *)
LEMMA ReaderKeys ==
  ASSUME CodesInv, NEW s \in Slots, NEW at, Moves(s, at), OwnRowOnly(s), slipped \subseteq slipped',
         \/ codes'[Key(s)].code = None \/ codes'[Key(s)].bad < MaxAttempts
         \/ codes'[Key(s)] = codes[Key(s)] /\ ~At(s, "kill")
         \/ at = "kill" /\ Key(s)' = Key(s)
  PROVE  \A k \in Keys : KeyOK(k)'
<1>1. SUFFICES ASSUME NEW k \in Keys, codes'[k].code \notin slipped' \cup {None}, codes'[k].bad >= MaxAttempts
               PROVE  \E t \in Slots : At(t, "kill")' /\ Key(t)' = k
  BY DEF KeyOK
<1>2. \A t \in Slots \ {s} : req'[t] = req[t]
  BY DEF Moves
<1>3. CASE k # Key(s)
  <2>1. PICK t \in Slots : At(t, "kill") /\ Key(t) = k
    BY <1>1, <1>3 DEF OwnRowOnly, CodesInv, KeyOK
  <2> QED BY <1>2, <1>3, <2>1 DEF At, Key
<1>4. CASE k = Key(s) /\ at = "kill" /\ Key(s)' = Key(s)
  BY <1>4 DEF Moves, At
<1>5. CASE k = Key(s) /\ codes'[Key(s)] = codes[Key(s)] /\ ~At(s, "kill")
  <2>1. PICK t \in Slots : At(t, "kill") /\ Key(t) = k
    BY <1>1, <1>5 DEF CodesInv, KeyOK
  <2> QED BY <1>2, <1>5, <2>1 DEF At, Key
<1>6. CASE k = Key(s) /\ codes'[Key(s)].bad < MaxAttempts
  <2>1. codes'[k].bad \in Nat /\ MaxAttempts \in Nat
    BY AccountsAssumption DEF OwnRowOnly, Rows
  <2> QED BY <1>1, <1>6, <2>1
<1> QED BY <1>1, <1>3, <1>4, <1>5, <1>6

LEMMA DeletesOwnRow ==
  ASSUME TypeOK, NEW s \in Slots, Key(s) \in Keys, DeleteCode(s)
  PROVE  OwnRowOnly(s) /\ codes'[Key(s)].code = None
<1> DEFINE row == NoCode
           key == Key(s)
<1>1. row \in Rows /\ row.code = None
  BY DEF NoCode, Rows
<1>2. codes' = [codes EXCEPT ![key] = row] /\ ended' = IF codes[key].code # req[s].got.code THEN ended \cup {codes[key].code} ELSE ended
  BY DEF DeleteCode
<1> HIDE DEF row, key
<1>3. /\ codes' \in [Keys -> Rows] /\ (\A k \in Keys \ {key} : codes'[k] = codes[k]) /\ codes'[key] = row
      /\ ended \subseteq ended' /\ codes[key].code \in ended' \cup {req[s].got.code}
  BY <1>1, <1>2 DEF TypeOK, key
<1> QED BY <1>1, <1>3 DEF OwnRowOnly, key

LEMMA KillCodes ==
  ASSUME AddressInv, CodesInv, NEW s \in Slots, KillCode(s)
  PROVE  CodesInv'
<1>0. PICK c, key : c = req[s].got.code /\ key = Key(s)
  OBVIOUS
<1>1. TypeOK /\ At(s, "kill") /\ req[s].at = "kill" /\ req[s].at \in Reading /\ Moves(s, "err")
  BY AnswerMoves DEF KillCode, At, Over, AddressInv, Reading
<1>2. /\ key \in Keys /\ c \in Codes /\ c # None /\ s \in Readers(c) /\ RowsOf(c) \subseteq {key}
      /\ codes[key].code = c => RowsOf(c) = {key}
  BY <1>0, <1>1, ReaderFacts
<1>3. UNCHANGED <<told, used, tries, slipped>> /\ OwnRowOnly(s) /\ codes'[key].code = None
  BY <1>0, <1>1, <1>2, DeletesOwnRow DEF KillCode
<1>4. \A k \in Keys : codes'[k].code # None => codes'[k].code = codes[k].code
  BY <1>0, <1>3 DEF OwnRowOnly
<1>5. OneUse'
  BY <1>1, <1>3, <1>4, ReaderUses DEF Reading
<1>6. \A d \in Codes \ {c} : CodeOK(d)'
  BY <1>0, <1>1, <1>3, ReaderOthers
<1>7. \A k \in Keys : KeyOK(k)'
  BY <1>0, <1>1, <1>3, ReaderKeys
<1>8. /\ Readers(c)' = Readers(c) \ {s} /\ Bumping(c)' = Bumping(c) \ {s}
      /\ \A t \in Readers(c) \ {s} : req'[t].at = req[t].at
  BY <1>0, <1>1, ReaderMoves DEF Reading
<1>9. RowsOf(c)' = {}
  BY <1>0, <1>2, <1>3 DEF RowsOf, OwnRowOnly
<1>10. CodeOK(c) /\ c \in Codes
  BY <1>2 DEF CodesInv
<1>11. IsFiniteSet(Bumping(c)')
  BY <1>8, <1>10, FS_RemoveElement DEF CodeOK
<1>12. Alone(c)'
  BY <1>2, <1>3, <1>8, <1>9, <1>10 DEF CodeOK, Alone
<1>13. Delivered(c)'
  <2>1. Sent(c)' => Sent(c)
    BY <1>1, <1>3 DEF Sent, At, Moves
  <2>2. Sent(c) => c \in ended \/ Dead(c)
    <3>1. c \notin ended => codes[key].code = c \/ RowsOf(c) = {}
      BY <1>2 DEF RowsOf
    <3> QED BY <1>1, <1>2, <1>10, <3>1 DEF CodeOK, Delivered
  <2>3. ended \subseteq ended' /\ (Dead(c) => Dead(c)')
    BY <1>3 DEF OwnRowOnly, Dead
  <2>4. \A t \in Readers(c)' : At(t, "kill")' => At(t, "kill")
    BY <1>8 DEF At
  <2> QED BY <1>9, <2>1, <2>2, <2>3, <2>4 DEF Delivered
<1>14. CodeOK(c)'
  BY <1>11, <1>12, <1>13 DEF CodeOK
<1> QED BY <1>5, <1>6, <1>7, <1>14 DEF CodesInv

LEMMA ConsumeCodes ==
  ASSUME AddressInv, CodesInv, NEW s \in Slots, Consume(s)
  PROVE  CodesInv'
<1>0. PICK c, key : c = req[s].got.code /\ key = Key(s)
  OBVIOUS
<1>1. TypeOK /\ At(s, "consume") /\ req[s].at = "consume" /\ req[s].at \in Reading /\ req[s].at \notin Over /\ AskedOf(s)
  BY UnderWay DEF Consume, At, Over, AddressInv, Reading
<1>2. /\ key \in Keys /\ c \in Codes /\ c # None /\ s \in Readers(c) /\ RowsOf(c) \subseteq {key}
      /\ codes[key].code = c => RowsOf(c) = {key}
  BY <1>0, <1>1, ReaderFacts
<1>3. PICK at \in {"ok", "verified", "setPassword", "change"} : Moves(s, at)
  <2>1. \E at \in {"ok", "verified", "setPassword", "change"} : IF at = "ok" THEN Answer(s, "ok") ELSE Goto(s, at)
    BY <1>1 DEF Consume, Accepted, AskedOf, Reading
  <2> QED BY <1>1, <2>1, AnswerMoves, GotoMoves DEF Under, Over
<1>4. UNCHANGED <<told, tries, slipped>> /\ OwnRowOnly(s) /\ codes'[key].code = None
  BY <1>0, <1>1, <1>2, DeletesOwnRow DEF Consume
<1>5. used' = [used EXCEPT ![c] = used[c] + 1] /\ used \in [Codes -> Nat] /\ tries \in [Codes -> Nat]
  BY <1>0, <1>1 DEF Consume, Accepted, TypeOK
<1>6. \A k \in Keys : codes'[k].code # None => codes'[k].code = codes[k].code
  BY <1>0, <1>4 DEF OwnRowOnly
<1>7. \A d \in Codes \ {c} : used'[d] = used[d] /\ tries'[d] = tries[d]
  BY <1>4, <1>5
<1>8. OneUse'
  BY <1>0, <1>1, <1>3, <1>4, <1>6, <1>7, ReaderUses DEF Reading, Codes
<1>9. \A d \in Codes \ {c} : CodeOK(d)'
  BY <1>0, <1>1, <1>3, <1>4, <1>7, ReaderOthers
<1>10. \A k \in Keys : KeyOK(k)'
  BY <1>0, <1>3, <1>4, ReaderKeys
<1>11. Readers(c)' = Readers(c) \ {s} /\ Bumping(c)' = Bumping(c) \ {s}
  BY <1>0, <1>1, <1>3, ReaderMoves DEF Reading
<1>12. RowsOf(c)' = {}
  BY <1>0, <1>2, <1>4 DEF RowsOf, OwnRowOnly
<1>13. CodeOK(c)
  BY <1>2 DEF CodesInv
<1>14. IsFiniteSet(Bumping(c)')
  BY <1>11, <1>13, FS_RemoveElement DEF CodeOK
<1>15. Alone(c)'
  <2>1. SUFFICES ASSUME c \notin slipped' PROVE Alone(c)'
    BY DEF Alone
  <2>2. used[c] = 0 /\ Readers(c) = {s} /\ tries[c] < MaxAttempts /\ tries[c] <= MaxAttempts
    BY <1>1, <1>2, <1>4, <1>13, <2>1 DEF CodeOK, Alone
  <2>3. used'[c] = 1 /\ tries'[c] = tries[c]
    BY <1>2, <1>4, <1>5, <2>2
  <2> QED BY <1>11, <1>12, <2>2, <2>3 DEF Alone
<1>16. Delivered(c)'
  <2>1. used'[c] > 0
    BY <1>2, <1>5
  <2> QED BY <1>12, <2>1 DEF Delivered, Dead
<1> QED BY <1>8, <1>9, <1>10, <1>14, <1>15, <1>16 DEF CodesInv, CodeOK

LEMMA BumpCodes ==
  ASSUME AddressInv, CodesInv, NEW s \in Slots, BumpAttempts(s)
  PROVE  CodesInv'
<1>0. PICK c, key, row : c = req[s].got.code /\ key = Key(s) /\ row = codes[key]
  OBVIOUS
<1>1. TypeOK /\ At(s, "bump") /\ req[s].at = "bump" /\ req[s].at \in Reading /\ req[s].at \notin Over
  BY DEF BumpAttempts, At, Over, AddressInv, Reading
<1>2. /\ key \in Keys /\ c \in Codes /\ c # None /\ s \in Readers(c) /\ RowsOf(c) \subseteq {key}
      /\ codes[key].code = c => RowsOf(c) = {key}
  BY <1>0, <1>1, ReaderFacts
<1>3. row \in Rows /\ row.bad \in Nat /\ MaxAttempts \in Nat
  BY <1>0, <1>1, <1>2, AccountsAssumption DEF TypeOK, Rows
<1>4. PICK at \in {"kill", "err"} :
        /\ Moves(s, at) /\ (at # "err" => Key(s)' = key)
        /\ at = "kill" => row # NoCode /\ row.bad + 1 >= MaxAttempts
        /\ at = "err" => row = NoCode \/ row.bad + 1 < MaxAttempts
  <2>1. CASE row # NoCode /\ Spent(row.bad + 1)
    <3>1. Goto(s, "kill")
      BY <1>0, <2>1 DEF BumpAttempts
    <3>2. Moves(s, "kill") /\ req'[s].id = req[s].id
      BY <1>1, <3>1, GotoMoves DEF Under, Reading
    <3>3. Key(s)' = key
      BY <1>0, <3>2 DEF Key, Moves, Over
    <3> QED BY <1>3, <2>1, <3>2, <3>3 DEF Spent
  <2>2. CASE row = NoCode \/ ~Spent(row.bad + 1)
    <3>1. Answer(s, "err")
      BY <1>0, <2>2 DEF BumpAttempts
    <3> QED BY <1>1, <1>3, <2>2, <3>1, AnswerMoves DEF Over, Spent
  <2> QED BY <2>1, <2>2
<1>5. UNCHANGED <<told, used, tries, slipped>>
  BY DEF BumpAttempts
<1>6. /\ OwnRowOnly(s)
      /\ IF row = NoCode THEN codes' = codes
         ELSE codes'[key].code = row.code /\ codes'[key].bad = row.bad + 1 /\ (row.code # c => row.code \in ended')
  <2>1. CASE row = NoCode /\ UNCHANGED <<codes, ended>>
    <3>1. codes' = codes /\ ended' = ended /\ codes \in [Keys -> Rows] /\ codes[Key(s)].bad \in Nat
      BY <1>0, <1>1, <1>3, <2>1 DEF TypeOK
    <3>2. codes'[Key(s)].bad >= codes[Key(s)].bad
      BY <3>1
    <3> QED BY <2>1, <3>1, <3>2 DEF OwnRowOnly
  <2>2. CASE /\ row # NoCode
             /\ codes' = [codes EXCEPT ![key].bad = @ + 1]
             /\ ended' = IF row.code # c THEN ended \cup {row.code} ELSE ended
    <3> DEFINE new == [row EXCEPT !.bad = @ + 1]
    <3>1. new \in Rows /\ new.code = row.code /\ new.bad = row.bad + 1
      BY <1>3 DEF Rows
    <3>2. codes' = [codes EXCEPT ![key] = new]
      BY <1>0, <2>2
    <3> HIDE DEF new
    <3>3. codes' \in [Keys -> Rows] /\ (\A k \in Keys \ {key} : codes'[k] = codes[k]) /\ codes'[key] = new
      BY <1>1, <1>2, <3>1, <3>2 DEF TypeOK
    <3>4. new.bad >= row.bad
      BY <1>3, <3>1
    <3>5. ended \subseteq ended' /\ row.code \in ended' \cup {c}
      BY <2>2
    <3>6. OwnRowOnly(s)
      BY <1>0, <3>1, <3>3, <3>4, <3>5 DEF OwnRowOnly
    <3> QED BY <2>2, <3>1, <3>3, <3>5, <3>6
  <2> QED BY <1>0, <2>1, <2>2 DEF BumpAttempts
<1>7. \A k \in Keys : codes'[k].code # None => codes'[k].code = codes[k].code
  BY <1>0, <1>6 DEF OwnRowOnly
<1>8. OneUse'
  <2>1. at \in Reading => req'[s].id = req[s].id /\ req'[s].got = req[s].got
    BY <1>0, <1>4 DEF Moves, Key, Reading, Over
  <2> QED BY <1>1, <1>4, <1>5, <1>7, <2>1, ReaderUses DEF Reading
<1>9. \A d \in Codes \ {c} : CodeOK(d)'
  BY <1>0, <1>1, <1>4, <1>5, <1>6, ReaderOthers
<1>10. \A k \in Keys : KeyOK(k)'
  <2>1. \/ codes'[key].bad < MaxAttempts
        \/ codes'[key] = codes[key]
        \/ at = "kill" /\ Key(s)' = key
    BY <1>4, <1>6
  <2>2. slipped \subseteq slipped' /\ ~At(s, "kill")
    BY <1>1, <1>5 DEF At
  <2> QED BY <1>0, <1>4, <1>6, <2>1, <2>2, ReaderKeys
<1>11. /\ Readers(c)' \subseteq Readers(c) /\ Bumping(c)' = Bumping(c) \ {s} /\ s \in Bumping(c)
       /\ \A t \in Readers(c) \ {s} : req'[t].at = req[t].at
       /\ req'[s].at = at
  <2>1. at \in Reading => req'[s].got = req[s].got
    BY <1>4 DEF Moves, Reading, Over
  <2>2. s \in Bumping(c) /\ req'[s].at = at
    BY <1>1, <1>2, <1>4 DEF Bumping, Moves
  <2>3. Moves(s, at) /\ req[s].at \in Reading /\ req[s].got.code = c
    BY <1>0, <1>1, <1>4
  <2>4. at # "bump" /\ at \in {"kill", "err"}
    BY <1>4
  <2>5. /\ Readers(c)' = IF at \in Reading THEN Readers(c) ELSE Readers(c) \ {s}
        /\ Bumping(c)' = Bumping(c) \ {s}
        /\ \A t \in Readers(c) \ {s} : req'[t].at = req[t].at
    BY <2>1, <2>3, <2>4, ReaderMoves
  <2> QED BY <2>2, <2>5
<1>12. /\ row.code = c => row # NoCode /\ RowsOf(c) = {key} /\ RowsOf(c)' = {key} /\ codes'[key].bad = row.bad + 1
       /\ row.code # c => RowsOf(c) = {} /\ RowsOf(c)' = {}
  <2>1. NoCode.code = None
    BY DEF NoCode
  <2>2. \A k \in Keys \ {key} : codes'[k] = codes[k]
    BY <1>0, <1>6 DEF OwnRowOnly
  <2>3. row.code # c => RowsOf(c) = {}
    BY <1>0, <1>2 DEF RowsOf
  <2>4. \A k \in Keys : codes'[k].code = codes[k].code
    BY <1>0, <1>6, <2>2
  <2>5. RowsOf(c)' = RowsOf(c)
    BY <2>4 DEF RowsOf
  <2> QED BY <1>0, <1>2, <1>6, <2>1, <2>3, <2>5
<1>13. CodeOK(c)
  BY <1>2 DEF CodesInv
<1>14. /\ IsFiniteSet(Bumping(c)') /\ Cardinality(Bumping(c)') = Cardinality(Bumping(c)) - 1
       /\ Cardinality(Bumping(c)) \in Nat /\ Cardinality(Bumping(c)') \in Nat
  BY <1>11, <1>13, FS_RemoveElement, FS_CardinalityType DEF CodeOK
<1>15. tries[c] \in Nat
  BY <1>1, <1>2 DEF TypeOK
<1>16. Alone(c)'
  <2>1. SUFFICES ASSUME c \notin slipped' PROVE Alone(c)'
    BY DEF Alone
  <2>2. used[c] = 0 /\ Readers(c) = {s} /\ tries[c] <= MaxAttempts /\ \A k \in RowsOf(c) : tries[c] <= codes[k].bad + 1
    BY <1>2, <1>5, <1>11, <1>13, <2>1 DEF CodeOK, Alone
  <2>3. Bumping(c) \subseteq {s} /\ Bumping(c)' = {}
    BY <1>11, <2>2 DEF Bumping
  <2>4. \A k \in RowsOf(c)' : tries[c] <= codes'[k].bad + 0
    BY <1>0, <1>3, <1>12, <2>2
  <2>5. \A t \in Readers(c)' : t = s /\ ~At(t, "consume")' /\ Readers(c)' = {t}
    BY <1>4, <1>11, <2>2 DEF At
  <2> QED BY <1>5, <1>15, <2>2, <2>3, <2>4, <2>5 DEF Alone
<1>17. Delivered(c)'
  <2>1. SUFFICES ASSUME Sent(c), c \notin ended
                 PROVE  /\ \A k \in RowsOf(c)' : codes'[k].bad + Cardinality(Bumping(c)') <= tries'[c]
                        /\ RowsOf(c)' = {} => Dead(c)'
                        /\ \A t \in Readers(c)' : At(t, "kill")' => Dead(c)'
    <3>1. Sent(c)' => Sent(c)
      BY <1>4, <1>5 DEF Sent, At, Moves
    <3>2. ended \subseteq ended'
      BY <1>6 DEF OwnRowOnly
    <3> QED BY <3>1, <3>2 DEF Delivered
  <2>2. /\ \A k \in RowsOf(c) : codes[k].bad + Cardinality(Bumping(c)) <= tries[c]
        /\ RowsOf(c) = {} => Dead(c)
        /\ \A t \in Readers(c) : At(t, "kill") => Dead(c)
    BY <1>13, <2>1 DEF CodeOK, Delivered
  <2>3. Dead(c)' <=> Dead(c)
    BY <1>5 DEF Dead
  <2>4. CASE row.code # c
    BY <1>12, <2>2, <2>3, <2>4
  <2>5. CASE row.code = c
    <3>1. row.bad + Cardinality(Bumping(c)) <= tries[c]
      BY <1>0, <1>12, <2>2, <2>5
    <3>2. \A k \in RowsOf(c)' : codes'[k].bad + Cardinality(Bumping(c)') <= tries'[c]
      BY <1>3, <1>5, <1>12, <1>14, <1>15, <2>5, <3>1
    <3>3. at = "kill" => Dead(c)
      BY <1>3, <1>4, <1>14, <1>15, <3>1 DEF Dead
    <3>4. \A t \in Readers(c)' : At(t, "kill")' => Dead(c)
      BY <1>11, <2>2, <3>3 DEF At
    <3> QED BY <1>12, <2>3, <2>5, <3>2, <3>4
  <2> QED BY <2>4, <2>5
<1> QED BY <1>8, <1>9, <1>10, <1>14, <1>16, <1>17 DEF CodesInv, CodeOK

LEMMA GetCodes ==
  ASSUME AddressInv, CodesInv, NEW s \in Slots, GetCode(s)
  PROVE  CodesInv'
<1>0. PICK key, row, c : key = Key(s) /\ row = codes[key] /\ c = row.code
  OBVIOUS
<1>1. /\ TypeOK /\ At(s, "check") /\ req[s].at = "check" /\ req[s].at \notin Over /\ AskedOf(s) /\ req[s] \in Requests
  BY UnderWay DEF GetCode, At, Over, AddressInv
<1>2. key \in Keys
  BY <1>0, <1>1 DEF Key, Keys, AskedOf, Requests, NoAccountYet
<1>3. row \in Rows /\ row.bad \in Nat /\ c \in Codes \cup {None}
  BY <1>0, <1>1, <1>2 DEF TypeOK, Rows
<1>4. UNCHANGED <<users, codes, link, signup, told, proven, used, ended>>
  BY DEF GetCode
<1>5. slipped' = IF Checking(key) # {} THEN slipped \cup {c} ELSE slipped
  BY <1>0 DEF GetCode
<1>6. CASE c = None \/ row.age = "over"
  <2>1. Answer(s, "err") /\ tries' = tries
    BY <1>0, <1>6 DEF GetCode
  <2>2. Moves(s, "err")
    BY <1>1, <2>1, AnswerMoves DEF Over
  <2>3. StillReaders
    BY <1>1, <2>2 DEF StillReaders, Moves, Reading
  <2>4. ASSUME NEW d \in Codes PROVE CodeOK(d)'
    <3>1. Readers(d)' = Readers(d) /\ Bumping(d)' = Bumping(d) /\ \A t \in Readers(d) : req'[t].at = req[t].at
      BY <2>3, StillSame
    <3>2. RowsOf(d)' = RowsOf(d) /\ (Sent(d)' => Sent(d))
      BY <1>1, <1>4, <2>2 DEF RowsOf, Sent, At, Moves
    <3>3. \A k \in RowsOf(d) : codes[k].bad \in Nat
      BY <1>1 DEF RowsOf, TypeOK, Rows
    <3>4. Same(d)
      BY <1>4, <1>5, <2>1, <3>1, <3>2, <3>3 DEF Same
    <3> QED BY <1>1, <1>4, <3>4, SameKeeps DEF CodesInv, TypeOK
  <2>5. OneUse'
    <3>1. ASSUME NEW x, NEW k, Use(x, k)' PROVE Use(x, k)
      <4>1. \A t \in Slots : req'[t].at \in Reading \cup {"mail"} => req'[t] = req[t]
        BY <1>1, <2>2 DEF Moves, Reading
      <4> QED BY <1>4, <3>1, <4>1 DEF Use, Key, At
    <3>2. \A t \in Slots : Early(t)' => Early(t)
      BY <2>2 DEF Early, At, Moves, Before
    <3> QED BY <1>4, <2>1, <3>1, <3>2, OneUseKept DEF CodesInv
  <2>6. ASSUME NEW k \in Keys PROVE KeyOK(k)'
    <3>1. \A t \in Slots : At(t, "kill") => req'[t] = req[t]
      BY <2>3 DEF StillReaders, At, Reading
    <3> QED BY <1>4, <1>5, <3>1 DEF CodesInv, KeyOK, At, Key
  <2> QED BY <2>4, <2>5, <2>6 DEF CodesInv
<1>7. CASE c # None /\ row.age # "over"
  <2>1. PICK at \in {"consume", "bump"} :
          /\ req' = [req EXCEPT ![s].at = at, ![s].got = row]
          /\ tries' = IF at = "bump" THEN [tries EXCEPT ![c] = tries[c] + 1] ELSE tries
    BY <1>0, <1>7 DEF GetCode
  <2> DEFINE new == [req[s] EXCEPT !.at = at, !.got = row]
  <2>2. /\ new.at = at /\ new.id = req[s].id /\ new.purpose = req[s].purpose /\ new.got = row
    BY <1>1 DEF Requests
  <2>3. req' = [req EXCEPT ![s] = new]
    BY <1>1, <2>1, Zenon DEF TypeOK
  <2> HIDE DEF new
  <2>4. req'[s] = new /\ \A t \in Slots \ {s} : req'[t] = req[t]
    BY <1>1, <2>3 DEF TypeOK
  <2>5. Key(s)' = key /\ req'[s].got.code = c /\ req'[s].at = at /\ at \in Reading
    BY <1>0, <2>2, <2>4 DEF Key, Reading
  <2>6. Use(c, key) /\ c \in Codes
    BY <1>0, <1>2, <1>3, <1>7 DEF Use
  <2>7. \A t \in Slots : ~Early(t) \/ c # t
    BY <2>6 DEF CodesInv, OneUse
  <2>8. tries \in [Codes -> Nat] /\ \A d \in Codes \ {c} : tries'[d] = tries[d]
    BY <1>1, <2>1 DEF TypeOK
  <2>9. ASSUME NEW x, NEW k, Use(x, k)' PROVE Use(x, k)
    <3>1. CASE k \in Keys /\ codes'[k].code = x /\ x # None
      BY <1>4, <3>1 DEF Use
    <3>2. CASE \E t \in Slots : req'[t].at \in Reading /\ req'[t].got.code = x /\ Key(t)' = k
      <4>1. PICK t \in Slots : req'[t].at \in Reading /\ req'[t].got.code = x /\ Key(t)' = k
        BY <3>2
      <4>2. CASE t = s
        BY <2>5, <2>6, <4>1, <4>2
      <4>3. CASE t # s
        BY <2>4, <4>1, <4>3 DEF Use, Key
      <4> QED BY <4>2, <4>3
    <3>3. CASE x \in Codes /\ told'[x] # NoCode /\ told'[x].key = k
      BY <1>4, <3>3 DEF Use
    <3>4. CASE x \in Slots /\ At(x, "mail")' /\ Key(x)' = k
      BY <2>4, <2>5, <3>4 DEF Use, At, Key, Reading
    <3> QED BY <2>9, <3>1, <3>2, <3>3, <3>4 DEF Use
  <2>10. OneUse'
    <3>1. \A t \in Slots : Early(t)' => Early(t)
      BY <2>4, <2>5 DEF Early, At, Before, Reading
    <3>2. \A t \in Slots : Early(t)' => used'[t] = used[t] /\ tries'[t] = tries[t]
      BY <1>4, <2>7, <2>8, <3>1 DEF Codes
    <3> QED BY <2>9, <3>1, <3>2, OneUseKept DEF CodesInv
  <2>11. ASSUME NEW k \in Keys PROVE KeyOK(k)'
    <3>1. \A t \in Slots : At(t, "kill") => req'[t] = req[t]
      BY <1>1, <2>4 DEF At
    <3> QED BY <1>4, <1>5, <3>1 DEF CodesInv, KeyOK, At, Key
  <2>12. ASSUME NEW d \in Codes \ {c} PROVE CodeOK(d)'
    <3>1. Readers(d)' = Readers(d) /\ Bumping(d)' = Bumping(d)
      BY <1>1, <2>4, <2>5 DEF Readers, Bumping, At, Reading
    <3>2. \A t \in Readers(d) : req'[t].at = req[t].at
      BY <1>1, <2>4 DEF Readers, Reading
    <3>3. RowsOf(d)' = RowsOf(d) /\ (Sent(d)' => Sent(d))
      BY <1>4, <2>4, <2>5 DEF RowsOf, Sent, At, Reading
    <3>4. \A k \in RowsOf(d) : codes[k].bad \in Nat
      BY <1>1 DEF RowsOf, TypeOK, Rows
    <3>5. Same(d)
      BY <1>4, <1>5, <2>8, <3>1, <3>2, <3>3, <3>4 DEF Same
    <3> QED BY <1>1, <1>4, <3>5, SameKeeps DEF CodesInv, TypeOK
  <2>13. CodeOK(c)'
    <3>1. CodeOK(c) /\ RowsOf(c) = {key} /\ RowsOf(c)' = {key} /\ tries[c] \in Nat /\ MaxAttempts \in Nat
      <4>1. \A k \in RowsOf(c) : k = key
        BY <1>7, <2>6 DEF RowsOf, CodesInv, OneUse, Use
      <4> QED BY <1>0, <1>2, <1>4, <2>6, <2>8, <4>1, AccountsAssumption DEF CodesInv, RowsOf
    <3>2. /\ Readers(c)' = Readers(c) \cup {s} /\ s \notin Readers(c) /\ s \notin Bumping(c)
          /\ Bumping(c)' = IF at = "bump" THEN Bumping(c) \cup {s} ELSE Bumping(c)
          /\ \A t \in Readers(c) : req'[t].at = req[t].at
      BY <1>1, <2>4, <2>5 DEF Readers, Bumping, At, Reading
    <3>3. /\ IsFiniteSet(Bumping(c)') /\ Cardinality(Bumping(c)) \in Nat
          /\ Cardinality(Bumping(c)') = IF at = "bump" THEN Cardinality(Bumping(c)) + 1 ELSE Cardinality(Bumping(c))
      BY <3>1, <3>2, FS_AddElement, FS_CardinalityType DEF CodeOK
    <3>4. tries'[c] = IF at = "bump" THEN tries[c] + 1 ELSE tries[c]
      BY <2>1, <2>6, <2>8
    <3>5. Alone(c)'
      <4>1. SUFFICES ASSUME c \notin slipped' PROVE Alone(c)'
        BY DEF Alone
      <4>2. Checking(key) = {} /\ c \notin slipped
        BY <1>5, <4>1
      <4>3. Readers(c) = {}
        <5>1. \A t \in Readers(c) : Use(c, Key(t)) /\ t \in Slots /\ req[t].at \in Reading
          BY DEF Readers, Use
        <5>2. \A t \in Readers(c) : Key(t) = key
          BY <2>6, <5>1 DEF CodesInv, OneUse
        <5> QED BY <4>2, <5>1, <5>2 DEF Checking, Reading
      <4>4. row.bad < MaxAttempts
        <5>1. ~\E t \in Slots : At(t, "kill") /\ Key(t) = key
          BY <4>2 DEF Checking, At
        <5> QED BY <1>0, <1>2, <1>3, <1>7, <3>1, <4>2, <5>1 DEF CodesInv, KeyOK
      <4>5. Bumping(c) = {}
        BY <4>3 DEF Bumping
      <4>6. used[c] = 0 /\ tries[c] <= row.bad
        BY <1>0, <1>3, <3>1, <4>2, <4>5 DEF CodeOK, Alone
      <4>7. used'[c] = 0 /\ Readers(c)' = {s} /\ codes'[key].bad = row.bad
        BY <1>0, <1>4, <3>2, <4>3, <4>6
      <4>8. CASE at = "bump"
        <5>1. Bumping(c)' = {s} /\ tries'[c] = tries[c] + 1 /\ ~At(s, "consume")'
          BY <2>5, <3>2, <3>4, <4>5, <4>8 DEF At
        <5>2. tries'[c] <= MaxAttempts /\ tries'[c] <= row.bad + 1
          BY <1>3, <3>1, <4>4, <4>6, <5>1
        <5> QED BY <3>1, <4>7, <5>1, <5>2 DEF Alone
      <4>9. CASE at # "bump"
        <5>1. Bumping(c)' = {} /\ tries'[c] = tries[c] /\ tries[c] < MaxAttempts /\ tries[c] <= row.bad + 0
          BY <1>3, <3>1, <3>2, <3>4, <4>4, <4>5, <4>6, <4>9
        <5> QED BY <3>1, <4>7, <5>1 DEF Alone
      <4> QED BY <4>8, <4>9
    <3>6. Delivered(c)'
      <4>1. Sent(c)' => Sent(c)
        BY <1>4, <2>4, <2>5 DEF Sent, At, Reading
      <4>2. SUFFICES ASSUME Sent(c), c \notin ended PROVE Delivered(c)'
        BY <1>4, <4>1 DEF Delivered
      <4>3. /\ row.bad + Cardinality(Bumping(c)) <= tries[c]
            /\ \A t \in Readers(c) : At(t, "kill") => Dead(c)
        BY <1>0, <3>1, <4>2 DEF CodeOK, Delivered
      <4>4. codes'[key].bad + Cardinality(Bumping(c)') <= tries'[c]
        BY <1>0, <1>3, <1>4, <3>1, <3>3, <3>4, <4>3
      <4>5. Dead(c) => Dead(c)'
        BY <1>4, <3>1, <3>4 DEF Dead
      <4>6. \A t \in Readers(c)' : At(t, "kill")' => Dead(c)'
        BY <2>5, <3>2, <4>3, <4>5 DEF At
      <4> QED BY <3>1, <4>4, <4>6 DEF Delivered
    <3> QED BY <3>3, <3>5, <3>6 DEF CodeOK
  <2> QED BY <2>10, <2>11, <2>12, <2>13 DEF CodesInv
<1> QED BY <1>6, <1>7

LEMMA CodesInit == Init => CodesInv
<1> SUFFICES ASSUME Init PROVE CodesInv
  OBVIOUS
<1>1. PICK u \in Ids, e \in Emails, p \in Purposes, to \in Emails, pw, v, adm \in BOOLEAN, bad \in 0 .. MaxAttempts - 1 :
        /\ p \in {"email", "admin"} => v
        /\ p = "admin" => adm
        /\ (to = e) <=> p # "email"
        /\ pw \/ v
        /\ tries = [c \in Codes |-> IF c = First THEN bad ELSE 0]
        /\ users = [x \in Ids |-> IF x = u THEN [User(e, pw, v) EXCEPT !.admin = adm] ELSE NoUser]
        /\ codes = [k \in Keys |-> IF k = <<u, p>> THEN [NewCode(First, to) EXCEPT !.age = "old", !.bad = bad] ELSE NoCode]
        /\ told = [c \in Codes |-> IF c = First THEN [key |-> <<u, p>>, to |-> to] ELSE NoCode]
        /\ proven = IF v THEN {<<u, e>>} ELSE {}
  BY Zenon DEF Init
<1>2. PICK key : key = <<u, p>>
  OBVIOUS
<1> DEFINE row == [NewCode(First, to) EXCEPT !.age = "old", !.bad = bad]
<1>3. row.code = First /\ row.bad = bad /\ NoCode.code = None /\ bad \in Nat /\ bad < MaxAttempts /\ MaxAttempts \in Nat
      /\ First # None /\ First \notin Slots /\ key \in Keys /\ None \notin Codes
  BY <1>2, AccountsAssumption DEF NewCode, NoCode, Keys, Codes
<1>4. codes = [k \in Keys |-> IF k = key THEN row ELSE NoCode]
  BY <1>1, <1>2
<1> HIDE DEF row
<1>5. codes[key] = row /\ \A k \in Keys \ {key} : codes[k].code = None
  BY <1>3, <1>4
<1>6. told = [c \in Codes |-> IF c = First THEN [key |-> key, to |-> to] ELSE NoCode]
  BY <1>1, <1>2
<1>7. told[First].key = key /\ \A c \in Codes \ {First} : told[c] = NoCode
  BY <1>6 DEF Codes
<1>8. req = [s \in Slots |-> [at |-> "unused"]] /\ used = [c \in Codes |-> 0]
  BY DEF Init
<1>9. \A s \in Slots : req[s].at = "unused"
  BY <1>8
<1>10. \A c : Readers(c) = {} /\ Bumping(c) = {}
  BY <1>9 DEF Readers, Bumping, Reading
<1>11. ASSUME NEW c, NEW k, Use(c, k) PROVE c = First /\ k = key
  BY <1>3, <1>5, <1>7, <1>9, <1>11 DEF Use, At, Reading
<1>12. OneUse
  BY <1>1, <1>3, <1>8, <1>11 DEF OneUse, Codes
<1>13. ASSUME NEW c \in Codes PROVE CodeOK(c)
  <2>1. RowsOf(c) = IF c = First THEN {key} ELSE {}
    BY <1>3, <1>5 DEF RowsOf
  <2>2. used[c] = 0 /\ tries[c] = IF c = First THEN bad ELSE 0
    BY <1>1, <1>8
  <2>3. IsFiniteSet(Bumping(c)) /\ Cardinality(Bumping(c)) = 0
    BY <1>10, FS_EmptySet
  <2>4. Alone(c)
    BY <1>3, <1>5, <1>10, <2>1, <2>2 DEF Alone
  <2>5. Sent(c) => c = First
    BY <1>7, <1>9 DEF Sent, At
  <2>6. Delivered(c)
    BY <1>3, <1>5, <1>10, <2>1, <2>2, <2>3, <2>5 DEF Delivered
  <2> QED BY <2>3, <2>4, <2>6 DEF CodeOK
<1>14. \A k \in Keys : KeyOK(k)
  BY <1>3, <1>5 DEF KeyOK
<1> QED BY <1>12, <1>13, <1>14 DEF CodesInv

LEMMA CodesStep == AddressInv /\ CodesInv /\ [Next]_vars => CodesInv'
<1> SUFFICES ASSUME AddressInv, CodesInv, [Next]_vars PROVE CodesInv'
  OBVIOUS
<1>1. CASE UNCHANGED vars
  <2>1. StillReaders
    BY <1>1 DEF StillReaders, vars
  <2>2. Fades
    BY <1>1 DEF Fades, vars, history, AddressInv, TypeOK, Early, At
  <2> QED BY <2>1, <2>2, FadesKeep
<1>2. ASSUME NEW s \in Slots, Step(s) PROVE CodesInv'
  BY <1>2, StartQuiet, QuietSteps, PutCodes, MailCodes, InUseCodes, GetCodes, BumpCodes, KillCodes, ConsumeCodes,
     DeleteCodes, FailCodes DEF Step
<1>3. CASE (\E k \in Keys : CodeAges(k)) \/ DeleteExpiredEmailCodes
  BY <1>3, TimeCodes
<1> QED BY <1>1, <1>2, <1>3 DEF Next

-----------------------------------------------------------------------------
(* The results.                                                             *)

LEMMA BothAlways == Spec => [](AddressInv /\ CodesInv)
<1>1. Init => AddressInv /\ CodesInv
  BY AddressInit, CodesInit
<1>2. (AddressInv /\ CodesInv) /\ [Next]_vars => (AddressInv /\ CodesInv)'
  BY AddressStep, CodesStep
<1> QED BY <1>1, <1>2, PTL DEF Spec

\* Types, one account for an address, and a verified account only for an
\* address that was proven to be its own; with what this rests on
\* (accounts.go, VerifyEmail, ConfirmEmailChange, GoogleSignIn).
THEOREM AccountsInvHolds == Spec => []AccountsInv
<1>1. AddressInv /\ CodesInv => AccountsInv
  BY CodesAre DEF AddressInv, AccountsInv
<1> QED BY <1>1, BothAlways, PTL

\* A code is accepted once and dies after MaxAttempts wrong guesses, unless two
\* requests check it at the same time, or the statement that counts a guess at
\* it or removes it after the last one fails (accounts.go, checkCodeFor).
THEOREM CodeLimitsHold == Spec => []CodeLimits
<1>1. AddressInv /\ CodesInv => CodeLimits
  BY CodesAre
<1> QED BY <1>1, BothAlways, PTL

\* A code that was mailed works until it is used, guessed at too often,
\* replaced, expired, or hit by a check of another that was under way
\* (accounts.go, sendCode, checkCodeFor).
THEOREM MailedCodeWorksHolds == Spec => []MailedCodeWorks
<1>1. AddressInv /\ CodesInv => MailedCodeWorks
  BY CodesAre
<1> QED BY <1>1, BothAlways, PTL
=============================================================================
