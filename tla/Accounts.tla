------------------------------ MODULE Accounts ------------------------------
(***************************************************************************)
(* Accounts and the codes mailed to prove an address: AccountService of    *)
(* internal/auth/accounts.go with the statements of accounts.sql.go and    *)
(* users.sql.go.  Sessions, which most requests end in, are in module      *)
(* Sessions; what else the deletion of an account does is in Groups.       *)
(*                                                                         *)
(* A request occupies a slot of req and takes one step per statement or    *)
(* mail.  A slot makes at most one code, so slots name the codes; two      *)
(* codes are never the same six digits.  A password is there or not.       *)
(* Time: a code is new for codeResendGap, then old, and over after         *)
(* codeTTL.                                                                *)
(***************************************************************************)
EXTENDS Naturals, FiniteSets

CONSTANTS Ids,          \* ids of accounts (bound: accounts in a behaviour)
          Emails,       \* addresses
          Google,       \* the address of the one Google account
          Slots,        \* bound: requests in a behaviour
          First,        \* the code that was mailed before
          None,         \* no account, no code, a wrong guess
          MaxAttempts   \* codeMaxAttempts

ASSUME AccountsAssumption == /\ Google \in Emails
                             /\ MaxAttempts \in Nat \ {0}
                             /\ First \notin Slots /\ None \notin Slots \cup {First} \cup Ids

VARIABLES users,    \* table users: id -> row
          codes,    \* email_codes: <<id, purpose>> -> row
          link,     \* user_identities: the account of the Google account, or None
          signup,   \* a signup token was given to the owner of the Google account
          req,      \* slot -> the request it runs
          told,     \* history: code -> [id, purpose, to] once it was mailed
          proven,   \* history: <<id, address>> shown to belong together
          used,     \* history: code -> times it was accepted
          tries,    \* history: code -> wrong guesses compared with it
          slipped,  \* history: codes with a guess that may not have counted: two requests
                    \* checked it at a time, or the count or the removal failed
          ended     \* history: codes replaced, expired, or hit by the check of another code

history == <<told, proven, used, tries, slipped, ended>>
vars == <<users, codes, link, signup, req, history>>

Purposes == {"verify", "reset", "admin", "email"}
Codes == Slots \cup {First}
Keys == Ids \X Purposes

-----------------------------------------------------------------------------
NoUser == [st |-> "none"]
Deleted == [st |-> "deleted"]
User(email, pw, verified) == [st |-> "there", email |-> email, pw |-> pw, verified |-> verified, admin |-> FALSE]

There == {u \in Ids : users[u].st = "there"}

\* GetUserByEmail: the account of an address, if any.
Having(email) == {u \in There : users[u].email = email}

NoCode == [code |-> None, to |-> None, bad |-> 0, age |-> "none"]
NewCode(code, to) == [code |-> code, to |-> to, bad |-> 0, age |-> "new"]

At(s, step) == req[s].at = step
Goto(s, step) == req' = [req EXCEPT ![s].at = step]
Answer(s, result) == req' = [req EXCEPT ![s] = [at |-> result]]

Over == {"unused", "ok", "err"}

Request(op, at, id, email, purpose, guess) ==
    [op |-> op, at |-> at, id |-> id, email |-> email, purpose |-> purpose, guess |-> guess, got |-> NoCode]

Key(s) == <<req[s].id, req[s].purpose>>

\* Requests that have read a code and not finished with it.
Checking(key) == {t \in Slots : req[t].at \in {"bump", "kill", "consume"} /\ Key(t) = key}

\* An account, possibly the admin's, that was mailed a code some time ago, and
\* guessed at since.
Init == /\ \E u \in Ids, e \in Emails, p \in Purposes, to \in Emails, pw, v, adm \in BOOLEAN, bad \in 0 .. MaxAttempts - 1 :
              /\ p \in {"email", "admin"} => v
              /\ p = "admin" => adm
              /\ (to = e) <=> p # "email"
              /\ pw \/ v
              /\ tries = [c \in Codes |-> IF c = First THEN bad ELSE 0]
              /\ users = [x \in Ids |-> IF x = u THEN [User(e, pw, v) EXCEPT !.admin = adm] ELSE NoUser]
              /\ codes = [k \in Keys |-> IF k = <<u, p>> THEN [NewCode(First, to) EXCEPT !.age = "old", !.bad = bad] ELSE NoCode]
              /\ told = [c \in Codes |-> IF c = First THEN [key |-> <<u, p>>, to |-> to] ELSE NoCode]
              /\ proven = IF v THEN {<<u, e>>} ELSE {}
        /\ link = None
        /\ signup = FALSE
        /\ req = [s \in Slots |-> [at |-> "unused"]]
        /\ used = [c \in Codes |-> 0]
        /\ slipped = {}
        /\ ended = {}

\* A code someone may type: one that was mailed, or a wrong one.
Guesses(p) == {c \in Codes : told[c] # NoCode /\ told[c].key[2] = p} \cup {None}

\* A handler decodes its request and calls the service.
Ask(s, op, at, id, e, p, g) == req' = [req EXCEPT ![s] = Request(op, at, id, e, p, g)]

\* The handlers anyone may call.
AskRegister(s) == \E e \in Emails : Ask(s, "register", "register", None, e, "verify", None)
AskResend(s) == \E e \in Emails : Ask(s, "resend", "lookup", None, e, "verify", None)
AskVerify(s) == \E e \in Emails, g \in Guesses("verify") : Ask(s, "verify", "lookup", None, e, "verify", g)
AskForgot(s) == \E e \in Emails : Ask(s, "forgot", "lookup", None, e, "reset", None)
AskReset(s) == \E e \in Emails, g \in Guesses("reset") : Ask(s, "reset", "lookup", None, e, "reset", g)
AskAdminLogin(s) == \E e \in Emails : Ask(s, "adminStart", "lookup", None, e, "admin", None)
AskAdminVerify(s) == \E e \in Emails, g \in Guesses("admin") : Ask(s, "adminVerify", "lookup", None, e, "admin", g)

\* By someone who holds a token of Google, or the token to complete a signup.
AskGoogle(s) == Ask(s, "google", "google", None, Google, "verify", None)
AskComplete(s) == signup /\ Ask(s, "complete", "complete", None, Google, "verify", None)

\* Signed in: Login and the other ways in need a verified account.
AskStartChange(s) == \E u \in There, e \in Emails : users[u].verified /\ Ask(s, "startChange", "reauth", u, e, "email", None)
AskConfirm(s) == \E u \in There, g \in Guesses("email") :
                     users[u].verified /\ Ask(s, "confirm", "check", u, users[u].email, "email", g)
AskDelete(s) == \E u \in There : users[u].verified /\ Ask(s, "delete", "reauth", u, users[u].email, "verify", None)

Start(s) ==
    /\ At(s, "unused")
    /\ \/ AskRegister(s) \/ AskResend(s) \/ AskVerify(s) \/ AskForgot(s) \/ AskReset(s)
       \/ AskAdminLogin(s) \/ AskAdminVerify(s) \/ AskGoogle(s) \/ AskComplete(s)
       \/ AskStartChange(s) \/ AskConfirm(s) \/ AskDelete(s)
    /\ UNCHANGED <<users, codes, link, signup, history>>

-----------------------------------------------------------------------------
(* Who is asked about.                                                      *)

\* users.Register: the account, or the address is taken, or the name is.
CreateUser(s) ==
    /\ At(s, "register")
    /\ \/ /\ Having(req[s].email) = {}
          /\ \E u \in Ids : /\ users[u] = NoUser
                            /\ users' = [users EXCEPT ![u] = User(req[s].email, TRUE, FALSE)]
                            /\ req' = [req EXCEPT ![s].at = "gap", ![s].id = u]
       \/ Having(req[s].email) # {} /\ Goto(s, "existing") /\ UNCHANGED users
       \/ Answer(s, "err") /\ UNCHANGED users
    /\ UNCHANGED <<codes, link, signup, history>>

\* Register for a taken address: the owner is told, or gets another code.
Existing(s) ==
    /\ At(s, "existing")
    /\ \/ Having(req[s].email) = {} /\ Answer(s, "err")
       \/ \E u \in Having(req[s].email) :
             IF users[u].verified THEN Answer(s, "ok") ELSE req' = [req EXCEPT ![s].at = "gap", ![s].id = u]
    /\ UNCHANGED <<users, codes, link, signup, history>>

\* Requests about an address: what they need of its account.
Serves(op, u) == CASE op = "resend" -> ~users[u].verified
                   [] op = "adminStart" -> users[u].pw /\ users[u].admin
                   [] op = "adminVerify" -> users[u].admin
                   [] OTHER -> TRUE

Lookup(s) ==
    /\ At(s, "lookup")
    /\ LET op == req[s].op
           found == {u \in Having(req[s].email) : Serves(op, u)}
       IN  \/ found = {} /\ Answer(s, IF op \in {"resend", "forgot"} THEN "ok" ELSE "err")
           \/ \E u \in found :
                 req' = [req EXCEPT ![s].at = IF op \in {"verify", "reset", "adminVerify"} THEN "check" ELSE "gap", ![s].id = u]
           \/ op = "adminStart" /\ Answer(s, "err")
    /\ UNCHANGED <<users, codes, link, signup, history>>

-----------------------------------------------------------------------------
(* sendCode.                                                                *)

\* Not again within codeResendGap; a read that fails finds no code.
ResendGap(s) ==
    /\ At(s, "gap")
    /\ \/ codes[Key(s)].age = "new" /\ Answer(s, IF req[s].op = "startChange" THEN "err" ELSE "ok")
       \/ Goto(s, IF req[s].op = "startChange" THEN "inUse" ELSE "put")
    /\ UNCHANGED <<users, codes, link, signup, history>>

\* A mistake: a new code inherits the wrong guesses of the one it replaces.
KeepAttempts(old, new) == [new EXCEPT !.bad = old.bad]

\* ON CONFLICT DO UPDATE SET ... attempts = 0.
UpsertEmailCode(old, new) == new

Store(s, row) == /\ codes' = [codes EXCEPT ![Key(s)] = UpsertEmailCode(codes[Key(s)], row)]
                 /\ ended' = ended \cup {codes[Key(s)].code}

\* The row needs its account (foreign key).
PutCode(s) ==
    /\ At(s, "put")
    /\ IF req[s].id \in There
       THEN Store(s, NewCode(s, req[s].email)) /\ Goto(s, "mail")
       ELSE Answer(s, "err") /\ UNCHANGED <<codes, ended>>
    /\ UNCHANGED <<users, link, signup, told, proven, used, tries, slipped>>

Mail(s) ==
    /\ At(s, "mail")
    /\ \/ Answer(s, "ok") /\ told' = [told EXCEPT ![s] = [key |-> Key(s), to |-> req[s].email]]
       \/ Answer(s, "err") /\ UNCHANGED told
    /\ UNCHANGED <<users, codes, link, signup, proven, used, tries, slipped, ended>>

\* The password, or a fresh token of the linked Google account.
MayReauth(u) == u \in There /\ (users[u].pw \/ link = u)

\* DeleteAccount and StartEmailChange, which needs another address.
Reauth(s) ==
    /\ At(s, "reauth")
    /\ LET u == req[s].id
       IN  \/ Answer(s, "err")
           \/ MayReauth(u) /\ req[s].op = "delete" /\ Goto(s, "delete")
           \/ MayReauth(u) /\ req[s].op = "startChange" /\ users[u].email # req[s].email /\ Goto(s, "gap")
    /\ UNCHANGED <<users, codes, link, signup, history>>

\* For an address in use a code is stored that nobody can have; no matter if that fails.
EmailInUse(s) ==
    /\ At(s, "inUse")
    /\ \/ Having(req[s].email) = {} /\ Goto(s, "put") /\ UNCHANGED <<codes, ended>>
       \/ Having(req[s].email) # {} /\ Answer(s, "ok") /\ UNCHANGED <<codes, ended>>
       \/ /\ Having(req[s].email) # {}
          /\ Answer(s, "ok")
          /\ codes' = IF req[s].id \in There THEN [codes EXCEPT ![Key(s)] = NewCode(None, req[s].email)] ELSE codes
          /\ ended' = ended \cup {codes[Key(s)].code}
    /\ UNCHANGED <<users, link, signup, told, proven, used, tries, slipped>>

-----------------------------------------------------------------------------
(* checkCodeFor.                                                            *)

GetCode(s) ==
    /\ At(s, "check")
    /\ LET row == codes[Key(s)]
           right == row.code = req[s].guess
       IN  /\ IF row.code = None \/ row.age = "over" THEN Answer(s, "err")
              ELSE req' = [req EXCEPT ![s].at = IF right THEN "consume" ELSE "bump", ![s].got = row]
           /\ tries' = IF row.code # None /\ row.age # "over" /\ ~right THEN [tries EXCEPT ![row.code] = @ + 1] ELSE tries
           /\ slipped' = IF Checking(Key(s)) # {} THEN slipped \cup {row.code} ELSE slipped
    /\ UNCHANGED <<users, codes, link, signup, told, proven, used, ended>>

\* A mistake: one guess too many.
Exhausted(n) == n > MaxAttempts

\* n >= codeMaxAttempts.
Spent(n) == n >= MaxAttempts

\* The row may be gone, or hold another code by now.
BumpAttempts(s) ==
    /\ At(s, "bump")
    /\ LET row == codes[Key(s)]
       IN  IF row = NoCode THEN Answer(s, "err") /\ UNCHANGED <<codes, ended>>
           ELSE /\ codes' = [codes EXCEPT ![Key(s)].bad = @ + 1]
                /\ ended' = IF row.code # req[s].got.code THEN ended \cup {row.code} ELSE ended
                /\ IF Spent(row.bad + 1) THEN Goto(s, "kill") ELSE Answer(s, "err")
    /\ UNCHANGED <<users, link, signup, told, proven, used, tries, slipped>>

\* DeleteCode deletes whatever code is there.
DeleteCode(s) == /\ codes' = [codes EXCEPT ![Key(s)] = NoCode]
                 /\ ended' = IF codes[Key(s)].code # req[s].got.code THEN ended \cup {codes[Key(s)].code} ELSE ended

KillCode(s) == /\ At(s, "kill")
               /\ DeleteCode(s)
               /\ Answer(s, "err")
               /\ UNCHANGED <<users, link, signup, told, proven, used, tries, slipped>>

Accepted(s) == /\ used' = [used EXCEPT ![req[s].got.code] = @ + 1]
               /\ proven' = proven \cup {<<req[s].id, req[s].got.to>>}
               /\ IF req[s].op = "adminVerify" THEN Answer(s, "ok")
                  ELSE Goto(s, CASE req[s].op = "verify" -> "verified" [] req[s].op = "reset" -> "setPassword" [] req[s].op = "confirm" -> "change")

Consume(s) == /\ At(s, "consume")
              /\ DeleteCode(s)
              /\ Accepted(s)
              /\ UNCHANGED <<users, link, signup, told, tries, slipped>>

-----------------------------------------------------------------------------
(* What a code is for.                                                      *)

SetPasswordHash(s) ==
    /\ At(s, "setPassword")
    /\ users' = IF req[s].id \in There THEN [users EXCEPT ![req[s].id].pw = TRUE] ELSE users
    /\ Goto(s, "verified")
    /\ UNCHANGED <<codes, link, signup, history>>

\* Also the end of a reset, which revokes all sessions, and of Google's step 2.
MarkVerified(s) ==
    /\ At(s, "verified")
    /\ users' = IF req[s].id \in There THEN [users EXCEPT ![req[s].id].verified = TRUE] ELSE users
    /\ IF req[s].op = "google" THEN Goto(s, "link") ELSE Answer(s, "ok")
    /\ UNCHANGED <<codes, link, signup, history>>

\* A mistake: the address is that of the code stored now.
ChangeToLatest(s) ==
    /\ At(s, "change")
    /\ LET u == req[s].id  e == codes[Key(s)].to
       IN  IF u \in There /\ e # None /\ Having(e) = {}
           THEN users' = [users EXCEPT ![u].email = e, ![u].verified = TRUE] /\ Answer(s, "ok")
           ELSE Answer(s, "err") /\ UNCHANGED users
    /\ UNCHANGED <<codes, link, signup, history>>

\* ConfirmEmailChange: the address of the code that was checked, if still free.
ChangeEmail(s) ==
    /\ At(s, "change")
    /\ LET u == req[s].id  e == req[s].got.to
       IN  IF u \in There /\ Having(e) \ {u} = {}
           THEN users' = [users EXCEPT ![u].email = e, ![u].verified = TRUE] /\ Answer(s, "ok")
           ELSE Answer(s, "err") /\ UNCHANGED users
    /\ UNCHANGED <<codes, link, signup, history>>

-----------------------------------------------------------------------------
(* Google.                                                                  *)

\* Linked already; or, also when that cannot be read, the address has an account,
\* which loses its password if it was never verified; or a token to choose a
\* username with.
GoogleSignIn(s) ==
    /\ At(s, "google")
    /\ \/ link # None /\ Answer(s, "ok") /\ UNCHANGED signup
       \/ /\ \E u \in Having(Google) : req' = [req EXCEPT ![s].id = u, ![s].at = IF users[u].verified THEN "link" ELSE "evict"]
          /\ UNCHANGED signup
       \/ Having(Google) = {} /\ signup' = TRUE /\ Answer(s, "ok")
    /\ UNCHANGED <<users, codes, link, history>>

\* SetPassword "", and all sessions end.
Evict(s) == /\ At(s, "evict")
            /\ users' = IF req[s].id \in There THEN [users EXCEPT ![req[s].id].pw = FALSE] ELSE users
            /\ proven' = proven \cup {<<req[s].id, Google>>}
            /\ Goto(s, "verified")
            /\ UNCHANGED <<codes, link, signup, told, used, tries, slipped, ended>>

CreateIdentity(s) == /\ At(s, "link")
                     /\ IF link = None /\ req[s].id \in There
                        THEN link' = req[s].id /\ Answer(s, "ok")
                        ELSE Answer(s, "err") /\ UNCHANGED link
                     /\ UNCHANGED <<users, codes, signup, history>>

\* CompleteGoogleSignup: account and identity in one transaction.
CreateGoogleUser(s) ==
    /\ At(s, "complete")
    /\ \/ /\ link = None /\ Having(Google) = {}
          /\ \E u \in Ids : /\ users[u] = NoUser
                            /\ users' = [users EXCEPT ![u] = User(Google, FALSE, TRUE)]
                            /\ link' = u
                            /\ proven' = proven \cup {<<u, Google>>}
          /\ Answer(s, "ok")
       \/ Answer(s, "err") /\ UNCHANGED <<users, link, proven>>
    /\ UNCHANGED <<codes, signup, told, used, tries, slipped, ended>>

\* DeleteUserByID: codes and identities go with the account.
DeleteUser(s) ==
    /\ At(s, "delete")
    /\ LET u == req[s].id
       IN  /\ users' = [users EXCEPT ![u] = Deleted]
           /\ codes' = [k \in Keys |-> IF k[1] = u THEN NoCode ELSE codes[k]]
           /\ ended' = ended \cup {codes[<<u, p>>].code : p \in Purposes}
           /\ link' = IF link = u THEN None ELSE link
    /\ Answer(s, "ok")
    /\ UNCHANGED <<signup, told, proven, used, tries, slipped>>

-----------------------------------------------------------------------------
\* What a failing statement leaves uncounted: the guess at the code that was
\* read, or the code stored now, which was to be removed.
Slips(s) == CASE At(s, "bump") -> {req[s].got.code}
              [] At(s, "kill") -> {codes[Key(s)].code}
              [] OTHER -> {}

\* A statement fails and ends its request.  One that takes effect and whose
\* answer is lost is that statement's step followed by this one.
Fails(s) == /\ req[s].at \notin Over
            /\ Answer(s, "err")
            /\ slipped' = slipped \cup Slips(s)
            /\ UNCHANGED <<users, codes, link, signup, told, proven, used, tries, ended>>

CodeAges(k) == /\ codes[k].age \in {"new", "old"}
               /\ codes' = [codes EXCEPT ![k].age = IF @ = "new" THEN "old" ELSE "over"]
               /\ UNCHANGED <<users, link, signup, req, history>>

\* The janitor.
DeleteExpiredEmailCodes == /\ \E k \in Keys : codes[k].age = "over"
                           /\ codes' = [k \in Keys |-> IF codes[k].age = "over" THEN NoCode ELSE codes[k]]
                           /\ ended' = ended \cup {codes[k].code : k \in {x \in Keys : codes[x].age = "over"}}
                           /\ UNCHANGED <<users, link, signup, req, told, proven, used, tries, slipped>>

Step(s) == \/ Start(s) \/ CreateUser(s) \/ Existing(s) \/ Lookup(s) \/ ResendGap(s) \/ PutCode(s) \/ Mail(s)
           \/ Reauth(s) \/ EmailInUse(s) \/ GetCode(s) \/ BumpAttempts(s) \/ KillCode(s) \/ Consume(s)
           \/ SetPasswordHash(s) \/ MarkVerified(s) \/ ChangeEmail(s)
           \/ GoogleSignIn(s) \/ Evict(s) \/ CreateIdentity(s) \/ CreateGoogleUser(s) \/ DeleteUser(s) \/ Fails(s)

Next == (\E s \in Slots : Step(s)) \/ (\E k \in Keys : CodeAges(k)) \/ DeleteExpiredEmailCodes

Spec == Init /\ [][Next]_vars
-----------------------------------------------------------------------------
Ops == {"register", "resend", "verify", "forgot", "reset", "adminStart", "adminVerify",
        "google", "complete", "startChange", "confirm", "delete"}
\* Where a request may still make a code, and where it has one in hand.
Before == {"register", "existing", "lookup", "reauth", "gap", "inUse", "put"}
Reading == {"bump", "kill", "consume"}
NoAccountYet == {"register", "existing", "lookup", "google", "complete"}
Under == Before \cup Reading \cup NoAccountYet
         \cup {"mail", "check", "setPassword", "verified", "change", "evict", "link", "delete"}

Rows == [code : Codes \cup {None}, to : Emails \cup {None}, bad : Nat, age : {"none", "new", "old", "over"}]
UserRows == [st : {"there"}, email : Emails, pw : BOOLEAN, verified : BOOLEAN, admin : BOOLEAN]
Requests == [op : Ops, at : Under, id : Ids \cup {None}, email : Emails, purpose : Purposes,
             guess : Codes \cup {None}, got : Rows]

\* The type invariant, with one account for an address.
TypeOK == /\ users \in [Ids -> {NoUser, Deleted} \cup UserRows]
          /\ \A u, v \in There : users[u].email = users[v].email => u = v
          /\ codes \in [Keys -> Rows]
          /\ link \in Ids \cup {None} /\ signup \in BOOLEAN
          /\ req \in [Slots -> [at : Over] \cup Requests]
          /\ told \in [Codes -> {NoCode} \cup [key : Keys, to : Emails]]
          /\ proven \subseteq Ids \X Emails
          /\ used \in [Codes -> Nat] /\ tries \in [Codes -> Nat]
          /\ slipped \subseteq Codes \cup {None} /\ ended \subseteq Codes \cup {None}

\* A verified account has an address that was proven to be its own: by a code
\* that was mailed to that very address, or by Google; whatever registrations,
\* changes of address and sign-ins overlap (accounts.go, VerifyEmail,
\* ConfirmEmailChange, "bound ties an email-change code to the address it was
\* sent to").
VerifiedIsProven == \A u \in There : users[u].verified => <<u, users[u].email>> \in proven

\* A code is accepted once, and dies after codeMaxAttempts wrong guesses, however
\* guesses, new codes, deletions and failing statements mix, with two exceptions,
\* both in slipped: two requests check it at the same time, as the row is read,
\* compared and only then counted or deleted; or the statement that counts a
\* guess at it, or the one that removes it after the last guess, fails, which
\* the request does not care about (accounts.go, checkCodeFor: "Wrong guesses
\* count").
CodeLimits == \A c \in Codes \ slipped : /\ used[c] <= 1
                                         /\ tries[c] <= MaxAttempts
                                         /\ used[c] > 0 => tries[c] < MaxAttempts

\* A code that was mailed works until it is used, guessed at too often,
\* replaced or expired: the checks, sends and deletions about older codes of
\* the same account do not take it away, unless they were under way when it
\* was stored, and no failing statement does (accounts.go, sendCode,
\* checkCodeFor).
MailedCodeWorks == \A c \in Codes : told[c] # NoCode =>
    \/ codes[told[c].key].code = c /\ codes[told[c].key].bad <= tries[c]
    \/ used[c] > 0 \/ tries[c] >= MaxAttempts
    \/ c \in ended

-----------------------------------------------------------------------------
(* What these rest on.                                                      *)

Busy == {s \in Slots : req[s].at \notin Over}

\* A request knows its account once it has looked it up, and what it is about.
Asked ==
  \A s \in Busy :
    /\ req[s].at \in NoAccountYet \/ (req[s].id \in Ids /\ users[req[s].id] # NoUser)
    /\ req[s].at \in NoAccountYet => req[s].id = None
    /\ req[s].purpose = "email" <=> req[s].op \in {"startChange", "confirm"}
    /\ req[s].at \in Reading \cup {"check"} => req[s].op \in {"verify", "reset", "adminVerify", "confirm"}
    /\ req[s].at \in Reading \cup {"change"} => req[s].got.code \in Codes /\ req[s].got.to \in Emails
    /\ req[s].at = "change" => <<req[s].id, req[s].got.to>> \in proven
    /\ req[s].at \in {"google", "complete", "evict"} => req[s].email = Google
    /\ req[s].at \in {"google", "complete", "evict", "setPassword", "verified"} => req[s].purpose # "email"

\* The address e was u's, and what has replaced it since was proven.
Belongs(u, e) == u \in There => users[u].email = e \/ <<u, users[u].email>> \in proven

\* All codes but those for a new address go to the account's own.
OwnAddress ==
  /\ \A k \in Keys : codes[k].code # None =>
       /\ users[k[1]] # NoUser /\ codes[k].to \in Emails
       /\ k[2] # "email" => Belongs(k[1], codes[k].to)
  /\ \A s \in Busy : req[s].at \notin NoAccountYet /\ req[s].purpose # "email" =>
       /\ Belongs(req[s].id, req[s].email)
       /\ req[s].at \in Reading => Belongs(req[s].id, req[s].got.to)
       /\ req[s].at \in {"setPassword", "verified"} /\ req[s].id \in There =>
            <<req[s].id, users[req[s].id].email>> \in proven

Readers(c) == {t \in Slots : req[t].at \in Reading /\ req[t].got.code = c}
Bumping(c) == {t \in Readers(c) : At(t, "bump")}

\* Which code is, or was, for which account and purpose.
Uses == {<<codes[k].code, k>> : k \in {l \in Keys : codes[l].code # None}}
        \cup {<<req[t].got.code, Key(t)>> : t \in {u \in Slots : req[u].at \in Reading}}
        \cup {<<c, told[c].key>> : c \in {d \in Codes : told[d] # NoCode}}
        \cup {<<s, Key(s)>> : s \in {t \in Slots : At(t, "mail")}}

\* A code is made once, for one account and purpose.
OneKey == /\ \A x, y \in Uses : x[1] = y[1] => x[2] = y[2]
          /\ \A s \in Slots : At(s, "unused") \/ req[s].at \in Before =>
               used[s] = 0 /\ tries[s] = 0 /\ \A x \in Uses : x[1] # s

\* A row that was guessed at too often is about to go; a code that never slipped
\* has counted every wrong guess but the one under way.
Counted ==
  /\ \A k \in Keys : codes[k].code \notin slipped \cup {None} /\ codes[k].bad >= MaxAttempts =>
       \E t \in Slots : At(t, "kill") /\ Key(t) = k
  /\ \A k \in Keys : LET c == codes[k].code IN c \notin slipped \cup {None} =>
       used[c] = 0 /\ tries[c] <= codes[k].bad + (IF Bumping(c) = {} THEN 0 ELSE 1)
  /\ \A t \in Slots : req[t].at \in Reading /\ req[t].got.code \notin slipped =>
       LET c == req[t].got.code
       IN used[c] = 0 /\ Readers(c) = {t} /\ (At(t, "consume") => tries[c] < MaxAttempts)

\* A code on its way or in a mailbox is stored, with no guess against it that was
\* not one at this code, or there is a reason why it is gone.
Kept ==
  \A c \in Codes :
    LET rows == {k \in Keys : codes[k].code = c}
        spent == used[c] > 0 \/ tries[c] >= MaxAttempts
    IN /\ IsFiniteSet(Bumping(c))
       /\ told[c] # NoCode \/ (c \in Slots /\ At(c, "mail")) =>
            \/ c \in ended
            \/ /\ \A k \in rows : codes[k].bad + Cardinality(Bumping(c)) <= tries[c]
               /\ rows = {} => spent
               /\ \A t \in Readers(c) : At(t, "kill") => spent

\* An address has one account, and a verified account an address that is its own.
AccountsInv == TypeOK /\ VerifiedIsProven /\ Asked /\ OwnAddress /\ OneKey /\ Counted /\ Kept
=============================================================================
