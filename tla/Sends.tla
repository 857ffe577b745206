-------------------------------- MODULE Sends --------------------------------
(***************************************************************************)
(* Sending a message: SendMessage and send of internal/chat/service.go     *)
(* with the table of running and recent sends (chat/dedupe.go), Attach,    *)
(* Forward, and DeleteMessage as far as attachments go.                    *)
(*                                                                         *)
(* The phone sends with a client id and repeats the request, with the same *)
(* content, when no answer came.  Who may send to whom is in module        *)
(* Messages; here the checks of a send pass or fail.  A slot sends at most *)
(* one message, so slots are also the ids of messages, and of the entries  *)
(* of the table (an entry belongs to the request that made it).            *)
(***************************************************************************)
EXTENDS Uploads

CONSTANTS Cids,       \* client ids
          NoCid,      \* a message that is forwarded has none
          Sender,     \* client id -> who uses it
          Carries,    \* client id -> the uploads its message carries
          MaxKeys     \* dedupe.maxKeys

VARIABLES msgs,     \* message: id -> row
          table,    \* dedupe.m: client id -> entry, or None
          entry,    \* slot -> [st, id, old]: the entry it made
          again     \* history: client ids that may be stored twice: entry dropped, or outcome unknown

sendVars == <<msgs, table, entry, again>>
vars == <<mediaVars, sendVars>>

ASSUME SendsAssumption == /\ Sender \in [Cids -> Users]
                          /\ Carries \in [Cids -> SUBSET Ids]
                          /\ NoCid \notin Cids
                          /\ MaxKeys \in Nat
-----------------------------------------------------------------------------
NoMsg == [st |-> "none"]

Stored == {m \in Slots : msgs[m] # NoMsg}

NoEntry == [st |-> "none", id |-> None, old |-> FALSE]

Send(cid) == [op |-> "send", at |-> "lookup", me |-> Sender[cid], cid |-> cid, ids |-> Carries[cid], todo |-> {}, on |-> None]

Forwarding(me, m) == [op |-> "forward", at |-> "source", me |-> me, cid |-> NoCid, ids |-> {}, todo |-> {},
                      from |-> m, src |-> None, new |-> None, pic |-> FALSE]

Init == /\ UploadsInit
        /\ msgs = [m \in Slots |-> NoMsg]
        /\ table = [c \in Cids |-> None]
        /\ entry = [s \in Slots |-> NoEntry]
        /\ again = {}

SendStart(s) == /\ At(s, "unused")
                /\ \/ \E c \in Cids : "send" \in Ops /\ req' = [req EXCEPT ![s] = Send(c)]
                   \/ \E me \in Users, m \in Stored : "forward" \in Ops /\ req' = [req EXCEPT ![s] = Forwarding(me, m)]
                   \/ \E m \in Stored : "erase" \in Ops /\ req' = [req EXCEPT ![s] = [op |-> "erase", at |-> "erase", me |-> msgs[m].from, id |-> m]]
                /\ UNCHANGED <<media, files, stills, clean, passes, loose, broken, raced, sendVars>>

-----------------------------------------------------------------------------
(* dedupe.do: one request per client id sends, the others wait for it.      *)

\* gc, under mu: everything goes when the table is too large; now and then
\* (sweep) the entries that are finished and older than DedupeWindow.
Gc(sweep) == IF Cardinality({c \in Cids : table[c] # None}) > MaxKeys
             THEN [c \in Cids |-> None]
             ELSE [c \in Cids |-> IF /\ sweep /\ table[c] # None
                                     /\ entry[table[c]].old /\ entry[table[c]].st # "running"
                                  THEN None ELSE table[c]]

\* No entry, or one past the window: this request sends.
Do(s) ==
    /\ At(s, "lookup")
    /\ \E sweep \in BOOLEAN :
          LET c == req[s].cid  kept == Gc(sweep)
          IN  IF kept[c] = None \/ entry[kept[c]].old
              THEN /\ table' = [kept EXCEPT ![c] = s]
                   /\ entry' = [entry EXCEPT ![s] = [NoEntry EXCEPT !.st = "running"]]
                   /\ Goto(s, "may")
              ELSE /\ table' = kept
                   /\ req' = [req EXCEPT ![s].at = "wait", ![s].on = kept[c]]
                   /\ UNCHANGED entry
    /\ again' = again \cup {c \in Cids : /\ table[c] # None /\ entry[table[c]].st # "err"
                                         /\ table'[c] # table[c]}
    /\ UNCHANGED <<media, files, stills, clean, passes, loose, broken, raced, msgs>>

\* A mistake: the one who waits does not look at the error.
WokenWithAnything(s) ==
    /\ At(s, "wait")
    /\ LET e == entry[req[s].on]
       IN  e.st # "running" /\ req' = [req EXCEPT ![s] = [at |-> "ok", id |-> e.id, cid |-> req[s].cid]]
    /\ UNCHANGED <<media, files, stills, clean, passes, loose, broken, raced, sendVars>>

\* The entry waited for is done: its result, or another round.
Woken(s) ==
    /\ At(s, "wait")
    /\ LET e == entry[req[s].on]
       IN  /\ e.st # "running"
           /\ IF e.st = "ok" THEN req' = [req EXCEPT ![s] = [at |-> "ok", id |-> e.id, cid |-> req[s].cid]]
              ELSE req' = [req EXCEPT ![s].at = "lookup", ![s].on = None]
    /\ UNCHANGED <<media, files, stills, clean, passes, loose, broken, raced, sendVars>>

\* ctx.Done: the phone has gone.
GivesUp(s) == /\ At(s, "wait")
              /\ Answer(s, "err")
              /\ UNCHANGED <<media, files, stills, clean, passes, loose, broken, raced, sendVars>>

\* The window of an entry passes.
WindowPasses(s) == /\ "window" \in Ops
                   /\ entry[s] # NoEntry /\ ~entry[s].old
                   /\ \E c \in Cids : table[c] = s
                   /\ entry' = [entry EXCEPT ![s].old = TRUE]
                   /\ UNCHANGED <<mediaVars, msgs, table, again>>

-----------------------------------------------------------------------------
(* send.  Its result goes to the entry before the request is answered.      *)

\* A mistake: the entry of a send that failed is never closed.
FailsSilently(s) == IF req[s].cid = NoCid THEN Answer(s, "err") /\ UNCHANGED entry
                    ELSE Goto(s, "forget") /\ UNCHANGED entry

Fails(s) == IF req[s].cid = NoCid
            THEN Answer(s, "err") /\ UNCHANGED entry
            ELSE Goto(s, "forget") /\ entry' = [entry EXCEPT ![s].st = "err"]

\* The checks of the message, the chat and the parent; the request's context may end.
SendChecks(s) == /\ At(s, "may")
                 /\ \/ Goto(s, IF req[s].ids = {} THEN "store" ELSE "check") /\ UNCHANGED entry
                    \/ Fails(s)
                 /\ UNCHANGED <<media, files, stills, clean, passes, loose, broken, raced, msgs, table, again>>

\* A mistake: nobody looks whether the file was put.
CheckRowsOnly(s) ==
    /\ At(s, "check")
    /\ IF \A id \in req[s].ids : Attachable(id, req[s].me)
       THEN req' = [req EXCEPT ![s].at = "attach", ![s].todo = req[s].ids] /\ UNCHANGED entry
       ELSE Fails(s)
    /\ UNCHANGED <<media, files, stills, clean, passes, loose, broken, raced, msgs, table, again>>

\* Attach: every upload is the sender's, pending and in the store; or a
\* statement fails.  The row is looked at again by AttachMedia, so the reads
\* can be one step.
CheckUploads(s) ==
    /\ At(s, "check")
    /\ \/ /\ \A id \in req[s].ids : Attachable(id, req[s].me) /\ id \in files
          /\ req' = [req EXCEPT ![s].at = "attach", ![s].todo = req[s].ids]
          /\ UNCHANGED entry
       \/ Fails(s)
    /\ UNCHANGED <<media, files, stills, clean, passes, loose, broken, raced, msgs, table, again>>

\* One upload after the other: a failure leaves the earlier ones attached.
Attach(s) ==
    /\ At(s, "attach")
    /\ \/ \E id \in req[s].todo :
             /\ Attachable(id, req[s].me)
             /\ media' = AttachMedia(id, s)
             /\ req' = [req EXCEPT ![s].todo = @ \ {id}, ![s].at = IF req[s].todo = {id} THEN "store" ELSE "attach"]
             /\ UNCHANGED entry
       \/ Fails(s) /\ UNCHANGED media
    /\ UNCHANGED <<files, stills, clean, passes, loose, broken, raced, msgs, table, again>>

Insert(s) == [msgs EXCEPT ![s] = [st |-> "stored", from |-> req[s].me, cid |-> req[s].cid, ids |-> req[s].ids]]

\* AddPrivate or AddPublic succeeds, fails, or fails after it was committed.
AddMessage(s) ==
    /\ At(s, "store")
    /\ \/ /\ msgs' = Insert(s)
          /\ req' = [req EXCEPT ![s] = [at |-> "ok", id |-> s, cid |-> req[s].cid]]
          /\ entry' = IF req[s].cid = NoCid THEN entry ELSE [entry EXCEPT ![s].st = "ok", ![s].id = s]
          /\ UNCHANGED again
       \/ Fails(s) /\ UNCHANGED <<msgs, again>>
       \/ Fails(s) /\ msgs' = Insert(s) /\ again' = again \cup {req[s].cid}
    /\ UNCHANGED <<media, files, stills, clean, passes, loose, broken, raced, table>>

\* A mistake: whatever entry is there is dropped.
ForgetAny(s) == /\ At(s, "forget")
                /\ table' = [table EXCEPT ![req[s].cid] = None]
                /\ Answer(s, "err")
                /\ UNCHANGED <<media, files, stills, clean, passes, loose, broken, raced, msgs, entry, again>>

\* forget: only the entry itself is dropped, not one that replaced it.
Forget(s) == /\ At(s, "forget")
             /\ table' = IF table[req[s].cid] = s THEN [table EXCEPT ![req[s].cid] = None] ELSE table
             /\ Answer(s, "err")
             /\ UNCHANGED <<media, files, stills, clean, passes, loose, broken, raced, msgs, entry, again>>

-----------------------------------------------------------------------------
\* Forward: the attachments of the message, one copy of each, then send.  What
\* is deleted, or cannot be read, is not forwarded.
ForMessages(m) == {id \in Rows : media[id].msg = m}

ForwardSource(s) ==
    /\ At(s, "source")
    /\ \/ LET src == ForMessages(req[s].from)
          IN  /\ msgs[req[s].from].st # "deleted"
              /\ req' = [req EXCEPT ![s].todo = src, ![s].at = IF src = {} THEN "may" ELSE "dup"]
       \/ Answer(s, "err")
    /\ UNCHANGED <<media, files, stills, clean, passes, loose, broken, raced, sendVars>>

\* DeleteMessage, which may fail, and then ExpireMessage, whose failure is only logged.
Erase(s) == /\ At(s, "erase")
            /\ \/ /\ msgs[req[s].id].st # "deleted"
                  /\ Goto(s, "expire") /\ msgs' = [msgs EXCEPT ![req[s].id].st = "deleted"]
               \/ Answer(s, "err") /\ UNCHANGED msgs
            /\ UNCHANGED <<media, files, stills, clean, passes, loose, broken, raced, table, entry, again>>

ExpireMessage(s) == /\ At(s, "expire")
                    /\ media' \in {media, ExpireMediaOfMessage(req[s].id)}
                    /\ Answer(s, "ok")
                    /\ UNCHANGED <<files, stills, clean, passes, loose, broken, raced, sendVars>>

SendStep(s) == \/ SendStart(s) \/ Do(s) \/ Woken(s) \/ GivesUp(s) \/ SendChecks(s) \/ CheckUploads(s)
               \/ Attach(s) \/ AddMessage(s) \/ Forget(s) \/ ForwardSource(s) \/ Erase(s) \/ ExpireMessage(s)

Next == \/ \E s \in Slots : SendStep(s) \/ WindowPasses(s) \/ (MediaStep(s) /\ UNCHANGED sendVars)
        \/ StoreStep /\ UNCHANGED sendVars

Spec == Init /\ [][Next]_vars

\* The goroutine of a request runs on, and a request that waits is woken.
Running(s) == \/ Do(s) \/ Woken(s) \/ SendChecks(s) \/ CheckUploads(s) \/ Attach(s) \/ AddMessage(s) \/ Forget(s)
              \/ ForwardSource(s) \/ Erase(s) \/ ExpireMessage(s)

FairSpec == Spec /\ \A s \in Slots : WF_vars(Running(s))
-----------------------------------------------------------------------------
\* What was asked and what was answered.
Answers == [at : {"unused", "ok", "err"}] \cup [at : {"ok"}, id : Slots, cid : Cids \cup {NoCid}]

SendRequests == [op : {"send"}, at : {"lookup", "wait", "may", "check", "attach", "store", "forget"},
                 me : Users, cid : Cids, ids : SUBSET Ids, todo : SUBSET Ids, on : Slots \cup {None}]

ForwardRequests == [op : {"forward"},
                    at : {"source", "dup", "quota", "cap", "create", "copy", "copyStill", "markCopy", "may", "check", "attach", "store"},
                    me : Users, cid : {NoCid}, ids : SUBSET Ids, todo : SUBSET Ids, from : Slots,
                    src : Ids \cup {None}, new : Ids \cup {None}, pic : BOOLEAN]

EraseRequests == [op : {"erase"}, at : {"erase", "expire"}, me : Users, id : Slots]

Entries == [st : {"none", "running", "ok", "err"}, id : Slots \cup {None}, old : BOOLEAN]

MsgRows == [st : {"stored", "deleted"}, from : Users, cid : Cids \cup {NoCid}, ids : SUBSET Ids]

Requests == Answers \cup UploadRequests \cup AccessRequests \cup SendRequests \cup ForwardRequests \cup EraseRequests

\* The type invariant.
TypeOK == /\ UploadsTypeOK
          /\ req \in [Slots -> Requests]
          /\ msgs \in [Slots -> MsgRows \cup {NoMsg}]
          /\ table \in [Cids -> Slots \cup {None}]
          /\ entry \in [Slots -> Entries]
          /\ again \subseteq Cids \cup {NoCid}

\* A message that the phone sends again and again is stored once, also when the
\* repetitions overlap and some attempts fail, unless its entry was dropped
\* (DedupeWindow passed, or the table was cleared) or Postgres committed it and
\* the answer was lost (chat/dedupe.go, do).
SentOnce == \A s, t \in Stored : s # t /\ msgs[s].cid = msgs[t].cid /\ msgs[s].cid # NoCid => msgs[s].cid \in again

\* Every request that is told a message was sent names a message that is stored
\* and carries what the phone sent, whoever of the waiting requests sent it.
AnswerIsStored == \A s \in Slots : req[s].at = "ok" /\ "cid" \in DOMAIN req[s] =>
    /\ req[s].id \in Stored
    /\ msgs[req[s].id].cid = req[s].cid

\* An upload is shown by one message: every message that is stored owns all of
\* its uploads, although two sends may find the same upload unused
\* (media.go, Attach: "attached by a concurrent message").
OwnsItsUploads == \A m \in Stored : \A id \in msgs[m].ids : id \in Rows /\ media[id].msg = m

\* Every request to send is answered: nobody waits for ever for an entry, and
\* the rounds after failed attempts end (chat/dedupe.go, do: the loop).
SendsEnd == \A s \in Slots : At(s, "lookup") ~> req[s].at \in {"ok", "err"}

-----------------------------------------------------------------------------
(* What these rest on. *)

\* A slot stores its message once, at the end; what is erased is stored.
Stores(s) == /\ s \in Stored => req[s].at \in {"ok", "err", "forget"}
             /\ req[s].at \in {"erase", "expire"} => req[s].id \in Stored

StoresLast == \A s \in Slots : Stores(s)

\* An upload that a message is about to carry was seen in the store, and is the
\* message's own from AttachMedia on.
Attaches(s) ==
    /\ At(s, "attach") => /\ req[s].todo \subseteq req[s].ids
                          /\ \A id \in req[s].todo : id \in Rows /\ Present(id)
                          /\ \A id \in req[s].ids \ req[s].todo : id \in Rows /\ media[id].msg = s
    /\ At(s, "store") => \A id \in req[s].ids : id \in Rows /\ media[id].msg = s

AttachesPresent == \A s \in Slots : Attaches(s)

\* The request in slot s is the one that sends the message of c.
Sending(s, c) == req[s].at \in {"may", "check", "attach", "store"} /\ req[s].cid = c

\* What an entry made by e says of c.
Serves(e, c) == /\ e \in Slots
                /\ entry[e].st # "none"
                /\ entry[e].st = "running" => Sending(e, c)
                /\ entry[e].st = "ok" => entry[e].id = e /\ e \in Stored /\ msgs[e].cid = c

EntriesServe == /\ \A c \in Cids : table[c] # None => Serves(table[c], c)
                /\ \A s \in Slots : At(s, "wait") => Serves(req[s].on, req[s].cid)

\* An entry is open exactly while its request sends.
EntryFollows(s) ==
    /\ req[s].at \in {"unused", "lookup", "wait"} => entry[s].st = "none"
    /\ \A c \in Cids : Sending(s, c) => entry[s].st = "running"
    /\ At(s, "forget") => entry[s].st = "err"

EntriesFollow == \A s \in Slots : EntryFollows(s)

\* Nobody but the entry in the table sends or has stored a message.
OneSender == \A c \in Cids \ again :
    /\ \A s \in Slots : Sending(s, c) => table[c] = s
    /\ \A m \in Stored : msgs[m].cid = c => table[c] = m /\ entry[m].st = "ok"

\* The types of requests, rows and objects; no upload is shared by two messages
\* or missing from its own (media.go, Attach); and what these and the other
\* properties rest on: every step of a request, of the cleanup and of a phone
\* preserves the conjunction.
SendsInv == /\ TypeOK /\ OwnsItsUploads /\ UploadsInv
            /\ StoresLast /\ AttachesPresent
            /\ EntriesServe /\ EntriesFollow /\ OneSender /\ AnswerIsStored
=============================================================================
