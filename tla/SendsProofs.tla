----------------------------- MODULE SendsProofs -----------------------------
(***************************************************************************)
(* Uploads and Sends proved for any people, media, requests, client ids    *)
(* and limits.                                                             *)
(*                                                                         *)
(* The invariant is one conjunction, and a step disturbs few of its parts. *)
(* So there is one section per part: what a step must leave alone for the  *)
(* part to stay, said once, and then the steps that do not leave it alone. *)
(***************************************************************************)
EXTENDS Sends, FiniteSetTheorems, TLAPS

-----------------------------------------------------------------------------
(* Requests: what kind one is follows from where it stands. *)

AccessSteps == {"download", "record", "count", "setStill", "putStill", "markStill", "seeStill"}
CheckSteps == {"quota", "cap", "create"}
CopySteps == {"source", "dup", "copy", "copyStill", "markCopy"}
StoreSteps == {"may", "check", "attach", "store"}
DedupeSteps == {"lookup", "wait", "forget"}
EraseSteps == {"erase", "expire"}

LEMMA Kinds ==
  ASSUME TypeOK, NEW s \in Slots
  PROVE  /\ req[s] \in Requests
         /\ req[s].at \in AccessSteps => req[s] \in AccessRequests
         /\ req[s].at \in CheckSteps => req[s] \in UploadRequests \cup ForwardRequests
         /\ req[s].at \in CopySteps => req[s] \in ForwardRequests
         /\ req[s].at \in StoreSteps => req[s] \in SendRequests \cup ForwardRequests
         /\ req[s].at \in DedupeSteps => req[s] \in SendRequests
         /\ req[s].at \in EraseSteps => req[s] \in EraseRequests
  BY DEF TypeOK, Requests, Answers, UploadRequests, AccessRequests, SendRequests, ForwardRequests, EraseRequests,
         AccessSteps, CheckSteps, CopySteps, StoreSteps, DedupeSteps, EraseSteps

(* Only the requests of S move. *)
Others(S) == \A t \in Slots \ S : req'[t] = req[t]

(* Only the request in s moves, and becomes r. *)
Turns(s, r) == /\ req' \in [Slots -> Requests]
               /\ req'[s] = r
               /\ Others({s})

LEMMA SetTurns ==
  ASSUME TypeOK, NEW s \in Slots, NEW r \in Requests, req' = [req EXCEPT ![s] = r]
  PROVE  Turns(s, r)
  BY DEF TypeOK, Turns, Others

(* A request that goes on keeps everything but its place. *)
Goes(s, at) == /\ Turns(s, req'[s])
               /\ req'[s].at = at /\ req'[s].op = req[s].op /\ req'[s].me = req[s].me
               /\ req[s] \in AccessRequests \cup EraseRequests => req'[s].id = req[s].id
               /\ req[s] \in SendRequests \cup ForwardRequests => req'[s].cid = req[s].cid /\ req'[s].ids = req[s].ids /\ req'[s].todo = req[s].todo
               /\ req[s] \in ForwardRequests => req'[s].new = req[s].new

ForwardNext == CopySteps \cup CheckSteps \cup StoreSteps
SendNext == StoreSteps \cup DedupeSteps

LEMMA GotoGoes ==
  ASSUME TypeOK, NEW s \in Slots, NEW at, Goto(s, at),
         \/ req[s] \in UploadRequests /\ at \in CheckSteps
         \/ req[s] \in AccessRequests /\ at \in AccessSteps
         \/ req[s] \in ForwardRequests /\ at \in ForwardNext
         \/ req[s] \in SendRequests /\ at \in SendNext
         \/ req[s] \in EraseRequests /\ at \in EraseSteps
  PROVE  Goes(s, at)
<1> USE DEF AccessSteps, CheckSteps, CopySteps, StoreSteps, DedupeSteps, EraseSteps, ForwardNext, SendNext
<1> DEFINE r == [req[s] EXCEPT !.at = at]
<1>0. req' = [req EXCEPT ![s] = r]
  BY DEF Goto
<1>1. CASE req[s] \in AccessRequests /\ at \in AccessSteps
  <2>1. r \in AccessRequests /\ r.at = at /\ r.op = req[s].op /\ r.me = req[s].me /\ r.id = req[s].id
    BY <1>1 DEF AccessRequests
  <2>2. r \in Requests
    BY <2>1 DEF Requests
  <2>3. req[s] \notin EraseRequests \cup SendRequests \cup ForwardRequests
    BY <1>1 DEF AccessRequests, EraseRequests, SendRequests, ForwardRequests
  <2> HIDE DEF r
  <2> QED BY <1>0, <2>1, <2>2, <2>3, SetTurns DEF Goes, Turns
<1>5. CASE req[s] \in UploadRequests /\ at \in CheckSteps
  <2>1. r \in UploadRequests /\ r.at = at /\ r.op = req[s].op /\ r.me = req[s].me
    BY <1>5 DEF UploadRequests
  <2>2. r \in Requests
    BY <2>1 DEF Requests
  <2>3. req[s] \notin AccessRequests \cup EraseRequests \cup SendRequests \cup ForwardRequests
    BY <1>5 DEF UploadRequests, AccessRequests, EraseRequests, SendRequests, ForwardRequests
  <2> HIDE DEF r
  <2> QED BY <1>0, <2>1, <2>2, <2>3, SetTurns DEF Goes, Turns
<1>2. CASE req[s] \in ForwardRequests /\ at \in ForwardNext
  <2>1. r \in ForwardRequests /\ r.at = at /\ r.op = req[s].op /\ r.me = req[s].me
        /\ r.cid = req[s].cid /\ r.ids = req[s].ids /\ r.todo = req[s].todo /\ r.new = req[s].new
    BY <1>2 DEF ForwardRequests
  <2>2. r \in Requests
    BY <2>1 DEF Requests
  <2>3. req[s] \notin EraseRequests \cup AccessRequests
    BY <1>2 DEF AccessRequests, EraseRequests, ForwardRequests
  <2> HIDE DEF r
  <2> QED BY <1>0, <2>1, <2>2, <2>3, SetTurns DEF Goes, Turns
<1>3. CASE req[s] \in SendRequests /\ at \in SendNext
  <2>1. r \in SendRequests /\ r.at = at /\ r.op = req[s].op /\ r.me = req[s].me
        /\ r.cid = req[s].cid /\ r.ids = req[s].ids /\ r.todo = req[s].todo
    BY <1>3 DEF SendRequests
  <2>2. r \in Requests
    BY <2>1 DEF Requests
  <2>3. req[s] \notin EraseRequests \cup AccessRequests \cup ForwardRequests
    BY <1>3 DEF AccessRequests, EraseRequests, ForwardRequests, SendRequests
  <2> HIDE DEF r
  <2> QED BY <1>0, <2>1, <2>2, <2>3, SetTurns DEF Goes, Turns
<1>4. CASE req[s] \in EraseRequests /\ at \in EraseSteps
  <2>1. r \in EraseRequests /\ r.at = at /\ r.op = req[s].op /\ r.me = req[s].me /\ r.id = req[s].id
    BY <1>4 DEF EraseRequests
  <2>2. r \in Requests
    BY <2>1 DEF Requests
  <2>3. req[s] \notin AccessRequests \cup SendRequests \cup ForwardRequests
    BY <1>4 DEF AccessRequests, EraseRequests, SendRequests, ForwardRequests
  <2> HIDE DEF r
  <2> QED BY <1>0, <2>1, <2>2, <2>3, SetTurns DEF Goes, Turns
<1> QED BY <1>1, <1>2, <1>3, <1>4, <1>5

(* A request that is answered without a message has no more than the result. *)
Ends(s) == /\ Turns(s, req'[s])
           /\ req'[s].at \in {"ok", "err"}
           /\ "cid" \notin DOMAIN req'[s]

LEMMA AnswerEnds ==
  ASSUME TypeOK, NEW s \in Slots, NEW result \in {"ok", "err"}, Answer(s, result)
  PROVE  Ends(s) /\ req'[s].at = result
<1> DEFINE r == [at |-> result]
<1>1. r \in Requests /\ r.at = result /\ "cid" \notin DOMAIN r
  BY DEF Requests, Answers
<1>2. req' = [req EXCEPT ![s] = r]
  BY DEF Answer
<1> HIDE DEF r
<1> QED BY <1>1, <1>2, SetTurns DEF Ends, Turns

-----------------------------------------------------------------------------
(* Rows: but for CreateMedia and AttachMedia a step leaves them, and what they
   are to a message. *)
RowStays(r, q) == /\ q \in MediaRows /\ q.got \subseteq Users \ {q.owner}
                  /\ q.st = r.st /\ q.msg = r.msg /\ q.owner \in {r.owner, None}
                  /\ r.gone => q.gone
                  /\ r.still => q.still

RowsStay == /\ media' \in [Ids -> MediaRows \cup {NoRow}]
            /\ Rows' = Rows
            /\ \A id \in Rows : RowStays(media[id], media'[id])

(* Most leave the mark of the picture and of the deletion as well. *)
Calm == RowsStay /\ \A id \in Rows : media'[id].gone = media[id].gone /\ media'[id].still = media[id].still

LEMMA RowIs ==
  ASSUME TypeOK, NEW id \in Rows
  PROVE  id \in Ids /\ media[id] \in MediaRows /\ media[id].got \subseteq Users \ {media[id].owner}
  BY DEF TypeOK, UploadsTypeOK, Rows

LEMMA NoRowIsNone ==
  NoRow \notin MediaRows
  BY DEF NoRow, MediaRows

LEMMA SameRowsCalm ==
  ASSUME TypeOK, UNCHANGED media
  PROVE  Calm
<1>1. Rows' = Rows /\ media' \in [Ids -> MediaRows \cup {NoRow}]
  BY DEF Rows, TypeOK, UploadsTypeOK
<1>2. ASSUME NEW id \in Rows PROVE RowStays(media[id], media'[id])
  BY RowIs DEF RowStays
<1> QED BY <1>1, <1>2 DEF Calm, RowsStay

LEMMA OneRow ==
  ASSUME TypeOK, NEW id \in Rows, NEW r \in MediaRows, media' = [media EXCEPT ![id] = r]
  PROVE  /\ media' \in [Ids -> MediaRows \cup {NoRow}] /\ Rows' = Rows
         /\ media'[id] = r
         /\ \A x \in Rows \ {id} : media'[x] = media[x]
<1>1. media \in [Ids -> MediaRows \cup {NoRow}] /\ id \in Ids
  BY RowIs DEF TypeOK, UploadsTypeOK
<1>2. media' = [x \in Ids |-> IF x = id THEN r ELSE media[x]]
  BY <1>1
<1>3. Rows' = Rows
  BY <1>1, <1>2, NoRowIsNone DEF Rows
<1> QED BY <1>1, <1>2, <1>3, RowIs

LEMMA OneRowStays ==
  ASSUME TypeOK, NEW id \in Rows, NEW r, RowStays(media[id], r), media' = [media EXCEPT ![id] = r]
  PROVE  RowsStay
<1>1. r \in MediaRows
  BY DEF RowStays
<1>2. ASSUME NEW x \in Rows PROVE RowStays(media[x], media'[x])
  <2>1. CASE x = id
    BY <1>1, <2>1, OneRow
  <2>2. CASE x # id
    <3>1. media'[x] = media[x]
      BY <1>1, <2>2, OneRow
    <3> QED BY <3>1, RowIs DEF RowStays
  <2> QED BY <2>1, <2>2
<1> QED BY <1>1, <1>2, OneRow DEF RowsStay

(* The steps that change rows, and how. *)
LEMMA MarkRows ==
  ASSUME TypeOK, NEW id \in Rows, NEW owner, MarkPicture(id, owner)
  PROVE  /\ RowsStay
         /\ \A x \in Rows : media'[x].gone = media[x].gone
         /\ \A x \in Rows \ {id} : media'[x].still = media[x].still
<1>1. CASE Unmarked(id, owner)
  <2> DEFINE r == [media[id] EXCEPT !.still = TRUE]
  <2>1. r \in MediaRows /\ RowStays(media[id], r) /\ r.gone = media[id].gone
    BY RowIs DEF MediaRows, RowStays
  <2>2. media' = [media EXCEPT ![id] = r]
    BY <1>1 DEF MarkPicture
  <2> HIDE DEF r
  <2> QED BY <2>1, <2>2, OneRow, OneRowStays
<1>2. CASE ~Unmarked(id, owner)
  BY <1>2, SameRowsCalm DEF MarkPicture, Calm
<1> QED BY <1>1, <1>2

LEMMA RecordCalm ==
  ASSUME TypeOK, OnRows, NEW s \in Slots, RecordMediaDownload(s)
  PROVE  Calm
<1> DEFINE id == req[s].id
           r == [media[id] EXCEPT !.got = @ \cup {req[s].me}]
<1>1. id \in Rows /\ media[id].owner # req[s].me /\ req[s].me \in Users
  BY Kinds DEF RecordMediaDownload, At, OnRows, ActsOnRows, AccessSteps, AccessRequests
<1>2. media' = [media EXCEPT ![id] = r]
  BY DEF RecordMediaDownload
<1>3. r \in MediaRows /\ RowStays(media[id], r) /\ r.gone = media[id].gone /\ r.still = media[id].still
  BY <1>1, RowIs DEF MediaRows, RowStays
<1> HIDE DEF r, id
<1> QED BY <1>1, <1>2, <1>3, OneRow, OneRowStays DEF Calm

LEMMA DeliveredCalm ==
  ASSUME TypeOK, OnRows, NEW s \in Slots, MarkMediaDelivered(s)
  PROVE  Calm
<1> DEFINE id == req[s].id
           d == media[id].delivered \/ CountMediaDownloads(id) >= Cardinality(Users) - 1
           r == [media[id] EXCEPT !.delivered = d]
<1>1. id \in Rows
  BY DEF MarkMediaDelivered, At, OnRows, ActsOnRows
<1>2. media' = [media EXCEPT ![id] = r]
  BY DEF MarkMediaDelivered
<1>3. d \in BOOLEAN
  BY Zenon
<1> HIDE DEF d
<1>4. r \in MediaRows /\ RowStays(media[id], r) /\ r.gone = media[id].gone /\ r.still = media[id].still
  BY <1>1, <1>3, RowIs DEF MediaRows, RowStays
<1> HIDE DEF r, id
<1> QED BY <1>1, <1>2, <1>4, OneRow, OneRowStays DEF Calm

LEMMA AgesCalm ==
  ASSUME TypeOK, NEW id \in Ids, Ages(id)
  PROVE  Calm
<1> DEFINE r == [media[id] EXCEPT !.age = IF @ = "new" THEN "old" ELSE "over"]
<1>1. id \in Rows
  BY DEF Ages, Live
<1>2. media' = [media EXCEPT ![id] = r]
  BY DEF Ages
<1>3. r \in MediaRows /\ RowStays(media[id], r) /\ r.gone = media[id].gone /\ r.still = media[id].still
  BY <1>1, RowIs DEF MediaRows, RowStays
<1> HIDE DEF r
<1> QED BY <1>1, <1>2, <1>3, OneRow, OneRowStays DEF Calm

(* Steps that change many rows at once. *)
LEMMA ManyRowsStay ==
  ASSUME TypeOK, NEW rows, media' = [id \in Ids |-> rows[id]],
         \A id \in Rows : RowStays(media[id], rows[id]),
         \A id \in Ids \ Rows : rows[id] = media[id]
  PROVE  RowsStay /\ \A id \in Rows : media'[id] = rows[id]
<1>1. \A id \in Rows : rows[id] \in MediaRows
  BY DEF RowStays
<1>2. \A id \in Ids \ Rows : rows[id] = NoRow
  BY DEF Rows
<1>3. Rows' = Rows /\ media' \in [Ids -> MediaRows \cup {NoRow}] /\ \A id \in Rows : media'[id] = rows[id]
  BY <1>1, <1>2, NoRowIsNone DEF Rows
<1> QED BY <1>3 DEF RowsStay

LEMMA LeavesCalm ==
  ASSUME TypeOK, NEW u \in Users, OwnerLeaves(u)
  PROVE  Calm
<1> DEFINE rows == [id \in Ids |-> IF id \in Rows /\ media[id].owner = u THEN [media[id] EXCEPT !.owner = None] ELSE media[id]]
<1>1. media' = [id \in Ids |-> rows[id]]
  BY DEF OwnerLeaves
<1>2. ASSUME NEW id \in Rows
      PROVE  RowStays(media[id], rows[id]) /\ rows[id].gone = media[id].gone /\ rows[id].still = media[id].still
  <2>1. CASE media[id].owner = u
    <3>1. rows[id] = [media[id] EXCEPT !.owner = None]
      BY <2>1, RowIs
    <3> QED BY <3>1, RowIs, UploadsAssumption DEF MediaRows, RowStays
  <2>2. CASE media[id].owner # u
    BY <2>2, RowIs DEF RowStays
  <2> QED BY <2>1, <2>2
<1>3. \A id \in Ids \ Rows : rows[id] = media[id]
  OBVIOUS
<1> HIDE DEF rows
<1> QED BY <1>1, <1>2, <1>3, ManyRowsStay DEF Calm

LEMMA ExpireCalm ==
  ASSUME TypeOK, NEW m, media' \in {media, ExpireMediaOfMessage(m)}
  PROVE  Calm
<1> DEFINE rows == ExpireMediaOfMessage(m)
<1>1. ASSUME media' = rows PROVE Calm
  <2>1. media' = [id \in Ids |-> rows[id]]
    BY <1>1 DEF ExpireMediaOfMessage
  <2>2. ASSUME NEW id \in Rows
        PROVE  RowStays(media[id], rows[id]) /\ rows[id].gone = media[id].gone /\ rows[id].still = media[id].still
    <3>1. rows[id] = media[id] \/ rows[id] = [media[id] EXCEPT !.age = "over"]
      BY RowIs DEF ExpireMediaOfMessage
    <3> QED BY <3>1, RowIs DEF MediaRows, RowStays
  <2>3. \A id \in Ids \ Rows : rows[id] = media[id]
    BY DEF ExpireMediaOfMessage, Live
  <2> HIDE DEF rows
  <2> QED BY <2>1, <2>2, <2>3, ManyRowsStay DEF Calm
<1> QED BY <1>1, SameRowsCalm

LEMMA DeleteRows ==
  ASSUME TypeOK, media' = [id \in Ids |-> IF id \in clean.done THEN [media[id] EXCEPT !.gone = TRUE] ELSE media[id]]
  PROVE  /\ RowsStay
         /\ \A id \in Rows : media'[id].still = media[id].still /\ media'[id].gone = (media[id].gone \/ id \in clean.done)
<1> DEFINE rows == [id \in Ids |-> IF id \in clean.done THEN [media[id] EXCEPT !.gone = TRUE] ELSE media[id]]
<1>0. clean.done \subseteq Rows
  BY DEF TypeOK, UploadsTypeOK
<1>1. media' = [id \in Ids |-> rows[id]]
  OBVIOUS
<1>2. ASSUME NEW id \in Rows
      PROVE  RowStays(media[id], rows[id]) /\ rows[id].gone = (media[id].gone \/ id \in clean.done) /\ rows[id].still = media[id].still
  <2>1. CASE id \in clean.done
    <3>1. rows[id] = [media[id] EXCEPT !.gone = TRUE]
      BY <2>1, RowIs
    <3> QED BY <2>1, <3>1, RowIs DEF MediaRows, RowStays
  <2>2. CASE id \notin clean.done
    <3>1. rows[id] = media[id] /\ media[id].gone \in BOOLEAN
      BY <2>2, RowIs DEF MediaRows
    <3> QED BY <2>2, <3>1, RowIs DEF RowStays
  <2> QED BY <2>1, <2>2
<1>3. \A id \in Ids \ Rows : rows[id] = media[id]
  BY <1>0
<1> HIDE DEF rows
<1> QED BY <1>1, <1>2, <1>3, ManyRowsStay

(* CreateMedia: one new row. *)
Created(id, me) == /\ id \in Ids \ Rows
                   /\ media' \in [Ids -> MediaRows \cup {NoRow}]
                   /\ Rows' = Rows \cup {id}
                   /\ \A x \in Rows : media'[x] = media[x]
                   /\ media'[id].owner = me /\ media'[id].msg = None /\ media'[id].st = "pending" /\ media'[id].got = {}
                   /\ ~media'[id].gone

LEMMA CreateRows ==
  ASSUME TypeOK, NEW id \in Ids \ Rows, NEW me \in Users, NEW link \in BOOLEAN,
         media' = [media EXCEPT ![id] = [Row(me) EXCEPT !.link = link]]
  PROVE  Created(id, me)
<1> DEFINE r == [Row(me) EXCEPT !.link = link]
<1>1. r \in MediaRows /\ r.owner = me /\ r.msg = None /\ r.st = "pending" /\ r.got = {} /\ ~r.gone
  BY DEF Row, MediaRows
<1> HIDE DEF r
<1>2. media \in [Ids -> MediaRows \cup {NoRow}]
  BY DEF TypeOK, UploadsTypeOK
<1>3. media' = [x \in Ids |-> IF x = id THEN r ELSE media[x]]
  BY <1>2 DEF r
<1> QED BY <1>1, <1>2, <1>3, NoRowIsNone DEF Rows, Created

(* AttachMedia: a row that was pending is ready, and the message's. *)
Attached(id, m) == /\ id \in Rows /\ media[id].st = "pending" /\ ~media[id].gone
                   /\ media' \in [Ids -> MediaRows \cup {NoRow}]
                   /\ Rows' = Rows
                   /\ \A x \in Rows \ {id} : media'[x] = media[x]
                   /\ media'[id].st = "ready" /\ media'[id].msg = m
                   /\ media'[id].owner = media[id].owner /\ media'[id].got = media[id].got
                   /\ media'[id].gone = media[id].gone /\ media'[id].still = media[id].still

LEMMA AttachRows ==
  ASSUME TypeOK, NEW id, NEW m \in Slots, NEW owner, Attachable(id, owner), media' = AttachMedia(id, m)
  PROVE  Attached(id, m)
<1> DEFINE r == [media[id] EXCEPT !.st = "ready", !.msg = m]
<1>1. id \in Rows /\ media[id].st = "pending" /\ ~media[id].gone
  BY DEF Attachable
<1>2. r \in MediaRows /\ r.st = "ready" /\ r.msg = m /\ r.owner = media[id].owner /\ r.got = media[id].got
      /\ r.gone = media[id].gone /\ r.still = media[id].still
  BY <1>1, RowIs DEF MediaRows
<1>3. media' = [media EXCEPT ![id] = r]
  BY <1>1, RowIs DEF AttachMedia, TypeOK, UploadsTypeOK
<1> HIDE DEF r
<1> QED BY <1>1, <1>2, <1>3, OneRow DEF Attached

-----------------------------------------------------------------------------
(* The types.  Whatever the step, rows are only added, and one that is ready
   stays what it is. *)
Grows == /\ media' \in [Ids -> MediaRows \cup {NoRow}]
         /\ IsFiniteSet(Rows') /\ Rows \subseteq Rows'
         /\ \A id \in Rows' : media'[id].got \subseteq Users \ {media'[id].owner}
         /\ \A id \in Rows : /\ media'[id].owner \in {media[id].owner, None}
                             /\ media[id].gone => media'[id].gone
                             /\ media[id].st = "ready" => media'[id].st = "ready" /\ media'[id].msg = media[id].msg

(* Nothing is marked, neither as deleted nor as having a picture. *)
SameMarks == /\ \A id \in Rows : media'[id].gone = media[id].gone /\ media'[id].still = media[id].still
             /\ \A id \in Rows' \ Rows : ~media'[id].gone

LEMMA StayGrows ==
  ASSUME TypeOK, RowsStay
  PROVE  Grows
<1>1. IsFiniteSet(Rows')
  BY DEF TypeOK, UploadsTypeOK, RowsStay
<1> QED BY <1>1 DEF Grows, RowsStay, RowStays

LEMMA CalmGrows ==
  ASSUME TypeOK, Calm
  PROVE  Grows /\ SameMarks /\ Rows' = Rows
  BY StayGrows DEF Calm, SameMarks, RowsStay

LEMMA CreatedGrows ==
  ASSUME TypeOK, NEW id, NEW me \in Users, Created(id, me)
  PROVE  Grows
<1>1. IsFiniteSet(Rows')
  BY FS_AddElement DEF TypeOK, UploadsTypeOK, Created
<1>2. ASSUME NEW x \in Rows'
      PROVE  media'[x].got \subseteq Users \ {media'[x].owner}
  BY <1>2, RowIs DEF Created
<1> QED BY <1>1, <1>2 DEF Grows, Created

LEMMA AttachedGrows ==
  ASSUME TypeOK, NEW id, NEW m, Attached(id, m)
  PROVE  Grows /\ SameMarks /\ Rows' = Rows
<1>1. IsFiniteSet(Rows') /\ Rows' = Rows
  BY DEF TypeOK, UploadsTypeOK, Attached
<1>2. \A x \in Rows' : media'[x].got \subseteq Users \ {media'[x].owner}
  BY <1>1, RowIs DEF Attached
<1>3. \A x \in Rows : /\ media'[x].owner \in {media[x].owner, None}
                      /\ media[x].gone => media'[x].gone
                      /\ media[x].st = "ready" => media'[x].st = "ready" /\ media'[x].msg = media[x].msg
  BY DEF Attached
<1>4. SameMarks
  BY <1>1 DEF Attached, SameMarks
<1> QED BY <1>1, <1>2, <1>3, <1>4 DEF Grows, Attached

Cleanings(R) == [at : {"idle", "stills", "remove", "lru"}, ids : SUBSET R, stills : SUBSET R, done : SUBSET R,
                 why : {"expired", "lru"}]

LEMMA TypesUnmoved ==
  ASSUME TypeOK, Grows
  PROVE  /\ UNCHANGED files => files' \subseteq Rows'
         /\ UNCHANGED stills => stills' \subseteq Rows'
         /\ UNCHANGED broken => broken' \subseteq Rows'
         /\ UNCHANGED raced => raced' \subseteq Rows'
         /\ UNCHANGED clean => clean' \in Cleanings(Rows')
         /\ UNCHANGED passes => passes' \in 0..MaxCleanups
         /\ UNCHANGED req => req' \in [Slots -> Requests]
         /\ UNCHANGED msgs => msgs' \in [Slots -> MsgRows \cup {NoMsg}]
         /\ UNCHANGED table => table' \in [Cids -> Slots \cup {None}]
         /\ UNCHANGED entry => entry' \in [Slots -> Entries]
         /\ UNCHANGED again => again' \subseteq Cids \cup {NoCid}
  BY DEF TypeOK, UploadsTypeOK, Grows, Cleanings

LEMMA TypesStep ==
  ASSUME Grows, files' \subseteq Rows', stills' \subseteq Rows', broken' \subseteq Rows', raced' \subseteq Rows',
         clean' \in Cleanings(Rows'), passes' \in 0..MaxCleanups, req' \in [Slots -> Requests],
         msgs' \in [Slots -> MsgRows \cup {NoMsg}], table' \in [Cids -> Slots \cup {None}],
         entry' \in [Slots -> Entries], again' \subseteq Cids \cup {NoCid}
  PROVE  TypeOK'
<1>1. UploadsTypeOK'
  BY DEF UploadsTypeOK, Grows, Cleanings
<1> QED BY <1>1 DEF TypeOK

-----------------------------------------------------------------------------
(* The parts of the invariant, one by one, under a step in which only requests
   of S move. *)

LEMMA OnRowsStep ==
  ASSUME TypeOK, OnRows, Grows, NEW S, Others(S), \A s \in S : ActsOnRows(s)'
  PROVE  OnRows'
<1> SUFFICES ASSUME NEW t \in Slots \ S PROVE ActsOnRows(t)'
  BY DEF OnRows
<1>1. req'[t] = req[t] /\ ActsOnRows(t)
  BY DEF Others, OnRows
<1>2. ASSUME At(t, "record")
      PROVE  req[t].id \in Rows /\ req[t].me \in Users /\ media[req[t].id].owner # req[t].me
  BY <1>1, <1>2, Kinds DEF ActsOnRows, At, AccessSteps, AccessRequests
<1> QED BY <1>1, <1>2, UploadsAssumption DEF ActsOnRows, At, Grows

PresentStays == \A id \in Rows : Present(id) => Present(id)'

LEMMA PresentStep ==
  ASSUME Grows, \A id \in Live' : id \in files \cup clean.done \cup broken => id \in files' \cup clean'.done \cup broken'
  PROVE  PresentStays
  BY DEF Grows, PresentStays, Present, Live

LEMMA AttachesStep ==
  ASSUME TypeOK, AttachesPresent, ReadyIsPresent, Grows, PresentStays,
         NEW S, Others(S), \A s \in S : Attaches(s)'
  PROVE  AttachesPresent'
<1> SUFFICES ASSUME NEW t \in Slots \ S PROVE Attaches(t)'
  BY DEF AttachesPresent
<1>1. req'[t] = req[t] /\ Attaches(t) /\ t # None
  BY UploadsAssumption DEF Others, AttachesPresent
<1>2. \A id \in Rows : media[id].msg = t => id \in Rows' /\ media'[id].msg = t
  BY <1>1 DEF ReadyIsPresent, Grows
<1>3. \A id \in Rows : Present(id) => id \in Rows' /\ Present(id)'
  BY DEF PresentStays, Grows
<1> HIDE DEF Present
<1> QED BY <1>1, <1>2, <1>3 DEF Attaches, At

LEMMA ReadyStep ==
  ASSUME ReadyIsPresent, RowsStay, PresentStays
  PROVE  ReadyIsPresent'
<1> SUFFICES ASSUME NEW id \in Rows
             PROVE  /\ media'[id].st = "ready" => Present(id)'
                    /\ media'[id].msg # None => media'[id].st = "ready"
  BY DEF RowsStay, ReadyIsPresent
<1> QED BY DEF ReadyIsPresent, RowsStay, RowStays, PresentStays

LEMMA ReadyCreated ==
  ASSUME TypeOK, ReadyIsPresent, PresentStays, NEW id, NEW me, Created(id, me)
  PROVE  ReadyIsPresent'
<1> SUFFICES ASSUME NEW x \in Rows'
             PROVE  /\ media'[x].st = "ready" => Present(x)'
                    /\ media'[x].msg # None => media'[x].st = "ready"
  BY DEF ReadyIsPresent
<1>1. CASE x = id
  BY <1>1 DEF Created
<1>2. CASE x \in Rows
  BY <1>2 DEF ReadyIsPresent, Created, PresentStays
<1> QED BY <1>1, <1>2 DEF Created

LEMMA OwnsStep ==
  ASSUME OwnsItsUploads, ReadyIsPresent, Grows, None \notin Slots,
         \A m \in Stored' : \/ m \in Stored /\ msgs'[m].ids = msgs[m].ids
                            \/ \A id \in msgs'[m].ids : id \in Rows' /\ media'[id].msg = m
  PROVE  OwnsItsUploads'
<1>1. ASSUME NEW m \in Stored', NEW id \in msgs'[m].ids, m \in Stored, msgs'[m].ids = msgs[m].ids
      PROVE  id \in Rows' /\ media'[id].msg = m
  <2>1. m \in Slots /\ m # None /\ id \in Rows /\ media[id].msg = m
    BY <1>1 DEF Stored, OwnsItsUploads
  <2> QED BY <2>1 DEF ReadyIsPresent, Grows
<1> QED BY <1>1 DEF OwnsItsUploads

(* No row is added: nobody gets nearer a limit. *)
LEMMA CountedIsFinite ==
  ASSUME TypeOK
  PROVE  IsFiniteSet(Live) /\ IsFiniteSet(Live \ raced) /\ \A u : IsFiniteSet(Counted(u))
<1>1. IsFiniteSet(Rows)
  BY DEF TypeOK, UploadsTypeOK
<1>2. Live \ raced \subseteq Rows /\ Live \subseteq Rows /\ \A u : Counted(u) \subseteq Rows
  BY DEF Live, Counted
<1> QED BY <1>1, <1>2, FS_Subset

LEMMA QuotaStep ==
  ASSUME TypeOK, Grows, Rows' = Rows, UNCHANGED raced, QuotaHolds, RoomIsLeft,
         NEW S, Others(S), \A s \in S : HasRoom(s)'
  PROVE  QuotaHolds' /\ RoomIsLeft'
<1>1. /\ Cardinality((Live \ raced)') <= Cardinality(Live \ raced)
      /\ Cardinality(Live \ raced) \in Nat /\ Cardinality((Live \ raced)') \in Nat
  <2>1. (Live \ raced)' \subseteq Live \ raced
    BY DEF Live, Grows
  <2> QED BY <2>1, CountedIsFinite, FS_Subset, FS_CardinalityType
<1>2. ASSUME NEW u \in Users
      PROVE  Cardinality(Counted(u)') <= Cardinality(Counted(u)) /\ Cardinality(Counted(u)) \in Nat /\ Cardinality(Counted(u)') \in Nat
  <2>1. Counted(u)' \subseteq Counted(u)
    BY UploadsAssumption DEF Counted, Grows
  <2> QED BY <2>1, CountedIsFinite, FS_Subset, FS_CardinalityType
<1>3. QuotaHolds'
  BY <1>1, <1>2, UploadsAssumption DEF QuotaHolds
<1>4. ASSUME NEW t \in Slots \ S PROVE HasRoom(t)'
  <2>1. req'[t] = req[t] /\ HasRoom(t)
    BY DEF Others, RoomIsLeft
  <2>2. ASSUME req[t].at \in {"cap", "create"}, NEW me, me = req[t].me PROVE Cardinality(Counted(me)') < DailyFiles
    <3>1. me \in Users
      BY <2>2, Kinds DEF CheckSteps, UploadRequests, ForwardRequests
    <3>2. Cardinality(Counted(me)) < DailyFiles
      BY <2>1, <2>2 DEF HasRoom
    <3> QED BY <3>1, <3>2, <1>2, UploadsAssumption
  <2>3. ASSUME At(t, "create") PROVE Cardinality((Live \ raced)') < UploadCap
    <3>1. Cardinality(Live \ raced) < UploadCap
      BY <2>1, <2>3 DEF HasRoom
    <3> QED BY <3>1, <1>1, UploadsAssumption
  <2> QED BY <2>1, <2>2, <2>3 DEF HasRoom, At
<1> QED BY <1>3, <1>4 DEF RoomIsLeft

(* Objects: what excuses a picture stays, unless its request moves on. *)
LEMMA ExcusedStep ==
  ASSUME NEW S, Others(S), loose \subseteq loose', \A s \in S : req[s].at \notin {"markStill", "markCopy"}
  PROVE  \A id : Excused(id) => Excused(id)'
<1> SUFFICES ASSUME NEW id, Excused(id), <<"still", id>> \notin loose'
             PROVE  Excused(id)'
  BY DEF Excused
<1>1. PICK s \in Slots : (At(s, "markStill") /\ req[s].id = id) \/ (At(s, "markCopy") /\ req[s].new = id)
  BY DEF Excused
<1>2. req'[s] = req[s]
  BY <1>1 DEF Others, At
<1> QED BY <1>1, <1>2 DEF Excused, At

LEMMA ObjectsStep ==
  ASSUME TypeOK, ObjectsNoted, Grows, SameMarks, UNCHANGED <<files, stills, clean>>, loose \subseteq loose',
         \A id : Excused(id) => Excused(id)'
  PROVE  ObjectsNoted'
<1>1. Swept' \cap Rows \subseteq Swept /\ Unseen' = Unseen
  BY DEF Swept, Unseen, SameMarks
<1>2. files \subseteq Rows /\ stills \subseteq Rows
  BY DEF TypeOK, UploadsTypeOK
<1> HIDE DEF Swept, Unseen, Excused
<1> QED BY <1>1, <1>2 DEF ObjectsNoted, SameMarks

(* A file is written. *)
LEMMA FileIsNoted ==
  ASSUME TypeOK, ObjectsNoted, Calm, NEW id \in Rows, files' = files \cup {id}, loose' = Loosened("file", id),
         UNCHANGED <<stills, clean>>, \A x : Excused(x) => Excused(x)'
  PROVE  ObjectsNoted'
<1>1. Swept' = Swept /\ Unseen' = Unseen
  BY CalmGrows DEF Swept, Unseen, SameMarks
<1>2. stills \subseteq Rows /\ loose \subseteq loose'
  BY DEF TypeOK, UploadsTypeOK, Loosened
<1>3. id \in Swept => <<"file", id>> \in loose'
  BY DEF Swept, Loosened, Removing
<1> HIDE DEF Swept, Unseen, Excused
<1> QED BY <1>1, <1>2, <1>3 DEF ObjectsNoted, Calm

(* A picture is written, and whoever wrote it will mark it. *)
LEMMA StillIsNoted ==
  ASSUME TypeOK, ObjectsNoted, Calm, NEW id \in Rows, stills' = stills \cup {id}, loose \subseteq loose', Excused(id)',
         UNCHANGED <<files, clean>>, \A x : Excused(x) => Excused(x)'
  PROVE  ObjectsNoted'
<1>1. Swept' = Swept /\ Unseen' = Unseen
  BY CalmGrows DEF Swept, Unseen, SameMarks
<1>2. stills \subseteq Rows
  BY DEF TypeOK, UploadsTypeOK
<1> HIDE DEF Swept, Unseen, Excused
<1> QED BY <1>1, <1>2 DEF ObjectsNoted, Calm

(* The request that put a picture moves on: the picture is marked now, or nobody
   will delete it. *)
Marks(s, id) == (At(s, "markStill") /\ req[s].id = id) \/ (At(s, "markCopy") /\ req[s].new = id)

LEMMA LeftIsNoted ==
  ASSUME NEW id
  PROVE  /\ loose \subseteq LeftUnmarked(id)
         /\ media[id].gone \/ id \in Removing => <<"still", id>> \in LeftUnmarked(id)
         /\ media[id].still \/ <<"still", id>> \in LeftUnmarked(id)
  BY DEF LeftUnmarked, Loosened

LEMMA PictureIsNoted ==
  ASSUME TypeOK, ObjectsNoted, NEW s \in Slots, NEW id \in Rows, Others({s}), Marks(s, id), loose \subseteq loose',
         RowsStay, \A x \in Rows : media'[x].gone = media[x].gone, \A x \in Rows \ {id} : media'[x].still = media[x].still,
         media[id].gone \/ id \in Removing => <<"still", id>> \in loose',
         media'[id].still \/ <<"still", id>> \in loose',
         UNCHANGED <<files, stills, clean>>
  PROVE  ObjectsNoted'
<1> USE DEF Marks
<1>1. loose \subseteq loose'
  OBVIOUS
<1>2. RowsStay /\ (\A x \in Rows : media'[x].gone = media[x].gone) /\ (\A x \in Rows \ {id} : media'[x].still = media[x].still)
  OBVIOUS
<1>3. Swept' = Swept /\ Unseen' = Unseen /\ Swept \subseteq Rows /\ Unseen \subseteq Rows
  BY <1>2 DEF Swept, Unseen, RowsStay, TypeOK, UploadsTypeOK
<1>4. ASSUME NEW x \in Rows \ {id}, Excused(x) PROVE Excused(x)'
  <2>1. CASE <<"still", x>> \in loose
    BY <1>1, <2>1 DEF Excused
  <2>2. CASE <<"still", x>> \notin loose
    <3>1. PICK t \in Slots : (At(t, "markStill") /\ req[t].id = x) \/ (At(t, "markCopy") /\ req[t].new = x)
      BY <1>4, <2>2 DEF Excused
    <3>2. t # s
      BY <3>1, <1>4 DEF At
    <3>3. req'[t] = req[t]
      BY <3>2 DEF Others
    <3> QED BY <3>1, <3>3 DEF Excused, At
  <2> QED BY <2>1, <2>2
<1>5. id \in Swept \cup Unseen => Excused(id)'
  <2>1. id \in Swept \cup Unseen => media[id].gone \/ id \in Removing
    BY DEF Swept, Unseen, Removing
  <2> QED BY <2>1 DEF Excused
<1>6. media'[id].still \/ Excused(id)'
  BY DEF Excused
<1>7. stills \subseteq Rows
  BY DEF TypeOK, UploadsTypeOK
<1> HIDE DEF Swept, Unseen, Excused
<1>8. ASSUME NEW x \in stills PROVE media'[x].still \/ Excused(x)'
  BY <1>2, <1>4, <1>6, <1>7 DEF ObjectsNoted
<1>9. ASSUME NEW x \in (Swept \cup Unseen) \cap stills PROVE Excused(x)'
  BY <1>4, <1>5, <1>7 DEF ObjectsNoted
<1> QED BY <1>1, <1>3, <1>8, <1>9 DEF ObjectsNoted

LEMMA MarkIsNoted ==
  ASSUME TypeOK, ObjectsNoted, NEW s \in Slots, NEW id \in Rows, NEW owner, MarkPicture(id, owner), Others({s}),
         Marks(s, id), UNCHANGED <<files, stills, clean>>
  PROVE  ObjectsNoted'
<1>1. RowsStay /\ (\A x \in Rows : media'[x].gone = media[x].gone) /\ (\A x \in Rows \ {id} : media'[x].still = media[x].still)
  BY MarkRows
<1>2. CASE Unmarked(id, owner)
  <2>1. media' = [media EXCEPT ![id].still = TRUE] /\ media \in [Ids -> MediaRows \cup {NoRow}] /\ loose' = Loosened("still", id)
    BY <1>2 DEF MarkPicture, TypeOK, UploadsTypeOK
  <2>2. media'[id] = [media[id] EXCEPT !.still = TRUE]
    BY <2>1, RowIs
  <2>3. media'[id].still
    BY <2>2, RowIs DEF MediaRows
  <2>4. loose \subseteq loose' /\ (media[id].gone \/ id \in Removing => <<"still", id>> \in loose')
    BY <2>1 DEF Loosened
  <2> HIDE DEF Marks
  <2> QED BY <1>1, <2>3, <2>4, PictureIsNoted
<1>3. CASE ~Unmarked(id, owner)
  <2>1. loose' = LeftUnmarked(id) /\ UNCHANGED media
    BY <1>3 DEF MarkPicture
  <2> HIDE DEF Marks
  <2> QED BY <1>1, <2>1, LeftIsNoted, PictureIsNoted
<1> QED BY <1>2, <1>3

-----------------------------------------------------------------------------
(* Sending once: what a step must leave alone. *)
Told(s) == req[s].at = "ok" /\ "cid" \in DOMAIN req[s] => req[s].id \in Stored /\ msgs[req[s].id].cid = req[s].cid

Waits(s) == At(s, "wait") => Serves(req[s].on, req[s].cid)

SendFits(s) == Stores(s) /\ Waits(s) /\ EntryFollows(s) /\ Told(s)

Dedupe == StoresLast /\ EntriesServe /\ EntriesFollow /\ OneSender /\ AnswerIsStored

LEMMA DedupeFits ==
  ASSUME Dedupe
  PROVE  /\ \A s \in Slots : SendFits(s)
         /\ \A c \in Cids : \A e : table[c] = e /\ e # None => Serves(e, c)
         /\ OneSender
<1> HIDE DEF Serves, Stores, EntryFollows, OneSender
<1> QED BY DEF Dedupe, StoresLast, EntriesServe, EntriesFollow, AnswerIsStored, SendFits, Told, Waits

LEMMA FitsDedupe ==
  ASSUME \A s \in Slots : SendFits(s)',
         \A c \in Cids : \A e : table'[c] = e /\ e # None => Serves(e, c)',
         OneSender'
  PROVE  Dedupe'
<1>1. StoresLast' /\ EntriesFollow' /\ AnswerIsStored' /\ \A s \in Slots : Waits(s)'
  BY DEF StoresLast, EntriesFollow, AnswerIsStored, SendFits, Told
<1>2. EntriesServe'
  BY <1>1 DEF EntriesServe, Waits, Serves, Sending
<1> QED BY <1>1, <1>2 DEF Dedupe

SameSending(S) == \A s \in S, c \in Cids : Sending(s, c)' <=> Sending(s, c)

SameMessages == Stored' = Stored /\ \A m \in Stored : msgs'[m].cid = msgs[m].cid

LEMMA WaitersAsk ==
  ASSUME TypeOK, NEW s \in Slots, At(s, "wait")
  PROVE  req[s].cid \in Cids
  BY Kinds DEF At, DedupeSteps, SendRequests

LEMMA SendingStays ==
  ASSUME NEW S, Others(S), SameSending(S), NEW s \in Slots, NEW c \in Cids
  PROVE  Sending(s, c)' <=> Sending(s, c)
<1>1. CASE s \in S
  BY <1>1 DEF SameSending
<1>2. CASE s \notin S
  <2>1. req'[s] = req[s]
    BY <1>2 DEF Others
  <2> QED BY <2>1 DEF Sending
<1> QED BY <1>1, <1>2

(* The table keeps its entries, but for some that failed. *)
LEMMA DedupeDrops ==
  ASSUME TypeOK, Dedupe, NEW S, Others(S), SameSending(S), UNCHANGED again,
         \A c \in Cids : table'[c] = table[c] \/ (table'[c] = None /\ entry[table[c]].st = "err"),
         \A s \in Slots : entry'[s].st = entry[s].st /\ entry'[s].id = entry[s].id,
         SameMessages, \A s \in S : SendFits(s)'
  PROVE  Dedupe'
<1>0. /\ \A s \in Slots : SendFits(s)
      /\ \A c \in Cids : \A e : table[c] = e /\ e # None => Serves(e, c)
      /\ OneSender
  BY DedupeFits
<1>1. ASSUME NEW e, NEW c \in Cids, Serves(e, c) PROVE Serves(e, c)'
  BY <1>1, SendingStays DEF Serves, SameMessages
<1>2. ASSUME NEW c \in Cids, NEW e, table'[c] = e, e # None PROVE Serves(e, c)'
  BY <1>0, <1>1, <1>2
<1>3. OneSender'
  <2>1. \A c \in Cids \ again : /\ \A s \in Slots : Sending(s, c)' => table'[c] = s
                                /\ \A m \in Stored' : msgs'[m].cid = c => table'[c] = m /\ entry'[m].st = "ok"
    <3>1. ASSUME NEW c \in Cids \ again, NEW s \in Slots, Sending(s, c)' PROVE table'[c] = s
      <4>1. Sending(s, c)
        BY <3>1, SendingStays
      <4>2. table[c] = s /\ entry[s].st = "running"
        BY <1>0, <4>1 DEF OneSender, SendFits, EntryFollows
      <4> QED BY <4>2
    <3>2. ASSUME NEW c \in Cids \ again, NEW m \in Stored, msgs[m].cid = c PROVE table'[c] = m /\ entry'[m].st = "ok"
      <4>1. table[c] = m /\ entry[m].st = "ok"
        BY <1>0, <3>2 DEF OneSender
      <4> QED BY <4>1 DEF Stored
    <3> HIDE DEF Sending
    <3> QED BY <3>1, <3>2 DEF SameMessages
  <2> QED BY <2>1 DEF OneSender
<1>4. ASSUME NEW t \in Slots \ S PROVE SendFits(t)'
  <2>1. req'[t] = req[t] /\ SendFits(t)
    BY <1>0 DEF Others
  <2>2. Stores(t)' /\ Told(t)'
    BY <2>1 DEF SendFits, Stores, Told, SameMessages
  <2>3. EntryFollows(t)'
    BY <2>1 DEF SendFits, EntryFollows, Sending, At
  <2>4. Waits(t)'
    <3>1. ASSUME At(t, "wait"), NEW e, e = req[t].on, NEW c, c = req[t].cid PROVE Serves(e, c)'
      <4>1. c \in Cids
        BY <3>1, WaitersAsk
      <4>2. Serves(e, c)
        BY <3>1, <2>1 DEF SendFits, Waits
      <4> QED BY <4>1, <4>2, <1>1
    <3>2. At(t, "wait")' <=> At(t, "wait")
      BY <2>1 DEF At
    <3> QED BY <3>1, <3>2, <2>1 DEF Waits, Serves, Sending
  <2> QED BY <2>2, <2>3, <2>4 DEF SendFits
<1> QED BY <1>2, <1>3, <1>4, FitsDedupe

LEMMA DedupeStep ==
  ASSUME TypeOK, Dedupe, NEW S, Others(S), SameSending(S), UNCHANGED <<table, again>>,
         \A s \in Slots : entry'[s].st = entry[s].st /\ entry'[s].id = entry[s].id,
         SameMessages, \A s \in S : SendFits(s)'
  PROVE  Dedupe'
  BY DedupeDrops

-----------------------------------------------------------------------------
(* The parts together. *)
LEMMA PartsOf ==
  ASSUME SendsInv
  PROVE  /\ TypeOK /\ OnRows /\ CleansInOrder /\ ReadyIsPresent /\ AttachesPresent /\ OwnsItsUploads
         /\ ObjectsNoted /\ QuotaHolds /\ RoomIsLeft /\ Dedupe
  BY DEF SendsInv, UploadsInv, Dedupe

LEMMA PartsMake ==
  ASSUME TypeOK', OnRows', CleansInOrder', ReadyIsPresent', AttachesPresent', OwnsItsUploads',
         ObjectsNoted', QuotaHolds', RoomIsLeft', Dedupe'
  PROVE  SendsInv'
<1>1. UploadsTypeOK'
  BY DEF TypeOK
<1> QED BY <1>1 DEF SendsInv, UploadsInv, Dedupe

(* A request that is not sending for a client id, and will not be. *)
Aside(s) == \A c \in Cids : ~Sending(s, c)

LEMMA IsAside ==
  ASSUME TypeOK, NEW s \in Slots, req[s].at \notin StoreSteps \/ req[s] \in ForwardRequests
  PROVE  Aside(s)
  BY SendsAssumption DEF Aside, Sending, StoreSteps, ForwardRequests

LEMMA WillBeAside ==
  ASSUME NEW s \in Slots, req'[s].at \notin StoreSteps \/ req'[s].cid = NoCid
  PROVE  Aside(s)'
  BY SendsAssumption DEF Aside, Sending, StoreSteps

StaysAside(s) == /\ req[s].at \notin {"ok", "err", "forget"}
                 /\ Aside(s) /\ Aside(s)'
                 /\ req'[s].at \notin {"unused", "lookup", "wait", "forget", "erase", "expire"}
                 /\ req'[s].at = "ok" => "cid" \notin DOMAIN req'[s]

LEMMA AsideDedupe ==
  ASSUME TypeOK, Dedupe, NEW s \in Slots, Others({s}), StaysAside(s), UNCHANGED sendVars
  PROVE  Dedupe'
<1>1. Stores(s) /\ UNCHANGED <<msgs, table, entry, again>>
  BY DedupeFits DEF SendFits, sendVars
<1>2. SendFits(s)'
  <2>1. Stores(s)'
    BY <1>1 DEF Stores, StaysAside, Stored
  <2>2. Waits(s)' /\ Told(s)'
    BY DEF Waits, At, Told, StaysAside
  <2>3. EntryFollows(s)'
    BY DEF EntryFollows, Aside, At, StaysAside
  <2> QED BY <2>1, <2>2, <2>3 DEF SendFits
<1>3. SameSending({s}) /\ SameMessages
  BY <1>1 DEF SameSending, StaysAside, Aside, SameMessages, Stored
<1> QED BY <1>1, <1>2, <1>3, DedupeStep

(* What the other modules' request needs of its new place. *)
Fits(s) == ActsOnRows(s) /\ Attaches(s) /\ HasRoom(s)

Objects == <<files, stills, clean, passes, loose, broken, raced>>

SendTypes == /\ msgs \in [Slots -> MsgRows \cup {NoMsg}]
             /\ table \in [Cids -> Slots \cup {None}]
             /\ entry \in [Slots -> Entries]
             /\ again \subseteq Cids \cup {NoCid}

(* A request moves, and nothing else but what rows say of downloads, age and
   owners, or what is known of messages. *)
LEMMA CalmStep ==
  ASSUME SendsInv, NEW s \in Slots, Calm, Turns(s, req'[s]), UNCHANGED Objects,
         req[s].at \notin {"markStill", "markCopy"}, Fits(s)', Dedupe', OwnsItsUploads', SendTypes'
  PROVE  SendsInv'
<1> USE PartsOf DEF Objects
<1>1. Grows /\ SameMarks /\ Rows' = Rows /\ RowsStay /\ Others({s})
  BY CalmGrows DEF Calm, Turns
<1>2. TypeOK'
  BY <1>1, TypesUnmoved, TypesStep DEF Turns, SendTypes
<1>3. OnRows'
  BY <1>1, OnRowsStep DEF Fits
<1>4. CleansInOrder'
  BY DEF CleansInOrder
<1>5. PresentStays
  BY <1>1, PresentStep
<1>6. ReadyIsPresent' /\ AttachesPresent'
  BY <1>1, <1>5, ReadyStep, AttachesStep DEF Fits
<1>7. ObjectsNoted'
  <2>1. \A id : Excused(id) => Excused(id)'
    BY <1>1, ExcusedStep
  <2> QED BY <1>1, <2>1, ObjectsStep
<1>8. QuotaHolds' /\ RoomIsLeft'
  BY <1>1, QuotaStep DEF Fits
<1> QED BY <1>2, <1>3, <1>4, <1>6, <1>7, <1>8, PartsMake

(* The same for one that does not send. *)
LEMMA SameMessagesOwn ==
  ASSUME TypeOK, OwnsItsUploads, ReadyIsPresent, Grows, UNCHANGED msgs
  PROVE  OwnsItsUploads'
<1>1. \A m \in Stored' : m \in Stored /\ msgs'[m].ids = msgs[m].ids
  BY DEF Stored
<1> QED BY <1>1, OwnsStep, UploadsAssumption

LEMMA AsideStep ==
  ASSUME SendsInv, NEW s \in Slots, Calm, Turns(s, req'[s]), UNCHANGED Objects, UNCHANGED sendVars,
         req[s].at \notin {"markStill", "markCopy"}, Fits(s)', StaysAside(s)
  PROVE  SendsInv'
<1>1. Grows /\ Others({s})
  BY PartsOf, CalmGrows DEF Turns
<1>2. OwnsItsUploads' /\ Dedupe'
  BY <1>1, PartsOf, AsideDedupe, SameMessagesOwn DEF sendVars
<1>3. SendTypes'
  BY PartsOf DEF TypeOK, sendVars, SendTypes
<1> QED BY <1>2, <1>3, CalmStep

(* An answered request needs nothing. *)
LEMMA EndsFits ==
  ASSUME NEW s, Ends(s)
  PROVE  Fits(s)'
  BY DEF Ends, Fits, ActsOnRows, Attaches, HasRoom, At

LEMMA EndsStaysAside ==
  ASSUME NEW s \in Slots, Ends(s), req[s].at \notin {"ok", "err", "forget"}, Aside(s)
  PROVE  StaysAside(s)
  BY WillBeAside DEF Ends, StaysAside, StoreSteps

LEMMA EndsStep ==
  ASSUME SendsInv, NEW s \in Slots, Calm, Ends(s), UNCHANGED Objects, UNCHANGED sendVars,
         req[s].at \notin {"markStill", "markCopy", "ok", "err", "forget"}, Aside(s)
  PROVE  SendsInv'
  BY EndsFits, EndsStaysAside, AsideStep DEF Ends

-----------------------------------------------------------------------------
(* The steps of a request about one upload. *)

(* A request starts, or goes on. *)
LEMMA MediaGoes ==
  ASSUME SendsInv, NEW s \in Slots, Calm, UNCHANGED Objects, UNCHANGED sendVars, Turns(s, req'[s]),
         req'[s].at \in AccessSteps \cup {"quota"}, req[s].at \in {"unused"} \cup (AccessSteps \ {"markStill"}),
         ActsOnRows(s)'
  PROVE  SendsInv'
<1> USE DEF AccessSteps
<1>1. Attaches(s)' /\ HasRoom(s)'
  BY DEF Attaches, HasRoom, At
<1>2. Aside(s)
  BY PartsOf, IsAside DEF StoreSteps
<1>3. Aside(s)'
  BY WillBeAside DEF StoreSteps
<1>4. StaysAside(s)
  BY <1>2, <1>3 DEF StaysAside
<1> QED BY <1>1, <1>4, AsideStep DEF Fits

LEMMA MediaStartStep ==
  ASSUME SendsInv, NEW s \in Slots, MediaStart(s), UNCHANGED sendVars
  PROVE  SendsInv'
<1> USE PartsOf
<1>1. Calm /\ UNCHANGED Objects
  BY SameRowsCalm DEF MediaStart, Objects
<1>2. req[s].at = "unused"
  BY DEF MediaStart, At
<1>3. PICK r \in UploadRequests \cup AccessRequests :
         /\ req' = [req EXCEPT ![s] = r]
         /\ r.at \in {"quota", "download", "setStill", "seeStill"}
         /\ r.at # "quota" => r.id \in Rows
  <2>1. PICK me \in Users : \/ AskUpload(s, me)
                           \/ \E id \in Rows : AskDownload(s, me, id) \/ AskSetStill(s, me, id) \/ AskSeeStill(s, me, id)
    BY DEF MediaStart
  <2>2. CASE AskUpload(s, me)
    <3> DEFINE r == [op |-> "upload", at |-> "quota", me |-> me, id |-> None]
    <3>1. r \in UploadRequests /\ r.at = "quota"
      BY DEF UploadRequests
    <3>2. req' = [req EXCEPT ![s] = r]
      BY <2>2 DEF AskUpload, Ask
    <3> HIDE DEF r
    <3> QED BY <3>1, <3>2
  <2>3. CASE \E id \in Rows : AskDownload(s, me, id) \/ AskSetStill(s, me, id) \/ AskSeeStill(s, me, id)
    <3>1. PICK id \in Rows, op \in {"download", "setStill", "seeStill"} : Ask(s, op, op, me, id)
      BY <2>3 DEF AskDownload, AskSetStill, AskSeeStill
    <3> DEFINE r == [op |-> op, at |-> op, me |-> me, id |-> id]
    <3>2. r \in AccessRequests /\ r.at = op /\ r.id \in Rows
      BY DEF AccessRequests, Rows
    <3>3. req' = [req EXCEPT ![s] = r]
      BY <3>1 DEF Ask
    <3> HIDE DEF r
    <3> QED BY <3>2, <3>3
  <2> QED BY <2>1, <2>2, <2>3
<1>4. Turns(s, r) /\ req'[s] = r
  BY <1>3, SetTurns DEF Requests, Turns
<1>5. ActsOnRows(s)'
  BY <1>1, <1>3, <1>4, CalmGrows DEF ActsOnRows, At
<1> QED BY <1>1, <1>2, <1>3, <1>4, <1>5, MediaGoes DEF AccessSteps

LEMMA MediaGoesOn ==
  ASSUME SendsInv, NEW s \in Slots, Calm, UNCHANGED Objects, UNCHANGED sendVars, NEW at \in AccessSteps,
         req[s] \in AccessRequests, req[s].at \in AccessSteps \ {"markStill"}, Goto(s, at), req[s].id \in Rows,
         at = "record" => media[req[s].id].owner # req[s].me /\ UNCHANGED media
  PROVE  SendsInv'
<1> USE PartsOf
<1>1. Goes(s, at)
  BY GotoGoes
<1>2. Turns(s, req'[s]) /\ req'[s].at = at /\ req'[s].id = req[s].id /\ req'[s].me = req[s].me
  BY <1>1 DEF Goes
<1>3. ActsOnRows(s)'
  BY <1>2, CalmGrows DEF ActsOnRows, At, AccessSteps
<1> QED BY <1>2, <1>3, MediaGoes

LEMMA DownloadStep ==
  ASSUME SendsInv, NEW s \in Slots, Download(s), UNCHANGED sendVars
  PROVE  SendsInv'
<1> USE PartsOf
<1>1. Calm /\ UNCHANGED Objects
  BY SameRowsCalm DEF Download, Objects
<1>2. req[s].at = "download" /\ req[s] \in AccessRequests /\ req[s].id \in Rows
  BY Kinds DEF Download, At, AccessSteps, OnRows, ActsOnRows
<1>3. CASE \E result \in {"ok", "err"} : Answer(s, result)
  BY <1>1, <1>2, <1>3, AnswerEnds, EndsStep, IsAside DEF StoreSteps
<1>4. CASE Goto(s, "record") /\ media[req[s].id].owner # req[s].me
  BY <1>1, <1>2, <1>4, MediaGoesOn DEF AccessSteps, Download
<1> QED BY <1>3, <1>4 DEF Download

LEMMA RecordStep ==
  ASSUME SendsInv, NEW s \in Slots, RecordMediaDownload(s), UNCHANGED sendVars
  PROVE  SendsInv'
<1> USE PartsOf
<1>1. Calm /\ UNCHANGED Objects
  BY RecordCalm DEF RecordMediaDownload, Objects
<1>2. req[s].at = "record" /\ req[s] \in AccessRequests /\ req[s].id \in Rows /\ Goto(s, "count")
  BY Kinds DEF RecordMediaDownload, At, AccessSteps, OnRows, ActsOnRows
<1> QED BY <1>1, <1>2, MediaGoesOn DEF AccessSteps

LEMMA DeliveredStep ==
  ASSUME SendsInv, NEW s \in Slots, MarkMediaDelivered(s), UNCHANGED sendVars
  PROVE  SendsInv'
<1> USE PartsOf
<1>1. Calm /\ UNCHANGED Objects
  BY DeliveredCalm DEF MarkMediaDelivered, Objects
<1>2. req[s].at = "count" /\ Ends(s)
  BY AnswerEnds DEF MarkMediaDelivered, At
<1> QED BY <1>1, <1>2, EndsStep, IsAside DEF StoreSteps

LEMMA SetThumbnailStep ==
  ASSUME SendsInv, NEW s \in Slots, SetThumbnail(s), UNCHANGED sendVars
  PROVE  SendsInv'
<1> USE PartsOf
<1>1. Calm /\ UNCHANGED Objects
  BY SameRowsCalm DEF SetThumbnail, Objects
<1>2. req[s].at = "setStill" /\ req[s] \in AccessRequests /\ req[s].id \in Rows
  BY Kinds DEF SetThumbnail, At, AccessSteps, OnRows, ActsOnRows
<1>3. CASE Answer(s, "err")
  BY <1>1, <1>2, <1>3, AnswerEnds, EndsStep, IsAside DEF StoreSteps
<1>4. CASE Goto(s, "putStill")
  BY <1>1, <1>2, <1>4, MediaGoesOn DEF AccessSteps
<1> QED BY <1>3, <1>4 DEF SetThumbnail

LEMMA ThumbnailStep ==
  ASSUME SendsInv, NEW s \in Slots, Thumbnail(s), UNCHANGED sendVars
  PROVE  SendsInv'
<1> USE PartsOf
<1>1. Calm /\ UNCHANGED Objects
  BY SameRowsCalm DEF Thumbnail, Objects
<1>2. req[s].at = "seeStill"
  BY DEF Thumbnail, At
<1>3. Ends(s)
  <2>1. \E result \in {"ok", "err"} : Answer(s, result)
    BY DEF Thumbnail
  <2> QED BY <2>1, AnswerEnds
<1> QED BY <1>1, <1>2, <1>3, EndsStep, IsAside DEF StoreSteps

(* A step of a request that writes objects, or marks a picture. *)
LEMMA ObjectsTurn ==
  ASSUME SendsInv, NEW s \in Slots, RowsStay, Turns(s, req'[s]), files \subseteq files', files' \subseteq Rows, stills' \subseteq Rows,
         UNCHANGED <<clean, passes, broken, raced>>, UNCHANGED sendVars, Fits(s)', ObjectsNoted', StaysAside(s)
  PROVE  SendsInv'
<1> USE PartsOf
<1>1. Grows /\ Rows' = Rows /\ Others({s})
  BY StayGrows DEF RowsStay, Turns
<1>2. TypeOK'
  BY <1>1, TypesUnmoved, TypesStep DEF sendVars, Turns
<1>3. OnRows'
  BY <1>1, OnRowsStep DEF Fits
<1>4. CleansInOrder'
  BY DEF CleansInOrder
<1>5. PresentStays
  BY <1>1, PresentStep
<1>6. ReadyIsPresent' /\ AttachesPresent'
  BY <1>1, <1>5, ReadyStep, AttachesStep DEF Fits
<1>7. QuotaHolds' /\ RoomIsLeft'
  BY <1>1, QuotaStep DEF Fits
<1>8. OwnsItsUploads' /\ Dedupe'
  BY <1>1, SameMessagesOwn, AsideDedupe DEF sendVars
<1> QED BY <1>2, <1>3, <1>4, <1>6, <1>7, <1>8, PartsMake

LEMMA ObjectsAreOfRows ==
  ASSUME SendsInv
  PROVE  files \subseteq Rows /\ stills \subseteq Rows
  BY PartsOf DEF TypeOK, UploadsTypeOK

(* The picture is put. *)
LEMMA PutStillStep ==
  ASSUME SendsInv, NEW s \in Slots, PutStill(s), UNCHANGED sendVars
  PROVE  SendsInv'
<1> USE PartsOf
<1>1. req[s].at = "putStill" /\ req[s] \in AccessRequests /\ req[s].id \in Rows
  BY Kinds DEF PutStill, At, AccessSteps, OnRows, ActsOnRows
<1>2. Goes(s, "markStill")
  BY <1>1, GotoGoes DEF PutStill, AccessSteps
<1> PICK id \in Rows : id = req[s].id
  BY <1>1
<1>3. Turns(s, req'[s]) /\ Others({s}) /\ req'[s].at = "markStill" /\ req'[s].id = id
  BY <1>1, <1>2 DEF Goes, Turns
<1>4. Calm /\ Rows' = Rows /\ RowsStay
  BY SameRowsCalm, CalmGrows DEF PutStill, Calm
<1>5. Fits(s)'
  BY <1>3, <1>4 DEF Fits, ActsOnRows, Attaches, HasRoom, At
<1>6. ObjectsNoted'
  <2>1. \A x : Excused(x) => Excused(x)'
    BY <1>1, <1>3, ExcusedStep DEF PutStill, Loosened
  <2>2. Excused(id)'
    BY <1>3 DEF Excused, At
  <2>3. loose \subseteq loose' /\ stills' = stills \cup {id} /\ UNCHANGED <<files, clean>>
    BY DEF PutStill, Loosened
  <2> QED BY <1>4, <2>1, <2>2, <2>3, StillIsNoted
<1>7. StaysAside(s)
  <2>1. Aside(s) /\ Aside(s)'
    BY <1>1, <1>3, IsAside, WillBeAside DEF StoreSteps
  <2> QED BY <1>1, <1>3, <2>1 DEF StaysAside
<1> QED BY <1>3, <1>4, <1>5, <1>6, <1>7, ObjectsTurn, ObjectsAreOfRows DEF PutStill

(* The picture is marked, and the request is answered. *)
LEMMA MarkStillStep ==
  ASSUME SendsInv, NEW s \in Slots, MarkStill(s), UNCHANGED sendVars
  PROVE  SendsInv'
<1> USE PartsOf
<1>1. req[s].at = "markStill" /\ req[s].id \in Rows
  BY DEF MarkStill, At, OnRows, ActsOnRows
<1> PICK id \in Rows, me \in {req[s].me} : id = req[s].id
  BY <1>1
<1>2. Ends(s)
  <2>1. \E result \in {"ok", "err"} : Answer(s, result)
    BY DEF MarkStill
  <2> QED BY <2>1, AnswerEnds
<1>3. MarkPicture(id, me) /\ RowsStay
  BY MarkRows DEF MarkStill
<1>4. ObjectsNoted'
  BY <1>1, <1>2, <1>3, MarkIsNoted DEF Ends, Turns, MarkStill, At, Marks
<1>5. StaysAside(s)
  BY <1>1, <1>2, EndsStaysAside, IsAside DEF StoreSteps
<1> QED BY <1>2, <1>3, <1>4, <1>5, EndsFits, ObjectsTurn, ObjectsAreOfRows DEF MarkStill, Ends

-----------------------------------------------------------------------------
(* The checks of an upload and the row; the copies of a message that is
   forwarded. *)

(* Such a request stands aside wherever it goes. *)
LEMMA CopiesStayAside ==
  ASSUME TypeOK, NEW s \in Slots, req[s].at \in CheckSteps \cup CopySteps,
         req'[s].at \in CheckSteps \cup CopySteps \cup {"may"},
         req'[s].at = "may" => req'[s].cid = NoCid
  PROVE  StaysAside(s)
<1>1. Aside(s)
  BY IsAside DEF CheckSteps, CopySteps, StoreSteps
<1>2. Aside(s)'
  BY WillBeAside DEF CheckSteps, CopySteps, StoreSteps
<1> QED BY <1>1, <1>2 DEF StaysAside, CheckSteps, CopySteps

LEMMA QuotaPasses ==
  ASSUME SendsInv, NEW s \in Slots, Quota(s), UNCHANGED sendVars
  PROVE  SendsInv'
<1> USE PartsOf
<1>1. Calm /\ UNCHANGED Objects
  BY SameRowsCalm DEF Quota, Objects
<1>2. req[s].at = "quota" /\ req[s] \in UploadRequests \cup ForwardRequests
  BY Kinds DEF Quota, At, CheckSteps
<1>3. CASE Answer(s, "err")
  BY <1>1, <1>2, <1>3, AnswerEnds, EndsStep, IsAside DEF StoreSteps
<1>4. CASE ~OverQuota(req[s].me) /\ Goto(s, "cap")
  <2>1. Goes(s, "cap")
    BY <1>2, <1>4, GotoGoes DEF ForwardNext, CheckSteps
  <2> PICK me \in Users : me = req[s].me
    BY <1>2 DEF UploadRequests, ForwardRequests
  <2>2. Turns(s, req'[s]) /\ req'[s].at = "cap" /\ req'[s].me = me
    BY <2>1 DEF Goes
  <2>3. Cardinality(Counted(me)) < DailyFiles
    <3>1. IsFiniteSet({id \in Rows : media[id].owner = me}) /\ Counted(me) \subseteq {id \in Rows : media[id].owner = me}
      BY FS_Subset DEF TypeOK, UploadsTypeOK, Counted
    <3>2. Cardinality(Counted(me)) <= MediaCreatedSince(me) /\ Cardinality(Counted(me)) \in Nat /\ MediaCreatedSince(me) \in Nat
      BY <3>1, FS_Subset, FS_CardinalityType DEF MediaCreatedSince
    <3> QED BY <1>4, <3>2, UploadsAssumption DEF OverQuota
  <2>4. Counted(me)' = Counted(me)
    BY DEF Counted, Rows, Quota
  <2>5. Fits(s)'
    BY <2>2, <2>3, <2>4 DEF Fits, ActsOnRows, Attaches, HasRoom, At
  <2>6. StaysAside(s)
    BY <1>2, <2>2, CopiesStayAside DEF CheckSteps
  <2> QED BY <1>1, <1>2, <2>2, <2>5, <2>6, AsideStep
<1> QED BY <1>3, <1>4 DEF Quota

LEMMA StorageCapPasses ==
  ASSUME SendsInv, NEW s \in Slots, StorageCap(s), UNCHANGED sendVars
  PROVE  SendsInv'
<1> USE PartsOf
<1>1. Calm /\ UNCHANGED Objects
  BY SameRowsCalm DEF StorageCap, Objects
<1>2. req[s].at = "cap" /\ req[s] \in UploadRequests \cup ForwardRequests
  BY Kinds DEF StorageCap, At, CheckSteps
<1>3. CASE Answer(s, "err")
  BY <1>1, <1>2, <1>3, AnswerEnds, EndsStep, IsAside DEF StoreSteps
<1>4. CASE ~(MediaStoredBytes + 1 > UploadCap) /\ Goto(s, "create")
  <2>1. Goes(s, "create")
    BY <1>2, <1>4, GotoGoes DEF ForwardNext, CheckSteps
  <2> PICK me \in Users : me = req[s].me
    BY <1>2 DEF UploadRequests, ForwardRequests
  <2>2. Turns(s, req'[s]) /\ req'[s].at = "create" /\ req'[s].me = me
    BY <2>1 DEF Goes
  <2>3. Cardinality(Live \ raced) < UploadCap
    <3>1. Cardinality(Live \ raced) <= MediaStoredBytes /\ Cardinality(Live \ raced) \in Nat /\ MediaStoredBytes \in Nat
      BY CountedIsFinite, FS_Subset, FS_CardinalityType DEF MediaStoredBytes
    <3> QED BY <1>4, <3>1, UploadsAssumption
  <2>4. Cardinality(Counted(me)) < DailyFiles
    BY <1>2 DEF RoomIsLeft, HasRoom
  <2>5. Counted(me)' = Counted(me) /\ (Live \ raced)' = Live \ raced
    BY DEF Counted, Rows, Live, StorageCap
  <2>6. Fits(s)'
    BY <2>2, <2>3, <2>4, <2>5 DEF Fits, ActsOnRows, Attaches, HasRoom, At
  <2>7. StaysAside(s)
    BY <1>2, <2>2, CopiesStayAside DEF CheckSteps
  <2> QED BY <1>1, <1>2, <2>2, <2>6, <2>7, AsideStep
<1> QED BY <1>3, <1>4 DEF StorageCap

(* One more counts only if no other request stands between its checks and its
   row; then nobody is left who was promised room. *)
LEMMA QuotaCreated ==
  ASSUME SendsInv, NEW s \in Slots, At(s, "create"), NEW id, NEW me \in Users, me = req[s].me, Created(id, me),
         raced' = (IF \E t \in Slots \ {s} : req[t].at \in {"cap", "create"} THEN raced \cup {id} ELSE raced),
         Others({s}), req'[s].at \notin {"cap", "create"}
  PROVE  QuotaHolds' /\ RoomIsLeft'
<1> USE PartsOf
<1>1. CASE \E t \in Slots \ {s} : req[t].at \in {"cap", "create"}
  <2>1. raced' = raced \cup {id}
    BY <1>1
  <2>2. (Live \ raced)' = Live \ raced /\ \A u : Counted(u)' = Counted(u)
    BY <2>1 DEF Created, Live, Counted
  <2>3. QuotaHolds'
    BY <2>2 DEF QuotaHolds
  <2>4. ASSUME NEW t \in Slots PROVE HasRoom(t)'
    <3>1. CASE t = s
      BY <3>1 DEF HasRoom, At
    <3>2. CASE t # s
      <4>1. req'[t] = req[t] /\ HasRoom(t)
        BY <3>2 DEF Others, RoomIsLeft
      <4>2. \A u : u = req[t].me => Counted(u)' = Counted(u)
        BY <2>2
      <4>3. Counted(req[t].me)' = Counted(req[t].me)
        BY <2>1, <4>1 DEF Created, Counted
      <4> QED BY <2>2, <4>1, <4>3 DEF HasRoom, At
    <3> QED BY <3>1, <3>2
  <2> QED BY <2>3, <2>4 DEF RoomIsLeft
<1>2. CASE ~ \E t \in Slots \ {s} : req[t].at \in {"cap", "create"}
  <2>1. raced' = raced /\ raced \subseteq Rows
    BY <1>2 DEF TypeOK, UploadsTypeOK
  <2>2. (Live \ raced)' = (Live \ raced) \cup {id} /\ Counted(me)' = Counted(me) \cup {id}
        /\ id \notin Live /\ id \notin Counted(me)
    BY <2>1 DEF Created, Live, Counted
  <2>3. \A u \in Users \ {me} : Counted(u)' = Counted(u)
    BY <2>1 DEF Created, Counted
  <2>4. Cardinality(Counted(me)) < DailyFiles /\ Cardinality(Live \ raced) < UploadCap
    BY DEF RoomIsLeft, HasRoom, At
  <2>5. Cardinality((Live \ raced)') = Cardinality(Live \ raced) + 1 /\ Cardinality(Live \ raced) \in Nat
    BY <2>2, CountedIsFinite, FS_AddElement, FS_CardinalityType
  <2>6. Cardinality(Counted(me)') = Cardinality(Counted(me)) + 1 /\ Cardinality(Counted(me)) \in Nat
    BY <2>2, CountedIsFinite, FS_AddElement, FS_CardinalityType
  <2>7. Cardinality((Live \ raced)') <= UploadCap /\ Cardinality(Counted(me)') <= DailyFiles
    BY <2>4, <2>5, <2>6, UploadsAssumption
  <2>8. QuotaHolds'
    BY <2>3, <2>7 DEF QuotaHolds
  <2>9. \A t \in Slots : req'[t].at \notin {"cap", "create"}
    BY <1>2 DEF Others
  <2> QED BY <2>8, <2>9 DEF RoomIsLeft, HasRoom, At
<1> QED BY <1>1, <1>2

LEMMA CreateMediaStep ==
  ASSUME SendsInv, NEW s \in Slots, CreateMedia(s), UNCHANGED sendVars
  PROVE  SendsInv'
<1> USE PartsOf
<1>1. req[s].at = "create" /\ req[s] \in UploadRequests \cup ForwardRequests
  BY Kinds DEF CreateMedia, At, CheckSteps
<1> PICK me \in Users : me = req[s].me
  BY <1>1 DEF UploadRequests, ForwardRequests
<1>2. PICK id \in Ids \ Rows :
         /\ media' = [media EXCEPT ![id] = [Row(me) EXCEPT !.link = (req[s].op = "upload")]]
         /\ raced' = IF \E t \in Slots \ {s} : req[t].at \in {"cap", "create"} THEN raced \cup {id} ELSE raced
         /\ IF req[s].op = "upload" THEN Answer(s, "ok") ELSE req' = [req EXCEPT ![s].at = "copy", ![s].new = id]
  BY DEF CreateMedia
<1>3. Created(id, me) /\ Grows
  <2>1. (req[s].op = "upload") \in BOOLEAN
    OBVIOUS
  <2> QED BY <1>2, <2>1, CreateRows, CreatedGrows
<1>4. /\ Turns(s, req'[s]) /\ Others({s}) /\ req'[s].at \in {"ok", "copy"}
      /\ req'[s].at = "ok" => "cid" \notin DOMAIN req'[s]
      /\ req'[s].at = "copy" => req'[s].new = id
  <2>1. CASE req[s].op = "upload"
    BY <1>2, <2>1, AnswerEnds DEF Ends, Turns
  <2>2. CASE req[s].op # "upload"
    <3> DEFINE r == [req[s] EXCEPT !.at = "copy", !.new = id]
    <3>1. req' = [req EXCEPT ![s] = r]
      BY <1>2, <2>2
    <3>2. req[s] \in ForwardRequests
      BY <1>1, <2>2 DEF UploadRequests
    <3>3. r \in ForwardRequests /\ r.at = "copy" /\ r.new = id
      BY <3>2 DEF ForwardRequests
    <3> HIDE DEF r
    <3> QED BY <3>1, <3>3, SetTurns DEF Requests, Turns
  <2> QED BY <2>1, <2>2
<1>6. ActsOnRows(s)' /\ Attaches(s)'
  BY <1>3, <1>4 DEF ActsOnRows, Attaches, At, Created
<1>7. UNCHANGED <<files, stills, clean, passes, loose, broken>> /\ raced' \subseteq Rows'
  BY <1>2, <1>3 DEF CreateMedia, Created, TypeOK, UploadsTypeOK
<1>8. TypeOK'
  BY <1>3, <1>4, <1>7, TypesUnmoved, TypesStep DEF Turns, sendVars
<1>9. OnRows'
  BY <1>3, <1>4, <1>6, OnRowsStep
<1>10. CleansInOrder'
  BY <1>7 DEF CleansInOrder
<1>11. PresentStays
  BY <1>3, <1>7, PresentStep
<1>12. ReadyIsPresent' /\ AttachesPresent'
  BY <1>3, <1>4, <1>6, <1>11, ReadyCreated, AttachesStep
<1>13. ObjectsNoted'
  <2>1. \A x : Excused(x) => Excused(x)'
    BY <1>1, <1>4, <1>7, ExcusedStep
  <2>2. SameMarks
    BY <1>3 DEF SameMarks, Created
  <2> QED BY <1>3, <1>7, <2>1, <2>2, ObjectsStep
<1>14. QuotaHolds' /\ RoomIsLeft'
  BY <1>1, <1>2, <1>3, <1>4, QuotaCreated DEF At
<1>15. OwnsItsUploads'
  BY <1>3, SameMessagesOwn DEF sendVars
<1>16. Dedupe'
  <2>1. StaysAside(s)
    <3>1. Aside(s) /\ Aside(s)'
      BY <1>1, <1>4, IsAside, WillBeAside DEF StoreSteps
    <3> QED BY <1>1, <1>4, <3>1 DEF StaysAside
  <2> QED BY <1>4, <2>1, AsideDedupe
<1> QED BY <1>8, <1>9, <1>10, <1>12, <1>13, <1>14, <1>15, <1>16, PartsMake

LEMMA DupGetStep ==
  ASSUME SendsInv, NEW s \in Slots, DupGet(s), UNCHANGED sendVars
  PROVE  SendsInv'
<1> USE PartsOf
<1>1. Calm /\ UNCHANGED Objects
  BY SameRowsCalm DEF DupGet, Objects
<1>2. req[s].at = "dup" /\ req[s] \in ForwardRequests
  BY Kinds DEF DupGet, At, CopySteps
<1>3. CASE Answer(s, "err")
  BY <1>1, <1>2, <1>3, AnswerEnds, EndsStep, IsAside DEF StoreSteps
<1>4. ASSUME NEW id \in Rows,
             req' = [req EXCEPT ![s].at = "quota", ![s].src = id, ![s].pic = media[id].still, ![s].todo = @ \ {id}]
      PROVE  SendsInv'
  <2> DEFINE r == [req[s] EXCEPT !.at = "quota", !.src = id, !.pic = media[id].still, !.todo = @ \ {id}]
  <2>1. req' = [req EXCEPT ![s] = r]
    BY <1>4
  <2>2. media[id].still \in BOOLEAN /\ id \in Ids
    BY RowIs DEF MediaRows
  <2>3. r \in ForwardRequests /\ r.at = "quota"
    BY <1>2, <2>2 DEF ForwardRequests
  <2> HIDE DEF r
  <2>4. Turns(s, req'[s]) /\ req'[s].at = "quota"
    BY <2>1, <2>3, SetTurns DEF Requests, Turns
  <2>5. Fits(s)'
    BY <2>4 DEF Fits, ActsOnRows, Attaches, HasRoom, At
  <2>6. StaysAside(s)
    BY <1>2, <2>4, CopiesStayAside DEF CheckSteps, CopySteps
  <2> QED BY <1>1, <1>2, <2>4, <2>5, <2>6, AsideStep
<1>5. PICK id \in req[s].todo :
         IF Ready(id) /\ ~media[id].gone
         THEN req' = [req EXCEPT ![s].at = "quota", ![s].src = id, ![s].pic = media[id].still, ![s].todo = @ \ {id}]
         ELSE Answer(s, "err")
  BY DEF DupGet
<1> QED BY <1>3, <1>4, <1>5 DEF Ready

LEMMA CopyFileStep ==
  ASSUME SendsInv, NEW s \in Slots, CopyFile(s), UNCHANGED sendVars
  PROVE  SendsInv'
<1> USE PartsOf
<1>1. req[s].at = "copy" /\ req[s] \in ForwardRequests /\ req[s].new \in Rows
  BY Kinds DEF CopyFile, At, CopySteps, OnRows, ActsOnRows
<1>2. Calm /\ RowsStay /\ Rows' = Rows /\ UNCHANGED <<stills, clean, passes, broken, raced>>
  BY SameRowsCalm, CalmGrows DEF CopyFile, Calm
<1>3. CASE Answer(s, "err") /\ UNCHANGED <<files, loose>>
  BY <1>1, <1>2, <1>3, AnswerEnds, EndsStep, IsAside DEF StoreSteps, Objects
<1>4. CASE files' = files \cup {req[s].new} /\ loose' = Loosened("file", req[s].new) /\ Goto(s, "copyStill")
  <2>1. Goes(s, "copyStill")
    BY <1>1, <1>4, GotoGoes DEF ForwardNext, CopySteps
  <2> PICK id \in Rows : id = req[s].new
    BY <1>1
  <2>2. Turns(s, req'[s]) /\ Others({s}) /\ req'[s].at = "copyStill" /\ req'[s].new = id
    BY <1>1, <2>1 DEF Goes, Turns
  <2>3. Fits(s)'
    BY <1>2, <2>2 DEF Fits, ActsOnRows, Attaches, HasRoom, At
  <2>4. ObjectsNoted'
    <3>1. \A x : Excused(x) => Excused(x)'
      BY <1>1, <1>4, <2>2, ExcusedStep DEF Loosened
    <3> QED BY <1>2, <1>4, <3>1, FileIsNoted
  <2>5. StaysAside(s)
    BY <1>1, <2>2, CopiesStayAside DEF CheckSteps, CopySteps
  <2> QED BY <1>2, <1>4, <2>2, <2>3, <2>4, <2>5, ObjectsTurn, ObjectsAreOfRows
<1> QED BY <1>3, <1>4 DEF CopyFile

(* The copy is done: the next one, or the message. *)
LEMMA NextCopyTurns ==
  ASSUME TypeOK, NEW s \in Slots, req[s] \in ForwardRequests, NextCopy(s), req[s].new \in Ids
  PROVE  /\ Turns(s, req'[s]) /\ Others({s})
         /\ req'[s].at \in {"may", "dup"} /\ req'[s].cid = NoCid
<1> DEFINE at == IF req[s].todo = {} THEN "may" ELSE "dup"
           r == [req[s] EXCEPT !.ids = @ \cup {req[s].new}, !.at = at]
<1>1. req' = [req EXCEPT ![s] = r]
  BY DEF NextCopy
<1>2. at \in {"may", "dup"}
  OBVIOUS
<1> HIDE DEF at
<1>3. r \in ForwardRequests /\ r.at \in {"may", "dup"} /\ r.cid = NoCid
  BY <1>2 DEF ForwardRequests
<1> HIDE DEF r
<1> QED BY <1>1, <1>3, SetTurns DEF Requests, Turns

LEMMA NextCopyFits ==
  ASSUME NEW s, req'[s].at \in {"may", "dup"}
  PROVE  Fits(s)'
  BY DEF Fits, ActsOnRows, Attaches, HasRoom, At

LEMMA CopyStillStep ==
  ASSUME SendsInv, NEW s \in Slots, CopyStill(s), UNCHANGED sendVars
  PROVE  SendsInv'
<1> USE PartsOf
<1>1. req[s].at = "copyStill" /\ req[s] \in ForwardRequests /\ req[s].new \in Rows
  BY Kinds DEF CopyStill, At, CopySteps, OnRows, ActsOnRows
<1>2. Calm /\ RowsStay /\ Rows' = Rows /\ UNCHANGED <<files, clean, passes, broken, raced>>
  BY SameRowsCalm, CalmGrows DEF CopyStill, Calm
<1>3. CASE NextCopy(s) /\ UNCHANGED <<stills, loose>>
  <2>1. Turns(s, req'[s]) /\ req'[s].at \in {"may", "dup"} /\ req'[s].cid = NoCid
    BY <1>1, <1>3, NextCopyTurns, RowIs
  <2>2. Fits(s)' /\ StaysAside(s)
    BY <1>1, <2>1, NextCopyFits, CopiesStayAside DEF CheckSteps, CopySteps
  <2> QED BY <1>1, <1>2, <1>3, <2>1, <2>2, AsideStep DEF Objects
<1>4. CASE stills' = stills \cup {req[s].new} /\ loose' = Loosened("still", req[s].new) /\ Goto(s, "markCopy")
  <2>1. Goes(s, "markCopy")
    BY <1>1, <1>4, GotoGoes DEF ForwardNext, CopySteps
  <2> PICK id \in Rows : id = req[s].new
    BY <1>1
  <2>2. Turns(s, req'[s]) /\ Others({s}) /\ req'[s].at = "markCopy" /\ req'[s].new = id
    BY <1>1, <2>1 DEF Goes, Turns
  <2>3. Fits(s)'
    BY <1>2, <2>2 DEF Fits, ActsOnRows, Attaches, HasRoom, At
  <2>4. ObjectsNoted'
    <3>1. loose \subseteq loose'
      BY <1>4 DEF Loosened
    <3>2. \A x : Excused(x) => Excused(x)'
      BY <1>1, <2>2, <3>1, ExcusedStep
    <3>3. Excused(id)'
      BY <2>2 DEF Excused, At
    <3> QED BY <1>2, <1>4, <3>1, <3>2, <3>3, StillIsNoted
  <2>5. StaysAside(s)
    BY <1>1, <2>2, CopiesStayAside DEF CheckSteps, CopySteps
  <2> QED BY <1>2, <1>4, <2>2, <2>3, <2>4, <2>5, ObjectsTurn, ObjectsAreOfRows
<1> QED BY <1>3, <1>4 DEF CopyStill

LEMMA MarkCopyStep ==
  ASSUME SendsInv, NEW s \in Slots, MarkCopy(s), UNCHANGED sendVars
  PROVE  SendsInv'
<1> USE PartsOf
<1>1. req[s].at = "markCopy" /\ req[s] \in ForwardRequests /\ req[s].new \in Rows
  BY Kinds DEF MarkCopy, At, CopySteps, OnRows, ActsOnRows
<1> PICK id \in Rows, me \in {req[s].me} : id = req[s].new
  BY <1>1
<1>2. Turns(s, req'[s]) /\ Others({s}) /\ req'[s].at \in {"may", "dup"} /\ req'[s].cid = NoCid
  BY <1>1, NextCopyTurns, RowIs DEF MarkCopy
<1>3. /\ MarkPicture(id, me) \/ (loose' = LeftUnmarked(id) /\ UNCHANGED media)
      /\ UNCHANGED <<files, stills, clean>>
  BY DEF MarkCopy
<1>4. RowsStay /\ ObjectsNoted'
  <2>1. Marks(s, id)
    BY <1>1 DEF Marks, At
  <2>2. CASE MarkPicture(id, me)
    BY <1>2, <1>3, <2>1, <2>2, MarkRows, MarkIsNoted
  <2>3. CASE loose' = LeftUnmarked(id) /\ UNCHANGED media
    <3>1. RowsStay
      <4>1. Calm
        BY <2>3, SameRowsCalm
      <4> QED BY <4>1 DEF Calm
    <3> QED BY <1>2, <1>3, <2>1, <2>3, <3>1, LeftIsNoted, PictureIsNoted
  <2> QED BY <1>3, <2>2, <2>3
<1>5. Fits(s)' /\ StaysAside(s)
  BY <1>1, <1>2, NextCopyFits, CopiesStayAside DEF CheckSteps, CopySteps
<1> QED BY <1>2, <1>4, <1>5, ObjectsTurn, ObjectsAreOfRows DEF MarkCopy

(* A statement or a call of the store fails, or the server is killed: a picture
   that was put and not marked is one that nothing deletes. *)
LEMMA MediaFailsStep ==
  ASSUME SendsInv, NEW s \in Slots, MediaFails(s), UNCHANGED sendVars
  PROVE  SendsInv'
<1> USE PartsOf
<1>1. Ends(s) /\ Calm /\ RowsStay /\ UNCHANGED <<media, files, stills, clean, passes, broken, raced>>
  BY AnswerEnds, SameRowsCalm, CalmGrows DEF MediaFails, Calm
<1>2. req[s].at \notin StoreSteps \/ req[s] \in ForwardRequests
  BY Kinds DEF MediaFails, MediaSteps, StoreSteps
<1>3. StaysAside(s)
  BY <1>1, <1>2, EndsStaysAside, IsAside DEF MediaFails, MediaSteps
<1>4. CASE ~At(s, "markStill") /\ ~At(s, "markCopy")
  <2>1. UNCHANGED loose
    <3>1. PutBy(s) = {}
      BY <1>4 DEF PutBy
    <3>2. loose' = loose \cup UNION {LeftUnmarked(x) : x \in PutBy(s)}
      BY DEF MediaFails
    <3> QED BY <3>1, <3>2
  <2> QED BY <1>1, <1>3, <1>4, <2>1, EndsFits, AsideStep DEF Ends, Objects, At
<1>5. CASE At(s, "markStill") \/ At(s, "markCopy")
  <2>1. PICK id \in Rows : Marks(s, id) /\ PutBy(s) = {id}
    BY <1>5 DEF Marks, PutBy, OnRows, ActsOnRows, At
  <2>2. loose' = LeftUnmarked(id)
    <3>1. loose' = loose \cup UNION {LeftUnmarked(x) : x \in {id}}
      BY <2>1 DEF MediaFails
    <3>2. UNION {LeftUnmarked(x) : x \in {id}} = LeftUnmarked(id)
      OBVIOUS
    <3> QED BY <3>1, <3>2, LeftIsNoted
  <2>3. ObjectsNoted'
    BY <1>1, <2>1, <2>2, LeftIsNoted, PictureIsNoted DEF Ends, Turns
  <2> QED BY <1>1, <1>3, <2>3, EndsFits, ObjectsTurn, ObjectsAreOfRows DEF Ends
<1> QED BY <1>4, <1>5

LEMMA ForwardSourceStep ==
  ASSUME SendsInv, NEW s \in Slots, ForwardSource(s)
  PROVE  SendsInv'
<1> USE PartsOf
<1>1. Calm /\ UNCHANGED Objects /\ UNCHANGED sendVars
  BY SameRowsCalm DEF ForwardSource, Objects
<1>2. req[s].at = "source" /\ req[s] \in ForwardRequests
  BY Kinds DEF ForwardSource, At, CopySteps
<1>3. CASE Answer(s, "err")
  BY <1>1, <1>2, <1>3, AnswerEnds, EndsStep, IsAside DEF StoreSteps
<1>4. ASSUME NEW src \in SUBSET Ids, NEW at \in {"may", "dup"}, req' = [req EXCEPT ![s].todo = src, ![s].at = at]
      PROVE  SendsInv'
  <2> DEFINE r == [req[s] EXCEPT !.todo = src, !.at = at]
  <2>1. req' = [req EXCEPT ![s] = r]
    BY <1>4
  <2>2. r \in ForwardRequests /\ r.at = at /\ r.cid = NoCid
    BY <1>2 DEF ForwardRequests
  <2> HIDE DEF r
  <2>3. Turns(s, req'[s]) /\ req'[s].at = at /\ req'[s].cid = NoCid
    BY <2>1, <2>2, SetTurns DEF Requests, Turns
  <2>4. Fits(s)' /\ StaysAside(s)
    BY <1>2, <2>3, NextCopyFits, CopiesStayAside DEF CheckSteps, CopySteps
  <2> QED BY <1>1, <1>2, <2>3, <2>4, AsideStep
<1>5. ForMessages(req[s].from) \in SUBSET Ids
  BY DEF ForMessages, Rows
<1> QED BY <1>3, <1>4, <1>5 DEF ForwardSource

-----------------------------------------------------------------------------
(* The phone that puts a file, time, owners who leave, and the cleanup: no
   request moves. *)
LEMMA StoreMoves ==
  ASSUME SendsInv, RowsStay, UNCHANGED <<req, raced>>, UNCHANGED sendVars,
         files' \subseteq Rows, stills' \subseteq Rows, broken' \subseteq Rows, clean' \in Cleanings(Rows), passes' \in 0..MaxCleanups,
         PresentStays, ObjectsNoted', CleansInOrder'
  PROVE  SendsInv'
<1> USE PartsOf
<1>1. Grows /\ Rows' = Rows /\ Others({})
  BY StayGrows DEF RowsStay, Others
<1>2. TypeOK'
  <2>1. /\ req' \in [Slots -> Requests] /\ msgs' \in [Slots -> MsgRows \cup {NoMsg}]
        /\ table' \in [Cids -> Slots \cup {None}] /\ entry' \in [Slots -> Entries] /\ again' \subseteq Cids \cup {NoCid}
        /\ raced' \subseteq Rows'
    BY <1>1, TypesUnmoved DEF sendVars
  <2> QED BY <1>1, <2>1, TypesStep
<1>3. OnRows'
  BY <1>1, OnRowsStep
<1>4. ReadyIsPresent' /\ AttachesPresent'
  BY <1>1, ReadyStep, AttachesStep
<1>5. QuotaHolds' /\ RoomIsLeft'
  BY <1>1, QuotaStep
<1>6. OwnsItsUploads'
  BY <1>1, SameMessagesOwn DEF sendVars
<1>7. Dedupe'
  <2>1. SameSending({}) /\ SameMessages /\ UNCHANGED <<table, again, entry>>
    BY DEF SameSending, SameMessages, Stored, sendVars
  <2> QED BY <1>1, <2>1, DedupeStep
<1> QED BY <1>2, <1>3, <1>4, <1>5, <1>6, <1>7, PartsMake

(* What stays when it is not touched. *)
LEMMA StoreUnmoved ==
  ASSUME SendsInv
  PROVE  /\ files \subseteq Rows /\ stills \subseteq Rows /\ broken \subseteq Rows /\ clean \in Cleanings(Rows)
         /\ passes \in 0..MaxCleanups
         /\ CleansInOrder
  BY PartsOf DEF TypeOK, UploadsTypeOK, Cleanings

LEMMA NobodyMoves ==
  ASSUME UNCHANGED req, loose \subseteq loose'
  PROVE  \A x : Excused(x) => Excused(x)'
<1>1. Others({})
  BY DEF Others
<1> QED BY <1>1, ExcusedStep

LEMMA PutFileStep ==
  ASSUME SendsInv, NEW id \in Ids, PutFile(id), UNCHANGED sendVars
  PROVE  SendsInv'
<1> USE PartsOf
<1>1. id \in Rows /\ Calm /\ RowsStay /\ Grows
  BY SameRowsCalm, CalmGrows DEF PutFile, Calm
<1>2. files' \subseteq Rows /\ stills' \subseteq Rows /\ broken' \subseteq Rows /\ clean' \in Cleanings(Rows) /\ passes' \in 0..MaxCleanups
  BY <1>1, StoreUnmoved DEF PutFile
<1>3. PresentStays
  BY <1>1, PresentStep DEF PutFile
<1>4. ObjectsNoted'
  <2>1. \A x : Excused(x) => Excused(x)'
    BY NobodyMoves DEF PutFile, Loosened
  <2> QED BY <1>1, <2>1, FileIsNoted DEF PutFile
<1>5. CleansInOrder'
  BY DEF CleansInOrder, PutFile
<1> QED BY <1>1, <1>2, <1>3, <1>4, <1>5, StoreMoves DEF PutFile

(* Age and owners. *)
LEMMA CalmStore ==
  ASSUME SendsInv, Calm, UNCHANGED Objects, UNCHANGED req, UNCHANGED sendVars
  PROVE  SendsInv'
<1> USE PartsOf DEF Objects
<1>1. RowsStay /\ Grows /\ SameMarks
  BY CalmGrows DEF Calm
<1>2. files' \subseteq Rows /\ stills' \subseteq Rows /\ broken' \subseteq Rows /\ clean' \in Cleanings(Rows) /\ passes' \in 0..MaxCleanups
  BY StoreUnmoved
<1>3. PresentStays
  BY <1>1, PresentStep
<1>4. ObjectsNoted'
  <2>1. \A x : Excused(x) => Excused(x)'
    BY NobodyMoves
  <2> QED BY <1>1, <2>1, ObjectsStep
<1>5. CleansInOrder'
  BY DEF CleansInOrder
<1> QED BY <1>1, <1>2, <1>3, <1>4, <1>5, StoreMoves

(* The steps of the cleanup change rows only to mark them. *)
LEMMA CleanupStartStep ==
  ASSUME SendsInv, CleanupStart, UNCHANGED sendVars
  PROVE  SendsInv'
<1> USE PartsOf
<1>1. Calm /\ RowsStay /\ Grows /\ Rows' = Rows
  BY SameRowsCalm, CalmGrows DEF CleanupStart, Calm
<1>2. clean.done = {} /\ clean'.done = {} /\ clean'.at = "stills" /\ clean'.stills = {}
  BY DEF CleanupStart, Idle
<1>3. clean' \in Cleanings(Rows)
  BY DEF CleanupStart, Idle, Cleanings, MediaToDelete, Live
<1>4. files' \subseteq Rows /\ stills' \subseteq Rows /\ broken' \subseteq Rows /\ passes' \in 0..MaxCleanups
  BY StoreUnmoved, UploadsAssumption DEF CleanupStart
<1>5. PresentStays
  BY <1>1, <1>2, PresentStep DEF CleanupStart
<1>6. ObjectsNoted'
  <2>1. \A x : Excused(x) => Excused(x)'
    BY NobodyMoves DEF CleanupStart
  <2>2. Swept' = Swept /\ Unseen' = {}
    BY <1>2 DEF Swept, Unseen, Rows, CleanupStart
  <2> HIDE DEF Excused, Swept, Unseen
  <2> QED BY <2>1, <2>2, StoreUnmoved DEF ObjectsNoted, CleanupStart
<1>7. CleansInOrder'
  BY <1>2 DEF CleansInOrder
<1> QED BY <1>1, <1>3, <1>4, <1>5, <1>6, <1>7, StoreMoves DEF CleanupStart

LEMMA ThumbnailsOfStep ==
  ASSUME SendsInv, ThumbnailsOf, UNCHANGED sendVars
  PROVE  SendsInv'
<1> USE PartsOf
<1> DEFINE having == {id \in clean.ids : media[id].still}
<1>1. Calm /\ RowsStay /\ Grows /\ Rows' = Rows
  BY SameRowsCalm, CalmGrows DEF ThumbnailsOf, Calm
<1>2. clean.at = "stills" /\ clean.done = {} /\ clean.stills = {} /\ clean \in Cleanings(Rows)
  BY StoreUnmoved DEF ThumbnailsOf, CleansInOrder
<1>3. \/ clean' = [clean EXCEPT !.at = "remove", !.stills = having] /\ UNCHANGED loose
      \/ clean' = [clean EXCEPT !.at = "remove"] /\ loose' = loose \cup {<<"still", id>> : id \in having}
  BY DEF ThumbnailsOf
<1>4. /\ clean' \in Cleanings(Rows) /\ clean'.at = "remove" /\ clean'.done = {} /\ clean'.ids = clean.ids
      /\ loose \subseteq loose'
      /\ \A id \in clean.ids \ clean'.stills : ~media[id].still \/ <<"still", id>> \in loose'
  <2>1. having \subseteq clean.ids /\ clean.ids \subseteq Rows
    BY <1>2 DEF Cleanings
  <2>2. CASE clean' = [clean EXCEPT !.at = "remove", !.stills = having] /\ UNCHANGED loose
    <3> HIDE DEF having
    <3>1. clean' \in Cleanings(Rows) /\ clean'.at = "remove" /\ clean'.done = {} /\ clean'.ids = clean.ids /\ clean'.stills = having
      BY <1>2, <2>1, <2>2 DEF Cleanings
    <3> QED BY <2>2, <3>1 DEF having
  <2>3. CASE clean' = [clean EXCEPT !.at = "remove"] /\ loose' = loose \cup {<<"still", id>> : id \in having}
    <3>1. clean' \in Cleanings(Rows) /\ clean'.at = "remove" /\ clean'.done = {} /\ clean'.ids = clean.ids
      BY <1>2, <2>3 DEF Cleanings
    <3> QED BY <2>3, <3>1
  <2> QED BY <1>3, <2>2, <2>3
<1>5. files' \subseteq Rows /\ stills' \subseteq Rows /\ broken' \subseteq Rows /\ passes' \in 0..MaxCleanups
  BY StoreUnmoved DEF ThumbnailsOf
<1>6. PresentStays
  BY <1>1, <1>2, <1>4, PresentStep DEF ThumbnailsOf
<1>7. ObjectsNoted'
  <2>1. \A x : Excused(x) => Excused(x)'
    BY <1>4, NobodyMoves DEF ThumbnailsOf
  <2>2. Swept' = Swept
    BY <1>2, <1>4 DEF Swept, Rows, ThumbnailsOf
  <2>3. \A id \in Unseen' : ~media[id].still \/ Excused(id)'
    BY <1>4 DEF Unseen, Excused
  <2> HIDE DEF Excused, Swept, Unseen
  <2> QED BY <1>4, <2>1, <2>2, <2>3 DEF ObjectsNoted, ThumbnailsOf
<1>8. CleansInOrder'
  BY <1>4 DEF CleansInOrder
<1> QED BY <1>1, <1>4, <1>5, <1>6, <1>7, <1>8, StoreMoves DEF ThumbnailsOf

LEMMA RemoveObjectsStep ==
  ASSUME SendsInv, RemoveObjects, UNCHANGED sendVars
  PROVE  SendsInv'
<1> USE PartsOf
<1>1. Calm /\ RowsStay /\ Grows /\ Rows' = Rows
  BY SameRowsCalm, CalmGrows DEF RemoveObjects, Calm
<1>2. clean.at = "remove" /\ clean \in Cleanings(Rows)
  BY StoreUnmoved DEF RemoveObjects
<1> DEFINE without(id) == stills \ (clean.stills \cap {id})
<1>3. PICK id \in clean.ids :
         \/ /\ files' = files \ {id} /\ stills' = without(id)
            /\ clean' = [clean EXCEPT !.ids = @ \ {id}, !.done = @ \cup {id}]
            /\ broken' = broken
         \/ /\ files' = files /\ stills' \in {stills, without(id)}
            /\ clean' = [clean EXCEPT !.ids = @ \ {id}]
            /\ broken' = broken
         \/ /\ files' = files \ {id} /\ stills' = without(id)
            /\ clean' = [clean EXCEPT !.ids = @ \ {id}]
            /\ broken' = broken \cup {id}
  BY DEF RemoveObjects
<1>4. id \in Rows /\ stills' \subseteq stills
  BY <1>2, <1>3 DEF Cleanings
<1>5. /\ clean' \in Cleanings(Rows) /\ clean'.at = "remove" /\ clean'.stills = clean.stills /\ clean'.ids = clean.ids \ {id}
      /\ \/ clean'.done = clean.done \cup {id} /\ files' = files \ {id} /\ stills' = without(id) /\ broken' = broken
         \/ clean'.done = clean.done /\ files' = files /\ broken' = broken
         \/ clean'.done = clean.done /\ files' = files \ {id} /\ broken' = broken \cup {id}
  <2>1. CASE /\ files' = files \ {id} /\ stills' = without(id) /\ broken' = broken
             /\ clean' = [clean EXCEPT !.ids = @ \ {id}, !.done = @ \cup {id}]
    <3> HIDE DEF without
    <3> QED BY <1>2, <1>4, <2>1 DEF Cleanings
  <2>2. CASE /\ \/ files' = files /\ broken' = broken
                \/ files' = files \ {id} /\ broken' = broken \cup {id}
             /\ clean' = [clean EXCEPT !.ids = @ \ {id}]
    <3>1. clean' \in Cleanings(Rows)
      BY <1>2, <2>2 DEF Cleanings
    <3>2. clean'.at = "remove" /\ clean'.stills = clean.stills /\ clean'.ids = clean.ids \ {id} /\ clean'.done = clean.done
      BY <1>2, <2>2 DEF Cleanings
    <3> HIDE DEF without
    <3> QED BY <2>2, <3>1, <3>2
  <2> HIDE DEF without
  <2> QED BY <1>3, <2>1, <2>2
<1>6. files' \subseteq Rows /\ stills' \subseteq Rows /\ broken' \subseteq Rows /\ passes' \in 0..MaxCleanups
  <2>1. files' \subseteq files /\ broken' \subseteq Rows
    BY <1>4, <1>5, StoreUnmoved
  <2> QED BY <1>4, <2>1, StoreUnmoved DEF RemoveObjects
<1>7. PresentStays
  <2>1. \A x : x \in files \cup clean.done \cup broken => x \in files' \cup clean'.done \cup broken'
    <3> HIDE DEF without
    <3> QED BY <1>5
  <2> QED BY <1>1, <2>1, PresentStep
<1>8. ObjectsNoted'
  <2>1. \A x : Excused(x) => Excused(x)'
    BY NobodyMoves DEF RemoveObjects
  <2>2. UNCHANGED <<media, loose>> /\ Rows' = Rows
    BY <1>1 DEF RemoveObjects
  <2>3. ASSUME NEW x \in stills' PROVE media'[x].still \/ Excused(x)'
    BY <1>4, <2>1, <2>2 DEF ObjectsNoted
  <2>4. ASSUME NEW x \in Swept' \cap files' PROVE <<"file", x>> \in loose'
    <3>1. x \in Swept \cap files
      BY <1>5, <2>2 DEF Swept
    <3> QED BY <2>2, <3>1 DEF ObjectsNoted
  <2>5. ASSUME NEW x \in (Swept' \cup Unseen') \cap stills' PROVE Excused(x)'
    <3>1. x \in (Swept \cup Unseen) \cap stills
      BY <1>2, <1>3, <1>4, <1>5, <2>2 DEF Swept, Unseen
    <3> QED BY <2>1, <3>1 DEF ObjectsNoted
  <2> QED BY <2>3, <2>4, <2>5 DEF ObjectsNoted
<1>9. CleansInOrder'
  BY <1>5 DEF CleansInOrder
<1> QED BY <1>1, <1>5, <1>6, <1>7, <1>8, <1>9, StoreMoves DEF RemoveObjects

LEMMA MarkMediaDeletedStep ==
  ASSUME SendsInv, MarkMediaDeleted, UNCHANGED sendVars
  PROVE  SendsInv'
<1> USE PartsOf
<1>1. clean.at = "remove" /\ clean.ids = {} /\ clean \in Cleanings(Rows)
  BY StoreUnmoved DEF MarkMediaDeleted
<1>2. clean' \in Cleanings(Rows) /\ clean'.at = "lru" /\ clean'.done = {} /\ clean'.ids = {}
  <2>1. clean' = [clean EXCEPT !.at = "lru", !.done = {}]
    BY DEF MarkMediaDeleted
  <2> QED BY <1>1, <2>1 DEF Cleanings
<1>3. \A x : Excused(x) => Excused(x)'
  BY NobodyMoves DEF MarkMediaDeleted
<1>4. CleansInOrder'
  BY <1>2 DEF CleansInOrder
<1>5. CASE /\ media' = [id \in Ids |-> IF id \in clean.done THEN [media[id] EXCEPT !.gone = TRUE] ELSE media[id]]
           /\ UNCHANGED broken
  <2>1. RowsStay /\ Grows /\ Rows' = Rows
        /\ \A id \in Rows : media'[id].still = media[id].still /\ media'[id].gone = (media[id].gone \/ id \in clean.done)
    BY <1>5, DeleteRows, StayGrows DEF RowsStay
  <2>2. PresentStays
    <3>1. \A id \in Live' : id \notin clean.done
      BY <2>1 DEF Live
    <3> QED BY <1>5, <2>1, <3>1, PresentStep DEF MarkMediaDeleted
  <2>3. ObjectsNoted'
    <3>1. Swept' \subseteq Swept /\ Unseen' = {}
      BY <1>2, <2>1 DEF Swept, Unseen
    <3>2. stills \subseteq Rows
      BY StoreUnmoved
    <3> HIDE DEF Swept, Unseen, Excused
    <3> QED BY <1>3, <2>1, <3>1, <3>2 DEF ObjectsNoted, MarkMediaDeleted
  <2> QED BY <1>2, <1>4, <1>5, <2>1, <2>2, <2>3, StoreMoves, StoreUnmoved DEF MarkMediaDeleted
<1>6. CASE broken' = broken \cup clean.done /\ UNCHANGED media
  <2>1. Calm /\ RowsStay /\ Grows /\ Rows' = Rows
    BY <1>6, SameRowsCalm, CalmGrows DEF Calm
  <2>2. PresentStays
    BY <1>6, <2>1, PresentStep DEF MarkMediaDeleted
  <2>3. ObjectsNoted'
    <3>1. Swept' \subseteq Swept /\ Unseen' = {}
      BY <1>2, <1>6, <2>1 DEF Swept, Unseen
    <3> HIDE DEF Swept, Unseen, Excused
    <3> QED BY <1>3, <1>6, <3>1 DEF ObjectsNoted, MarkMediaDeleted
  <2>4. broken' \subseteq Rows
    BY <1>1, <1>6, StoreUnmoved DEF Cleanings
  <2> QED BY <1>2, <1>4, <2>1, <2>2, <2>3, <2>4, StoreMoves, StoreUnmoved DEF MarkMediaDeleted
<1> QED BY <1>5, <1>6 DEF MarkMediaDeleted

LEMMA CleanupRestStep ==
  ASSUME SendsInv, CleanupRest, UNCHANGED sendVars
  PROVE  SendsInv'
<1> USE PartsOf
<1>1. Calm /\ RowsStay /\ Grows /\ Rows' = Rows
  BY SameRowsCalm, CalmGrows DEF CleanupRest, Calm
<1>2. clean.done = {}
  BY DEF CleanupRest, CleansInOrder
<1>3. /\ clean' \in Cleanings(Rows) /\ clean'.done = {} /\ clean'.stills = {}
      /\ clean'.at \in {"idle", "stills"}
      /\ clean'.at = "idle" => clean'.ids = {}
  <2>1. CASE clean' = Idle
    BY <2>1 DEF Idle, Cleanings
  <2>2. CASE \E x \in SUBSET Live : clean' = [Idle EXCEPT !.at = "stills", !.ids = x, !.why = "lru"]
    BY <2>2 DEF Idle, Cleanings, Live
  <2> QED BY <2>1, <2>2 DEF CleanupRest, EndOfPart, LeastRecentlyUsedMedia
<1>4. PresentStays
  BY <1>1, <1>2, PresentStep DEF CleanupRest
<1>5. ObjectsNoted'
  <2>1. \A x : Excused(x) => Excused(x)'
    BY NobodyMoves DEF CleanupRest
  <2>2. Swept' = Swept /\ Unseen' = {}
    BY <1>2, <1>3 DEF Swept, Unseen, Rows, CleanupRest
  <2> HIDE DEF Excused, Swept, Unseen
  <2> QED BY <2>1, <2>2 DEF ObjectsNoted, CleanupRest
<1>6. CleansInOrder'
  BY <1>3 DEF CleansInOrder
<1> QED BY <1>1, <1>3, <1>4, <1>5, <1>6, StoreMoves, StoreUnmoved DEF CleanupRest

(* The server is killed: what was removed and not marked is noted. *)
LEMMA CleanupStopsStep ==
  ASSUME SendsInv, CleanupStops, UNCHANGED sendVars
  PROVE  SendsInv'
<1> USE PartsOf
<1>1. Calm /\ RowsStay /\ Grows /\ Rows' = Rows
  BY SameRowsCalm, CalmGrows DEF CleanupStops, Calm
<1>2. clean' = Idle /\ clean' \in Cleanings(Rows) /\ clean'.done = {} /\ clean'.stills = {} /\ clean'.ids = {} /\ clean'.at = "idle"
  BY DEF CleanupStops, Idle, Cleanings
<1>3. broken' = broken \cup clean.done /\ broken' \subseteq Rows
  BY StoreUnmoved DEF CleanupStops, Cleanings
<1>4. PresentStays
  BY <1>1, <1>3, PresentStep DEF CleanupStops
<1>5. ObjectsNoted'
  <2>1. \A x : Excused(x) => Excused(x)'
    BY NobodyMoves DEF CleanupStops
  <2>2. Swept' \subseteq Swept /\ Unseen' = {}
    BY <1>1, <1>2 DEF Swept, Unseen, CleanupStops
  <2> HIDE DEF Excused, Swept, Unseen
  <2> QED BY <2>1, <2>2 DEF ObjectsNoted, CleanupStops
<1>6. CleansInOrder'
  BY <1>2 DEF CleansInOrder
<1> QED BY <1>1, <1>2, <1>3, <1>4, <1>5, <1>6, StoreMoves, StoreUnmoved DEF CleanupStops

LEMMA StoreStepStep ==
  ASSUME SendsInv, StoreStep, UNCHANGED sendVars
  PROVE  SendsInv'
<1> USE PartsOf
<1>1. CASE \E id \in Ids : PutFile(id)
  BY <1>1, PutFileStep
<1>2. CASE \E id \in Ids : Ages(id)
  BY <1>2, AgesCalm, CalmStore DEF Ages, Objects
<1>3. CASE \E u \in Leavers : OwnerLeaves(u)
  BY <1>3, LeavesCalm, CalmStore, UploadsAssumption DEF OwnerLeaves, Objects
<1> QED BY <1>1, <1>2, <1>3, CleanupStartStep, ThumbnailsOfStep, RemoveObjectsStep, MarkMediaDeletedStep, CleanupRestStep,
          CleanupStopsStep
        DEF StoreStep

LEMMA MediaStepStep ==
  ASSUME SendsInv, NEW s \in Slots, MediaStep(s), UNCHANGED sendVars
  PROVE  SendsInv'
  BY MediaStartStep, QuotaPasses, StorageCapPasses, CreateMediaStep, DupGetStep, CopyFileStep, CopyStillStep, MarkCopyStep,
     DownloadStep, RecordStep, DeliveredStep, SetThumbnailStep, PutStillStep, MarkStillStep, ThumbnailStep, MediaFailsStep
  DEF MediaStep

-----------------------------------------------------------------------------
(* The steps of a send, a forward and an erasure. *)

(* Nothing but requests, messages and the table of sends changes. *)
LEMMA SendOnly ==
  ASSUME SendsInv, NEW s \in Slots, UNCHANGED media, UNCHANGED Objects, Turns(s, req'[s]),
         req[s].at \notin {"markStill", "markCopy"}, Fits(s)', Dedupe', SendTypes', UNCHANGED msgs
  PROVE  SendsInv'
<1> USE PartsOf
<1>1. Calm /\ Grows
  BY SameRowsCalm, CalmGrows
<1> QED BY <1>1, SameMessagesOwn, CalmStep

LEMMA SendTypesOf ==
  ASSUME SendsInv
  PROVE  SendTypes
  BY PartsOf DEF TypeOK, SendTypes

LEMMA SendStartStep ==
  ASSUME SendsInv, NEW s \in Slots, SendStart(s)
  PROVE  SendsInv'
<1> USE PartsOf
<1>1. req[s].at = "unused" /\ UNCHANGED <<media, sendVars>> /\ UNCHANGED Objects
  BY DEF SendStart, At, Objects
<1>2. PICK r \in Requests : /\ req' = [req EXCEPT ![s] = r]
                            /\ r.at \in {"lookup", "source", "erase"}
                            /\ r.at = "erase" => r.id \in Stored
  <2>1. CASE \E c \in Cids : req' = [req EXCEPT ![s] = Send(c)]
    <3> PICK c \in Cids : req' = [req EXCEPT ![s] = Send(c)]
      BY <2>1
    <3>1. Send(c) \in SendRequests /\ Send(c).at = "lookup"
      BY SendsAssumption DEF Send, SendRequests
    <3> HIDE DEF Send
    <3> QED BY <3>1 DEF Requests
  <2>2. CASE \E me \in Users, m \in Stored : req' = [req EXCEPT ![s] = Forwarding(me, m)]
    <3> PICK me \in Users, m \in Stored : req' = [req EXCEPT ![s] = Forwarding(me, m)]
      BY <2>2
    <3>1. Forwarding(me, m) \in ForwardRequests /\ Forwarding(me, m).at = "source"
      BY DEF Forwarding, ForwardRequests, Stored
    <3> HIDE DEF Forwarding
    <3> QED BY <3>1 DEF Requests
  <2>3. CASE \E m \in Stored : req' = [req EXCEPT ![s] = [op |-> "erase", at |-> "erase", me |-> msgs[m].from, id |-> m]]
    <3> PICK m \in Stored : req' = [req EXCEPT ![s] = [op |-> "erase", at |-> "erase", me |-> msgs[m].from, id |-> m]]
      BY <2>3
    <3> DEFINE r == [op |-> "erase", at |-> "erase", me |-> msgs[m].from, id |-> m]
    <3>1. m \in Slots /\ msgs[m] \in MsgRows
      BY DEF Stored, TypeOK
    <3>2. r \in EraseRequests /\ r.at = "erase" /\ r.id \in Stored
      BY <3>1 DEF EraseRequests, MsgRows
    <3>3. req' = [req EXCEPT ![s] = r]
      OBVIOUS
    <3> HIDE DEF r
    <3> QED BY <3>2, <3>3 DEF Requests
  <2> QED BY <2>1, <2>2, <2>3 DEF SendStart
<1>3. Turns(s, req'[s]) /\ req'[s] = r /\ Others({s})
  BY <1>2, SetTurns DEF Turns
<1>4. Fits(s)'
  BY <1>2, <1>3 DEF Fits, ActsOnRows, Attaches, HasRoom, At
<1>5. Dedupe'
  <2>1. SendFits(s) /\ UNCHANGED <<msgs, table, entry, again>>
    BY <1>1, DedupeFits DEF sendVars
  <2>2. SendFits(s)'
    BY <1>1, <1>2, <1>3, <2>1 DEF SendFits, Stores, Waits, EntryFollows, Told, At, Sending, Stored
  <2>3. SameSending({s}) /\ SameMessages
    BY <1>1, <1>2, <1>3, <2>1 DEF SameSending, Sending, SameMessages, Stored
  <2> QED BY <1>3, <2>1, <2>2, <2>3, DedupeStep
<1>6. SendTypes' /\ UNCHANGED msgs
  BY <1>1, SendTypesOf DEF SendTypes, sendVars
<1> QED BY <1>1, <1>3, <1>4, <1>5, <1>6, SendOnly

(* The entry waited for is done. *)
LEMMA WokenStep ==
  ASSUME SendsInv, NEW s \in Slots, Woken(s)
  PROVE  SendsInv'
<1> USE PartsOf
<1>1. req[s].at = "wait" /\ req[s] \in SendRequests /\ UNCHANGED <<media, sendVars>> /\ UNCHANGED Objects
  BY Kinds DEF Woken, At, DedupeSteps, Objects
<1>2. SendFits(s) /\ UNCHANGED <<msgs, table, entry, again>>
  BY <1>1, DedupeFits DEF sendVars
<1> PICK on \in Slots, cid \in Cids : on = req[s].on /\ cid = req[s].cid /\ Serves(on, cid)
  BY <1>1, <1>2 DEF SendFits, Waits, At, Serves, SendRequests
<1>3. PICK r \in Requests : /\ req' = [req EXCEPT ![s] = r]
                            /\ \/ r.at = "ok" /\ r.id = on /\ r.cid = cid /\ entry[on].st = "ok"
                               \/ r.at = "lookup"
  <2>1. CASE entry[on].st = "ok" /\ req' = [req EXCEPT ![s] = [at |-> "ok", id |-> entry[on].id, cid |-> cid]]
    <3>1. entry[on].id = on
      BY <2>1 DEF Serves
    <3> DEFINE r == [at |-> "ok", id |-> on, cid |-> cid]
    <3>2. r \in Answers /\ r.at = "ok" /\ r.id = on /\ r.cid = cid
      BY DEF Answers
    <3>3. req' = [req EXCEPT ![s] = r]
      BY <2>1, <3>1
    <3> HIDE DEF r
    <3> QED BY <2>1, <3>2, <3>3 DEF Requests
  <2>2. CASE req' = [req EXCEPT ![s].at = "lookup", ![s].on = None]
    <3> DEFINE r == [req[s] EXCEPT !.at = "lookup", !.on = None]
    <3>1. r \in SendRequests /\ r.at = "lookup"
      BY <1>1 DEF SendRequests
    <3>2. req' = [req EXCEPT ![s] = r]
      BY <2>2
    <3> HIDE DEF r
    <3> QED BY <3>1, <3>2 DEF Requests
  <2> QED BY <2>1, <2>2 DEF Woken
<1>4. Turns(s, req'[s]) /\ req'[s] = r /\ Others({s})
  BY <1>3, SetTurns DEF Turns
<1>5. Fits(s)'
  BY <1>3, <1>4 DEF Fits, ActsOnRows, Attaches, HasRoom, At
<1>6. Dedupe'
  <2>1. Told(s)'
    BY <1>2, <1>3, <1>4 DEF Told, Serves, Stored
  <2>2. Stores(s)' /\ Waits(s)' /\ EntryFollows(s)'
    BY <1>1, <1>2, <1>3, <1>4 DEF SendFits, Stores, Waits, EntryFollows, At, Sending, Stored
  <2>3. SameSending({s}) /\ SameMessages
    BY <1>1, <1>2, <1>3, <1>4 DEF SameSending, Sending, SameMessages, Stored
  <2> QED BY <1>2, <1>4, <2>1, <2>2, <2>3, DedupeStep DEF SendFits
<1>7. SendTypes'
  BY <1>2, SendTypesOf DEF SendTypes
<1> QED BY <1>1, <1>2, <1>4, <1>5, <1>6, <1>7, SendOnly

LEMMA GivesUpStep ==
  ASSUME SendsInv, NEW s \in Slots, GivesUp(s)
  PROVE  SendsInv'
<1> USE PartsOf
<1>1. req[s].at = "wait" /\ Ends(s) /\ Calm /\ UNCHANGED Objects /\ UNCHANGED sendVars
  BY AnswerEnds, SameRowsCalm DEF GivesUp, At, Objects
<1> QED BY <1>1, EndsStep, IsAside DEF StoreSteps

(* Who may stand in the table: what an entry says of its client id does not
   change while another request moves or opens its own entry. *)
LEMMA ServesStays ==
  ASSUME NEW s, Others({s}), entry[s].st = "none", UNCHANGED msgs,
         \A t \in Slots \ {s} : entry'[t] = entry[t], NEW e, NEW c, Serves(e, c)
  PROVE  e # s /\ Serves(e, c)'
<1>1. e # s /\ e \in Slots
  BY DEF Serves
<1>2. req'[e] = req[e] /\ entry'[e] = entry[e]
  BY <1>1 DEF Others
<1> QED BY <1>1, <1>2 DEF Serves, Sending, Stored

LEMMA GcKeeps ==
  ASSUME NEW sweep \in BOOLEAN
  PROVE  Gc(sweep) = [c \in Cids |-> Gc(sweep)[c]] /\ \A c \in Cids : Gc(sweep)[c] \in {table[c], None}
  BY DEF Gc

LEMMA DoStep ==
  ASSUME SendsInv, NEW s \in Slots, Do(s)
  PROVE  SendsInv'
<1> USE PartsOf
<1>1. req[s].at = "lookup" /\ req[s] \in SendRequests /\ UNCHANGED <<media, msgs>> /\ UNCHANGED Objects
  BY Kinds DEF Do, At, DedupeSteps, Objects
<1>2. (\A t \in Slots : SendFits(t)) /\ OneSender /\ \A d \in Cids : \A e : table[d] = e /\ e # None => Serves(e, d)
  BY DedupeFits
<1> PICK c \in Cids : c = req[s].cid
  BY <1>1 DEF SendRequests
<1>3. entry[s].st = "none" /\ s \notin Stored
  BY <1>1, <1>2 DEF SendFits, EntryFollows, Stores
<1> DEFINE opens(kept) == /\ table' = [kept EXCEPT ![c] = s]
                          /\ entry' = [entry EXCEPT ![s] = [NoEntry EXCEPT !.st = "running"]]
                          /\ Goto(s, "may")
           waits(kept) == /\ kept[c] # None
                          /\ table' = kept
                          /\ req' = [req EXCEPT ![s].at = "wait", ![s].on = kept[c]]
                          /\ UNCHANGED entry
<1>4. PICK sweep \in BOOLEAN : opens(Gc(sweep)) \/ waits(Gc(sweep))
  BY DEF Do
<1> PICK kept : kept = Gc(sweep)
  OBVIOUS
<1>5. kept = [d \in Cids |-> kept[d]] /\ \A d \in Cids : kept[d] \in {table[d], None}
  BY GcKeeps
<1>6. again' = again \cup {d \in Cids : table[d] # None /\ entry[table[d]].st # "err" /\ table'[d] # table[d]}
  BY DEF Do
(* An entry that leaves the table had failed, or its client id is in again. *)
<1>7. ASSUME NEW d \in Cids \ again', table'[d] # table[d]
      PROVE  (\A t \in Slots : ~Sending(t, d)) /\ (\A m \in Stored : msgs[m].cid # d)
  <2>1. d \notin again /\ (table[d] = None \/ entry[table[d]].st = "err")
    BY <1>6, <1>7
  <2>2. \A t \in Slots : Sending(t, d) => table[d] = t /\ entry[t].st = "running"
    BY <1>2, <2>1 DEF OneSender, SendFits, EntryFollows
  <2>3. \A m \in Stored : msgs[m].cid = d => table[d] = m /\ entry[m].st = "ok"
    BY <1>2, <2>1 DEF OneSender
  <2> QED BY <2>1, <2>2, <2>3, UploadsAssumption DEF Stored
<1>8. again \subseteq again'
  BY <1>6
<1>9. CASE opens(kept)
  <2>1. Goes(s, "may")
    BY <1>1, <1>9, GotoGoes DEF SendNext, StoreSteps
  <2>2. Turns(s, req'[s]) /\ Others({s}) /\ req'[s].at = "may" /\ req'[s].cid = c
    BY <1>1, <2>1 DEF Goes, Turns
  <2>3. /\ \A t \in Slots \ {s} : entry'[t] = entry[t]
        /\ entry'[s].st = "running" /\ entry' \in [Slots -> Entries]
    <3>1. [NoEntry EXCEPT !.st = "running"] \in Entries /\ [NoEntry EXCEPT !.st = "running"].st = "running"
      BY DEF NoEntry, Entries
    <3>2. entry \in [Slots -> Entries]
      BY SendTypesOf DEF SendTypes
    <3> HIDE DEF NoEntry
    <3> QED BY <1>9, <3>1, <3>2
  <2>4. table'[c] = s /\ (\A d \in Cids \ {c} : table'[d] \in {table[d], None}) /\ table' \in [Cids -> Slots \cup {None}]
    <3>1. table \in [Cids -> Slots \cup {None}]
      BY SendTypesOf DEF SendTypes
    <3> QED BY <1>5, <1>9, <3>1
  <2>5. Fits(s)'
    BY <2>2 DEF Fits, ActsOnRows, Attaches, HasRoom, At
  <2>6. Serves(s, c)'
    BY <2>2, <2>3 DEF Serves, Sending
  <2>7. ASSUME NEW d \in Cids, NEW e, table'[d] = e, e # None PROVE Serves(e, d)'
    <3>1. CASE d = c
      BY <2>4, <2>6, <2>7, <3>1
    <3>2. CASE d # c
      BY <1>1, <1>2, <1>3, <2>2, <2>3, <2>4, <2>7, <3>2, ServesStays
    <3> QED BY <3>1, <3>2
  <2>8. OneSender'
    <3>0. table[c] # s
      BY <1>2, <1>3, UploadsAssumption DEF Serves
    <3>1. ASSUME NEW d \in Cids \ again', NEW t \in Slots, Sending(t, d)' PROVE table'[d] = t
      <4>1. CASE t = s
        BY <2>2, <2>4, <3>1, <4>1 DEF Sending
      <4>2. CASE t # s
        <5>1. Sending(t, d)
          BY <2>2, <3>1, <4>2 DEF Sending, Others
        <5>2. table'[d] = table[d] /\ table[d] = t
          BY <1>2, <1>7, <1>8, <5>1 DEF OneSender
        <5> QED BY <5>2
      <4> QED BY <4>1, <4>2
    <3>2. ASSUME NEW d \in Cids \ again', NEW m \in Stored, msgs[m].cid = d PROVE table'[d] = m /\ entry'[m].st = "ok"
      <4>1. table'[d] = table[d] /\ table[d] = m /\ entry[m].st = "ok"
        BY <1>2, <1>7, <1>8, <3>2 DEF OneSender
      <4> QED BY <1>3, <2>3, <4>1 DEF Stored
    <3>3. Stored' = Stored /\ msgs' = msgs
      BY <1>1 DEF Stored
    <3> QED BY <3>1, <3>2, <3>3 DEF OneSender
  <2>9. ASSUME NEW t \in Slots PROVE SendFits(t)'
    <3>1. CASE t = s
      <4>1. Stores(s)' /\ Waits(s)' /\ Told(s)' /\ EntryFollows(s)'
        BY <1>1, <1>3, <2>2, <2>3 DEF Stores, Stored, Waits, Told, EntryFollows, At, Sending
      <4> QED BY <3>1, <4>1 DEF SendFits
    <3>2. CASE t # s
      <4>1. req'[t] = req[t] /\ entry'[t] = entry[t] /\ SendFits(t)
        BY <1>2, <2>2, <2>3, <3>2 DEF Others
      <4>2. Stores(t)' /\ Told(t)' /\ EntryFollows(t)'
        BY <1>1, <4>1 DEF SendFits, Stores, Told, EntryFollows, At, Sending, Stored
      <4>3. ASSUME At(t, "wait"), NEW e, e = req[t].on, NEW d, d = req[t].cid PROVE Serves(e, d)'
        <5>1. Serves(e, d)
          BY <4>1, <4>3 DEF SendFits, Waits
        <5> QED BY <1>1, <1>3, <2>2, <2>3, <5>1, ServesStays
      <4>4. At(t, "wait")' <=> At(t, "wait")
        BY <4>1 DEF At
      <4>5. Waits(t)'
        BY <4>1, <4>3, <4>4 DEF Waits, Serves, Sending
      <4> QED BY <4>2, <4>5 DEF SendFits
    <3> QED BY <3>1, <3>2
  <2>10. Dedupe'
    BY <2>7, <2>8, <2>9, FitsDedupe
  <2>11. SendTypes'
    BY <1>1, <1>6, <2>3, <2>4, SendTypesOf DEF SendTypes
  <2> QED BY <1>1, <2>2, <2>5, <2>10, <2>11, SendOnly
<1>10. CASE waits(kept)
  <2> PICK on : on = kept[c]
    OBVIOUS
  <2>1. on = table[c] /\ on # None /\ Serves(on, c) /\ on \in Slots
    BY <1>2, <1>5, <1>10 DEF Serves
  <2>2. Turns(s, req'[s]) /\ Others({s}) /\ req'[s].at = "wait" /\ req'[s].cid = c /\ req'[s].on = on
    <3> DEFINE r == [req[s] EXCEPT !.at = "wait", !.on = on]
    <3>1. req' = [req EXCEPT ![s] = r]
      BY <1>10
    <3>2. r \in SendRequests /\ r.at = "wait" /\ r.cid = c /\ r.on = on
      BY <1>1, <2>1 DEF SendRequests
    <3> HIDE DEF r
    <3> QED BY <3>1, <3>2, SetTurns DEF Requests, Turns
  <2>3. table' = kept /\ UNCHANGED entry
    BY <1>10
  <2>4. table' \in [Cids -> Slots \cup {None}]
    <3>1. table \in [Cids -> Slots \cup {None}]
      BY SendTypesOf DEF SendTypes
    <3> QED BY <1>5, <2>3, <3>1
  <2>5. Fits(s)'
    BY <2>2 DEF Fits, ActsOnRows, Attaches, HasRoom, At
  <2>6. ASSUME NEW e, NEW d, Serves(e, d) PROVE Serves(e, d)'
    BY <1>1, <1>3, <2>2, <2>3, <2>6, ServesStays
  <2>7. ASSUME NEW d \in Cids, NEW e, table'[d] = e, e # None PROVE Serves(e, d)'
    BY <1>2, <1>5, <2>3, <2>6, <2>7
  <2>8. OneSender'
    <3>1. ASSUME NEW d \in Cids \ again', NEW t \in Slots, Sending(t, d)' PROVE table'[d] = t
      <4>1. t # s
        BY <2>2, <3>1 DEF Sending
      <4>2. Sending(t, d)
        BY <2>2, <3>1, <4>1 DEF Sending, Others
      <4>3. table'[d] = table[d] /\ table[d] = t
        BY <1>2, <1>7, <1>8, <4>2 DEF OneSender
      <4> QED BY <4>3
    <3>2. ASSUME NEW d \in Cids \ again', NEW m \in Stored, msgs[m].cid = d PROVE table'[d] = m /\ entry'[m].st = "ok"
      <4>1. table'[d] = table[d] /\ table[d] = m /\ entry[m].st = "ok"
        BY <1>2, <1>7, <1>8, <3>2 DEF OneSender
      <4> QED BY <2>3, <4>1
    <3>3. Stored' = Stored /\ msgs' = msgs
      BY <1>1 DEF Stored
    <3> QED BY <3>1, <3>2, <3>3 DEF OneSender
  <2>9. ASSUME NEW t \in Slots PROVE SendFits(t)'
    <3>1. CASE t = s
      <4>1. Stores(s)' /\ Told(s)' /\ EntryFollows(s)'
        BY <1>1, <1>3, <2>2, <2>3 DEF Stores, Stored, Told, EntryFollows, At, Sending
      <4>2. Waits(s)'
        <5>1. Serves(on, c)'
          BY <2>1, <2>6
        <5> QED BY <2>2, <5>1 DEF Waits, Serves, Sending
      <4> QED BY <3>1, <4>1, <4>2 DEF SendFits
    <3>2. CASE t # s
      <4>1. req'[t] = req[t] /\ SendFits(t)
        BY <1>2, <2>2, <3>2 DEF Others
      <4>2. Stores(t)' /\ Told(t)' /\ EntryFollows(t)'
        BY <1>1, <2>3, <4>1 DEF SendFits, Stores, Told, EntryFollows, At, Sending, Stored
      <4>3. ASSUME At(t, "wait"), NEW e, e = req[t].on, NEW d, d = req[t].cid PROVE Serves(e, d)'
        <5>1. Serves(e, d)
          BY <4>1, <4>3 DEF SendFits, Waits
        <5> QED BY <2>6, <5>1
      <4>4. At(t, "wait")' <=> At(t, "wait")
        BY <4>1 DEF At
      <4>5. Waits(t)'
        BY <4>1, <4>3, <4>4 DEF Waits, Serves, Sending
      <4> QED BY <4>2, <4>5 DEF SendFits
    <3> QED BY <3>1, <3>2
  <2>10. Dedupe'
    BY <2>7, <2>8, <2>9, FitsDedupe
  <2>11. SendTypes'
    BY <1>1, <1>6, <2>3, <2>4, SendTypesOf DEF SendTypes
  <2> QED BY <1>1, <2>2, <2>5, <2>10, <2>11, SendOnly
<1> QED BY <1>4, <1>9, <1>10

(* What a send says to its entry, and nobody else hears. *)
LEMMA EntrySaid ==
  ASSUME SendsInv, NEW s \in Slots, NEW st \in {"ok", "err"}, NEW id \in Slots \cup {None},
         \/ entry' = [entry EXCEPT ![s].st = st]
         \/ entry' = [entry EXCEPT ![s].st = st, ![s].id = id]
  PROVE  /\ entry' \in [Slots -> Entries] /\ entry'[s].st = st
         /\ \A t \in Slots \ {s} : entry'[t] = entry[t]
         /\ entry' = [entry EXCEPT ![s].st = st, ![s].id = id] => entry'[s].id = id
<1>1. entry \in [Slots -> Entries] /\ entry[s] \in Entries
  BY SendTypesOf DEF SendTypes
<1>2. CASE entry' = [entry EXCEPT ![s].st = st, ![s].id = id]
  <2> DEFINE e == [entry[s] EXCEPT !.st = st, !.id = id]
  <2>1. e \in Entries /\ e.st = st /\ e.id = id
    BY <1>1 DEF Entries
  <2>2. entry' = [entry EXCEPT ![s] = e]
    BY <1>2
  <2> HIDE DEF e
  <2> QED BY <1>1, <2>1, <2>2
<1>3. CASE entry' = [entry EXCEPT ![s].st = st] /\ entry' # [entry EXCEPT ![s].st = st, ![s].id = id]
  <2> DEFINE e == [entry[s] EXCEPT !.st = st]
  <2>1. e \in Entries /\ e.st = st
    BY <1>1 DEF Entries
  <2>2. entry' = [entry EXCEPT ![s] = e]
    BY <1>3
  <2> HIDE DEF e
  <2> QED BY <1>1, <1>3, <2>1, <2>2
<1> QED BY <1>2, <1>3

(* A request stops sending: what its entry said of a client id it still says,
   and a message that is stored is what the table has. *)
StopsSending(s) ==
  /\ Others({s}) /\ UNCHANGED table /\ again \subseteq again'
  /\ \A t \in Slots \ {s} : entry'[t] = entry[t]
  /\ Stored \subseteq Stored' /\ Stored' \subseteq Stored \cup {s}
  /\ \A m \in Stored : msgs'[m].cid = msgs[m].cid
  /\ \A c \in Cids : Serves(s, c) => Serves(s, c)'
  /\ s \in Stored' => \A c \in Cids \ again' : msgs'[s].cid = c => table[c] = s /\ entry'[s].st = "ok"

LEMMA StopsDedupe ==
  ASSUME TypeOK, Dedupe, NEW s \in Slots, StopsSending(s), Aside(s)', SendFits(s)'
  PROVE  Dedupe'
<1>1. (\A t \in Slots : SendFits(t)) /\ OneSender /\ \A d \in Cids : \A e : table[d] = e /\ e # None => Serves(e, d)
  BY DedupeFits
<1>2. ASSUME NEW d \in Cids, NEW e, Serves(e, d) PROVE Serves(e, d)'
  <2>1. e \in Slots
    BY <1>2 DEF Serves
  <2>2. CASE e = s
    BY <1>2, <2>2 DEF StopsSending, Serves, Sending
  <2>3. CASE e # s
    <3>1. req'[e] = req[e] /\ entry'[e] = entry[e]
      BY <2>1, <2>3 DEF Others, StopsSending
    <3>2. e \in Stored => e \in Stored' /\ msgs'[e].cid = msgs[e].cid
      BY DEF StopsSending
    <3> QED BY <1>2, <3>1, <3>2 DEF Serves, Sending
  <2> QED BY <2>2, <2>3
<1>3. OneSender'
  <2>1. ASSUME NEW d \in Cids \ again', NEW t \in Slots, Sending(t, d)' PROVE table'[d] = t
    <3>1. t # s
      BY <2>1 DEF Aside, Sending
    <3>2. Sending(t, d)
      BY <2>1, <3>1 DEF Sending, Others, StopsSending
    <3> QED BY <1>1, <3>2 DEF OneSender, StopsSending
  <2>2. ASSUME NEW d \in Cids \ again', NEW m \in Stored', msgs'[m].cid = d PROVE table'[d] = m /\ entry'[m].st = "ok"
    <3>1. CASE m = s
      BY <2>2, <3>1 DEF StopsSending
    <3>2. CASE m # s
      <4>1. m \in Stored /\ msgs[m].cid = d /\ entry'[m] = entry[m]
        BY <2>2, <3>2 DEF StopsSending, Stored
      <4> QED BY <1>1, <4>1 DEF OneSender, StopsSending
    <3> QED BY <3>1, <3>2
  <2> QED BY <2>1, <2>2 DEF OneSender
<1>4. ASSUME NEW t \in Slots \ {s} PROVE SendFits(t)'
  <2>1. req'[t] = req[t] /\ entry'[t] = entry[t] /\ SendFits(t)
    BY <1>1 DEF Others, StopsSending
  <2>2. Stores(t)' /\ Told(t)'
    BY <2>1 DEF SendFits, Stores, Told, StopsSending
  <2>3. EntryFollows(t)'
    BY <2>1 DEF SendFits, EntryFollows, Sending, At
  <2>4. ASSUME At(t, "wait"), NEW e, e = req[t].on, NEW d, d = req[t].cid PROVE Serves(e, d)'
    <3>1. Serves(e, d) /\ d \in Cids
      BY <2>1, <2>4, WaitersAsk DEF SendFits, Waits
    <3> QED BY <1>2, <3>1
  <2>5. At(t, "wait")' <=> At(t, "wait")
    BY <2>1 DEF At
  <2>6. Waits(t)'
    BY <2>1, <2>4, <2>5 DEF Waits, Serves, Sending
  <2> QED BY <2>2, <2>3, <2>6 DEF SendFits
<1>5. ASSUME NEW d \in Cids, NEW e, table'[d] = e, e # None PROVE Serves(e, d)'
  BY <1>1, <1>2, <1>5 DEF StopsSending
<1>6. \A t \in Slots : SendFits(t)'
  BY <1>4
<1> QED BY <1>3, <1>5, <1>6, FitsDedupe

(* The message is inserted, with the uploads that are its own. *)
LEMMA Inserted ==
  ASSUME SendsInv, NEW s \in Slots, At(s, "store"), msgs' = Insert(s), UNCHANGED media
  PROVE  /\ msgs' \in [Slots -> MsgRows \cup {NoMsg}]
         /\ s \notin Stored /\ Stored' = Stored \cup {s}
         /\ \A m \in Stored : msgs'[m] = msgs[m]
         /\ msgs'[s].cid = req[s].cid
         /\ OwnsItsUploads'
<1> USE PartsOf
<1> DEFINE r == [st |-> "stored", from |-> req[s].me, cid |-> req[s].cid, ids |-> req[s].ids]
<1>1. req[s] \in SendRequests \cup ForwardRequests
  BY Kinds DEF At, StoreSteps
<1>2. r \in MsgRows /\ r # NoMsg /\ r.cid = req[s].cid /\ r.ids = req[s].ids
  BY <1>1 DEF MsgRows, NoMsg, SendRequests, ForwardRequests
<1>3. msgs \in [Slots -> MsgRows \cup {NoMsg}] /\ msgs' = [msgs EXCEPT ![s] = r]
  BY DEF TypeOK, Insert
<1> HIDE DEF r
<1>4. msgs'[s] = r /\ \A m \in Slots \ {s} : msgs'[m] = msgs[m]
  BY <1>3
<1>5. s \notin Stored
  BY DedupeFits DEF SendFits, Stores, At
<1>6. Stored' = Stored \cup {s}
  BY <1>2, <1>4 DEF Stored
<1>7. OwnsItsUploads'
  <2>1. \A id \in req[s].ids : id \in Rows /\ media[id].msg = s
    BY DEF AttachesPresent, Attaches
  <2>2. Rows' = Rows /\ media' = media
    BY DEF Rows
  <2>3. ASSUME NEW m \in Stored' PROVE \A id \in msgs'[m].ids : id \in Rows /\ media[id].msg = m
    <3>1. CASE m = s
      BY <1>2, <1>4, <2>1, <3>1
    <3>2. CASE m # s
      BY <1>4, <1>6, <2>3, <3>2 DEF Stored, OwnsItsUploads
    <3> QED BY <3>1, <3>2
  <2> QED BY <2>2, <2>3 DEF OwnsItsUploads
<1> QED BY <1>2, <1>3, <1>4, <1>5, <1>6, <1>7 DEF Stored

(* A send that fails tells its entry, and drops it next. *)
FailedSend(s) == /\ Turns(s, req'[s]) /\ Fits(s)' /\ Aside(s)' /\ Told(s)' /\ Waits(s)' /\ EntryFollows(s)'
                 /\ req'[s].at \in {"err", "forget"}
                 /\ entry' \in [Slots -> Entries] /\ \A t \in Slots \ {s} : entry'[t] = entry[t]
                 /\ \/ req[s].cid \in Cids /\ entry'[s].st = "err"
                    \/ req[s].cid = NoCid /\ entry'[s] = entry[s]

LEMMA FailsFails ==
  ASSUME SendsInv, NEW s \in Slots, req[s].at \in StoreSteps, Fails(s)
  PROVE  FailedSend(s)
<1> USE PartsOf
<1>1. req[s] \in SendRequests \cup ForwardRequests
  BY Kinds
<1>2. CASE req[s].cid = NoCid
  <2>1. Ends(s) /\ req'[s].at = "err" /\ UNCHANGED entry
    BY <1>2, AnswerEnds DEF Fails
  <2>2. Fits(s)' /\ Turns(s, req'[s]) /\ Aside(s)'
    BY <2>1, EndsFits, WillBeAside DEF Ends, StoreSteps
  <2>3. Told(s)' /\ Waits(s)' /\ EntryFollows(s)'
    BY <2>1, <2>2 DEF Ends, Told, Waits, EntryFollows, At, Aside
  <2> QED BY <1>2, <2>1, <2>2, <2>3, SendTypesOf DEF FailedSend, SendTypes
<1>3. CASE req[s].cid # NoCid
  <2>1. req[s] \in SendRequests /\ req[s].cid \in Cids
    BY <1>1, <1>3 DEF SendRequests, ForwardRequests
  <2>2. Goto(s, "forget") /\ entry' = [entry EXCEPT ![s].st = "err"]
    BY <1>3 DEF Fails
  <2>3. Goes(s, "forget")
    BY <2>1, <2>2, GotoGoes DEF SendNext, DedupeSteps
  <2>4. Turns(s, req'[s]) /\ req'[s].at = "forget"
    BY <2>3 DEF Goes
  <2>5. entry' \in [Slots -> Entries] /\ entry'[s].st = "err" /\ \A t \in Slots \ {s} : entry'[t] = entry[t]
    BY <2>2, EntrySaid
  <2>6. Fits(s)' /\ Aside(s)'
    BY <2>4, WillBeAside DEF Fits, ActsOnRows, Attaches, HasRoom, At, StoreSteps
  <2>7. Told(s)' /\ Waits(s)' /\ EntryFollows(s)'
    BY <2>4, <2>5, <2>6 DEF Told, Waits, EntryFollows, At, Aside
  <2> QED BY <2>1, <2>4, <2>5, <2>6, <2>7 DEF FailedSend
<1> QED BY <1>2, <1>3

LEMMA FailsStep ==
  ASSUME SendsInv, NEW s \in Slots, req[s].at \in StoreSteps, Fails(s), UNCHANGED <<media, table>>, UNCHANGED Objects,
         \/ UNCHANGED <<msgs, again>>
         \/ At(s, "store") /\ msgs' = Insert(s) /\ again' = again \cup {req[s].cid}
  PROVE  SendsInv'
<1> USE PartsOf
<1>1. FailedSend(s) /\ Others({s})
  BY FailsFails DEF FailedSend, Turns
<1>2. Calm /\ Grows
  BY SameRowsCalm, CalmGrows
<1>3. s \notin Stored
  BY DedupeFits DEF SendFits, Stores, StoreSteps
<1>4. /\ msgs' \in [Slots -> MsgRows \cup {NoMsg}] /\ again' \subseteq Cids \cup {NoCid} /\ again \subseteq again'
      /\ Stored \subseteq Stored' /\ Stored' \subseteq Stored \cup {s}
      /\ \A m \in Stored : msgs'[m].cid = msgs[m].cid
      /\ s \in Stored' => msgs'[s].cid \in again'
      /\ OwnsItsUploads'
  <2>1. CASE UNCHANGED <<msgs, again>>
    BY <1>2, <1>3, <2>1, SameMessagesOwn, SendTypesOf DEF SendTypes, Stored
  <2>2. CASE At(s, "store") /\ msgs' = Insert(s) /\ again' = again \cup {req[s].cid}
    BY <1>1, <2>2, Inserted, SendTypesOf DEF SendTypes, FailedSend
  <2> QED BY <2>1, <2>2
<1>5. \A c \in Cids : Serves(s, c) => Serves(s, c)'
  <2>1. ASSUME NEW c \in Cids, Serves(s, c) PROVE Serves(s, c)'
    <3>1. entry[s].st \notin {"none", "ok"} /\ (entry[s].st = "running" => req[s].cid = c)
      BY <1>3, <2>1 DEF Serves, Sending
    <3>2. entry'[s].st \notin {"none", "ok", "running"}
      BY <1>1, <3>1, SendsAssumption, SendTypesOf DEF FailedSend, SendTypes, Entries
    <3> QED BY <3>2 DEF Serves
  <2> QED BY <2>1
<1>6. StopsSending(s)
  BY <1>1, <1>4, <1>5 DEF StopsSending, FailedSend
<1>7. Stores(s)'
  BY <1>1 DEF Stores, FailedSend
<1>8. Dedupe'
  BY <1>1, <1>6, <1>7, StopsDedupe DEF FailedSend, SendFits
<1>9. SendTypes'
  BY <1>1, <1>4, SendTypesOf DEF SendTypes, FailedSend
<1> QED BY <1>1, <1>2, <1>4, <1>8, <1>9, CalmStep DEF FailedSend, StoreSteps

(* A send that goes on tells nobody. *)
LEMMA GoesOnDedupe ==
  ASSUME SendsInv, NEW s \in Slots, req[s].at \in StoreSteps, req'[s].at \in StoreSteps, req'[s].cid = req[s].cid,
         Others({s}), UNCHANGED sendVars
  PROVE  Dedupe' /\ SendTypes'
<1> USE PartsOf
<1>1. SendFits(s) /\ UNCHANGED <<msgs, table, entry, again>>
  BY DedupeFits DEF sendVars
<1>2. SameSending({s}) /\ SameMessages
  BY <1>1 DEF SameSending, Sending, StoreSteps, SameMessages, Stored
<1>3. Stores(s)' /\ Waits(s)' /\ Told(s)'
  BY <1>1 DEF SendFits, Stores, Stored, Waits, Told, At, StoreSteps
<1>4. EntryFollows(s)'
  <2>1. \A c \in Cids : Sending(s, c)' => entry[s].st = "running"
    BY <1>1, <1>2 DEF SendFits, EntryFollows, SameSending
  <2> QED BY <1>1, <2>1 DEF EntryFollows, At, StoreSteps
<1>5. Dedupe'
  BY <1>1, <1>2, <1>3, <1>4, DedupeStep DEF SendFits
<1> QED BY <1>1, <1>5, SendTypesOf DEF SendTypes

LEMMA SendChecksStep ==
  ASSUME SendsInv, NEW s \in Slots, SendChecks(s)
  PROVE  SendsInv'
<1> USE PartsOf
<1>1. req[s].at = "may" /\ req[s] \in SendRequests \cup ForwardRequests /\ UNCHANGED <<media, msgs, table, again>> /\ UNCHANGED Objects
  BY Kinds DEF SendChecks, At, StoreSteps, Objects
<1>2. CASE Fails(s)
  BY <1>1, <1>2, FailsStep DEF StoreSteps
<1>3. ASSUME NEW at \in {"store", "check"}, Goto(s, at), UNCHANGED entry, at = "store" => req[s].ids = {}
      PROVE  SendsInv'
  <2>1. Goes(s, at)
    BY <1>1, <1>3, GotoGoes DEF ForwardNext, SendNext, StoreSteps
  <2>2. Turns(s, req'[s]) /\ Others({s}) /\ req'[s].at = at /\ req'[s].cid = req[s].cid /\ req'[s].ids = req[s].ids
    BY <1>1, <2>1 DEF Goes, Turns
  <2>3. Fits(s)'
    BY <1>3, <2>2 DEF Fits, ActsOnRows, Attaches, HasRoom, At
  <2>4. Dedupe' /\ SendTypes'
    BY <1>1, <1>3, <2>2, GoesOnDedupe DEF StoreSteps, sendVars
  <2> QED BY <1>1, <2>2, <2>3, <2>4, SendOnly
<1>4. CASE Goto(s, IF req[s].ids = {} THEN "store" ELSE "check") /\ UNCHANGED entry
  BY <1>3, <1>4
<1> QED BY <1>2, <1>4 DEF SendChecks

(* A send that is about to attach, or has attached, one more. *)
LEMMA TurnsTo ==
  ASSUME TypeOK, NEW s \in Slots, req[s] \in SendRequests \cup ForwardRequests, NEW todo \in SUBSET Ids, NEW at \in {"attach", "store"},
         req' = [req EXCEPT ![s].todo = todo, ![s].at = at] \/ req' = [req EXCEPT ![s].at = at, ![s].todo = todo]
  PROVE  /\ Turns(s, req'[s]) /\ Others({s})
         /\ req'[s].at = at /\ req'[s].todo = todo /\ req'[s].cid = req[s].cid /\ req'[s].ids = req[s].ids
<1> DEFINE r == [req[s] EXCEPT !.todo = todo, !.at = at]
<1>1. req' = [req EXCEPT ![s] = r]
  <2>1. req \in [Slots -> Requests]
    BY DEF TypeOK
  <2> QED BY <2>1
<1>2. r \in Requests /\ r.at = at /\ r.todo = todo /\ r.cid = req[s].cid /\ r.ids = req[s].ids
  <2>1. CASE req[s] \in SendRequests
    BY <2>1 DEF SendRequests, Requests
  <2>2. CASE req[s] \in ForwardRequests
    BY <2>2 DEF ForwardRequests, Requests
  <2> QED BY <2>1, <2>2
<1> HIDE DEF r
<1> QED BY <1>1, <1>2, SetTurns DEF Turns

LEMMA CheckUploadsStep ==
  ASSUME SendsInv, NEW s \in Slots, CheckUploads(s)
  PROVE  SendsInv'
<1> USE PartsOf
<1>1. req[s].at = "check" /\ req[s] \in SendRequests \cup ForwardRequests /\ UNCHANGED <<media, msgs, table, again>> /\ UNCHANGED Objects
  BY Kinds DEF CheckUploads, At, StoreSteps, Objects
<1>2. CASE Fails(s)
  BY <1>1, <1>2, FailsStep DEF StoreSteps
<1>3. CASE /\ \A id \in req[s].ids : Attachable(id, req[s].me) /\ id \in files
           /\ req' = [req EXCEPT ![s].at = "attach", ![s].todo = req[s].ids]
           /\ UNCHANGED entry
  <2>1. req[s].ids \in SUBSET Ids
    BY <1>1 DEF SendRequests, ForwardRequests
  <2>2. /\ Turns(s, req'[s]) /\ Others({s}) /\ req'[s].at = "attach" /\ req'[s].todo = req[s].ids
        /\ req'[s].cid = req[s].cid /\ req'[s].ids = req[s].ids
    BY <1>1, <1>3, <2>1, TurnsTo
  <2>3. Attaches(s)'
    <3>1. \A id \in req[s].ids : id \in Rows' /\ Present(id)'
      BY <1>1, <1>3 DEF Attachable, Rows, Present, Objects
    <3> HIDE DEF Present
    <3> QED BY <2>2, <3>1 DEF Attaches, At
  <2>4. Fits(s)'
    BY <2>2, <2>3 DEF Fits, ActsOnRows, HasRoom, At
  <2>5. Dedupe' /\ SendTypes'
    BY <1>1, <1>3, <2>2, GoesOnDedupe DEF StoreSteps, sendVars
  <2> QED BY <1>1, <2>2, <2>4, <2>5, SendOnly
<1> QED BY <1>2, <1>3 DEF CheckUploads

(* AttachMedia: the row becomes the message's, and its file is known to be there. *)
LEMMA AttachStep ==
  ASSUME SendsInv, NEW s \in Slots, Attach(s)
  PROVE  SendsInv'
<1> USE PartsOf
<1>1. req[s].at = "attach" /\ req[s] \in SendRequests \cup ForwardRequests /\ UNCHANGED <<msgs, table, again>> /\ UNCHANGED Objects
  BY Kinds DEF Attach, At, StoreSteps, Objects
<1>2. CASE Fails(s) /\ UNCHANGED media
  BY <1>1, <1>2, FailsStep DEF StoreSteps
<1>3. CASE ~(Fails(s) /\ UNCHANGED media)
  <2>0. PICK id \in req[s].todo :
             /\ Attachable(id, req[s].me)
             /\ media' = AttachMedia(id, s)
             /\ req' = [req EXCEPT ![s].todo = @ \ {id}, ![s].at = IF req[s].todo = {id} THEN "store" ELSE "attach"]
             /\ UNCHANGED entry
    BY <1>3 DEF Attach
  <2> PICK todo, at : todo = req[s].todo \ {id} /\ at = IF req[s].todo = {id} THEN "store" ELSE "attach"
    OBVIOUS
  <2>1. todo \in SUBSET Ids /\ at \in {"store", "attach"} /\ (at = "store" => todo = {})
    BY <1>1 DEF SendRequests, ForwardRequests
  <2>2. req' = [req EXCEPT ![s].todo = todo, ![s].at = at]
    <3>1. req \in [Slots -> Requests]
      BY DEF TypeOK
    <3> QED BY <2>0, <3>1
  <2>3. /\ Turns(s, req'[s]) /\ Others({s}) /\ req'[s].at = at /\ req'[s].todo = todo
        /\ req'[s].cid = req[s].cid /\ req'[s].ids = req[s].ids
    BY <1>1, <2>1, <2>2, TurnsTo
  <2>4. Attached(id, s)
    BY <2>0, AttachRows
  <2>5. Grows /\ SameMarks /\ Rows' = Rows
    BY <2>4, AttachedGrows
  <2>6. Attaches(s) /\ Present(id) /\ id \in Rows
    BY <1>1, <2>0 DEF AttachesPresent, Attaches, At
  <2>7. PresentStays
    BY <1>1, <2>5, PresentStep DEF Objects
  <2>8. Attaches(s)'
    <3>1. \A x \in todo : x \in Rows' /\ Present(x)'
      BY <1>1, <2>5, <2>6, <2>7 DEF Attaches, At, PresentStays
    <3>2. \A x \in req[s].ids \ todo : x \in Rows' /\ media'[x].msg = s
      BY <1>1, <2>4, <2>5, <2>6 DEF Attaches, At, Attached
    <3>3. todo \subseteq req[s].ids
      BY <1>1, <2>6 DEF Attaches, At
    <3> HIDE DEF Present
    <3> QED BY <2>1, <2>3, <3>1, <3>2, <3>3 DEF Attaches, At
  <2>9. ActsOnRows(s)' /\ HasRoom(s)'
    BY <2>1, <2>3 DEF ActsOnRows, HasRoom, At
  <2>10. Dedupe' /\ SendTypes'
    BY <1>1, <2>0, <2>1, <2>3, GoesOnDedupe DEF StoreSteps, sendVars
  <2>11. TypeOK'
    BY <1>1, <2>3, <2>5, <2>10, TypesUnmoved, TypesStep DEF Turns, SendTypes, Objects
  <2>12. OnRows' /\ AttachesPresent' /\ CleansInOrder'
    BY <1>1, <2>3, <2>5, <2>7, <2>8, <2>9, OnRowsStep, AttachesStep DEF CleansInOrder, Objects
  <2>13. ReadyIsPresent'
    <3>1. ASSUME NEW x \in Rows
          PROVE  /\ media'[x].st = "ready" => Present(x)'
                 /\ media'[x].msg # None => media'[x].st = "ready"
      <4>1. CASE x = id
        BY <2>4, <2>6, <2>7, <4>1 DEF Attached, PresentStays
      <4>2. CASE x # id
        BY <2>4, <2>7, <4>2 DEF Attached, PresentStays, ReadyIsPresent
      <4> QED BY <4>1, <4>2
    <3> HIDE DEF Present
    <3> QED BY <2>5, <3>1 DEF ReadyIsPresent
  <2>14. ObjectsNoted'
    <3>1. \A x : Excused(x) => Excused(x)'
      BY <1>1, <2>3, ExcusedStep DEF Objects
    <3> QED BY <1>1, <2>5, <3>1, ObjectsStep DEF Objects
  <2>15. QuotaHolds' /\ RoomIsLeft'
    BY <1>1, <2>3, <2>5, <2>9, QuotaStep DEF Objects
  <2>16. OwnsItsUploads'
    BY <1>1, <2>5, SameMessagesOwn
  <2> QED BY <2>10, <2>11, <2>12, <2>13, <2>14, <2>15, <2>16, PartsMake
<1> QED BY <1>2, <1>3

(* The message is stored and the request answered, its entry first. *)
LEMMA AddMessageStep ==
  ASSUME SendsInv, NEW s \in Slots, AddMessage(s)
  PROVE  SendsInv'
<1> USE PartsOf
<1>1. req[s].at = "store" /\ req[s] \in SendRequests \cup ForwardRequests /\ UNCHANGED <<media, table>> /\ UNCHANGED Objects
  BY Kinds DEF AddMessage, At, StoreSteps, Objects
<1>2. CASE Fails(s) /\ (UNCHANGED <<msgs, again>> \/ (msgs' = Insert(s) /\ again' = again \cup {req[s].cid}))
  BY <1>1, <1>2, FailsStep DEF StoreSteps, At
<1>3. CASE /\ msgs' = Insert(s)
           /\ req' = [req EXCEPT ![s] = [at |-> "ok", id |-> s, cid |-> req[s].cid]]
           /\ entry' = IF req[s].cid = NoCid THEN entry ELSE [entry EXCEPT ![s].st = "ok", ![s].id = s]
           /\ UNCHANGED again
  <2> PICK cid \in Cids \cup {NoCid} : cid = req[s].cid
    BY <1>1 DEF SendRequests, ForwardRequests
  <2>1. Turns(s, req'[s]) /\ Others({s}) /\ req'[s].at = "ok" /\ req'[s].id = s /\ req'[s].cid = cid
    <3> DEFINE r == [at |-> "ok", id |-> s, cid |-> cid]
    <3>1. r \in Answers /\ r.at = "ok" /\ r.id = s /\ r.cid = cid
      BY DEF Answers
    <3>2. req' = [req EXCEPT ![s] = r]
      BY <1>3
    <3> HIDE DEF r
    <3> QED BY <3>1, <3>2, SetTurns DEF Requests, Turns
  <2>2. /\ msgs' \in [Slots -> MsgRows \cup {NoMsg}]
        /\ s \notin Stored /\ Stored' = Stored \cup {s}
        /\ \A m \in Stored : msgs'[m] = msgs[m]
        /\ msgs'[s].cid = cid
        /\ OwnsItsUploads'
    BY <1>1, <1>3, Inserted DEF At
  <2>3. /\ entry' \in [Slots -> Entries] /\ \A t \in Slots \ {s} : entry'[t] = entry[t]
        /\ cid = NoCid => entry' = entry
        /\ cid # NoCid => entry'[s].st = "ok" /\ entry'[s].id = s
    <3>1. CASE cid = NoCid
      BY <1>3, <3>1, SendTypesOf DEF SendTypes
    <3>2. CASE cid # NoCid
      <4>1. entry' = [entry EXCEPT ![s].st = "ok", ![s].id = s]
        BY <1>3, <3>2
      <4> QED BY <3>2, <4>1, EntrySaid
    <3> QED BY <3>1, <3>2
  <2>4. Fits(s)' /\ Aside(s)'
    BY <2>1, WillBeAside DEF Fits, ActsOnRows, Attaches, HasRoom, At, StoreSteps
  <2>5. SendFits(s) /\ OneSender
    BY DedupeFits
  <2>6. ASSUME NEW c \in Cids, Serves(s, c) PROVE Serves(s, c)'
    <3>1. entry[s].st \notin {"none", "ok"} /\ (entry[s].st = "running" => cid = c)
      BY <2>2, <2>6 DEF Serves, Sending
    <3>2. CASE cid = NoCid
      BY <2>3, <3>1, <3>2, SendsAssumption DEF Serves
    <3>3. CASE cid # NoCid
      <4>1. entry[s].st = "running"
        BY <1>1, <2>5, <3>3 DEF SendFits, EntryFollows, Sending
      <4>2. s \in Stored' /\ msgs'[s].cid = c
        BY <2>2, <3>1, <4>1
      <4> QED BY <2>3, <3>3, <4>2 DEF Serves
    <3> QED BY <3>2, <3>3
  <2>7. ASSUME NEW c \in Cids \ again', cid = c PROVE table[c] = s /\ entry'[s].st = "ok"
    <3>1. Sending(s, c) /\ c \notin again /\ c # NoCid
      BY <1>1, <1>3, <2>7, SendsAssumption DEF Sending
    <3> QED BY <2>3, <2>5, <2>7, <3>1 DEF OneSender
  <2>8. StopsSending(s)
    BY <1>1, <1>3, <2>1, <2>2, <2>3, <2>6, <2>7 DEF StopsSending
  <2>9. SendFits(s)'
    <3>1. Told(s)' /\ Stores(s)'
      BY <2>1, <2>2 DEF Told, Stores
    <3>2. Waits(s)' /\ EntryFollows(s)'
      BY <2>1, <2>4 DEF Waits, EntryFollows, At, Aside
    <3> QED BY <3>1, <3>2 DEF SendFits
  <2>10. Dedupe'
    BY <2>4, <2>8, <2>9, StopsDedupe
  <2>11. SendTypes'
    BY <1>1, <1>3, <2>2, <2>3, SendTypesOf DEF SendTypes
  <2>12. Calm
    BY <1>1, SameRowsCalm
  <2> QED BY <1>1, <2>1, <2>2, <2>4, <2>10, <2>11, <2>12, CalmStep
<1> QED BY <1>2, <1>3 DEF AddMessage

(* The entry of a send that failed is dropped, if it is still in the table. *)
LEMMA ForgetStep ==
  ASSUME SendsInv, NEW s \in Slots, Forget(s)
  PROVE  SendsInv'
<1> USE PartsOf
<1>1. req[s].at = "forget" /\ req[s] \in SendRequests /\ UNCHANGED <<media, msgs, entry, again>> /\ UNCHANGED Objects
  BY Kinds DEF Forget, At, DedupeSteps, Objects
<1>2. Ends(s) /\ Turns(s, req'[s]) /\ Others({s})
  BY AnswerEnds DEF Forget, Ends, Turns
<1>3. entry[s].st = "err"
  BY <1>1, DedupeFits DEF SendFits, EntryFollows, At
<1>4. /\ table' \in [Cids -> Slots \cup {None}]
      /\ \A c \in Cids : table'[c] = table[c] \/ (table'[c] = None /\ entry[table[c]].st = "err")
  <2>1. table \in [Cids -> Slots \cup {None}]
    BY SendTypesOf DEF SendTypes
  <2> QED BY <1>3, <2>1 DEF Forget
<1>5. Aside(s) /\ Aside(s)'
  BY <1>1, <1>2, IsAside, WillBeAside DEF StoreSteps, Ends
<1>6. SendFits(s)'
  BY <1>2, <1>5 DEF SendFits, Stores, Waits, EntryFollows, Told, At, Aside, Ends
<1>7. SameSending({s}) /\ SameMessages
  BY <1>1, <1>5 DEF SameSending, Aside, SameMessages, Stored
<1>8. Dedupe'
  BY <1>1, <1>2, <1>4, <1>6, <1>7, DedupeDrops
<1>9. SendTypes' /\ Fits(s)'
  BY <1>1, <1>2, <1>4, SendTypesOf, EndsFits DEF SendTypes
<1> QED BY <1>1, <1>2, <1>8, <1>9, SendOnly

(* A message is marked deleted, and stays. *)
LEMMA EraseStep ==
  ASSUME SendsInv, NEW s \in Slots, Erase(s)
  PROVE  SendsInv'
<1> USE PartsOf
<1>1. req[s].at = "erase" /\ req[s] \in EraseRequests /\ UNCHANGED <<media, table, entry, again>> /\ UNCHANGED Objects
  BY Kinds DEF Erase, At, EraseSteps, Objects
<1>2. Calm /\ Grows /\ Rows' = Rows
  BY <1>1, SameRowsCalm, CalmGrows
<1>3. SendFits(s)
  BY DedupeFits
<1> PICK m \in Stored : m = req[s].id
  BY <1>1, <1>3 DEF SendFits, Stores
<1>4. CASE Answer(s, "err") /\ UNCHANGED msgs
  BY <1>1, <1>2, <1>4, AnswerEnds, EndsStep, IsAside DEF StoreSteps, sendVars
<1>5. CASE Goto(s, "expire") /\ msgs' = [msgs EXCEPT ![m].st = "deleted"]
  <2>1. Goes(s, "expire")
    BY <1>1, <1>5, GotoGoes DEF EraseSteps
  <2>2. Turns(s, req'[s]) /\ Others({s}) /\ req'[s].at = "expire" /\ req'[s].id = m
    BY <1>1, <2>1 DEF Goes, Turns
  <2>3. /\ msgs' \in [Slots -> MsgRows \cup {NoMsg}]
        /\ Stored' = Stored
        /\ \A x \in Stored : msgs'[x].cid = msgs[x].cid /\ msgs'[x].ids = msgs[x].ids
    <3> DEFINE r == [msgs[m] EXCEPT !.st = "deleted"]
    <3>1. msgs \in [Slots -> MsgRows \cup {NoMsg}] /\ m \in Slots /\ msgs[m] \in MsgRows
      BY DEF TypeOK, Stored
    <3>2. r \in MsgRows /\ r.st = "deleted" /\ r.cid = msgs[m].cid /\ r.ids = msgs[m].ids
      BY <3>1 DEF MsgRows
    <3>3. r # NoMsg
      <4>1. NoMsg.st = "none"
        BY DEF NoMsg
      <4> HIDE DEF r
      <4> QED BY <3>2, <4>1
    <3>4. msgs' = [msgs EXCEPT ![m] = r]
      BY <1>5
    <3> HIDE DEF r
    <3>5. msgs'[m] = r /\ \A x \in Slots \ {m} : msgs'[x] = msgs[x]
      BY <3>1, <3>4
    <3> QED BY <3>1, <3>2, <3>3, <3>4, <3>5 DEF Stored
  <2>4. Fits(s)'
    BY <2>2 DEF Fits, ActsOnRows, Attaches, HasRoom, At
  <2>5. Aside(s) /\ Aside(s)'
    BY <1>1, <2>2, IsAside, WillBeAside DEF StoreSteps
  <2>6. SendFits(s)'
    <3>1. Stores(s)'
      BY <1>1, <1>3, <2>2, <2>3 DEF SendFits, Stores
    <3> QED BY <2>2, <2>5, <3>1 DEF SendFits, Waits, EntryFollows, Told, At, Aside
  <2>7. SameSending({s}) /\ SameMessages
    BY <2>3, <2>5 DEF SameSending, Aside, SameMessages
  <2>8. Dedupe'
    BY <1>1, <2>2, <2>6, <2>7, DedupeStep
  <2>9. OwnsItsUploads'
    BY <1>2, <2>3, OwnsStep, UploadsAssumption
  <2>10. SendTypes'
    BY <1>1, <2>3, SendTypesOf DEF SendTypes
  <2> QED BY <1>1, <1>2, <2>2, <2>4, <2>8, <2>9, <2>10, CalmStep
<1> QED BY <1>4, <1>5 DEF Erase

LEMMA ExpireMessageStep ==
  ASSUME SendsInv, NEW s \in Slots, ExpireMessage(s)
  PROVE  SendsInv'
<1> USE PartsOf
<1>1. req[s].at = "expire" /\ Ends(s) /\ UNCHANGED Objects /\ UNCHANGED sendVars
  BY AnswerEnds DEF ExpireMessage, At, Objects
<1>2. Calm
  BY ExpireCalm, SameRowsCalm DEF ExpireMessage
<1> QED BY <1>1, <1>2, EndsStep, IsAside DEF StoreSteps

(* Time passes for an entry, and no request moves. *)
LEMMA WindowPassesStep ==
  ASSUME SendsInv, NEW s \in Slots, WindowPasses(s)
  PROVE  SendsInv'
<1> USE PartsOf
<1>1. UNCHANGED <<media, req, raced, msgs, table, again>> /\ UNCHANGED Objects
  BY DEF WindowPasses, mediaVars, Objects
<1>2. Calm /\ Grows /\ SameMarks /\ RowsStay /\ Rows' = Rows /\ Others({})
  BY <1>1, SameRowsCalm, CalmGrows DEF Calm, Others
<1>3. /\ entry' \in [Slots -> Entries]
      /\ \A t \in Slots : entry'[t].st = entry[t].st /\ entry'[t].id = entry[t].id
  <2> DEFINE e == [entry[s] EXCEPT !.old = TRUE]
  <2>1. entry \in [Slots -> Entries] /\ entry[s] \in Entries
    BY SendTypesOf DEF SendTypes
  <2>2. e \in Entries /\ e.st = entry[s].st /\ e.id = entry[s].id
    BY <2>1 DEF Entries
  <2>3. entry' = [entry EXCEPT ![s] = e]
    BY DEF WindowPasses
  <2> HIDE DEF e
  <2> QED BY <2>1, <2>2, <2>3
<1>4. TypeOK'
  BY <1>1, <1>2, <1>3, TypesUnmoved, TypesStep DEF Objects
<1>5. PresentStays
  BY <1>1, <1>2, PresentStep DEF Objects
<1>6. OnRows' /\ ReadyIsPresent' /\ AttachesPresent' /\ OwnsItsUploads' /\ CleansInOrder'
  BY <1>1, <1>2, <1>5, OnRowsStep, ReadyStep, AttachesStep, SameMessagesOwn DEF CleansInOrder, Objects
<1>7. QuotaHolds' /\ RoomIsLeft'
  BY <1>1, <1>2, QuotaStep
<1>8. ObjectsNoted'
  <2>1. \A x : Excused(x) => Excused(x)'
    BY <1>1, <1>2, ExcusedStep DEF Objects
  <2> QED BY <1>1, <1>2, <2>1, ObjectsStep DEF Objects
<1>9. Dedupe'
  <2>1. SameSending({}) /\ SameMessages
    BY <1>1 DEF SameSending, SameMessages, Stored
  <2> QED BY <1>1, <1>2, <1>3, <2>1, DedupeStep
<1> QED BY <1>4, <1>6, <1>7, <1>8, <1>9, PartsMake

-----------------------------------------------------------------------------
(* The invariant, and what is asked of the system. *)

(* What is there at the start. *)
LEMMA AtTheStart ==
  ASSUME UploadsInit
  PROVE  /\ media \in [Ids -> MediaRows \cup {NoRow}]
         /\ Rows = files /\ files \subseteq DOMAIN Uploader /\ stills \subseteq files
         /\ \A id \in Rows : /\ media[id].st = "pending" /\ media[id].owner = Uploader[id] /\ media[id].msg = None
                             /\ media[id].got = {} /\ ~media[id].gone
                             /\ id \in stills => media[id].still
<1> DEFINE r(id) == [Row(Uploader[id]) EXCEPT !.link = FALSE, !.still = (id \in stills)]
<1>1. files \subseteq DOMAIN Uploader /\ stills \subseteq files /\ DOMAIN Uploader \subseteq Ids
      /\ media = [id \in Ids |-> IF id \notin files THEN NoRow ELSE r(id)]
  BY UploadsAssumption DEF UploadsInit
<1>2. ASSUME NEW id \in files
      PROVE  /\ r(id) \in MediaRows /\ r(id).st = "pending" /\ r(id).owner = Uploader[id] /\ r(id).msg = None
             /\ r(id).got = {} /\ ~r(id).gone
             /\ id \in stills => r(id).still
  <2>1. Uploader[id] \in Users
    BY <1>1, <1>2, UploadsAssumption
  <2> DEFINE q(still) == [Row(Uploader[id]) EXCEPT !.link = FALSE, !.still = still]
  <2>2. ASSUME NEW still \in BOOLEAN
        PROVE  /\ q(still) \in MediaRows /\ q(still).st = "pending" /\ q(still).owner = Uploader[id] /\ q(still).msg = None
               /\ q(still).got = {} /\ ~q(still).gone
               /\ q(still).still = still
    BY <2>1 DEF Row, MediaRows
  <2>3. CASE id \in stills
    <3>1. r(id) = q(TRUE)
      BY <2>3, Zenon
    <3> HIDE DEF q, r
    <3> QED BY <2>2, <3>1
  <2>4. CASE id \notin stills
    <3>0. (id \in stills) = FALSE
      BY <2>4
    <3>1. r(id) = q(FALSE)
      BY <3>0, Zenon
    <3> HIDE DEF q, r
    <3> QED BY <2>2, <2>4, <3>1
  <2> QED BY <2>3, <2>4
<1> HIDE DEF r
<1> QED BY <1>1, <1>2, NoRowIsNone DEF Rows

LEMMA InitInv ==
  ASSUME Init
  PROVE  SendsInv
<1>1. UploadsInit /\ req = [s \in Slots |-> Unused] /\ clean = Idle /\ passes = 0 /\ loose = {} /\ broken = {} /\ raced = {}
  BY DEF Init, UploadsInit
<1>2. /\ media \in [Ids -> MediaRows \cup {NoRow}]
      /\ Rows = files /\ files \subseteq DOMAIN Uploader /\ stills \subseteq files
      /\ \A id \in Rows : /\ media[id].st = "pending" /\ media[id].owner = Uploader[id] /\ media[id].msg = None
                          /\ media[id].got = {} /\ ~media[id].gone
                          /\ id \in stills => media[id].still
  BY <1>1, AtTheStart
<1>3. \A s \in Slots : req[s] = Unused /\ req[s].at = "unused"
  BY <1>1 DEF Unused
<1>4. Stored = {}
  BY DEF Init, Stored
<1>5. \A s \in Slots : entry[s].st = "none"
  BY DEF Init, NoEntry
<1>6. UploadsTypeOK
  <2>1. IsFiniteSet(Rows)
    BY <1>2, UploadsAssumption, FS_Subset
  <2>2. passes \in 0..MaxCleanups
    BY <1>1, UploadsAssumption
  <2>3. clean \in [at : {"idle", "stills", "remove", "lru"}, ids : SUBSET Rows, stills : SUBSET Rows,
                   done : SUBSET Rows, why : {"expired", "lru"}]
    BY <1>1 DEF Idle
  <2> QED BY <1>1, <1>2, <2>1, <2>2, <2>3 DEF UploadsTypeOK
<1>7. TypeOK
  <2>1. Unused \in Requests
    BY DEF Unused, Requests, Answers
  <2>2. NoEntry \in Entries
    BY DEF NoEntry, Entries
  <2> QED BY <1>1, <1>6, <2>1, <2>2 DEF TypeOK, Init
<1>8. OnRows /\ AttachesPresent /\ RoomIsLeft
  BY <1>3 DEF OnRows, ActsOnRows, AttachesPresent, Attaches, RoomIsLeft, HasRoom, At
<1>9. CleansInOrder
  BY <1>1 DEF CleansInOrder, Idle
<1>10. ReadyIsPresent
  BY <1>2 DEF ReadyIsPresent
<1>11. ObjectsNoted
  <2>1. Swept = {} /\ Unseen = {}
    BY <1>1, <1>2 DEF Swept, Unseen, Idle
  <2> QED BY <1>2, <2>1 DEF ObjectsNoted
<1>12. QuotaHolds
  <2>1. ASSUME NEW u \in Users PROVE Cardinality(Counted(u)) <= DailyFiles
    <3> DEFINE all == {id \in DOMAIN Uploader : Uploader[id] = u}
    <3>1. Counted(u) \subseteq all /\ all \subseteq DOMAIN Uploader
      BY <1>2 DEF Counted
    <3>2. IsFiniteSet(all) /\ Cardinality(all) <= DailyFiles
      BY <3>1, UploadsAssumption, FS_Subset
    <3> HIDE DEF all
    <3>3. IsFiniteSet(Counted(u)) /\ Cardinality(Counted(u)) <= Cardinality(all)
      BY <3>1, <3>2, FS_Subset
    <3>4. Cardinality(Counted(u)) \in Nat /\ Cardinality(all) \in Nat
      BY <3>2, <3>3, FS_CardinalityType
    <3> QED BY <3>2, <3>3, <3>4, UploadsAssumption
  <2>2. Cardinality(Live \ raced) <= UploadCap
    <3>1. Live \ raced \subseteq DOMAIN Uploader
      BY <1>2 DEF Live
    <3>2. IsFiniteSet(Live \ raced) /\ Cardinality(Live \ raced) <= Cardinality(DOMAIN Uploader)
      BY <3>1, UploadsAssumption, FS_Subset
    <3>3. Cardinality(Live \ raced) \in Nat /\ Cardinality(DOMAIN Uploader) \in Nat
      BY <3>2, UploadsAssumption, FS_CardinalityType
    <3> QED BY <3>2, <3>3, UploadsAssumption
  <2> QED BY <2>1, <2>2 DEF QuotaHolds
<1>13. Dedupe
  <2>1. StoresLast /\ EntriesFollow /\ AnswerIsStored
    BY <1>3, <1>4, <1>5 DEF StoresLast, Stores, EntriesFollow, EntryFollows, AnswerIsStored, Sending, At
  <2>2. EntriesServe
    BY <1>3 DEF EntriesServe, Init, At
  <2>3. OneSender
    BY <1>3, <1>4 DEF OneSender, Sending
  <2> QED BY <2>1, <2>2, <2>3 DEF Dedupe
<1>14. OwnsItsUploads
  BY <1>4 DEF OwnsItsUploads
<1> QED BY <1>6, <1>7, <1>8, <1>9, <1>10, <1>11, <1>12, <1>13, <1>14 DEF SendsInv, UploadsInv, Dedupe

LEMMA SendStepStep ==
  ASSUME SendsInv, NEW s \in Slots, SendStep(s)
  PROVE  SendsInv'
  BY SendStartStep, DoStep, WokenStep, GivesUpStep, SendChecksStep, CheckUploadsStep, AttachStep, AddMessageStep, ForgetStep,
     ForwardSourceStep, EraseStep, ExpireMessageStep
  DEF SendStep

LEMMA Stutters ==
  ASSUME SendsInv, UNCHANGED vars
  PROVE  SendsInv'
<1> USE PartsOf
<1>1. UNCHANGED <<media, files, stills, req, clean, passes, loose, broken, raced>> /\ UNCHANGED sendVars
  BY DEF vars, mediaVars
<1>2. Calm /\ UNCHANGED Objects
  BY <1>1, SameRowsCalm DEF Objects
<1> QED BY <1>1, <1>2, CalmStore

LEMMA NextInv ==
  ASSUME SendsInv, [Next]_vars
  PROVE  SendsInv'
<1>1. ASSUME NEW s \in Slots, SendStep(s) \/ WindowPasses(s) \/ (MediaStep(s) /\ UNCHANGED sendVars)
      PROVE  SendsInv'
  BY <1>1, SendStepStep, WindowPassesStep, MediaStepStep
<1>2. CASE StoreStep /\ UNCHANGED sendVars
  BY <1>2, StoreStepStep
<1>3. CASE UNCHANGED vars
  BY <1>3, Stutters
<1> QED BY <1>1, <1>2, <1>3 DEF Next

(* Types, no upload of two messages and none missing from its own, and all that
   they rest on: however the requests of a chat, the phones, the owners who
   leave and the cleanup interleave (media.go, service.go, dedupe.go). *)
THEOREM SendsInvHolds == Spec => []SendsInv
<1>1. Init => SendsInv
  BY InitInv
<1>2. SendsInv /\ [Next]_vars => SendsInv'
  BY NextInv
<1> QED BY <1>1, <1>2, PTL DEF Spec

(* An attachment that is shown has its file in the store, but from its removal
   by the cleanup to the mark in its row, or where the mark was not made: it
   failed, the store's answer was lost, or the server was killed. *)
THEOREM AttachedHasFileHolds == Spec => []AttachedHasFile
<1>1. SendsInv => AttachedHasFile
  <2> SUFFICES ASSUME SendsInv, NEW id \in Live, Ready(id) PROVE id \in files \cup clean.done \cup broken
    BY DEF AttachedHasFile
  <2>1. Present(id)
    BY PartsOf DEF ReadyIsPresent, Ready
  <2> QED BY <2>1 DEF Present
<1> QED BY <1>1, SendsInvHolds, PTL

(* A medium that is marked deleted leaves no object behind, but one written
   while it was removed or later, a picture that could not be looked up, or a
   picture that was put and never marked. *)
THEOREM OrphansExplainedHolds == Spec => []OrphansExplained
<1>1. SendsInv => OrphansExplained
  <2> SUFFICES ASSUME SendsInv, NEW id \in Rows \ Live
               PROVE  /\ id \in files => <<"file", id>> \in loose
                      /\ id \in stills => Excused(id)
    BY DEF OrphansExplained, Excused
  <2>1. id \in Swept
    BY DEF Swept, Live
  <2> QED BY <2>1, PartsOf DEF ObjectsNoted
<1> QED BY <1>1, SendsInvHolds, PTL

(* The daily quota and the cap of the store are passed only by uploads and
   copies whose checks overlap. *)
THEOREM QuotaHoldsAlways == Spec => []QuotaHolds
<1>1. SendsInv => QuotaHolds
  BY PartsOf
<1> QED BY <1>1, SendsInvHolds, PTL

(* A message that is sent again and again is stored once, unless its entry was
   dropped or the outcome of its insertion is unknown. *)
THEOREM SentOnceHolds == Spec => []SentOnce
<1>1. SendsInv => SentOnce
  <2> SUFFICES ASSUME SendsInv, NEW m \in Stored, NEW n \in Stored, msgs[m].cid = msgs[n].cid, msgs[m].cid # NoCid,
                      msgs[m].cid \notin again
               PROVE  m = n
    BY DEF SentOnce
  <2> PICK c \in Cids : c = msgs[m].cid
    BY PartsOf DEF TypeOK, Stored, MsgRows
  <2> QED BY DedupeFits, PartsOf DEF OneSender
<1> QED BY <1>1, SendsInvHolds, PTL

(* Whoever is told that a message was sent is told of one that is stored, with
   the client id it asked for. *)
THEOREM AnswerIsStoredHolds == Spec => []AnswerIsStored
<1>1. SendsInv => AnswerIsStored
  BY DEF SendsInv
<1> QED BY <1>1, SendsInvHolds, PTL

(* An upload is shown by one message, and no message lacks one of its own,
   although two sends may find the same upload unused (media.go, Attach). *)
THEOREM OwnsItsUploadsHolds == Spec => []OwnsItsUploads
<1>1. SendsInv => OwnsItsUploads
  BY DEF SendsInv
<1> QED BY <1>1, SendsInvHolds, PTL
=============================================================================
