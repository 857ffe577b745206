------------------------------- MODULE Uploads -------------------------------
(***************************************************************************)
(* The life of an upload: internal/media/media.go with the statements of   *)
(* internal/database/media.sql.go, between the row in Postgres and the     *)
(* objects (file and still picture) in the store.                          *)
(*                                                                         *)
(* A request occupies a slot of req and takes one step per statement or    *)
(* per call of the store; the janitor's cleanup runs beside them.  Sizes   *)
(* are counted in files, every upload is a video, and a row ages twice: it *)
(* is old when its upload link and pendingTTL have run out, and over at    *)
(* the end of its life (expires_at, or delivered_at + keepAfterAll).  The  *)
(* day of the quota does not end within a behaviour.                       *)
(***************************************************************************)
EXTENDS Naturals, FiniteSets

CONSTANTS Users,        \* the people of one chat
          Ids,          \* ids of media (bound: media in a behaviour)
          Uploader,     \* bound: media that may be there at the start -> who uploaded them
          Leavers,      \* bound: who may delete the account
          Slots,        \* bound: requests in a behaviour
          None,         \* no message, owner or picture
          DailyFiles,   \* DailyUserFiles
          UploadCap,    \* uploadCapBytes
          LruHigh,      \* lruHighBytes
          LruLow,       \* lruLowBytes
          Ops,          \* bound: kinds of requests in a behaviour ("window": time passes for sends)
          MaxCleanups   \* bound: passes of the cleanup in a behaviour

VARIABLES media,    \* table media: id -> row
          files,    \* the store: media whose file is there
          stills,   \* the store: media whose still picture is there
          req,      \* slot -> the request it runs
          clean,    \* the cleanup under way
          passes,   \* passes of the cleanup so far
          loose,    \* history: objects that nothing deletes: written past the cleanup, not read
                    \* by it, or put and never marked
          broken,   \* history: media whose file was deleted, and that not known or not marked
          raced     \* history: media created while another request stood between check and creation

mediaVars == <<media, files, stills, req, clean, passes, loose, broken, raced>>

ASSUME UploadsAssumption == /\ {DailyFiles, UploadCap, LruHigh, LruLow, MaxCleanups} \subseteq Nat
                            /\ LruLow <= LruHigh
                            /\ None \notin Users \cup Slots
                            /\ Leavers \subseteq Users
                            /\ DOMAIN Uploader \subseteq Ids
                            /\ \A id \in DOMAIN Uploader : Uploader[id] \in Users
                            \* What is there at the start passed its own checks.
                            /\ IsFiniteSet(DOMAIN Uploader)
                            /\ Cardinality(DOMAIN Uploader) <= UploadCap
                            /\ \A u \in Users : Cardinality({id \in DOMAIN Uploader : Uploader[id] = u}) <= DailyFiles
-----------------------------------------------------------------------------
NoRow == [st |-> "none"]

Row(owner) == [st |-> "pending", owner |-> owner, msg |-> None, link |-> TRUE, age |-> "new",
               gone |-> FALSE, still |-> FALSE, got |-> {}, delivered |-> FALSE]

Rows == {id \in Ids : media[id] # NoRow}

Live == {id \in Rows : ~media[id].gone}

Ready(id) == id \in Rows /\ media[id].st = "ready"

Unused == [at |-> "unused"]

At(s, step) == req[s].at = step

Goto(s, step) == req' = [req EXCEPT ![s].at = step]

Answer(s, result) == req' = [req EXCEPT ![s] = [at |-> result]]

Idle == [at |-> "idle", ids |-> {}, stills |-> {}, done |-> {}, why |-> "expired"]

\* Media that the cleanup has chosen and not finished with.
Removing == clean.ids \cup clean.done

\* A write to the store of an object that nothing will ever delete.
Loosened(kind, id) == IF media[id].gone \/ id \in Removing THEN loose \cup {<<kind, id>>} ELSE loose

\* Pending uploads may be there already, with their files and perhaps their pictures.
UploadsInit == /\ files \in SUBSET DOMAIN Uploader
               /\ stills \in SUBSET files
               /\ media = [id \in Ids |-> IF id \notin files THEN NoRow
                                         ELSE [Row(Uploader[id]) EXCEPT !.link = FALSE, !.still = (id \in stills)]]
               /\ req = [s \in Slots |-> Unused]
               /\ clean = Idle
               /\ passes = 0
               /\ loose = {}
               /\ broken = {}
               /\ raced = {}

\* The handlers.
Ask(s, op, at, me, id) == req' = [req EXCEPT ![s] = [op |-> op, at |-> at, me |-> me, id |-> id]]

AskUpload(s, me) == "upload" \in Ops /\ Ask(s, "upload", "quota", me, None)
AskDownload(s, me, id) == "download" \in Ops /\ Ask(s, "download", "download", me, id)
AskSetStill(s, me, id) == "setStill" \in Ops /\ Ask(s, "setStill", "setStill", me, id)
AskSeeStill(s, me, id) == "seeStill" \in Ops /\ Ask(s, "seeStill", "seeStill", me, id)

MediaStart(s) == /\ At(s, "unused")
                 /\ \E me \in Users : \/ AskUpload(s, me)
                                      \/ \E id \in Rows : AskDownload(s, me, id) \/ AskSetStill(s, me, id) \/ AskSeeStill(s, me, id)
                 /\ UNCHANGED <<media, files, stills, clean, passes, loose, broken, raced>>

-----------------------------------------------------------------------------
(* NewUpload, and the part it shares with Duplicate: the checks and the row. *)

MediaCreatedSince(u) == Cardinality({id \in Rows : media[id].owner = u})

MediaStoredBytes == Cardinality(Live)

\* A mistake: the upload asked for is not counted.
OverQuotaLate(u) == MediaCreatedSince(u) > DailyFiles

OverQuota(u) == MediaCreatedSince(u) >= DailyFiles

Quota(s) == /\ At(s, "quota")
            /\ IF OverQuota(req[s].me) THEN Answer(s, "err") ELSE Goto(s, "cap")
            /\ UNCHANGED <<media, files, stills, clean, passes, loose, broken, raced>>

StorageCap(s) == /\ At(s, "cap")
                 /\ IF MediaStoredBytes + 1 > UploadCap THEN Answer(s, "err") ELSE Goto(s, "create")
                 /\ UNCHANGED <<media, files, stills, clean, passes, loose, broken, raced>>

\* Only a client of NewUpload holds a link to put the file to.
CreateMedia(s) ==
    /\ At(s, "create")
    /\ \E id \in Ids \ Rows :
          /\ media' = [media EXCEPT ![id] = [Row(req[s].me) EXCEPT !.link = (req[s].op = "upload")]]
          /\ raced' = IF \E t \in Slots \ {s} : req[t].at \in {"cap", "create"} THEN raced \cup {id} ELSE raced
          /\ IF req[s].op = "upload" THEN Answer(s, "ok") ELSE req' = [req EXCEPT ![s].at = "copy", ![s].new = id]
    /\ UNCHANGED <<files, stills, clean, passes, loose, broken>>

\* The phone puts the file, once (If-None-Match), while its link is good.
PutFile(id) == /\ id \in Rows \ files /\ media[id].link /\ media[id].age = "new"
               /\ files' = files \cup {id}
               /\ loose' = Loosened("file", id)
               /\ UNCHANGED <<media, stills, req, clean, passes, broken, raced>>

-----------------------------------------------------------------------------
(* Duplicate, for each attachment of a message that is forwarded.           *)

\* UPDATE ... WHERE owner_id AND deleted_at IS NULL AND NOT has_thumbnail.
Unmarked(id, owner) == media[id].owner = owner /\ ~media[id].gone /\ ~media[id].still

\* A picture that was put and is not marked now: it is never deleted, unless
\* another request has marked it.
LeftUnmarked(id) == IF media[id].still THEN Loosened("still", id) ELSE loose \cup {<<"still", id>>}

\* The statement SetThumbnail.
MarkPicture(id, owner) ==
    IF Unmarked(id, owner)
    THEN media' = [media EXCEPT ![id].still = TRUE] /\ loose' = Loosened("still", id)
    ELSE loose' = LeftUnmarked(id) /\ UNCHANGED media

DupGet(s) ==
    /\ At(s, "dup")
    /\ \E id \in req[s].todo :
          IF Ready(id) /\ ~media[id].gone
          THEN req' = [req EXCEPT ![s].at = "quota", ![s].src = id, ![s].pic = media[id].still, ![s].todo = @ \ {id}]
          ELSE Answer(s, "err")
    /\ UNCHANGED <<media, files, stills, clean, passes, loose, broken, raced>>

\* store.Copy fails with ErrNoObject when the source was removed meanwhile.
CopyFile(s) ==
    /\ At(s, "copy")
    /\ IF req[s].src \in files
       THEN /\ files' = files \cup {req[s].new}
            /\ loose' = Loosened("file", req[s].new)
            /\ Goto(s, "copyStill")
       ELSE Answer(s, "err") /\ UNCHANGED <<files, loose>>
    /\ UNCHANGED <<media, stills, clean, passes, broken, raced>>

NextCopy(s) == req' = [req EXCEPT ![s].ids = @ \cup {req[s].new}, ![s].at = IF req[s].todo = {} THEN "may" ELSE "dup"]

\* The picture is copied if the source had one; a failure skips the mark.
CopyStill(s) ==
    /\ At(s, "copyStill")
    /\ \/ /\ req[s].pic /\ req[s].src \in stills
          /\ stills' = stills \cup {req[s].new}
          /\ loose' = Loosened("still", req[s].new)
          /\ Goto(s, "markCopy")
       \/ NextCopy(s) /\ UNCHANGED <<stills, loose>>
    /\ UNCHANGED <<media, files, clean, passes, broken, raced>>

\* Whatever SetThumbnail says, or Copy after it took effect, Duplicate goes on.
MarkCopy(s) == /\ At(s, "markCopy")
               /\ MarkPicture(req[s].new, req[s].me) \/ (loose' = LeftUnmarked(req[s].new) /\ UNCHANGED media)
               /\ NextCopy(s)
               /\ UNCHANGED <<files, stills, clean, passes, broken, raced>>

-----------------------------------------------------------------------------
(* Download, with the count that starts the last 24 hours, and the still.   *)

\* access: a ready row of the chat; a deleted one, or one whose owner left, has expired.
Access(id) == Ready(id) /\ ~media[id].gone /\ media[id].owner # None

Download(s) == /\ At(s, "download")
               /\ IF ~Access(req[s].id) THEN Answer(s, "err")
                  ELSE IF media[req[s].id].owner = req[s].me THEN Answer(s, "ok") ELSE Goto(s, "record")
               /\ UNCHANGED <<media, files, stills, clean, passes, loose, broken, raced>>

RecordMediaDownload(s) == /\ At(s, "record")
                          /\ media' = [media EXCEPT ![req[s].id].got = @ \cup {req[s].me}]
                          /\ Goto(s, "count")
                          /\ UNCHANGED <<files, stills, clean, passes, loose, broken, raced>>

CountMediaDownloads(id) == Cardinality(media[id].got)

\* The count only grows, so the count and the mark can be one step.
MarkMediaDelivered(s) ==
    /\ At(s, "count")
    /\ LET id == req[s].id
       IN  media' = [media EXCEPT ![id].delivered = @ \/ CountMediaDownloads(id) >= Cardinality(Users) - 1]
    /\ Answer(s, "ok")
    /\ UNCHANGED <<files, stills, clean, passes, loose, broken, raced>>

SetThumbnail(s) ==
    /\ At(s, "setStill")
    /\ LET r == media[req[s].id]
       IN  IF r.owner # req[s].me \/ r.gone \/ r.still THEN Answer(s, "err") ELSE Goto(s, "putStill")
    /\ UNCHANGED <<media, files, stills, clean, passes, loose, broken, raced>>

\* store.Put: a picture that is there is replaced.
PutStill(s) == /\ At(s, "putStill")
               /\ stills' = stills \cup {req[s].id}
               /\ loose' = Loosened("still", req[s].id)
               /\ Goto(s, "markStill")
               /\ UNCHANGED <<media, files, clean, passes, broken, raced>>

MarkStill(s) == /\ At(s, "markStill")
                /\ MarkPicture(req[s].id, req[s].me)
                /\ Answer(s, IF Unmarked(req[s].id, req[s].me) THEN "ok" ELSE "err")
                /\ UNCHANGED <<files, stills, clean, passes, broken, raced>>

Thumbnail(s) == /\ At(s, "seeStill")
                /\ Answer(s, IF Access(req[s].id) /\ media[req[s].id].still THEN "ok" ELSE "err")
                /\ UNCHANGED <<media, files, stills, clean, passes, loose, broken, raced>>

MediaSteps == {"quota", "cap", "create", "dup", "copy", "copyStill", "markCopy", "download", "record", "count",
               "setStill", "putStill", "markStill", "seeStill"}

\* The picture a request has put and not marked.
PutBy(s) == CASE At(s, "markStill") -> {req[s].id}
              [] At(s, "markCopy") -> {req[s].new}
              [] OTHER -> {}

\* A statement or a call of the store fails, before it takes effect or after
\* (then the step before this was that one), or the server is killed.
MediaFails(s) == /\ req[s].at \in MediaSteps
                 /\ loose' = loose \cup UNION {LeftUnmarked(id) : id \in PutBy(s)}
                 /\ Answer(s, "err")
                 /\ UNCHANGED <<media, files, stills, clean, passes, broken, raced>>

-----------------------------------------------------------------------------
(* Time, and the account of an uploader.                                    *)

\* keepAfterAll and both lifetimes are longer than pendingTTL.
Ages(id) == /\ id \in Live /\ media[id].age # "over"
            /\ media' = [media EXCEPT ![id].age = IF @ = "new" THEN "old" ELSE "over"]
            /\ UNCHANGED <<files, stills, req, clean, passes, loose, broken, raced>>

\* Deleting an account sets owner_id to NULL.
OwnerLeaves(u) == /\ \E id \in Rows : media[id].owner = u
                  /\ media' = [id \in Ids |-> IF id \in Rows /\ media[id].owner = u
                                              THEN [media[id] EXCEPT !.owner = None] ELSE media[id]]
                  /\ UNCHANGED <<files, stills, req, clean, passes, loose, broken, raced>>

-----------------------------------------------------------------------------
(* Cleanup: choose, delete the objects one by one, mark what was deleted.   *)

MediaToDelete == {id \in Live : \/ media[id].age = "over"
                                \/ media[id].owner = None
                                \/ media[id].st = "pending" /\ media[id].age = "old"}

CleanupStart == /\ clean = Idle
                /\ passes < MaxCleanups
                /\ clean' = [Idle EXCEPT !.at = "stills", !.ids = MediaToDelete]
                /\ passes' = passes + 1
                /\ UNCHANGED <<media, files, stills, req, loose, broken, raced>>

\* remove: ThumbnailsOf is read once for all.  When that fails no picture is
\* deleted, and a row marked all the same leaves its picture behind.
ThumbnailsOf ==
    /\ clean.at = "stills"
    /\ LET having == {id \in clean.ids : media[id].still}
       IN  \/ /\ clean' = [clean EXCEPT !.at = "remove", !.stills = having]
              /\ UNCHANGED loose
           \/ /\ having # {}
              /\ clean' = [clean EXCEPT !.at = "remove"]
              /\ loose' = loose \cup {<<"still", id>> : id \in having}
    /\ UNCHANGED <<media, files, stills, req, passes, broken, raced>>

\* A mistake: the row is marked although the file could not be deleted.
RemoveIgnoringErrors ==
    /\ clean.at = "remove"
    /\ \E id \in clean.ids :
          /\ files' \in {files, files \ {id}}
          /\ stills' = stills \ (clean.stills \cap {id})
          /\ clean' = [clean EXCEPT !.ids = @ \ {id}, !.done = @ \cup {id}]
    /\ UNCHANGED <<media, req, passes, loose, broken, raced>>

\* One medium: the picture and then the file; after an error the row is left,
\* also when the object is gone and only the answer was lost.
RemoveObjects == /\ clean.at = "remove"
                 /\ \E id \in clean.ids :
                       LET without == stills \ (clean.stills \cap {id})
                       IN  \/ /\ files' = files \ {id}
                              /\ stills' = without
                              /\ clean' = [clean EXCEPT !.ids = @ \ {id}, !.done = @ \cup {id}]
                              /\ UNCHANGED broken
                           \/ /\ stills' \in {stills, without}
                              /\ clean' = [clean EXCEPT !.ids = @ \ {id}]
                              /\ UNCHANGED <<files, broken>>
                           \/ /\ files' = files \ {id}
                              /\ stills' = without
                              /\ clean' = [clean EXCEPT !.ids = @ \ {id}]
                              /\ broken' = broken \cup {id}
                 /\ UNCHANGED <<media, req, passes, loose, raced>>

\* The second part of the pass, above the high mark: the least recently used
\* until the low mark is reached.  Which ones they are is left open, and the
\* statements may fail.
LeastRecentlyUsedMedia == IF MediaStoredBytes <= LruHigh \/ clean.why = "lru" THEN {}
                          ELSE {x \in SUBSET Live : Cardinality(x) = MediaStoredBytes - LruLow}

EndOfPart == clean' \in {Idle} \cup {[Idle EXCEPT !.at = "stills", !.ids = x, !.why = "lru"] : x \in LeastRecentlyUsedMedia}

MarkMediaDeleted == /\ clean.at = "remove" /\ clean.ids = {} /\ clean.done # {}
                    /\ \/ /\ media' = [id \in Ids |-> IF id \in clean.done THEN [media[id] EXCEPT !.gone = TRUE] ELSE media[id]]
                          /\ UNCHANGED broken
                       \/ broken' = broken \cup clean.done /\ UNCHANGED media
                    /\ clean' = [clean EXCEPT !.at = "lru", !.done = {}]
                    /\ UNCHANGED <<files, stills, req, passes, loose, raced>>

CleanupRest == /\ \/ clean.at = "lru"
                  \/ clean.at = "remove" /\ clean.ids = {} /\ clean.done = {}
               /\ EndOfPart
               /\ UNCHANGED <<media, files, stills, req, passes, loose, broken, raced>>

\* The server is killed while it cleans up.
CleanupStops == /\ clean # Idle
                /\ clean' = Idle
                /\ broken' = broken \cup clean.done
                /\ UNCHANGED <<media, files, stills, req, passes, loose, raced>>

\* A mistake: the statement does not look at the status.
AttachableTwice(id, owner) == id \in Rows /\ media[id].owner = owner /\ ~media[id].gone

\* AttachMedia: UPDATE ... WHERE owner_id AND status = 'pending' AND deleted_at IS NULL.
Attachable(id, owner) == id \in Rows /\ media[id].owner = owner /\ media[id].st = "pending" /\ ~media[id].gone

AttachMedia(id, msg) == [media EXCEPT ![id].st = "ready", ![id].msg = msg]

ExpireMediaOfMessage(msg) == [id \in Ids |-> IF id \in Live /\ media[id].msg = msg
                                             THEN [media[id] EXCEPT !.age = "over"] ELSE media[id]]

MediaStep(s) == \/ MediaStart(s) \/ Quota(s) \/ StorageCap(s) \/ CreateMedia(s) \/ DupGet(s) \/ CopyFile(s) \/ CopyStill(s) \/ MarkCopy(s)
                \/ Download(s) \/ RecordMediaDownload(s) \/ MarkMediaDelivered(s)
                \/ SetThumbnail(s) \/ PutStill(s) \/ MarkStill(s) \/ Thumbnail(s) \/ MediaFails(s)

StoreStep == \/ \E id \in Ids : PutFile(id) \/ Ages(id)
             \/ \E u \in Leavers : OwnerLeaves(u)
             \/ CleanupStart \/ ThumbnailsOf \/ RemoveObjects \/ MarkMediaDeleted \/ CleanupRest \/ CleanupStops

-----------------------------------------------------------------------------
\* A row of the table media.
MediaRows == [st : {"pending", "ready"}, owner : Users \cup {None}, msg : Slots \cup {None}, link : BOOLEAN,
              age : {"new", "old", "over"}, gone : BOOLEAN, still : BOOLEAN, got : SUBSET Users, delivered : BOOLEAN]

\* The requests of this module, and where they stand.
UploadRequests == [op : {"upload"}, at : {"quota", "cap", "create"}, me : Users, id : {None}]

AccessRequests == [op : {"download", "setStill", "seeStill"},
                   at : {"download", "record", "count", "setStill", "putStill", "markStill", "seeStill"},
                   me : Users, id : Ids]

\* The types; an owner's own downloads are not counted.
UploadsTypeOK == /\ media \in [Ids -> MediaRows \cup {NoRow}]
                 /\ IsFiniteSet(Rows)
                 /\ \A id \in Rows : media[id].got \subseteq Users \ {media[id].owner}
                 /\ files \subseteq Rows /\ stills \subseteq Rows /\ broken \subseteq Rows /\ raced \subseteq Rows
                 /\ clean \in [at : {"idle", "stills", "remove", "lru"}, ids : SUBSET Rows, stills : SUBSET Rows,
                               done : SUBSET Rows, why : {"expired", "lru"}]
                 /\ passes \in 0..MaxCleanups

\* An attachment that is shown as present has its file in the store, whichever
\* way attaching, copying and the cleanup interleave: it may only be missing
\* from its removal by the cleanup to the mark in its row, or when that was not
\* made: it failed, the answer of the store was lost, or the server was killed
\* (media.go, Attach, remove; r2.go, Delete).
AttachedHasFile == \A id \in Live : Ready(id) => id \in files \cup clean.done \cup broken

\* The store keeps no object of media that are marked deleted, except: one that
\* was written while the cleanup was removing them or later; a picture when
\* ThumbnailsOf could not be read; and a picture that was put and not marked,
\* because that failed, the server was killed, or its owner's account was deleted
\* in between (media.go, remove, SetThumbnail, Duplicate; a deleted row is never
\* looked at again, so such an object stays for good).
OrphansExplained == \A id \in Rows \ Live :
    /\ id \in files => <<"file", id>> \in loose
    /\ id \in stills => \/ <<"still", id>> \in loose
                        \/ \E s \in Slots : At(s, "markStill") /\ req[s].id = id
                        \/ \E s \in Slots : At(s, "markCopy") /\ req[s].new = id

\* What of the quota nobody raced for.
Counted(u) == {id \in Rows : media[id].owner = u} \ raced

\* The daily quota and the cap of the store are exceeded only by requests that
\* overlap: media created while no other request stood between its checks and
\* its row never pass either limit (media.go, NewUpload, Duplicate, overQuota).
QuotaHolds == /\ \A u \in Users : Cardinality(Counted(u)) <= DailyFiles
              /\ Cardinality(Live \ raced) <= UploadCap

-----------------------------------------------------------------------------
(* What these rest on. *)

\* A request acts on rows, and it is not their owner who downloads.
ActsOnRows(s) ==
    /\ req[s].at \in {"download", "record", "count", "setStill", "putStill", "markStill", "seeStill"} => req[s].id \in Rows
    /\ At(s, "record") => media[req[s].id].owner # req[s].me
    /\ req[s].at \in {"copy", "copyStill", "markCopy"} => req[s].new \in Rows

OnRows == \A s \in Slots : ActsOnRows(s)

\* The cleanup: chosen, then removed one by one, then marked.
CleansInOrder == /\ clean.at \in {"idle", "lru"} => clean.ids = {}
                 /\ clean.at # "remove" => clean.done = {}
                 /\ clean.at \in {"idle", "stills"} => clean.stills = {}

\* The file is there, or its absence is known.
Present(id) == id \in Live => id \in files \cup clean.done \cup broken

ReadyIsPresent == \A id \in Rows : /\ media[id].st = "ready" => Present(id)
                                   /\ media[id].msg # None => media[id].st = "ready"

\* Its picture has been written, or is about to be noted, as one nobody deletes.
Excused(id) == \/ <<"still", id>> \in loose
               \/ \E s \in Slots : At(s, "markStill") /\ req[s].id = id
               \/ \E s \in Slots : At(s, "markCopy") /\ req[s].new = id

\* What the cleanup has passed over holds no object that is not noted.
Swept == {id \in Rows : media[id].gone} \cup clean.done

Unseen == IF clean.at = "remove" THEN clean.ids \ clean.stills ELSE {}

ObjectsNoted == /\ \A id \in stills : media[id].still \/ Excused(id)
                /\ \A id \in Swept \cap files : <<"file", id>> \in loose
                /\ \A id \in (Swept \cup Unseen) \cap stills : Excused(id)

\* A request between its checks and its row has room for one more, unless others race it.
HasRoom(s) ==
    /\ req[s].at \in {"cap", "create"} => Cardinality(Counted(req[s].me)) < DailyFiles
    /\ At(s, "create") => Cardinality(Live \ raced) < UploadCap

RoomIsLeft == \A s \in Slots : HasRoom(s)

UploadsInv == UploadsTypeOK /\ OnRows /\ CleansInOrder /\ ReadyIsPresent /\ ObjectsNoted /\ QuotaHolds /\ RoomIsLeft
=============================================================================
