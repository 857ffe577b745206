------------------------------ MODULE Messages ------------------------------
(***************************************************************************)
(* What happens to stored messages: SendMessage without a client id,       *)
(* EditMessage, DeleteMessage, React, Unreact, Forward, the pages of       *)
(* history, the list of conversations and typing of                        *)
(* internal/chat/service.go, the search of internal/search, on the         *)
(* statements of chat.sql.go and reactions.sql.go, with friendships from   *)
(* Friends, the members of one group and suspended accounts.               *)
(*                                                                         *)
(* A message is in the private chat of two people (the set of them) or in  *)
(* Group.  Its text is abstract.  Attachments, replies and retries are in  *)
(* Sends, read markers in Markers.                                         *)
(***************************************************************************)
EXTENDS Friends

CONSTANTS Msgs,     \* ids of messages (bound: messages in a behaviour)
          Times,    \* created_at: the server's clock when a send began
          PageSize, \* messages on a page of history
          None,     \* no message
          Group,    \* the group
          Admin     \* the group's admin, who may delete anyone's messages

VARIABLES msgs,     \* message and GroupMessage: id -> row
          members,  \* member_table: the members of Group
          hidden,   \* user -> group messages sent before it joined
          banned,   \* users.banned_at: suspended accounts
          banList,  \* bannedCache: {} or {the set of suspended accounts}
          gone,     \* history: slot -> messages whose deletion was answered before it began
          hushed,   \* history: slot -> accounts whose suspension was, and has not been lifted
          late      \* history: <<message, user>>: the user's request to react had found the
                    \* message when it was deleted

chatVars == <<msgs, members, hidden, banned, banList, gone, hushed, late>>
vars == <<socialVars, chatVars>>

ASSUME MessagesAssumption == /\ IsFiniteSet(Users) /\ Admin \in Users
                             /\ Msgs \subseteq Nat /\ Times \subseteq Nat
                             /\ None \notin Msgs /\ \A c \in SUBSET Users : c # Group
                             /\ PageSize \in Nat \ {0}

-----------------------------------------------------------------------------
NoMsg == [chat |-> "none"]

Message(chat, from, text, created) ==
    [chat |-> chat, from |-> from, text |-> text, created |-> created, deleted |-> FALSE, reacts |-> {}]

Stored == {m \in Msgs : msgs[m] # NoMsg}

Private(chat) == chat # Group

OtherIn(chat, u) == CHOOSE v \in chat : v # u

Chats == {c \in SUBSET Users : Cardinality(c) = 2} \cup {Group}

\* Group messages are read only from when the reader joined.
SinceJoining(u) == {m \in Stored : u \in members /\ m \notin hidden[u]}

\* What u can read of chat c.
Visible(u, c) == {m \in Stored : msgs[m].chat = c /\ (Private(c) \/ m \in SinceJoining(u))}

\* A request on message m or into chat c.  A client that reads history asks for
\* page after page: first is the oldest message of its first page, before that
\* of its last one; there is what there was to read when it began.
ChatRequest(op, me, m, c) ==
    [op |-> op, at |-> op, me |-> me, msg |-> m, chat |-> c, text |-> "", page |-> {},
     first |-> None, before |-> None, read |-> {}, there |-> IF op = "page" THEN Visible(me, c) ELSE {}]

Init == /\ FriendsInit
        /\ \E k \in Msgs, c \in Chats, u \in Users, t \in Times :
              /\ Private(c) => u \in c
              /\ msgs = [m \in Msgs |-> IF m = k THEN Message(c, u, "text", t) ELSE NoMsg]
        /\ members = Users
        /\ hidden = [u \in Users |-> {}]
        /\ banned = {}
        /\ banList = {{}}
        /\ gone = [s \in Reqs |-> {}]
        /\ hushed = [s \in Reqs |-> {}]
        /\ late = {}

-----------------------------------------------------------------------------
(* The handlers, and what may be asked of them.                             *)

MyChats(u) == {c \in Chats : Private(c) => u \in c}

ChatAsk(s, op, me, m, c) == /\ req' = [req EXCEPT ![s] = ChatRequest(op, me, m, c)]
                            /\ UNCHANGED <<rel, blocks, name, snap, stale, crossed, over, chatVars>>

AskPost(s, me) == \E c \in MyChats(me) : ChatAsk(s, "post", me, None, c)

AskEdit(s, me) == \E m \in Stored : ChatAsk(s, "edit", me, m, Group)

AskDelete(s, me) == \E m \in Stored : ChatAsk(s, "delete", me, m, Group)

AskReact(s, me) == \E m \in Stored : ChatAsk(s, "react", me, m, Group)

AskUnreact(s, me) == \E m \in Stored : ChatAsk(s, "unreact", me, m, Group)

AskForward(s, me) == \E m \in Stored, c \in MyChats(me) : ChatAsk(s, "forward", me, m, c)

AskPage(s, me) == \E c \in MyChats(me) : ChatAsk(s, "page", me, None, c)

AskConversations(s, me) == ChatAsk(s, "convs", me, None, Group)

AskSearch(s, me) == ChatAsk(s, "search", me, None, Group)

\* A typing event on a socket.
AskTyping(s, me) == \E c \in MyChats(me) : ChatAsk(s, "typing", me, None, c)

\* On the admin page, about me.
AskBan(s, me) == ChatAsk(s, "ban", me, None, Group)

AskUnban(s, me) == ChatAsk(s, "unban", me, None, Group)

AskLeaveOrJoin(s, me) == \E op \in {"leave", "join"} : ChatAsk(s, op, me, None, Group)

ChatStart(s) ==
    /\ At(s, "unused")
    /\ \E me \in Users :
          \/ AskPost(s, me) \/ AskEdit(s, me) \/ AskDelete(s, me) \/ AskReact(s, me) \/ AskUnreact(s, me)
          \/ AskForward(s, me) \/ AskPage(s, me) \/ AskConversations(s, me) \/ AskSearch(s, me)
          \/ AskTyping(s, me) \/ AskBan(s, me) \/ AskUnban(s, me) \/ AskLeaveOrJoin(s, me)

-----------------------------------------------------------------------------
(* Who may: the reads before every write.                                   *)

\* Members of a chat: friends in a private one, by the relationships x that are
\* read of u; members in a group.
MayPost(u, c, x) == IF Private(c) THEN OtherIn(c, u) \in x.friends ELSE u \in members

\* AreFriends reads the relationships.
AreFriends(s, private, x) == IF private THEN Load(req[s].me, x) ELSE UNCHANGED <<snap, stale>>

\* A mistake: deleted rows are found as well.
LocateAnyRow(m) == m \in Stored

LocateMessage(m) == m \in Stored /\ ~msgs[m].deleted

\* Only rows that are not deleted are found.
Locate(s) == /\ req[s].at \in {"edit", "delete", "react", "unreact", "forward"}
             /\ IF LocateMessage(req[s].msg) THEN Goto(s, "may") ELSE Answer(s, "err")
             /\ UNCHANGED <<rel, blocks, name, snap, stale, crossed, over, chatVars>>

\* authorizeMessage with requireFriends for edit and react.
MayTouch(s, x) == LET u == req[s].me  m == msgs[req[s].msg]
                  IN  IF Private(m.chat)
                      THEN u \in m.chat /\ (req[s].op \in {"edit", "react"} => OtherIn(m.chat, u) \in x.friends)
                      ELSE u \in members /\ req[s].msg \notin hidden[u]

\* Edit needs its own message; so does delete, but for the admin of a group.
Owns(s) == LET m == msgs[req[s].msg]
           IN  CASE req[s].op = "edit" -> m.from = req[s].me
                 [] req[s].op = "delete" -> m.from = req[s].me \/ (~Private(m.chat) /\ req[s].me = Admin)
                 [] OTHER -> TRUE

Authorize(s) ==
    /\ At(s, "may")
    /\ \E x \in Relationships(req[s].me) :
          /\ IF MayTouch(s, x) /\ Owns(s)
             THEN Goto(s, CASE req[s].op = "edit" -> "write" [] req[s].op = "delete" -> "wipe"
                            [] req[s].op = "react" -> "set" [] req[s].op = "unreact" -> "unset"
                            [] req[s].op = "forward" -> "content")
             ELSE Answer(s, "err")
          /\ AreFriends(s, Private(msgs[req[s].msg].chat) /\ req[s].op \in {"edit", "react"}, x)
    /\ UNCHANGED <<rel, blocks, name, crossed, over, chatVars>>

-----------------------------------------------------------------------------
(* Writes.                                                                  *)

\* send: who may post, then AddPrivate or AddPublic.
SendAuthorize(s) == /\ At(s, "post")
                    /\ \E x \in Relationships(req[s].me) :
                          /\ IF MayPost(req[s].me, req[s].chat, x) THEN Goto(s, "store") ELSE Answer(s, "err")
                          /\ AreFriends(s, Private(req[s].chat), x)
                    /\ UNCHANGED <<rel, blocks, name, crossed, over, chatVars>>

\* AddMessagePrivate, AddMessagePublic: INSERT.
AddRow(m, row) == [msgs EXCEPT ![m] = row]

AddMessage(s) ==
    /\ At(s, "store")
    /\ \E m \in Msgs \ Stored, t \in Times :
          msgs' = AddRow(m, Message(req[s].chat, req[s].me, IF req[s].text = "" THEN "text" ELSE req[s].text, t))
    /\ Answer(s, "ok")
    /\ UNCHANGED <<rel, blocks, name, snap, stale, crossed, over, members, hidden, banned, banList, gone, hushed, late>>

\* UPDATE ... WHERE deleted_at IS NULL.
EditRow(m) == IF msgs[m].deleted THEN msgs ELSE [msgs EXCEPT ![m].text = "edited"]

EditMessage(s) ==
    /\ At(s, "write")
    /\ msgs' = EditRow(req[s].msg)
    /\ Answer(s, IF msgs[req[s].msg].deleted THEN "err" ELSE "ok")
    /\ UNCHANGED <<rel, blocks, name, snap, stale, crossed, over, members, hidden, banned, banList, gone, hushed, late>>

\* One statement wipes the text and drops the reactions.
DeleteRow(m) == [msgs EXCEPT ![m].text = "", ![m].deleted = TRUE, ![m].reacts = {}]

\* History: who is about to react to m, having found it.
Reacting(m) == {req[t].me : t \in {q \in Reqs : /\ req[q].at \in {"may", "set"}
                                                 /\ req[q].op = "react" /\ req[q].msg = m}}

DeleteMessage(s) ==
    /\ At(s, "wipe")
    /\ LET m == req[s].msg
       IN  IF msgs[m].deleted
           THEN Answer(s, "err") /\ UNCHANGED <<msgs, gone, late>>
           ELSE Answer(s, "ok") /\ msgs' = DeleteRow(m) /\ gone' = Heard(gone, m) /\ late' = late \cup {m} \X Reacting(m)
    /\ UNCHANGED <<rel, blocks, name, snap, stale, crossed, over, members, hidden, banned, banList, hushed>>

\* INSERT ... ON CONFLICT DO UPDATE, and DELETE: one row for a message and user.
ReactionSet(m, u) == [msgs EXCEPT ![m].reacts = @ \cup {u}]

ReactionDeleted(m, u) == [msgs EXCEPT ![m].reacts = @ \ {u}]

\* The message may have been deleted since it was found.
React(s) ==
    /\ At(s, "set")
    /\ msgs' = ReactionSet(req[s].msg, req[s].me)
    /\ Answer(s, "ok")
    /\ UNCHANGED <<rel, blocks, name, snap, stale, crossed, over, members, hidden, banned, banList, gone, hushed, late>>

Unreact(s) ==
    /\ At(s, "unset")
    /\ msgs' = ReactionDeleted(req[s].msg, req[s].me)
    /\ Answer(s, "ok")
    /\ UNCHANGED <<rel, blocks, name, snap, stale, crossed, over, members, hidden, banned, banList, gone, hushed, late>>

-----------------------------------------------------------------------------
(* Suspensions and the list of them that chat keeps for bannedTTL.          *)

\* bannedCache.get holds its mutex over the query: list and fill are one step.
Suspended == IF banList = {} THEN banned ELSE CHOOSE x \in banList : TRUE

GetBanned == banList' = {Suspended}

\* The text of a message that is not deleted.
MessageContent(m) == IF msgs[m].deleted THEN {} ELSE {msgs[m].text}

\* Forward: the text, the author's suspension, then SendMessage.
ForwardContent(s) ==
    /\ At(s, "content")
    /\ IF MessageContent(req[s].msg) = {}
       THEN Answer(s, "err")
       ELSE \E text \in MessageContent(req[s].msg) : req' = [req EXCEPT ![s].at = "author", ![s].text = text]
    /\ UNCHANGED <<rel, blocks, name, snap, stale, crossed, over, chatVars>>

ForwardAuthor(s) ==
    /\ At(s, "author")
    /\ IF msgs[req[s].msg].from \in Suspended THEN Answer(s, "err") ELSE Goto(s, "post")
    /\ GetBanned
    /\ UNCHANGED <<rel, blocks, name, snap, stale, crossed, over, msgs, members, hidden, banned, gone, hushed, late>>

BanUser(u) == banned \cup {u}

UnbanUser(u) == banned \ {u}

\* Ban: the account is suspended and leaves its groups; the answer comes after
\* ForgetBans.
Ban(s) ==
    /\ At(s, "ban")
    /\ banned' = BanUser(req[s].me)
    /\ members' = IF members = {req[s].me} THEN members ELSE members \ {req[s].me}
    /\ Goto(s, "forgetBans")
    /\ UNCHANGED <<rel, blocks, name, snap, stale, crossed, over, msgs, hidden, banList, gone, hushed, late>>

Unban(s) ==
    /\ At(s, "unban")
    /\ IF req[s].me \in banned
       THEN Goto(s, "forgetBans") /\ banned' = UnbanUser(req[s].me) /\ hushed' = Unheard(hushed, req[s].me)
       ELSE Answer(s, "err") /\ UNCHANGED <<banned, hushed>>
    /\ UNCHANGED <<rel, blocks, name, snap, stale, crossed, over, msgs, members, hidden, banList, gone, late>>

\* A mistake: the list waits for its time to live.
KeepBans(s) ==
    /\ At(s, "forgetBans")
    /\ hushed' = IF req[s].op = "ban" /\ req[s].me \in banned THEN Heard(hushed, req[s].me) ELSE hushed
    /\ Answer(s, "ok")
    /\ UNCHANGED <<rel, blocks, name, snap, stale, crossed, over, msgs, members, hidden, banned, banList, gone, late>>

ForgetBans(s) ==
    /\ At(s, "forgetBans")
    /\ banList' = {}
    /\ hushed' = IF req[s].op = "ban" /\ req[s].me \in banned THEN Heard(hushed, req[s].me) ELSE hushed
    /\ Answer(s, "ok")
    /\ UNCHANGED <<rel, blocks, name, snap, stale, crossed, over, msgs, members, hidden, banned, gone, late>>

\* bannedTTL has passed.
BanListExpires == /\ banList # {}
                  /\ banList' = {}
                  /\ UNCHANGED <<socialVars, msgs, members, hidden, banned, gone, hushed, late>>

-----------------------------------------------------------------------------
(* Reading: rows of one kind or another, then who is suspended.             *)

\* ORDER BY created_at DESC, id DESC.
Newer(m, n) == \/ msgs[m].created > msgs[n].created
               \/ msgs[m].created = msgs[n].created /\ m > n

\* A page of ms: the first PageSize of them in that order.
FirstOf(ms, rows) == /\ rows \subseteq ms
                     /\ rows = ms \/ Cardinality(rows) = PageSize
                     /\ Cardinality(rows) <= PageSize
                     /\ \A m \in rows, n \in ms \ rows : Newer(m, n)

\* A mistake: the cursor is the time alone.
MessagesBeforeTime(ms, cursor, rows) == FirstOf({m \in ms : msgs[m].created < msgs[cursor].created}, rows)

\* GetPrivateMessagesBefore, GetGroupMessagesBefore: (created_at, id) < cursor.
MessagesBefore(ms, cursor, rows) == FirstOf({m \in ms : Newer(cursor, m)}, rows)

\* GetRecentPrivateMessages, GetRecentGroupMessages: ORDER BY created_at DESC
\* alone, so messages of the same time come in any order.
RecentMessages(ms, rows) == /\ rows \subseteq ms
                            /\ rows = ms \/ Cardinality(rows) = PageSize
                            /\ Cardinality(rows) <= PageSize
                            /\ \A m \in rows, n \in ms \ rows : msgs[m].created >= msgs[n].created

Shown(m) == [msg |-> m, from |-> msgs[m].from, text |-> msgs[m].text, deleted |-> msgs[m].deleted, reacts |-> {}]

\* The oldest message of a page is the cursor of the next one.
Oldest(rows, m) == m \in rows /\ \A n \in rows : msgs[n].created >= msgs[m].created

\* privateHistory, groupHistory: the latest page, or the one before the cursor.
PageRows(s) ==
    /\ At(s, "page")
    /\ LET ms == Visible(req[s].me, req[s].chat)  cursor == req[s].before
       IN  \/ /\ ~Private(req[s].chat) /\ req[s].me \notin members
              /\ Answer(s, "err")
           \/ /\ Private(req[s].chat) \/ req[s].me \in members
              /\ \E rows \in SUBSET ms :
                    /\ IF cursor = None THEN RecentMessages(ms, rows) ELSE MessagesBefore(ms, cursor, rows)
                    /\ \/ rows = {} /\ Goto(s, "end")
                       \/ \E m \in rows :
                             /\ Oldest(rows, m)
                             /\ req' = [req EXCEPT ![s].at = "counts", ![s].page = {Shown(n) : n \in rows},
                                                   ![s].read = @ \cup rows, ![s].before = m,
                                                   ![s].first = IF cursor = None THEN m ELSE @]
    /\ UNCHANGED <<rel, blocks, name, snap, stale, crossed, over, chatVars>>

\* PrivateReactionSummary, GroupReactionSummary.
ReactionSummary(e) == [e EXCEPT !.reacts = msgs[e.msg].reacts]

ReactionCounts(s) ==
    /\ At(s, "counts")
    /\ req' = [req EXCEPT ![s].at = "hide", ![s].page = {ReactionSummary(e) : e \in @}]
    /\ UNCHANGED <<rel, blocks, name, snap, stale, crossed, over, chatVars>>

\* ListPrivateConversations, ListGroupConversations: the last message of each.
LastMessages(u) == {m \in UNION {Visible(u, c) : c \in MyChats(u)} :
                       \A n \in Visible(u, msgs[m].chat) : n = m \/ Newer(m, n)}

Conversations(s) ==
    /\ At(s, "convs")
    /\ req' = [req EXCEPT ![s].at = "hide", ![s].page = {Shown(m) : m \in LastMessages(req[s].me)}]
    /\ UNCHANGED <<rel, blocks, name, snap, stale, crossed, over, chatVars>>

\* SearchPrivateMessages, SearchGroupMessages for something every text has.
Matches(u) == {m \in UNION {Visible(u, c) : c \in MyChats(u)} : ~msgs[m].deleted}

Search(s) ==
    /\ At(s, "search")
    /\ req' = [req EXCEPT ![s].at = "hide", ![s].page = {Shown(m) : m \in Matches(req[s].me)}]
    /\ UNCHANGED <<rel, blocks, name, snap, stale, crossed, over, chatVars>>

\* withState and Conversations blank a suspended sender's message, search drops it.
HideSuspended(s, e) == IF e.from \notin Suspended THEN {e}
                       ELSE IF req[s].op = "search" THEN {} ELSE {[e EXCEPT !.text = "", !.reacts = {}]}

PageHide(s) ==
    /\ At(s, "hide")
    /\ req' = [req EXCEPT ![s].at = "shown", ![s].page = UNION {HideSuspended(s, e) : e \in @}]
    /\ GetBanned
    /\ UNCHANGED <<rel, blocks, name, snap, stale, crossed, over, msgs, members, hidden, banned, gone, hushed, late>>

\* The client has its page, and goes on to the next one until there is none.
PageRead(s) == /\ \/ At(s, "shown") /\ req[s].op = "page" /\ req' = [req EXCEPT ![s].at = "page", ![s].page = {}]
                  \/ At(s, "shown") /\ req[s].op # "page" /\ Answer(s, "ok")
                  \/ At(s, "end") /\ Answer(s, "ok")
               /\ UNCHANGED <<rel, blocks, name, snap, stale, crossed, over, chatVars>>

\* TypingTargets: who hears that me is typing.
Typing(s) == /\ At(s, "typing")
             /\ \E x \in Relationships(req[s].me) :
                   /\ Answer(s, IF MayPost(req[s].me, req[s].chat, x) THEN "ok" ELSE "err")
                   /\ AreFriends(s, Private(req[s].chat), x)
             /\ UNCHANGED <<rel, blocks, name, crossed, over, chatVars>>

\* The group's membership changes (module Groups).
Leave(s) == /\ At(s, "leave")
            /\ members' = members \ {req[s].me}
            /\ Answer(s, "ok")
            /\ UNCHANGED <<rel, blocks, name, snap, stale, crossed, over, msgs, hidden, banned, banList, gone, hushed, late>>

Join(s) == /\ At(s, "join")
           /\ members' = members \cup {req[s].me}
           /\ hidden' = IF req[s].me \in members THEN hidden
                        ELSE [hidden EXCEPT ![req[s].me] = {m \in Stored : msgs[m].chat = Group}]
           /\ Answer(s, "ok")
           /\ UNCHANGED <<rel, blocks, name, snap, stale, crossed, over, msgs, banned, banList, gone, hushed, late>>

ChatStep(s) == \/ ChatStart(s) \/ Locate(s) \/ Authorize(s) \/ SendAuthorize(s) \/ AddMessage(s)
               \/ EditMessage(s) \/ DeleteMessage(s) \/ React(s) \/ Unreact(s)
               \/ ForwardContent(s) \/ ForwardAuthor(s) \/ Ban(s) \/ Unban(s) \/ ForgetBans(s)
               \/ PageRows(s) \/ ReactionCounts(s) \/ Conversations(s) \/ Search(s) \/ PageHide(s) \/ PageRead(s)
               \/ Typing(s) \/ Leave(s) \/ Join(s)

Next == \/ \E s \in Reqs : ChatStep(s) \/ (FriendStep(s) /\ UNCHANGED chatVars)
        \/ BanListExpires

Spec == Init /\ [][Next]_vars
-----------------------------------------------------------------------------
Texts == {"", "text", "edited"}

Messages == [chat : Chats, from : Users, text : Texts, created : Times, deleted : BOOLEAN, reacts : SUBSET Users]

Entries == [msg : Msgs, from : Users, text : Texts, deleted : BOOLEAN, reacts : SUBSET Users]

\* Requests about one message, and where they go once they may.
OnMessage == {"edit", "delete", "react", "unreact", "forward"}

ChatOps == OnMessage \cup {"post", "page", "convs", "search", "typing", "ban", "unban", "leave", "join"}

ChatSteps == ChatOps \cup {"may", "store", "write", "wipe", "set", "unset", "content", "author", "forgetBans",
                           "counts", "hide", "shown", "end"}

ChatRequests == [op : ChatOps, at : ChatSteps, me : Users, msg : Msgs \cup {None}, chat : Chats, text : Texts,
                 page : SUBSET Entries, first : Msgs \cup {None}, before : Msgs \cup {None},
                 read : SUBSET Msgs, there : SUBSET Msgs]

\* The type invariant, with one row for a pair of people.
TypeOK == /\ FriendsTypeOK
          /\ req \in [Reqs -> Answers \cup FriendRequests \cup ChatRequests]
          /\ msgs \in [Msgs -> {NoMsg} \cup Messages]
          /\ members \subseteq Users
          /\ hidden \in [Users -> SUBSET Msgs]
          /\ banned \subseteq Users
          /\ banList \subseteq SUBSET Users
          /\ gone \in [Reqs -> SUBSET Msgs]
          /\ hushed \in [Reqs -> SUBSET Users]

\* A deleted message stays empty whatever was under way when it was deleted: no
\* edit brings text back, and the only reactions on it are of requests that had
\* found it when it was deleted (chat/service.go, EditMessage, authorizeMessage,
\* React).
DeletedStaysEmpty == \A m \in Stored : msgs[m].deleted =>
    msgs[m].text = "" /\ \A u \in msgs[m].reacts : <<m, u>> \in late

\* The page of s shows nothing of what had ended before s began.
HidesEnded(s) == At(s, "shown") => \A e \in req[s].page :
    /\ e.msg \in gone[s] => e.text = "" /\ \A u \in e.reacts : <<e.msg, u>> \in late
    /\ e.from \in hushed[s] => e.text = "" /\ e.reacts = {}

\* A page asked for after a deletion was answered does not show the text, and
\* one asked for after a suspension was answered shows nothing of the account's
\* messages, while it lasts (chat/service.go, withState; chat/repo.go,
\* bannedCache: "A new ban hides messages").
PageHides == \A s \in Reqs : HidesEnded(s)

\* Of what was there when s began, and can be read, what s has not read.
Unread(s) == (req[s].there \cap Visible(req[s].me, req[s].chat)) \ req[s].read

\* Of the time of the oldest message on the first page, and not on it.
Skipped(s, m) == msgs[m].created = msgs[req[s].first].created /\ Newer(m, req[s].first)

HasReadAll(s) == At(s, "end") => \A m \in Unread(s) : Skipped(s, m)

\* A client that pages back to the start has been given every message that was
\* there when it began and that it may still read, although others are stored
\* meanwhile; but for one of the same time as the oldest of the latest page,
\* which that page leaves out and the next one skips (chat.sql.go,
\* GetRecentPrivateMessages and GetPrivateMessagesBefore).
HistoryComplete == \A s \in Reqs : HasReadAll(s)

\* The private chat a request writes to, if any.
WritesTo(s) == IF req[s].at \in {"store", "typing"} THEN req[s].chat
               ELSE IF req[s].at \in {"write", "set"} THEN msgs[req[s].msg].chat ELSE Group

\* The request must be refused: it began after the end of the friendship was
\* answered and the snapshots dropped, and they are still no friends; or it
\* forwards a message whose deletion, or whose author's suspension, was answered
\* before.
MustFail(s) == \/ WritesTo(s) \in over[s]
               \/ /\ At(s, "store") /\ req[s].op = "forward"
                  /\ req[s].msg \in gone[s] \/ msgs[req[s].msg].from \in hushed[s]

\* Nothing gets through to a former friend, or out of a hidden message, from a
\* request that began after the unfriending, block, deletion or suspension was
\* answered, although each of them is checked in the cache and some steps before
\* the write; but for an unfriending or block whose invalidation failed, which is
\* answered all the same (chat/service.go, send, authorizeMessage, Forward;
\* friends/service.go, invalidate).
NothingAfterTheEnd == [][\A s \in Reqs : req[s].at \in {"store", "typing", "write", "set"} /\ req'[s].at = "ok"
                                         => ~MustFail(s)]_vars

-----------------------------------------------------------------------------
(* What these rest on.                                                      *)

\* A request does the steps of its kind, and the message it is about is stored.
Course(s) == req[s].at \in ChatSteps =>
    /\ req[s].at \in ChatOps => req[s].op = req[s].at \/ (req[s].op = "forward" /\ req[s].at = "post")
    /\ req[s].at \in {"may", "write", "wipe", "set", "unset", "content", "author"} => req[s].op \in OnMessage
    /\ req[s].at \in {"content", "author"} => req[s].op = "forward"
    /\ req[s].at = "set" => req[s].op = "react"
    /\ req[s].at \in {"counts", "end"} => req[s].op = "page"
    /\ req[s].op \in OnMessage => req[s].msg \in Stored
    /\ Private(req[s].chat) => req[s].me \in req[s].chat

\* What was answered before a request began is still so: the messages are
\* deleted, the accounts suspended, and the cached list, if any, has them.
Answered == \A s \in Reqs : /\ \A m \in gone[s] : m \in Stored /\ msgs[m].deleted
                            /\ hushed[s] \subseteq banned /\ \A x \in banList : hushed[s] \subseteq x

\* A request that has been authorized need not fail.
Cleared(s) ==
    /\ req[s].at \in {"store", "write", "set"} => ~MustFail(s)
    /\ req[s].at \in {"author", "post"} /\ req[s].op = "forward" => req[s].msg \notin gone[s]
    /\ req[s].at = "post" /\ req[s].op = "forward" => msgs[req[s].msg].from \notin hushed[s]

\* A request to react that has found a message deleted since is known for it.
Foreseen(s) == req[s].at \in {"may", "set"} /\ req[s].op = "react" /\ msgs[req[s].msg].deleted
               => <<req[s].msg, req[s].me>> \in late

\* What is on a page that is being made.
PageTrue(s) == req[s].at \in {"counts", "hide", "shown"} => \A e \in req[s].page :
    /\ e.msg \in Stored /\ e.from = msgs[e.msg].from
    /\ e.msg \in gone[s] => e.text = "" /\ \A u \in e.reacts : <<e.msg, u>> \in late

\* A client on its way back through the history has read everything that is not
\* older than its cursor, but for messages of the time of the first page's end.
Reading(s) == req[s].at \in {"page", "counts", "hide", "shown", "end"} /\ req[s].op = "page" =>
    /\ req[s].there \subseteq Stored
    /\ req[s].first = None => /\ req[s].at \in {"page", "end"} /\ req[s].before = None /\ req[s].read = {}
                              /\ At(s, "end") => Unread(s) = {}
    /\ req[s].first # None => /\ {req[s].first, req[s].before} \subseteq Stored
                              /\ ~At(s, "end") => \A m \in Unread(s) : Newer(req[s].before, m) \/ Skipped(s, m)

\* One row for two people, whichever requests cross, and none past a block; two
\* people told of the end of their friendship, their snapshots dropped, are no
\* friends to anyone (friends/service.go, Send, Unfriend, Block).
MessagesInv == /\ TypeOK /\ BlockHolds /\ Parted /\ Answered
               /\ \A s \in Reqs : BothDropped(s) /\ Course(s) /\ Cleared(s) /\ Foreseen(s) /\ PageTrue(s) /\ Reading(s)
=============================================================================
