---------------------------- MODULE MessagesProofs ----------------------------
(***************************************************************************)
(* Friends and Messages proved for any people, messages, times, requests   *)
(* and size of pages.                                                      *)
(***************************************************************************)
EXTENDS Messages, FiniteSetTheorems, TLAPS

\* What is said of one request.
Slot(s) == /\ BothDropped(s) /\ Course(s) /\ Cleared(s) /\ Foreseen(s) /\ PageTrue(s) /\ Reading(s)
           /\ HidesEnded(s) /\ HasReadAll(s)

\* What the runs check is inductive together.
Whole == /\ TypeOK /\ BlockHolds /\ Parted /\ Answered
         /\ CachedIsCurrent /\ DeletedStaysEmpty
         /\ \A s \in Reqs : Slot(s)

LEMMA WholeIs == Whole <=> MessagesInv /\ CachedIsCurrent /\ DeletedStaysEmpty /\ PageHides /\ HistoryComplete
BY DEF Whole, Slot, MessagesInv, PageHides, HistoryComplete

-----------------------------------------------------------------------------
(* The kinds of requests.                                                   *)

LEMMA Kinds ==
  ASSUME TypeOK, NEW s \in Reqs
  PROVE  /\ req[s].at \in ChatSteps => req[s] \in ChatRequests
         /\ req[s].at \in FriendSteps => req[s] \in FriendRequests
         /\ req[s] \in ChatRequests => req[s].at \in ChatSteps
         /\ req[s] \in FriendRequests => req[s].at \in FriendSteps
<1>1. req[s] \in Answers \cup FriendRequests \cup ChatRequests
  BY DEF TypeOK
<1>2. req[s] \in Answers => req[s].at \in {"unused", "ok", "err"}
  BY DEF Answers
<1>3. req[s] \in FriendRequests => req[s].at \in FriendSteps
  BY DEF FriendRequests
<1>4. req[s] \in ChatRequests => req[s].at \in ChatSteps
  BY DEF ChatRequests
<1> QED BY <1>1, <1>2, <1>3, <1>4 DEF ChatSteps, ChatOps, OnMessage, FriendSteps

LEMMA GotoChat ==
  ASSUME NEW r \in ChatRequests, NEW step \in ChatSteps
  PROVE  [r EXCEPT !.at = step] \in ChatRequests
BY DEF ChatRequests

LEMMA GotoFriend ==
  ASSUME NEW r \in FriendRequests, NEW step \in FriendSteps
  PROVE  [r EXCEPT !.at = step] \in FriendRequests
BY DEF FriendRequests

LEMMA Rows ==
  ASSUME TypeOK, NEW m \in Stored
  PROVE  m \in Msgs /\ msgs[m] \in Messages
BY DEF TypeOK, Stored

(* A private chat is one of two people. *)
LEMMA TwoInChat ==
  ASSUME NEW c \in Chats, Private(c), NEW u \in c
  PROVE  c = {u, OtherIn(c, u)} /\ u \in Users /\ OtherIn(c, u) \in Users /\ OtherIn(c, u) # u
<1>1. c \in SUBSET Users /\ Cardinality(c) = 2 /\ IsFiniteSet(c)
  BY MessagesAssumption, FS_Subset DEF Chats, Private
<1>2. Cardinality(c \ {u}) = 1 /\ IsFiniteSet(c \ {u})
  BY <1>1, FS_RemoveElement
<1>3. PICK v : c \ {u} = {v}
  BY <1>2, FS_Singleton
<1>4. OtherIn(c, u) \in c /\ OtherIn(c, u) # u
  BY <1>3 DEF OtherIn
<1> QED BY <1>1, <1>3, <1>4

LEMMA GroupIsNoPair == TypeOK => \A s \in Reqs : Group \notin over[s]
BY MessagesAssumption DEF TypeOK, FriendsTypeOK

LEMMA NoMsgIsNoRow == NoMsg \notin Messages
BY DEF NoMsg, Messages

-----------------------------------------------------------------------------
(* What a step of s may do to the others.                                   *)

\* Rows stay, what may be read does not come back, and what was answered before
\* a request began is not added to.
Grows(s) ==
    /\ Stored \subseteq Stored'
    /\ \A m \in Stored : msgs'[m].chat = msgs[m].chat /\ msgs'[m].from = msgs[m].from /\ msgs'[m].created = msgs[m].created
    /\ late \subseteq late'
    /\ \A m \in Stored : msgs'[m].deleted => msgs[m].deleted \/ {m} \X Reacting(m) \subseteq late'
    /\ \A u \in Users, c \in Chats : Visible(u, c)' \cap Stored \subseteq Visible(u, c)
    /\ \A t \in Reqs : ~At(t, "unused") => over'[t] \subseteq over[t] /\ gone'[t] \subseteq gone[t] /\ hushed'[t] \subseteq hushed[t]
    /\ \A t \in Reqs \ {s} : req'[t] = req[t]

(* Of messages that are stored, which is the newer one does not change. *)
LEMMA NewerStays ==
  ASSUME NEW s \in Reqs, Grows(s), NEW m \in Stored, NEW n \in Stored
  PROVE  Newer(m, n)' <=> Newer(m, n)
BY DEF Grows, Newer

(* What is not read yet of what was there is still not, or cannot be read. *)
LEMMA UnreadStays ==
  ASSUME NEW s \in Reqs, Grows(s), NEW t \in Reqs \ {s},
         req[t].there \subseteq Stored, req[t].me \in Users, req[t].chat \in Chats
  PROVE  Unread(t)' \subseteq Unread(t)
<1>1. PICK u, c : u = req[t].me /\ c = req[t].chat
  OBVIOUS
<1>2. Visible(u, c)' \cap Stored \subseteq Visible(u, c)
  BY <1>1 DEF Grows
<1>3. Unread(t) = (req[t].there \cap Visible(u, c)) \ req[t].read
  BY <1>1 DEF Unread
<1>4. req'[t] = req[t]
  BY DEF Grows
<1>5. Unread(t)' = (req[t].there \cap Visible(u, c)') \ req[t].read
  BY <1>1, <1>4 DEF Unread
<1> QED BY <1>2, <1>3, <1>5

LEMMA OthersKeep ==
  ASSUME Whole, NEW s \in Reqs, Grows(s), NEW t \in Reqs \ {s}
  PROVE  Slot(t)'
<1>1. TypeOK /\ Slot(t) /\ req'[t] = req[t] /\ Stored \subseteq Stored'
      /\ \A m \in Stored : msgs'[m].chat = msgs[m].chat /\ msgs'[m].from = msgs[m].from /\ msgs'[m].created = msgs[m].created
  BY DEF Whole, Grows
<1>2. ~At(t, "unused") => over'[t] \subseteq over[t] /\ gone'[t] \subseteq gone[t] /\ hushed'[t] \subseteq hushed[t]
  BY DEF Grows
<1>3. BothDropped(t)' /\ Course(t)'
  BY <1>1 DEF Slot, BothDropped, Course, At, Pair
<1>4. Cleared(t)'
  <2>1. req[t].at \in {"store", "write", "set", "author", "post"} => Course(t) /\ ~At(t, "unused") /\ req[t].at \in ChatSteps
    BY <1>1 DEF Slot, At, ChatSteps, ChatOps
  <2>2. req[t].at \in {"store", "write", "set"} => WritesTo(t)' = WritesTo(t)
    BY <1>1, <2>1 DEF WritesTo, Course
  <2>3. req[t].at \in {"store", "author", "post"} /\ req[t].op = "forward" => req[t].msg \in Stored
    BY <2>1 DEF Course, OnMessage
  <2> QED BY <1>1, <1>2, <2>1, <2>2, <2>3 DEF Cleared, MustFail, Slot, At
<1>5. PageTrue(t)' /\ HidesEnded(t)'
  BY <1>1, <1>2 DEF Slot, PageTrue, HidesEnded, At, Grows
<1>8. Foreseen(t)'
  <2>1. SUFFICES ASSUME req[t].at \in {"may", "set"}, req[t].op = "react", msgs'[req[t].msg].deleted
                 PROVE  <<req[t].msg, req[t].me>> \in late'
    BY <1>1 DEF Foreseen
  <2>2. req[t].msg \in Stored
    BY <1>1, <2>1 DEF Slot, Course, ChatSteps, OnMessage
  <2>3. req[t].me \in Reacting(req[t].msg)
    BY <2>1 DEF Reacting
  <2>4. CASE msgs[req[t].msg].deleted
    BY <1>1, <2>1, <2>4 DEF Slot, Foreseen, Grows
  <2>5. CASE ~msgs[req[t].msg].deleted
    BY <2>1, <2>2, <2>3, <2>5 DEF Grows
  <2> QED BY <2>4, <2>5
<1>6. req[t].at \in ChatSteps => req[t].me \in Users /\ req[t].chat \in Chats
  BY <1>1, Kinds DEF ChatRequests
<1>7. Reading(t)' /\ HasReadAll(t)'
  <2>1. SUFFICES ASSUME req[t].at \in {"page", "counts", "hide", "shown", "end"}, req[t].op = "page"
                 PROVE  Reading(t)' /\ HasReadAll(t)'
    BY <1>1 DEF Slot, Reading, HasReadAll, At, Course, ChatSteps
  <2>2. req[t].me \in Users /\ req[t].chat \in Chats /\ Reading(t) /\ HasReadAll(t) /\ req[t].there \subseteq Stored
    BY <1>1, <1>6, <2>1 DEF ChatSteps, ChatOps, Slot, Reading
  <2>3. Unread(t)' \subseteq Unread(t) /\ Unread(t) \subseteq Stored
    BY <2>2, UnreadStays DEF Unread
  <2>4. ASSUME req[t].first # None, NEW m \in Unread(t)
        PROVE  /\ Skipped(t, m)' <=> Skipped(t, m)
               /\ Newer(req[t].before, m)' <=> Newer(req[t].before, m)
    <3>1. PICK first, before : first = req[t].first /\ before = req[t].before
      OBVIOUS
    <3>2. first \in Stored /\ before \in Stored /\ m \in Stored
      BY <2>1, <2>2, <2>3, <2>4, <3>1 DEF Reading
    <3>3. (Newer(before, m)' <=> Newer(before, m)) /\ (Newer(m, first)' <=> Newer(m, first))
      BY <3>2, NewerStays
    <3> QED BY <1>1, <3>1, <3>2, <3>3 DEF Skipped
  <2>5. CASE req[t].first = None
    <3>1. req[t].before = None /\ req[t].read = {} /\ req[t].at \in {"page", "end"} /\ (req[t].at = "end" => Unread(t) = {})
      BY <2>1, <2>2, <2>5 DEF Reading, At
    <3> QED BY <1>1, <2>2, <2>3, <2>5, <3>1 DEF Reading, HasReadAll, At
  <2>6. CASE req[t].first # None
    <3>1. /\ {req[t].first, req[t].before} \subseteq Stored
          /\ req[t].at # "end" => \A m \in Unread(t) : Newer(req[t].before, m) \/ Skipped(t, m)
          /\ req[t].at = "end" => \A m \in Unread(t) : Skipped(t, m)
      BY <2>1, <2>2, <2>6 DEF Reading, HasReadAll, At
    <3>2. /\ req[t].at # "end" => \A m \in Unread(t)' : Newer(req[t].before, m)' \/ Skipped(t, m)'
          /\ req[t].at = "end" => \A m \in Unread(t)' : Skipped(t, m)'
      BY <2>3, <2>4, <2>6, <3>1
    <3>3. {req[t].first, req[t].before} \subseteq Stored'
      BY <1>1, <3>1
    <3> QED BY <1>1, <2>2, <2>6, <3>2, <3>3 DEF Reading, HasReadAll, At
  <2> QED BY <2>5, <2>6
<1> QED BY <1>3, <1>4, <1>5, <1>7, <1>8 DEF Slot

LEMMA StepKeeps ==
  ASSUME Whole, NEW s \in Reqs, Grows(s), Slot(s)',
         TypeOK', BlockHolds', Parted', Answered', CachedIsCurrent', DeletedStaysEmpty'
  PROVE  Whole'
<1>1. \A t \in Reqs \ {s} : Slot(t)'
  BY OthersKeep
<1> QED BY <1>1 DEF Whole

-----------------------------------------------------------------------------
(* Friendships and the cache of them.                                       *)

(* Whom one knows, knows one. *)
LEMMA KnownBothWays ==
  ASSUME rel \subseteq [from : Users, to : Users, status : {"pending", "confirm"}], NEW u \in Users, NEW v \in Known(u)
  PROVE  v \in Users /\ u \in Known(v)
<1>1. \A a, b : Between(a, b) = Between(b, a)
  BY DEF Between
<1>2. CASE v \in ListFriends(u)
  BY <1>1, <1>2 DEF Known, ListFriends, Confirmed
<1>3. CASE v \in ListIncomingFriendRequests(u)
  BY <1>3 DEF Known, ListIncomingFriendRequests, ListOutgoingFriendRequests
<1>4. CASE v \in ListOutgoingFriendRequests(u)
  BY <1>4 DEF Known, ListIncomingFriendRequests, ListOutgoingFriendRequests
<1> QED BY <1>2, <1>3, <1>4 DEF Known

(* The tables say of u what they said, if the rows of another pair change. *)
LEMMA SnapshotElsewhere ==
  ASSUME NEW p, \A r : (r \in rel \/ r \in rel') /\ {r.from, r.to} # p => (r \in rel <=> r \in rel'),
         name' = name, NEW u, u \notin p
  PROVE  Snapshot(u)' = Snapshot(u) /\ Known(u)' = Known(u)
<1>1. \A v : Between(u, v)' = Between(u, v)
  BY DEF Between
<1>2. ListFriends(u)' = ListFriends(u)
  BY <1>1 DEF ListFriends, Confirmed
<1>3. ListIncomingFriendRequests(u)' = ListIncomingFriendRequests(u)
  BY DEF ListIncomingFriendRequests
<1>4. ListOutgoingFriendRequests(u)' = ListOutgoingFriendRequests(u)
  BY DEF ListOutgoingFriendRequests
<1>5. Known(u)' = Known(u)
  BY <1>2, <1>3, <1>4 DEF Known
<1> QED BY <1>2, <1>3, <1>4, <1>5 DEF Snapshot

LEMMA SnapshotStays ==
  ASSUME UNCHANGED <<rel, name>>
  PROVE  /\ \A u : Snapshot(u)' = Snapshot(u) /\ Known(u)' = Known(u)
         /\ \A a, b : Between(a, b)' = Between(a, b) /\ (Confirmed(a, b)' <=> Confirmed(a, b))
<1>1. \A a, b : Between(a, b)' = Between(a, b) /\ (Confirmed(a, b)' <=> Confirmed(a, b))
  BY DEF Between, Confirmed
<1>2. \A u : ListFriends(u)' = ListFriends(u)
  BY <1>1 DEF ListFriends
<1>3. \A u : ListIncomingFriendRequests(u)' = ListIncomingFriendRequests(u)
  BY DEF ListIncomingFriendRequests
<1>4. \A u : ListOutgoingFriendRequests(u)' = ListOutgoingFriendRequests(u)
  BY DEF ListOutgoingFriendRequests
<1>5. \A u : Known(u)' = Known(u)
  BY <1>2, <1>3, <1>4 DEF Known
<1> QED BY <1>1, <1>2, <1>3, <1>4, <1>5 DEF Snapshot

\* A request that is about to drop what is cached of u.
Drops(t, u) == \/ At(t, "inval") /\ u \in req[t].ids
               \/ At(t, "forget") /\ (u = req[t].me \/ req[t].me \in Known(u))

LEMMA StillDrops ==
  ASSUME NEW s \in Reqs, \A t \in Reqs \ {s} : req'[t] = req[t], NEW t \in Reqs \ {s}, NEW u \in Users, Known(u)' = Known(u)
  PROVE  Drops(t, u) => Drops(t, u)'
BY DEF At, Drops

\* The relationships of me are read.
Reads(me) == \E x \in Relationships(me) : Load(me, x)

(* A step that writes no table of friends, and reads at most the cache of one. *)
LEMMA ReadsKeep ==
  ASSUME TypeOK, CachedIsCurrent, Parted, NEW s \in Reqs, ~At(s, "inval"), ~At(s, "forget"),
         \A t \in Reqs \ {s} : req'[t] = req[t], UNCHANGED <<rel, name>>,
         NEW me \in Users, UNCHANGED <<snap, stale>> \/ Reads(me), \A t \in Reqs : over'[t] \subseteq over[t]
  PROVE  CachedIsCurrent' /\ Parted' /\ DOMAIN snap' = Users /\ stale' \subseteq Users
<1>1. DOMAIN snap = Users /\ stale \subseteq Users
  BY DEF TypeOK, FriendsTypeOK
<1>2. /\ DOMAIN snap' = Users /\ stale' \subseteq stale
      /\ \A u \in Users : (snap'[u] = snap[u] /\ (u \in stale => u \in stale')) \/ snap'[u] = {Snapshot(u)}
  BY <1>1 DEF Reads, Load
<1>5. CachedIsCurrent'
  <2>1. SUFFICES ASSUME NEW u \in Users, u \notin stale', snap'[u] \notin {{}, {Snapshot(u)}}
                 PROVE  \E t \in Reqs : Drops(t, u)'
    BY SnapshotStays DEF CachedIsCurrent, Drops
  <2>2. snap[u] \notin {{}, {Snapshot(u)}} /\ u \notin stale
    BY <1>2, <2>1
  <2>3. PICK t \in Reqs : Drops(t, u)
    BY <2>2 DEF CachedIsCurrent, Drops
  <2>4. t # s
    BY <2>3 DEF Drops
  <2> QED BY <2>3, <2>4, StillDrops, SnapshotStays
<1>6. Parted'
  <2>1. SUFFICES ASSUME NEW t \in Reqs, NEW a \in Users, NEW b \in Users, {a, b} \in over'[t]
                 PROVE  ~Confirmed(a, b) /\ \A x \in snap'[a] : b \notin x.friends
    BY SnapshotStays DEF Parted
  <2>2. ~Confirmed(a, b) /\ \A x \in snap[a] : b \notin x.friends
    BY <2>1 DEF Parted
  <2>3. b \notin Snapshot(a).friends
    BY <2>2 DEF Snapshot, ListFriends
  <2> QED BY <1>2, <2>2, <2>3
<1> QED BY <1>1, <1>2, <1>5, <1>6

(* A statement about the rows of a pair, whose snapshots are then dropped. *)
LEMMA PairKeeps ==
  ASSUME TypeOK, CachedIsCurrent, Parted, NEW s \in Reqs, ~At(s, "inval"), ~At(s, "forget"),
         \A t \in Reqs \ {s} : req'[t] = req[t], UNCHANGED <<name, snap, stale>>, At(s, "inval")',
         NEW p \in SUBSET Users, p \subseteq req'[s].ids,
         \A r : (r \in rel \/ r \in rel') /\ {r.from, r.to} # p => (r \in rel <=> r \in rel'),
         \A t \in Reqs : over'[t] \subseteq over[t],
         \A r \in rel' : r.status = "confirm" => r \in rel \/ \A t \in Reqs : p \notin over'[t]
  PROVE  CachedIsCurrent' /\ Parted'
<1>1. CachedIsCurrent'
  <2>1. SUFFICES ASSUME NEW u \in Users, u \notin stale, snap[u] \notin {{}, {Snapshot(u)'}}
                 PROVE  \E t \in Reqs : Drops(t, u)'
    BY DEF CachedIsCurrent, Drops
  <2>2. CASE u \in p
    BY <2>2 DEF Drops
  <2>3. CASE u \notin p
    <3>1. Snapshot(u)' = Snapshot(u) /\ Known(u)' = Known(u)
      BY <2>3, SnapshotElsewhere
    <3>2. PICK t \in Reqs : Drops(t, u)
      BY <2>1, <3>1 DEF CachedIsCurrent, Drops
    <3>3. t # s
      BY <3>2 DEF Drops
    <3> QED BY <3>1, <3>2, <3>3, StillDrops
  <2> QED BY <2>2, <2>3
<1>2. Parted'
  <2>1. SUFFICES ASSUME NEW t \in Reqs, NEW a \in Users, NEW b \in Users, {a, b} \in over'[t]
                 PROVE  ~Confirmed(a, b)' /\ \A x \in snap[a] : b \notin x.friends
    BY DEF Parted
  <2>2. ~Confirmed(a, b) /\ \A x \in snap[a] : b \notin x.friends
    BY <2>1 DEF Parted
  <2>3. ASSUME NEW r \in rel', {r.from, r.to} = {a, b}, r.status = "confirm" PROVE FALSE
    <3>1. r \notin rel
      BY <2>2, <2>3 DEF Confirmed, Between
    <3>2. p # {a, b}
      BY <2>1, <2>3, <3>1
    <3> QED BY <2>3, <3>1, <3>2
  <2> QED BY <2>2, <2>3 DEF Confirmed, Between
<1> QED BY <1>1, <1>2

(* A step of a request to friends. *)
LEMMA FriendKeeps ==
  ASSUME Whole, NEW s \in Reqs, UNCHANGED chatVars, NEW r \in FriendRequests \cup Answers, req' = [req EXCEPT ![s] = r],
         \A t \in Reqs : ~At(t, "unused") => over'[t] \subseteq over[t],
         FriendsTypeOK', BothDropped(s)', BlockHolds', Parted', CachedIsCurrent'
  PROVE  Whole'
<1>1. TypeOK /\ req'[s] = r /\ (\A t \in Reqs \ {s} : req'[t] = req[t]) /\ UNCHANGED <<msgs, members, hidden, banned, banList, gone, hushed, late>>
  BY DEF Whole, TypeOK, chatVars
<1>2. Stored' = Stored /\ \A u, c : Visible(u, c)' = Visible(u, c)
  BY <1>1 DEF Stored, Visible, SinceJoining
<1>3. Grows(s)
  BY <1>1, <1>2 DEF Grows
<1>4. r.at \notin ChatSteps
  BY DEF FriendRequests, Answers, FriendSteps, ChatSteps, ChatOps, OnMessage
<1>5. Slot(s)'
  BY <1>1, <1>4 DEF Slot, Course, Cleared, Foreseen, PageTrue, Reading, HidesEnded, HasReadAll, At, ChatSteps, ChatOps, OnMessage
<1>6. req' \in [Reqs -> Answers \cup FriendRequests \cup ChatRequests]
  BY <1>1 DEF TypeOK
<1>7. TypeOK'
  BY <1>1, <1>6 DEF TypeOK
<1>8. Answered' /\ DeletedStaysEmpty'
  BY <1>1, <1>2 DEF Answered, DeletedStaysEmpty, Whole
<1> QED BY <1>3, <1>5, <1>7, <1>8, StepKeeps

(* As long as it does not write the tables. *)
LEMMA FriendReadKeeps ==
  ASSUME Whole, NEW s \in Reqs, UNCHANGED <<rel, name, crossed, over, chatVars>>, blocks' \subseteq blocks,
         ~At(s, "inval"), ~At(s, "forget"),
         NEW r \in FriendRequests \cup Answers, req' = [req EXCEPT ![s] = r],
         r.at # "inval" /\ (r.at \in {"rename", "forget"} => r.op = "rename"),
         NEW me \in Users, UNCHANGED <<snap, stale>> \/ Reads(me)
  PROVE  Whole'
<1>1. TypeOK /\ req'[s] = r /\ \A t \in Reqs \ {s} : req'[t] = req[t]
  BY DEF Whole, TypeOK
<1>2. CachedIsCurrent' /\ Parted' /\ DOMAIN snap' = Users /\ stale' \subseteq Users
  BY <1>1, ReadsKeep DEF Whole
<1>3. FriendsTypeOK'
  BY <1>1, <1>2 DEF TypeOK, FriendsTypeOK
<1>4. BlockHolds'
  <2>1. \A a, b : BlockBetween(a, b)' \subseteq BlockBetween(a, b)
    BY DEF BlockBetween
  <2> QED BY <2>1, SnapshotStays DEF BlockHolds, Whole
<1>5. BothDropped(s)'
  BY <1>1 DEF BothDropped, At
<1> QED BY <1>2, <1>3, <1>4, <1>5, FriendKeeps

LEMMA FriendStartKeeps ==
  ASSUME Whole, NEW s \in Reqs, FriendStart(s), UNCHANGED chatVars
  PROVE  Whole'
<1>1. PICK me \in Users, to \in Users, op \in FriendSteps : op \notin {"inval", "forget"} /\ Ask(s, op, me, to)
  BY DEF FriendStart, AskSend, AskUpdate, AskCancel, AskList, AskUnfriend, AskBlock, AskUnblock, AskRename, FriendSteps
<1>2. Request(op, me, to) \in FriendRequests /\ Request(op, me, to).at = op /\ Request(op, me, to).op = op
  BY DEF Request, FriendRequests
<1>3. UNCHANGED <<rel, blocks, name, snap, stale, crossed, over>> /\ req' = [req EXCEPT ![s] = Request(op, me, to)]
  BY <1>1 DEF Ask
<1>4. ~At(s, "inval") /\ ~At(s, "forget")
  BY DEF FriendStart, At
<1>5. Request(op, me, to).at = "rename" => Request(op, me, to).op = "rename"
  BY <1>2
<1>6. Request(op, me, to).at \notin {"inval", "forget"}
  BY <1>1, <1>2
<1> QED BY <1>1, <1>2, <1>3, <1>4, <1>5, <1>6, FriendReadKeeps

(* Answered, or about to go on: what such a request is. *)
LEMMA FriendNext ==
  ASSUME TypeOK, NEW s \in Reqs, req[s].at \in FriendSteps
  PROVE  /\ req[s].me \in Users /\ req[s].to \in Users /\ req[s] \in FriendRequests
         /\ \A result \in {"ok", "err"} : [at |-> result] \in FriendRequests \cup Answers
         /\ \A step \in FriendSteps : /\ [req[s] EXCEPT !.at = step] \in FriendRequests \cup Answers
                                      /\ [req[s] EXCEPT !.at = step].at = step
         /\ \A ids \in SUBSET Users : /\ [req[s] EXCEPT !.at = "inval", !.ids = ids] \in FriendRequests \cup Answers
                                      /\ [req[s] EXCEPT !.at = "inval", !.ids = ids].at = "inval"
                                      /\ [req[s] EXCEPT !.at = "inval", !.ids = ids].ids = ids
                                      /\ [req[s] EXCEPT !.at = "inval", !.ids = ids].op = req[s].op
                                      /\ [req[s] EXCEPT !.at = "inval", !.ids = ids].me = req[s].me
                                      /\ [req[s] EXCEPT !.at = "inval", !.ids = ids].to = req[s].to
<1>1. req[s] \in FriendRequests
  BY Kinds
<1> QED BY <1>1 DEF FriendRequests, Answers, FriendSteps

LEMMA FriendLooksKeep ==
  ASSUME Whole, NEW s \in Reqs, UNCHANGED chatVars,
         SendCheck(s) \/ CreateExists(s) \/ NoSuchRow(s) \/ UnblockUser(s) \/ ListRelationships(s)
  PROVE  Whole'
<1>1. TypeOK
  BY DEF Whole
<1>2. req[s].at \in FriendSteps /\ ~At(s, "inval") /\ ~At(s, "forget")
  BY DEF SendCheck, CreateExists, NoSuchRow, UnblockUser, ListRelationships, FriendSteps, At
<1>3. UNCHANGED <<rel, name, crossed, over>> /\ blocks' \subseteq blocks /\ (UNCHANGED <<snap, stale>> \/ Reads(req[s].me))
  BY DEF SendCheck, CreateExists, NoSuchRow, UnblockUser, ListRelationships, Reads
<1>4. Goto(s, "create") \/ \E result \in {"ok", "err"} : Answer(s, result)
  BY DEF SendCheck, CreateExists, NoSuchRow, UnblockUser, ListRelationships
<1>5. CASE Goto(s, "create")
  <2>1. "create" \in FriendSteps
    BY DEF FriendSteps
  <2> DEFINE r == [req[s] EXCEPT !.at = "create"]
  <2>2. r \in FriendRequests \cup Answers /\ r.at = "create" /\ req[s].me \in Users
    BY <1>1, <1>2, <2>1, FriendNext
  <2>3. req' = [req EXCEPT ![s] = r]
    BY <1>5 DEF Goto
  <2> HIDE DEF r
  <2> QED BY <1>2, <1>3, <2>2, <2>3, FriendReadKeeps
<1>6. ASSUME NEW result \in {"ok", "err"}, Answer(s, result) PROVE Whole'
  <2> DEFINE r == [at |-> result]
  <2>1. r \in FriendRequests \cup Answers /\ r.at \notin {"inval", "rename", "forget"} /\ req[s].me \in Users
    BY <1>1, <1>2, FriendNext
  <2>2. req' = [req EXCEPT ![s] = r]
    BY <1>6 DEF Answer
  <2> HIDE DEF r
  <2> QED BY <1>2, <1>3, <2>1, <2>2, FriendReadKeeps
<1> QED BY <1>4, <1>5, <1>6

LEMMA DropsPair ==
  ASSUME TypeOK, NEW s \in Reqs, req[s].at \in FriendSteps, Invalidates(s, Pair(s))
  PROVE  \E p \in SUBSET Users, r \in FriendRequests \cup Answers :
           /\ p = Pair(s) /\ r.at = "inval" /\ r.ids = p /\ r.me = req[s].me /\ r.to = req[s].to
           /\ req' = [req EXCEPT ![s] = r]
<1>1. PICK p : p = Pair(s)
  OBVIOUS
<1>2. p \in SUBSET Users
  BY <1>1, FriendNext DEF Pair
<1> DEFINE r == [req[s] EXCEPT !.at = "inval", !.ids = p]
<1>3. r \in FriendRequests \cup Answers /\ r.at = "inval" /\ r.ids = p /\ r.me = req[s].me /\ r.to = req[s].to
  BY <1>2, FriendNext
<1>4. req' = [req EXCEPT ![s] = r]
  BY <1>1 DEF Invalidates
<1> QED BY <1>1, <1>2, <1>3, <1>4

(* The statements about the rows of a pair. *)
LEMMA PairStepKeeps ==
  ASSUME Whole, NEW s \in Reqs, UNCHANGED chatVars, req[s].at \in FriendSteps \ {"inval", "forget"}, UNCHANGED <<name, snap, stale>>, Invalidates(s, Pair(s)),
         \A r : (r \in rel \/ r \in rel') /\ {r.from, r.to} # Pair(s) => (r \in rel <=> r \in rel'),
         \A t \in Reqs : over'[t] \subseteq over[t], over' \in [Reqs -> SUBSET SUBSET Users],
         \A r \in rel' : r.status = "confirm" => r \in rel \/ \A t \in Reqs : Pair(s) \notin over'[t],
         rel' \subseteq [from : Users, to : Users, status : {"pending", "confirm"}],
         \A r, q \in rel' : {r.from, r.to} = {q.from, q.to} => r = q, blocks' \subseteq Users \X Users, BlockHolds'
  PROVE  Whole'
<1>1. TypeOK /\ req[s].at \in FriendSteps /\ ~At(s, "inval") /\ ~At(s, "forget")
  BY DEF Whole, At
<1>2. PICK p \in SUBSET Users, r \in FriendRequests \cup Answers :
        /\ p = Pair(s) /\ r.at = "inval" /\ r.ids = p /\ r.me = req[s].me /\ r.to = req[s].to
        /\ req' = [req EXCEPT ![s] = r]
  BY <1>1, DropsPair
<1>3. req'[s] = r /\ \A t \in Reqs \ {s} : req'[t] = req[t]
  BY <1>1, <1>2 DEF TypeOK
<1>7. BothDropped(s)'
  BY <1>2, <1>3 DEF BothDropped, Pair
<1>8. CachedIsCurrent' /\ Parted'
  <2>1. At(s, "inval")' /\ p \subseteq req'[s].ids
    BY <1>2, <1>3 DEF At
  <2>2. /\ \A q : (q \in rel \/ q \in rel') /\ {q.from, q.to} # p => (q \in rel <=> q \in rel')
        /\ \A q \in rel' : q.status = "confirm" => q \in rel \/ \A t \in Reqs : p \notin over'[t]
    BY <1>2
  <2>3. CachedIsCurrent /\ Parted
    BY DEF Whole
  <2> QED BY <1>1, <1>3, <2>1, <2>2, <2>3, PairKeeps
<1>9. FriendsTypeOK'
  BY <1>1 DEF TypeOK, FriendsTypeOK
<1> QED BY <1>2, <1>7, <1>8, <1>9, FriendKeeps

LEMMA FoundIsOfPair ==
  ASSUME NEW s \in Reqs, req[s].at \in {"accept", "deny", "cancel", "unfriend"}
  PROVE  \A r \in Found(s) : r \in rel /\ {r.from, r.to} = Pair(s)
BY DEF Found, AcceptFriendRequest, DenyFriendRequest, CancelFriendRequest, Unfriend, Between, Pair

LEMMA CreateKeeps ==
  ASSUME Whole, NEW s \in Reqs, Create(s), UNCHANGED chatVars
  PROVE  Whole'
<1>1. /\ req[s].at = "create" /\ Between(req[s].me, req[s].to) = {}
      /\ rel' = rel \cup {Pending(req[s].me, req[s].to)}
      /\ crossed' = IF BlockBetween(req[s].me, req[s].to) = {} THEN crossed \ {Pair(s)} ELSE crossed \cup {Pair(s)}
      /\ Invalidates(s, Pair(s)) /\ UNCHANGED <<blocks, name, snap, stale, over>>
  BY DEF Create, At
<1>2. TypeOK /\ req[s].at \in FriendSteps \ {"inval", "forget"}
  BY <1>1 DEF Whole, FriendSteps
<1>3. PICK me \in Users, to \in Users : me = req[s].me /\ to = req[s].to
  BY <1>2, FriendNext
<1> DEFINE new == Pending(me, to)
<1>4. /\ new \in [from : Users, to : Users, status : {"pending", "confirm"}]
      /\ {new.from, new.to} = {me, to} /\ new.status = "pending" /\ Pair(s) = {me, to} /\ rel' = rel \cup {new}
  BY <1>1, <1>3 DEF Pending, Pair
<1> HIDE DEF new
<1>5. \A r \in rel : {r.from, r.to} # {me, to}
  BY <1>1, <1>3 DEF Between
<1>6. BlockHolds'
  <2>1. SUFFICES ASSUME NEW a \in Users, NEW b \in Users, Between(a, b)' # {}, BlockBetween(a, b)' # {}
                 PROVE  {a, b} \in crossed'
    BY DEF BlockHolds
  <2>2. BlockBetween(a, b) # {}
    BY <1>1, <2>1 DEF BlockBetween
  <2>3. CASE {a, b} = {me, to}
    <3>1. BlockBetween(me, to) # {}
      BY <2>2, <2>3 DEF BlockBetween
    <3> QED BY <1>1, <1>3, <1>4, <2>3, <3>1
  <2>4. CASE {a, b} # {me, to}
    <3>1. Between(a, b) # {}
      BY <1>4, <2>1, <2>4 DEF Between
    <3> QED BY <1>1, <1>4, <2>2, <2>4, <3>1 DEF Whole, BlockHolds
  <2> QED BY <2>3, <2>4
<1>7. /\ \A r : (r \in rel \/ r \in rel') /\ {r.from, r.to} # Pair(s) => (r \in rel <=> r \in rel')
      /\ \A r \in rel' : r.status = "confirm" => r \in rel
      /\ rel' \subseteq [from : Users, to : Users, status : {"pending", "confirm"}]
      /\ \A r, q \in rel' : {r.from, r.to} = {q.from, q.to} => r = q
      /\ over' \in [Reqs -> SUBSET SUBSET Users] /\ blocks' \subseteq Users \X Users
  BY <1>1, <1>2, <1>4, <1>5 DEF TypeOK, FriendsTypeOK
<1> QED BY <1>1, <1>2, <1>6, <1>7, PairStepKeeps

LEMMA AcceptKeeps ==
  ASSUME Whole, NEW s \in Reqs, Accept(s), UNCHANGED chatVars
  PROVE  Whole'
<1>1. req[s].at = "accept" /\ Invalidates(s, Pair(s)) /\ UNCHANGED <<blocks, name, snap, stale, crossed>> /\ over' = Unheard(over, Pair(s))
  BY DEF Accept, At
<1>2. TypeOK /\ req[s].at \in FriendSteps \ {"inval", "forget"}
  BY <1>1 DEF Whole, FriendSteps
<1>3. PICK old \in Found(s) : rel' = (rel \ {old}) \cup {[old EXCEPT !.status = "confirm"]}
  BY DEF Accept
<1>4. old \in rel /\ {old.from, old.to} = Pair(s)
  BY <1>1, FoundIsOfPair
<1> DEFINE new == [old EXCEPT !.status = "confirm"]
<1>5. /\ new \in [from : Users, to : Users, status : {"pending", "confirm"}]
      /\ {new.from, new.to} = Pair(s) /\ rel' = (rel \ {old}) \cup {new}
  BY <1>2, <1>3, <1>4 DEF TypeOK, FriendsTypeOK
<1> HIDE DEF new
<1>6. BlockHolds'
  <2>1. \A a, b : BlockBetween(a, b)' = BlockBetween(a, b)
    BY <1>1 DEF BlockBetween
  <2>2. \A a, b : Between(a, b)' # {} => Between(a, b) # {}
    BY <1>4, <1>5 DEF Between
  <2> QED BY <1>1, <2>1, <2>2 DEF Whole, BlockHolds
<1>7. /\ \A t \in Reqs : over'[t] \subseteq over[t] /\ Pair(s) \notin over'[t]
      /\ over' \in [Reqs -> SUBSET SUBSET Users]
  BY <1>1, <1>2 DEF Unheard, TypeOK, FriendsTypeOK
<1>8. /\ \A r : (r \in rel \/ r \in rel') /\ {r.from, r.to} # Pair(s) => (r \in rel <=> r \in rel')
      /\ rel' \subseteq [from : Users, to : Users, status : {"pending", "confirm"}]
      /\ \A r, q \in rel' : {r.from, r.to} = {q.from, q.to} => r = q
      /\ blocks' \subseteq Users \X Users
  <2>1. /\ rel \subseteq [from : Users, to : Users, status : {"pending", "confirm"}]
        /\ \A r, q \in rel : {r.from, r.to} = {q.from, q.to} => r = q
        /\ blocks' \subseteq Users \X Users
    BY <1>1, <1>2 DEF TypeOK, FriendsTypeOK
  <2>2. PICK p : p = Pair(s)
    OBVIOUS
  <2>3. \A r : {r.from, r.to} # p => r # old /\ r # new
    BY <1>4, <1>5, <2>2
  <2>4. \A r \in rel \ {old} : {r.from, r.to} # p
    BY <1>4, <2>1, <2>2
  <2> QED BY <1>4, <1>5, <2>1, <2>2, <2>3, <2>4
<1> QED BY <1>1, <1>2, <1>6, <1>7, <1>8, PairStepKeeps

(* A row goes. *)
LEMMA RowGoesKeeps ==
  ASSUME Whole, NEW s \in Reqs, Deny(s) \/ Cancel(s) \/ EndFriendship(s), UNCHANGED chatVars
  PROVE  Whole'
<1>1. req[s].at \in {"deny", "cancel", "unfriend"} /\ Invalidates(s, Pair(s)) /\ UNCHANGED <<blocks, name, snap, stale, crossed, over>>
  BY DEF Deny, Cancel, EndFriendship, At
<1>2. TypeOK /\ req[s].at \in FriendSteps \ {"inval", "forget"}
  BY <1>1 DEF Whole, FriendSteps
<1>3. PICK old \in Found(s) : rel' = rel \ {old}
  BY DEF Deny, Cancel, EndFriendship
<1>4. old \in rel /\ {old.from, old.to} = Pair(s)
  BY <1>1, FoundIsOfPair
<1>5. BlockHolds'
  <2>1. \A a, b : BlockBetween(a, b)' = BlockBetween(a, b)
    BY <1>1 DEF BlockBetween
  <2>2. \A a, b : Between(a, b)' # {} => Between(a, b) # {}
    BY <1>3 DEF Between
  <2> QED BY <1>1, <2>1, <2>2 DEF Whole, BlockHolds
<1>6. /\ \A r : (r \in rel \/ r \in rel') /\ {r.from, r.to} # Pair(s) => (r \in rel <=> r \in rel')
      /\ rel' \subseteq rel /\ rel' \subseteq [from : Users, to : Users, status : {"pending", "confirm"}]
      /\ \A r, q \in rel' : {r.from, r.to} = {q.from, q.to} => r = q
      /\ over' \in [Reqs -> SUBSET SUBSET Users] /\ blocks' \subseteq Users \X Users
  BY <1>1, <1>2, <1>3, <1>4 DEF TypeOK, FriendsTypeOK
<1> QED BY <1>1, <1>2, <1>5, <1>6, PairStepKeeps

LEMMA BlockKeeps ==
  ASSUME Whole, NEW s \in Reqs, Block(s), UNCHANGED chatVars
  PROVE  Whole'
<1>1. req[s].at = "block" /\ Invalidates(s, Pair(s)) /\ UNCHANGED <<name, snap, stale, crossed, over>>
  BY DEF Block, At
<1>2. TypeOK /\ req[s].at \in FriendSteps \ {"inval", "forget"}
  BY <1>1 DEF Whole, FriendSteps
<1>3. PICK me \in Users, to \in Users : me = req[s].me /\ to = req[s].to
  BY <1>2, FriendNext
<1>4. blocks' = blocks \cup {<<me, to>>} /\ rel' = rel \ Between(me, to) /\ Pair(s) = {me, to}
  BY <1>3 DEF Block, BlockUser, Pair
<1>5. BlockHolds'
  <2>1. SUFFICES ASSUME NEW a \in Users, NEW b \in Users, Between(a, b)' # {}, BlockBetween(a, b)' # {}
                 PROVE  {a, b} \in crossed
    BY <1>1 DEF BlockHolds
  <2>2. {a, b} # {me, to} /\ Between(a, b) # {}
    BY <1>4, <2>1 DEF Between
  <2>3. BlockBetween(a, b) # {}
    BY <1>4, <2>1, <2>2 DEF BlockBetween
  <2> QED BY <2>2, <2>3 DEF Whole, BlockHolds
<1>6. /\ \A r : (r \in rel \/ r \in rel') /\ {r.from, r.to} # Pair(s) => (r \in rel <=> r \in rel')
      /\ rel' \subseteq rel /\ rel' \subseteq [from : Users, to : Users, status : {"pending", "confirm"}]
      /\ \A r, q \in rel' : {r.from, r.to} = {q.from, q.to} => r = q
      /\ over' \in [Reqs -> SUBSET SUBSET Users] /\ blocks' \subseteq Users \X Users
  <2>1. \A r \in rel : r \in rel' <=> {r.from, r.to} # Pair(s)
    BY <1>4 DEF Between
  <2>2. rel' \subseteq rel
    BY <1>4
  <2>3. /\ rel \subseteq [from : Users, to : Users, status : {"pending", "confirm"}]
        /\ \A r, q \in rel : {r.from, r.to} = {q.from, q.to} => r = q
        /\ over' \in [Reqs -> SUBSET SUBSET Users] /\ blocks \subseteq Users \X Users
    BY <1>1, <1>2 DEF TypeOK, FriendsTypeOK
  <2>4. blocks' \subseteq Users \X Users
    BY <1>3, <1>4, <2>3
  <2> QED BY <2>1, <2>2, <2>3, <2>4
<1> QED BY <1>1, <1>2, <1>5, <1>6, PairStepKeeps

LEMMA RenameKeeps ==
  ASSUME Whole, NEW s \in Reqs, RenameUser(s), UNCHANGED chatVars
  PROVE  Whole'
<1>1. /\ req[s].at = "rename" /\ ~At(s, "inval") /\ ~At(s, "forget") /\ Goto(s, "forget")
      /\ name' = [name EXCEPT ![req[s].me] = "new"] /\ UNCHANGED <<rel, blocks, snap, stale, crossed, over>>
  BY DEF RenameUser, At
<1>2. TypeOK /\ req[s].at \in FriendSteps /\ "forget" \in FriendSteps /\ req[s].op = "rename"
  BY <1>1 DEF Whole, FriendSteps, Slot, BothDropped
<1>3. PICK me \in Users : me = req[s].me
  BY <1>2, FriendNext
<1> DEFINE r == [req[s] EXCEPT !.at = "forget"]
<1>4. r \in FriendRequests \cup Answers /\ r.at = "forget" /\ r.me = me /\ r.op = "rename"
  <2>1. req[s] \in FriendRequests
    BY <1>2, FriendNext
  <2> QED BY <1>2, <1>3, <2>1 DEF FriendRequests
<1>5. req' = [req EXCEPT ![s] = r]
  BY <1>1 DEF Goto
<1> HIDE DEF r
<1>6. req'[s] = r /\ \A t \in Reqs \ {s} : req'[t] = req[t]
  BY <1>2, <1>5 DEF TypeOK
<1>7. /\ \A a, b : Between(a, b)' = Between(a, b) /\ (Confirmed(a, b)' <=> Confirmed(a, b)) /\ BlockBetween(a, b)' = BlockBetween(a, b)
      /\ \A u : ListFriends(u)' = ListFriends(u) /\ ListIncomingFriendRequests(u)' = ListIncomingFriendRequests(u)
                /\ ListOutgoingFriendRequests(u)' = ListOutgoingFriendRequests(u) /\ Known(u)' = Known(u)
  BY <1>1 DEF Between, Confirmed, BlockBetween, ListFriends, ListIncomingFriendRequests, ListOutgoingFriendRequests, Known
<1>8. ASSUME NEW u, me \notin Known(u) PROVE Snapshot(u)' = Snapshot(u)
  <2>1. [v \in Known(u) |-> name'[v]] = [v \in Known(u) |-> name[v]]
    BY <1>1, <1>2, <1>3, <1>8 DEF TypeOK, FriendsTypeOK
  <2> QED BY <1>7, <2>1 DEF Snapshot
<1>9. CachedIsCurrent'
  <2>1. SUFFICES ASSUME NEW u \in Users, u \notin stale, snap[u] \notin {{}, {Snapshot(u)'}}
                 PROVE  \E t \in Reqs : Drops(t, u)'
    BY <1>1 DEF CachedIsCurrent, Drops
  <2>2. CASE me \in Known(u)
    BY <1>4, <1>6, <1>7, <2>2 DEF Drops, At
  <2>3. CASE me \notin Known(u)
    <3>1. PICK t \in Reqs : Drops(t, u)
      BY <1>8, <2>1, <2>3 DEF CachedIsCurrent, Drops, Whole
    <3>2. t # s
      BY <1>1, <3>1 DEF Drops
    <3> QED BY <1>6, <1>7, <3>1, <3>2, StillDrops
  <2> QED BY <2>2, <2>3
<1>10. Parted' /\ BlockHolds'
  BY <1>1, <1>7 DEF Parted, BlockHolds, Whole
<1>11. BothDropped(s)'
  BY <1>4, <1>6 DEF BothDropped, At
<1>12. FriendsTypeOK'
  BY <1>1, <1>2, <1>3 DEF TypeOK, FriendsTypeOK
<1> QED BY <1>1, <1>4, <1>5, <1>9, <1>10, <1>11, <1>12, FriendKeeps

LEMMA ForgetNamesKeeps ==
  ASSUME Whole, NEW s \in Reqs, ForgetNames(s) \/ ForgetSelf(s), UNCHANGED chatVars
  PROVE  Whole'
<1>1. req[s].at = "forget" /\ At(s, "forget") /\ UNCHANGED <<rel, blocks, name, snap, crossed, over>>
  BY DEF ForgetNames, ForgetSelf, At
<1>2. TypeOK /\ req[s].at \in FriendSteps /\ req[s].op = "rename"
  BY <1>1 DEF Whole, FriendSteps, Slot, BothDropped
<1>3. PICK me : me \in Users /\ me = req[s].me
  BY <1>2, FriendNext
<1>4. rel \subseteq [from : Users, to : Users, status : {"pending", "confirm"}] /\ stale \subseteq Users
  BY <1>2 DEF TypeOK, FriendsTypeOK
<1>5. PICK ids \in SUBSET Users : /\ Invalidates(s, ids) /\ stale \subseteq stale' /\ stale' \subseteq Users
                                  /\ Known(me) \cup {me} \subseteq ids \cup stale'
  <2>1. Known(me) \subseteq Users
    BY <1>3, <1>4, KnownBothWays
  <2> QED BY <1>3, <1>4, <2>1 DEF ForgetNames, ForgetSelf
<1> DEFINE r == [req[s] EXCEPT !.at = "inval", !.ids = ids]
<1>6. r \in FriendRequests \cup Answers /\ r.at = "inval" /\ r.op = "rename" /\ r.ids = ids
  BY <1>2, <1>5, FriendNext
<1>7. req' = [req EXCEPT ![s] = r]
  BY <1>5 DEF Invalidates
<1> HIDE DEF r
<1>8. req'[s] = r /\ \A t \in Reqs \ {s} : req'[t] = req[t]
  BY <1>2, <1>7 DEF TypeOK
<1>9. CachedIsCurrent'
  <2>1. SUFFICES ASSUME NEW u \in Users, u \notin stale', snap[u] \notin {{}, {Snapshot(u)}}
                 PROVE  \E t \in Reqs : Drops(t, u)'
    BY <1>1, SnapshotStays DEF CachedIsCurrent, Drops
  <2>2. PICK t \in Reqs : Drops(t, u)
    BY <1>5, <2>1 DEF CachedIsCurrent, Drops, Whole
  <2>3. CASE t = s
    <3>1. u = me \/ me \in Known(u)
      BY <1>1, <1>3, <2>2, <2>3 DEF Drops, At
    <3>2. u \in ids
      BY <1>3, <1>4, <1>5, <2>1, <3>1, KnownBothWays
    <3> QED BY <1>6, <1>8, <3>2 DEF Drops, At
  <2>4. CASE t # s
    BY <1>1, <1>8, <2>2, <2>4, StillDrops, SnapshotStays
  <2> QED BY <2>3, <2>4
<1>10. Parted' /\ BlockHolds'
  <2>1. \A a, b : BlockBetween(a, b)' = BlockBetween(a, b)
    BY <1>1 DEF BlockBetween
  <2> QED BY <1>1, <2>1, SnapshotStays DEF Parted, BlockHolds, Whole
<1>11. BothDropped(s)'
  BY <1>6, <1>8 DEF BothDropped, At
<1>12. FriendsTypeOK'
  BY <1>1, <1>2, <1>5 DEF TypeOK, FriendsTypeOK
<1> QED BY <1>1, <1>6, <1>7, <1>9, <1>10, <1>11, <1>12, FriendKeeps

(* A request that ends before it has dropped what it should is noted for that. *)
LEMMA GivesUpKeeps ==
  ASSUME Whole, NEW s \in Reqs, InvalidateFails(s) \/ Fails(s), UNCHANGED chatVars
  PROVE  Whole'
<1>1. UNCHANGED <<rel, blocks, name, snap, crossed, over>> /\ \E result \in {"ok", "err"} : Answer(s, result)
  BY DEF InvalidateFails, Fails
<1>2. TypeOK /\ rel \subseteq [from : Users, to : Users, status : {"pending", "confirm"}] /\ stale \subseteq Users
  BY DEF Whole, TypeOK, FriendsTypeOK
<1>13. PICK result \in {"ok", "err"} : Answer(s, result)
  BY <1>1
<1> DEFINE r == [at |-> result]
<1>3. r \in Answers /\ req' = [req EXCEPT ![s] = r] /\ r.at \in {"ok", "err"}
  BY <1>13 DEF Answer, Answers
<1> HIDE DEF r
<1>4. req'[s] = r /\ \A t \in Reqs \ {s} : req'[t] = req[t]
  BY <1>2, <1>3 DEF TypeOK
<1>5. /\ stale \subseteq stale' /\ stale' \subseteq Users
      /\ At(s, "inval") => req[s].ids \subseteq stale'
      /\ At(s, "forget") => Known(req[s].me) \cup {req[s].me} \subseteq stale'
  <2>1. /\ At(s, "inval") => req[s].ids \subseteq Users
        /\ At(s, "forget") => req[s].me \in Users /\ Known(req[s].me) \subseteq Users
    <3>1. At(s, "inval") \/ At(s, "forget") => req[s] \in FriendRequests
      BY <1>2, Kinds DEF At, FriendSteps
    <3>2. At(s, "forget") => req[s].me \in Users
      BY <3>1 DEF FriendRequests
    <3>3. At(s, "forget") => Known(req[s].me) \subseteq Users
      BY <1>2, <3>2, KnownBothWays
    <3> QED BY <3>1, <3>2, <3>3 DEF FriendRequests
  <2>2. CASE InvalidateFails(s)
    BY <1>2, <2>1, <2>2 DEF InvalidateFails, At
  <2>3. CASE Fails(s)
    <3>1. stale' = stale \cup ToDrop(s)
      BY <2>3 DEF Fails
    <3>2. ToDrop(s) = IF At(s, "inval") THEN req[s].ids ELSE IF At(s, "forget") THEN Known(req[s].me) \cup {req[s].me} ELSE {}
      BY DEF ToDrop, At
    <3> QED BY <1>2, <2>1, <3>1, <3>2 DEF At
  <2> QED BY <2>2, <2>3
<1>6. CachedIsCurrent'
  <2>1. SUFFICES ASSUME NEW u \in Users, u \notin stale', snap[u] \notin {{}, {Snapshot(u)}}
                 PROVE  \E t \in Reqs : Drops(t, u)'
    BY <1>1, SnapshotStays DEF CachedIsCurrent, Drops
  <2>2. PICK t \in Reqs : Drops(t, u)
    BY <1>5, <2>1 DEF CachedIsCurrent, Drops, Whole
  <2>3. t # s
    <3>1. SUFFICES ASSUME At(s, "forget"), req[s].me \in Known(u) PROVE u \in Known(req[s].me)
      BY <1>5, <2>1, <2>2 DEF Drops
    <3> QED BY <1>2, <3>1, KnownBothWays
  <2> QED BY <1>1, <1>4, <2>2, <2>3, StillDrops, SnapshotStays
<1>7. Parted' /\ BlockHolds'
  <2>1. \A a, b : BlockBetween(a, b)' = BlockBetween(a, b)
    BY <1>1 DEF BlockBetween
  <2> QED BY <1>1, <2>1, SnapshotStays DEF Parted, BlockHolds, Whole
<1>8. BothDropped(s)'
  BY <1>3, <1>4 DEF BothDropped, At
<1>9. FriendsTypeOK'
  BY <1>1, <1>2, <1>5 DEF TypeOK, FriendsTypeOK
<1> QED BY <1>1, <1>3, <1>6, <1>7, <1>8, <1>9, FriendKeeps

LEMMA InvalidateKeeps ==
  ASSUME Whole, NEW s \in Reqs, Invalidate(s), UNCHANGED chatVars
  PROVE  Whole'
<1>1. /\ req[s].at = "inval" /\ At(s, "inval") /\ UNCHANGED <<rel, blocks, name, crossed>>
      /\ snap' = [u \in Users |-> IF u \in req[s].ids THEN {} ELSE snap[u]] /\ stale' = stale \ req[s].ids
      /\ over' = IF req[s].op \in {"unfriend", "block"} /\ ~Confirmed(req[s].me, req[s].to) THEN Heard(over, Pair(s)) ELSE over
      /\ req' = [req EXCEPT ![s] = [at |-> "ok"]]
  BY DEF Invalidate, At, Answer
<1>2. TypeOK /\ req[s].at \in FriendSteps /\ (req[s].op \in {"unfriend", "block"} => req[s].ids = Pair(s))
  BY <1>1 DEF Whole, FriendSteps, Slot, BothDropped
<1>3. PICK me \in Users, to \in Users : me = req[s].me /\ to = req[s].to /\ Pair(s) = {me, to}
  BY <1>2, FriendNext DEF Pair
<1> DEFINE r == [at |-> "ok"]
<1>4. r \in FriendRequests \cup Answers /\ r.at = "ok" /\ req' = [req EXCEPT ![s] = r]
  BY <1>1 DEF Answers
<1> HIDE DEF r
<1>5. req'[s] = r /\ \A t \in Reqs \ {s} : req'[t] = req[t]
  BY <1>2, <1>4 DEF TypeOK
<1>6. CachedIsCurrent'
  <2>1. SUFFICES ASSUME NEW u \in Users, u \notin stale', snap'[u] \notin {{}, {Snapshot(u)}}
                 PROVE  \E t \in Reqs : Drops(t, u)'
    BY <1>1, SnapshotStays DEF CachedIsCurrent, Drops
  <2>2. snap[u] \notin {{}, {Snapshot(u)}} /\ u \notin req[s].ids /\ u \notin stale
    BY <1>1, <2>1
  <2>3. PICK t \in Reqs : Drops(t, u)
    BY <2>2 DEF CachedIsCurrent, Drops, Whole
  <2>4. t # s
    BY <1>1, <2>2, <2>3 DEF Drops, At
  <2> QED BY <1>1, <1>5, <2>3, <2>4, StillDrops, SnapshotStays
<1>7. /\ over' \in [Reqs -> SUBSET SUBSET Users]
      /\ \A t \in Reqs : ~At(t, "unused") => over'[t] \subseteq over[t]
      /\ \A t \in Reqs : over'[t] \subseteq over[t] \/
            (over'[t] = over[t] \cup {{me, to}} /\ ~Confirmed(me, to) /\ req[s].ids = {me, to})
  BY <1>1, <1>2, <1>3 DEF Heard, TypeOK, FriendsTypeOK
<1>8. Parted'
  <2>1. SUFFICES ASSUME NEW t \in Reqs, NEW a \in Users, NEW b \in Users, {a, b} \in over'[t]
                 PROVE  ~Confirmed(a, b) /\ \A x \in snap'[a] : b \notin x.friends
    BY <1>1, SnapshotStays DEF Parted
  <2>2. CASE {a, b} \in over[t]
    BY <1>1, <2>2 DEF Parted, Whole
  <2>3. CASE {a, b} \notin over[t]
    <3>1. {a, b} = {me, to} /\ ~Confirmed(me, to) /\ req[s].ids = {me, to}
      BY <1>7, <2>1, <2>3
    <3>2. snap'[a] = {} /\ ~Confirmed(a, b)
      BY <1>1, <3>1 DEF Confirmed, Between
    <3> QED BY <3>2
  <2> QED BY <2>2, <2>3
<1>9. BlockHolds'
  <2>1. \A a, b : BlockBetween(a, b)' = BlockBetween(a, b)
    BY <1>1 DEF BlockBetween
  <2> QED BY <1>1, <2>1, SnapshotStays DEF BlockHolds, Whole
<1>10. BothDropped(s)'
  BY <1>4, <1>5 DEF BothDropped, At
<1>11. FriendsTypeOK'
  BY <1>1, <1>2, <1>7 DEF TypeOK, FriendsTypeOK
<1> QED BY <1>1, <1>4, <1>6, <1>7, <1>8, <1>9, <1>10, <1>11, FriendKeeps

LEMMA FriendStepKeeps ==
  ASSUME Whole, NEW s \in Reqs, FriendStep(s), UNCHANGED chatVars
  PROVE  Whole'
BY FriendStartKeeps, FriendLooksKeep, CreateKeeps, AcceptKeeps, RowGoesKeeps, BlockKeeps, RenameKeeps,
   ForgetNamesKeeps, InvalidateKeeps, GivesUpKeeps DEF FriendStep

-----------------------------------------------------------------------------
(* A step of a request to the chat.                                         *)

LEMMA ChatOutside ==
  ASSUME Whole, NEW s \in Reqs, ~At(s, "inval"), ~At(s, "forget"), UNCHANGED <<rel, blocks, name, crossed, over>>,
         NEW me \in Users, UNCHANGED <<snap, stale>> \/ Reads(me),
         NEW r \in ChatRequests \cup Answers, req' = [req EXCEPT ![s] = r]
  PROVE  /\ CachedIsCurrent' /\ Parted' /\ BlockHolds' /\ FriendsTypeOK' /\ BothDropped(s)'
         /\ req' \in [Reqs -> Answers \cup FriendRequests \cup ChatRequests]
         /\ req'[s] = r /\ \A t \in Reqs \ {s} : req'[t] = req[t]
<1>1. TypeOK /\ req'[s] = r /\ \A t \in Reqs \ {s} : req'[t] = req[t]
  BY DEF Whole, TypeOK
<1>2. CachedIsCurrent' /\ Parted' /\ DOMAIN snap' = Users /\ stale' \subseteq Users
  BY <1>1, ReadsKeep DEF Whole
<1>3. FriendsTypeOK'
  BY <1>1, <1>2 DEF TypeOK, FriendsTypeOK
<1>4. BlockHolds'
  <2>1. \A a, b : BlockBetween(a, b)' = BlockBetween(a, b)
    BY DEF BlockBetween
  <2> QED BY <2>1, SnapshotStays DEF BlockHolds, Whole
<1>5. r.at \notin {"inval", "rename", "forget"}
  BY DEF ChatRequests, ChatSteps, ChatOps, OnMessage, Answers
<1>6. BothDropped(s)'
  BY <1>1, <1>5 DEF BothDropped, At
<1>7. req' \in [Reqs -> Answers \cup FriendRequests \cup ChatRequests]
  BY <1>1 DEF TypeOK
<1> QED BY <1>1, <1>2, <1>3, <1>4, <1>6, <1>7

(* Nothing more is said of a request that has been answered. *)
LEMMA AnswerSlot ==
  ASSUME NEW s \in Reqs, req'[s] \in Answers
  PROVE  Slot(s)'
<1>1. req'[s].at \in {"unused", "ok", "err"}
  BY DEF Answers
<1> QED BY <1>1 DEF Slot, BothDropped, Course, Cleared, Foreseen, PageTrue, Reading, HidesEnded, HasReadAll, At, ChatSteps, ChatOps, OnMessage

(* A step that writes nothing of the chat, but for the list of suspensions. *)
LEMMA ChatReadKeeps ==
  ASSUME Whole, NEW s \in Reqs, ~At(s, "inval"), ~At(s, "forget"), UNCHANGED <<rel, blocks, name, crossed, over>>,
         NEW me \in Users, UNCHANGED <<snap, stale>> \/ Reads(me),
         NEW r \in ChatRequests \cup Answers, req' = [req EXCEPT ![s] = r],
         UNCHANGED <<msgs, members, hidden, banned, gone, hushed, late>>, banList' \in {banList, {Suspended}},
         r \in Answers \/ (Course(s)' /\ Cleared(s)' /\ Foreseen(s)' /\ PageTrue(s)' /\ Reading(s)' /\ HidesEnded(s)' /\ HasReadAll(s)')
  PROVE  Whole'
<1>1. /\ CachedIsCurrent' /\ Parted' /\ BlockHolds' /\ FriendsTypeOK' /\ BothDropped(s)'
      /\ req' \in [Reqs -> Answers \cup FriendRequests \cup ChatRequests]
      /\ req'[s] = r /\ \A t \in Reqs \ {s} : req'[t] = req[t]
  BY ChatOutside
<1>2. Stored' = Stored /\ \A u, c : Visible(u, c)' = Visible(u, c)
  BY DEF Stored, Visible, SinceJoining
<1>3. Grows(s)
  BY <1>1, <1>2 DEF Grows
<1>4. Slot(s)'
  BY <1>1, AnswerSlot DEF Slot
<1>5. Suspended \in SUBSET Users /\ \A t \in Reqs : hushed[t] \subseteq Suspended
  <2>1. CASE banList = {}
    BY <2>1 DEF Whole, TypeOK, Answered, Suspended
  <2>2. CASE banList # {}
    <3>1. Suspended \in banList
      BY <2>2 DEF Suspended
    <3> QED BY <3>1 DEF Whole, TypeOK, Answered
  <2> QED BY <2>1, <2>2
<1>6. TypeOK'
  BY <1>1, <1>5 DEF TypeOK, Whole
<1>7. Answered'
  <2>1. \A x \in banList' : x \in banList \/ x = Suspended
    OBVIOUS
  <2> QED BY <1>2, <1>5, <2>1 DEF Answered, Whole
<1>8. DeletedStaysEmpty'
  BY <1>2 DEF DeletedStaysEmpty, Whole
<1> QED BY <1>1, <1>3, <1>4, <1>6, <1>7, <1>8, StepKeeps

LEMMA ChatStartKeeps ==
  ASSUME Whole, NEW s \in Reqs, ChatStart(s)
  PROVE  Whole'
<1>1. Group \in Chats /\ ~Private(Group) /\ \A u \in Users : \A c \in MyChats(u) : c \in Chats /\ (Private(c) => u \in c)
  BY DEF Chats, Private, MyChats
<1>2. PICK me \in Users : \/ AskPost(s, me) \/ AskEdit(s, me) \/ AskDelete(s, me) \/ AskReact(s, me) \/ AskUnreact(s, me)
                          \/ AskForward(s, me) \/ AskPage(s, me) \/ AskConversations(s, me) \/ AskSearch(s, me)
                          \/ AskTyping(s, me) \/ AskBan(s, me) \/ AskUnban(s, me) \/ AskLeaveOrJoin(s, me)
  BY DEF ChatStart
<1>3. PICK op \in ChatOps, m \in Stored \cup {None}, c \in Chats :
        ChatAsk(s, op, me, m, c) /\ (Private(c) => me \in c) /\ (op \in OnMessage => m \in Stored)
  BY <1>1, <1>2 DEF AskPost, AskEdit, AskDelete, AskReact, AskUnreact, AskForward, AskPage, AskConversations, AskSearch,
                    AskTyping, AskBan, AskUnban, AskLeaveOrJoin, ChatOps, OnMessage
<1> DEFINE r == ChatRequest(op, me, m, c)
<1>4. /\ r \in ChatRequests /\ r.op = op /\ r.at = op /\ r.me = me /\ r.msg = m /\ r.chat = c /\ r.page = {}
      /\ r.first = None /\ r.before = None /\ r.read = {} /\ (op = "page" => r.there = Visible(me, c))
  <2>1. Visible(me, c) \subseteq Stored /\ Stored \subseteq Msgs /\ "" \in Texts
    BY DEF Visible, Stored, Texts
  <2> QED BY <2>1 DEF ChatRequest, ChatRequests, ChatSteps
<1>5. req' = [req EXCEPT ![s] = r]
  BY <1>3 DEF ChatAsk
<1> HIDE DEF r
<1>6. ~At(s, "inval") /\ ~At(s, "forget")
  BY DEF ChatStart, At
<1>7. UNCHANGED <<rel, blocks, name, snap, stale, crossed, over>> /\ UNCHANGED <<msgs, members, hidden, banned, banList, gone, hushed, late>>
  BY <1>3 DEF ChatAsk, chatVars
<1>8. req'[s] = r /\ Stored' = Stored /\ (op \in ChatSteps => op \in ChatOps)
  BY <1>4, <1>5, <1>7 DEF Whole, TypeOK, Stored
<1>9. Course(s)'
  <2>1. op \notin {"may", "write", "wipe", "set", "unset", "content", "author", "counts", "end"}
    BY DEF ChatOps, OnMessage
  <2> QED BY <1>3, <1>4, <1>7, <1>8, <2>1 DEF Course
<1>10. Cleared(s)' /\ Foreseen(s)' /\ PageTrue(s)' /\ HidesEnded(s)' /\ HasReadAll(s)'
  <2>1. op \notin {"store", "write", "set", "author", "counts", "hide", "shown", "end"}
    BY DEF ChatOps, OnMessage
  <2> QED BY <1>4, <1>8, <2>1 DEF Cleared, Foreseen, PageTrue, HidesEnded, HasReadAll, At
<1>11. Reading(s)'
  <2>1. Visible(me, c) \subseteq Stored
    BY DEF Visible
  <2> QED BY <1>4, <1>8, <2>1 DEF Reading, At
<1> QED BY <1>4, <1>5, <1>6, <1>7, <1>9, <1>10, <1>11, ChatReadKeeps

LEMMA AnswerKeeps ==
  ASSUME Whole, NEW s \in Reqs, req[s].at \in ChatSteps, UNCHANGED <<rel, blocks, name, crossed, over>>,
         UNCHANGED <<snap, stale>> \/ Reads(req[s].me), NEW result \in {"ok", "err"}, Answer(s, result),
         UNCHANGED <<msgs, members, hidden, banned, gone, hushed, late>>, banList' \in {banList, {Suspended}}
  PROVE  Whole'
<1> DEFINE r == [at |-> result]
<1>1. r \in Answers /\ req' = [req EXCEPT ![s] = r]
  BY DEF Answer, Answers
<1> HIDE DEF r
<1>2. ~At(s, "inval") /\ ~At(s, "forget")
  BY DEF At, ChatSteps, ChatOps, OnMessage
<1>3. PICK me \in Users : me = req[s].me
  BY Kinds DEF Whole, ChatRequests
<1> QED BY <1>1, <1>2, <1>3, ChatReadKeeps

(* A request goes on to its next step. *)
LEMMA GotoSlot ==
  ASSUME Whole, NEW s \in Reqs, req[s].at \in ChatSteps, UNCHANGED <<msgs, over, gone, late>>, hushed'[s] \subseteq hushed[s],
         NEW step \in {"may", "write", "wipe", "set", "unset", "author", "content", "post", "store", "forgetBans"}, Goto(s, step),
         step \notin {"store", "forgetBans"} => req[s].op \in OnMessage,
         step \in {"author", "content", "post"} => req[s].op = "forward",
         step = "store" => req[s].chat \notin over[s],
         step \in {"write", "set"} => msgs[req[s].msg].chat \notin over[s],
         step \in {"author", "post", "store"} /\ req[s].op = "forward" => req[s].msg \notin gone[s],
         step = "set" => req[s].op = "react",
         step \in {"post", "store"} /\ req[s].op = "forward" => msgs[req[s].msg].from \notin hushed[s],
         step \in {"may", "set"} /\ req[s].op = "react" /\ msgs[req[s].msg].deleted => <<req[s].msg, req[s].me>> \in late
  PROVE  \E r \in ChatRequests :
           /\ req' = [req EXCEPT ![s] = r]
           /\ Course(s)' /\ Cleared(s)' /\ Foreseen(s)' /\ PageTrue(s)' /\ Reading(s)' /\ HidesEnded(s)' /\ HasReadAll(s)'
<1>1. TypeOK /\ req[s] \in ChatRequests /\ step \in ChatSteps
  BY Kinds DEF Whole, ChatSteps, ChatOps, OnMessage
<1> DEFINE r == [req[s] EXCEPT !.at = step]
<1>2. r \in ChatRequests /\ r.at = step /\ r.op = req[s].op /\ r.msg = req[s].msg /\ r.chat = req[s].chat /\ r.me = req[s].me
  BY <1>1 DEF ChatRequests
<1>3. req' = [req EXCEPT ![s] = r]
  BY DEF Goto
<1> HIDE DEF r
<1>4. req'[s] = r /\ Stored' = Stored
  BY <1>1, <1>3 DEF TypeOK, Stored
<1>5. Course(s)'
  BY <1>2, <1>4 DEF Course, ChatOps, OnMessage, Whole, Slot
<1>6. Cleared(s)'
  <2>1. step \in {"store", "write", "set"} => WritesTo(s)' \notin over[s]
    BY <1>2, <1>4 DEF WritesTo
  <2> QED BY <1>2, <1>4, <2>1 DEF Cleared, MustFail, At
<1>7. PageTrue(s)' /\ HidesEnded(s)' /\ Reading(s)' /\ HasReadAll(s)'
  BY <1>2, <1>4 DEF PageTrue, HidesEnded, Reading, HasReadAll, At
<1>8. Foreseen(s)'
  BY <1>2, <1>4 DEF Foreseen
<1> QED BY <1>2, <1>3, <1>5, <1>6, <1>7, <1>8

LEMMA GotoKeeps ==
  ASSUME Whole, NEW s \in Reqs, req[s].at \in ChatSteps, UNCHANGED <<rel, blocks, name, crossed, over>>,
         UNCHANGED <<snap, stale>> \/ Reads(req[s].me),
         UNCHANGED <<msgs, members, hidden, banned, gone, hushed, late>>, banList' \in {banList, {Suspended}},
         NEW step \in {"may", "write", "wipe", "set", "unset", "author", "content", "post", "store", "forgetBans"}, Goto(s, step),
         step \notin {"store", "forgetBans"} => req[s].op \in OnMessage,
         step \in {"author", "content", "post"} => req[s].op = "forward",
         step = "store" => req[s].chat \notin over[s],
         step \in {"write", "set"} => msgs[req[s].msg].chat \notin over[s],
         step \in {"author", "post", "store"} /\ req[s].op = "forward" => req[s].msg \notin gone[s],
         step = "set" => req[s].op = "react",
         step \in {"post", "store"} /\ req[s].op = "forward" => msgs[req[s].msg].from \notin hushed[s],
         step \in {"may", "set"} /\ req[s].op = "react" /\ msgs[req[s].msg].deleted => <<req[s].msg, req[s].me>> \in late
  PROVE  Whole'
<1>1. PICK r \in ChatRequests :
        /\ req' = [req EXCEPT ![s] = r]
        /\ Course(s)' /\ Cleared(s)' /\ Foreseen(s)' /\ PageTrue(s)' /\ Reading(s)' /\ HidesEnded(s)' /\ HasReadAll(s)'
  BY GotoSlot
<1>2. ~At(s, "inval") /\ ~At(s, "forget")
  BY DEF At, ChatSteps, ChatOps, OnMessage
<1>3. PICK me \in Users : me = req[s].me
  BY Kinds DEF Whole, ChatRequests
<1> QED BY <1>1, <1>2, <1>3, ChatReadKeeps

LEMMA LocateKeeps ==
  ASSUME Whole, NEW s \in Reqs, Locate(s)
  PROVE  Whole'
<1>1. req[s].at \in OnMessage /\ req[s].at \in ChatSteps /\ UNCHANGED <<rel, blocks, name, snap, stale, crossed, over>>
      /\ UNCHANGED <<msgs, members, hidden, banned, banList, gone, hushed, late>>
  BY DEF Locate, OnMessage, ChatSteps, ChatOps, chatVars
<1>2. req[s].op \in OnMessage
  BY <1>1 DEF Whole, Slot, Course, ChatOps, OnMessage
<1>3. CASE Goto(s, "may") /\ LocateMessage(req[s].msg)
  <2>1. ~msgs[req[s].msg].deleted
    BY <1>3 DEF LocateMessage
  <2> QED BY <1>1, <1>2, <1>3, <2>1, GotoKeeps
<1>4. CASE Answer(s, "err")
  BY <1>1, <1>4, AnswerKeeps
<1> QED BY <1>3, <1>4 DEF Locate

(* People who have been told of the end are no friends to any request since. *)
LEMMA FriendsNotOver ==
  ASSUME TypeOK, Parted, NEW c \in Chats, NEW u \in Users, NEW x \in Relationships(u),
         Private(c) => u \in c /\ OtherIn(c, u) \in x.friends
  PROVE  \A t \in Reqs : c \notin over[t]
<1>1. CASE ~Private(c)
  BY <1>1, GroupIsNoPair DEF Private
<1>2. CASE Private(c)
  <2>1. PICK v : v = OtherIn(c, u)
    OBVIOUS
  <2>2. c = {u, v} /\ v \in Users
    BY <1>2, <2>1, TwoInChat
  <2>3. SUFFICES ASSUME NEW t \in Reqs, {u, v} \in over[t] PROVE FALSE
    BY <2>2
  <2>4. ~Confirmed(u, v) /\ \A y \in snap[u] : v \notin y.friends
    BY <2>2, <2>3 DEF Parted
  <2>5. v \in x.friends
    BY <1>2, <2>1
  <2>6. v \notin Snapshot(u).friends
    BY <2>4 DEF Snapshot, ListFriends
  <2> QED BY <2>4, <2>5, <2>6 DEF Relationships
<1> QED BY <1>1, <1>2

LEMMA AuthorizeKeeps ==
  ASSUME Whole, NEW s \in Reqs, Authorize(s)
  PROVE  Whole'
<1>1. req[s].at = "may" /\ req[s].at \in ChatSteps /\ UNCHANGED <<rel, blocks, name, crossed, over>>
      /\ UNCHANGED <<msgs, members, hidden, banned, banList, gone, hushed, late>>
  BY DEF Authorize, At, ChatSteps, chatVars
<1>2. /\ TypeOK /\ Parted /\ req[s] \in ChatRequests /\ req[s].op \in OnMessage /\ req[s].msg \in Stored
      /\ UNCHANGED <<snap, stale>> \/ Reads(req[s].me)
  BY <1>1, Kinds DEF Whole, Slot, Course, Authorize, AreFriends, Reads
<1>3. CASE Answer(s, "err")
  BY <1>1, <1>2, <1>3, AnswerKeeps
<1>4. ASSUME NEW x \in Relationships(req[s].me), MayTouch(s, x), ~Answer(s, "err"),
             Goto(s, CASE req[s].op = "edit" -> "write" [] req[s].op = "delete" -> "wipe"
                       [] req[s].op = "react" -> "set" [] req[s].op = "unreact" -> "unset"
                       [] req[s].op = "forward" -> "content")
      PROVE  Whole'
  <2>1. PICK me \in Users, c \in Chats : me = req[s].me /\ c = msgs[req[s].msg].chat
    BY <1>2, Rows DEF ChatRequests, Messages
  <2>2. req[s].op \in {"edit", "react"} => c \notin over[s]
    BY <1>2, <1>4, <2>1, FriendsNotOver DEF MayTouch
  <2>3. CASE req[s].op = "edit" /\ Goto(s, "write")
    BY <1>1, <1>2, <2>1, <2>2, <2>3, GotoKeeps
  <2>4. CASE req[s].op = "delete" /\ Goto(s, "wipe")
    BY <1>1, <1>2, <2>4, GotoKeeps
  <2>5. CASE req[s].op = "react" /\ Goto(s, "set")
    <3>1. msgs[req[s].msg].deleted => <<req[s].msg, req[s].me>> \in late
      BY <1>1, <2>5 DEF Whole, Slot, Foreseen
    <3> QED BY <1>1, <1>2, <2>1, <2>2, <2>5, <3>1, GotoKeeps
  <2>6. CASE req[s].op = "unreact" /\ Goto(s, "unset")
    BY <1>1, <1>2, <2>6, GotoKeeps
  <2>7. CASE req[s].op = "forward" /\ Goto(s, "content")
    BY <1>1, <1>2, <2>7, GotoKeeps
  <2> QED BY <1>2, <1>4, <2>3, <2>4, <2>5, <2>6, <2>7 DEF OnMessage
<1> QED BY <1>3, <1>4 DEF Authorize

LEMMA SendAuthorizeKeeps ==
  ASSUME Whole, NEW s \in Reqs, SendAuthorize(s)
  PROVE  Whole'
<1>1. req[s].at = "post" /\ req[s].at \in ChatSteps /\ UNCHANGED <<rel, blocks, name, crossed, over>>
      /\ UNCHANGED <<msgs, members, hidden, banned, banList, gone, hushed, late>>
  BY DEF SendAuthorize, At, ChatSteps, ChatOps, chatVars
<1>2. /\ TypeOK /\ Parted /\ req[s] \in ChatRequests /\ (Private(req[s].chat) => req[s].me \in req[s].chat)
      /\ (req[s].op = "forward" => req[s].msg \notin gone[s] /\ msgs[req[s].msg].from \notin hushed[s])
      /\ (UNCHANGED <<snap, stale>> \/ Reads(req[s].me))
  BY <1>1, Kinds DEF Whole, Slot, Course, Cleared, SendAuthorize, AreFriends, Reads
<1>3. CASE Answer(s, "err")
  BY <1>1, <1>2, <1>3, AnswerKeeps
<1>4. ASSUME NEW x \in Relationships(req[s].me), MayPost(req[s].me, req[s].chat, x), Goto(s, "store")
      PROVE  Whole'
  <2>1. PICK me \in Users, c \in Chats : me = req[s].me /\ c = req[s].chat
    BY <1>2 DEF ChatRequests
  <2>2. c \notin over[s]
    BY <1>2, <1>4, <2>1, FriendsNotOver DEF MayPost
  <2> QED BY <1>1, <1>2, <1>4, <2>1, <2>2, GotoKeeps
<1> QED BY <1>3, <1>4 DEF SendAuthorize

LEMMA TypingKeeps ==
  ASSUME Whole, NEW s \in Reqs, Typing(s)
  PROVE  Whole'
<1>1. req[s].at \in ChatSteps /\ UNCHANGED <<rel, blocks, name, crossed, over>>
      /\ UNCHANGED <<msgs, members, hidden, banned, banList, gone, hushed, late>> /\ (UNCHANGED <<snap, stale>> \/ Reads(req[s].me))
  BY DEF Typing, At, ChatSteps, ChatOps, OnMessage, chatVars, AreFriends, Reads
<1>2. \E result \in {"ok", "err"} : Answer(s, result)
  BY DEF Typing
<1> QED BY <1>1, <1>2, AnswerKeeps

-----------------------------------------------------------------------------
(* Writes.                                                                  *)

(* A statement on the row of one message, which is answered. *)
LEMMA RowKeeps ==
  ASSUME Whole, NEW s \in Reqs, req[s].at \in ChatSteps,
         UNCHANGED <<rel, blocks, name, snap, stale, crossed, over, members, hidden, banned, banList, hushed>>,
         NEW result \in {"ok", "err"}, Answer(s, result),
         NEW m \in Stored, NEW row \in Messages, msgs' = [msgs EXCEPT ![m] = row],
         row.chat = msgs[m].chat, row.from = msgs[m].from, row.created = msgs[m].created, msgs[m].deleted => row.deleted,
         row.deleted => row.text = "" /\ \A u \in row.reacts : <<m, u>> \in late',
         row.deleted => msgs[m].deleted \/ {m} \X Reacting(m) \subseteq late',
         late \subseteq late', gone' = gone \/ (row.deleted /\ gone' = Heard(gone, m))
  PROVE  Whole'
<1> DEFINE r == [at |-> result]
<1>1. r \in Answers /\ req' = [req EXCEPT ![s] = r]
  BY DEF Answer, Answers
<1> HIDE DEF r
<1>2. ~At(s, "inval") /\ ~At(s, "forget")
  BY DEF At, ChatSteps, ChatOps, OnMessage
<1>3. PICK me \in Users : me = req[s].me
  BY Kinds DEF Whole, ChatRequests
<1>4. /\ CachedIsCurrent' /\ Parted' /\ BlockHolds' /\ FriendsTypeOK'
      /\ req' \in [Reqs -> Answers \cup FriendRequests \cup ChatRequests]
      /\ req'[s] = r /\ \A t \in Reqs \ {s} : req'[t] = req[t]
  BY <1>1, <1>2, <1>3, ChatOutside
<1>5. TypeOK /\ m \in Msgs /\ msgs' \in [Msgs -> {NoMsg} \cup Messages] /\ msgs'[m] = row /\ \A n \in Msgs \ {m} : msgs'[n] = msgs[n]
  BY DEF Whole, TypeOK, Stored
<1>6. Stored' = Stored
  BY <1>5, NoMsgIsNoRow DEF Stored
<1>7. \A n \in Stored : msgs'[n].chat = msgs[n].chat /\ msgs'[n].from = msgs[n].from /\ msgs'[n].created = msgs[n].created
                        /\ (msgs[n].deleted => msgs'[n].deleted)
  BY <1>5 DEF Stored
<1>8. \A u, c : Visible(u, c)' = Visible(u, c)
  BY <1>6, <1>7 DEF Visible, SinceJoining
<1>9. /\ gone' \in [Reqs -> SUBSET Msgs] /\ \A t \in Reqs : ~At(t, "unused") => gone'[t] \subseteq gone[t]
      /\ \A t \in Reqs : gone'[t] \subseteq gone[t] \cup {n \in {m} : row.deleted}
  <2>1. gone \in [Reqs -> SUBSET Msgs] /\ m \in Msgs
    BY <1>5 DEF TypeOK
  <2>2. CASE gone' = gone
    BY <2>1, <2>2
  <2>3. CASE row.deleted /\ gone' = Heard(gone, m)
    <3>1. gone' = [t \in Reqs |-> IF At(t, "unused") THEN gone[t] \cup {m} ELSE gone[t]]
      BY <2>3 DEF Heard
    <3> QED BY <2>1, <2>3, <3>1
  <2> QED BY <2>2, <2>3
<1>10. Grows(s)
  <2>1. \A n \in Stored : msgs'[n].deleted => msgs[n].deleted \/ {n} \X Reacting(n) \subseteq late'
    BY <1>5 DEF Stored
  <2> QED BY <1>4, <1>6, <1>7, <1>8, <1>9, <2>1 DEF Grows
<1>11. TypeOK'
  BY <1>4, <1>5, <1>9 DEF TypeOK
<1>12. Answered'
  <2>1. \A t \in Reqs : hushed[t] \subseteq banned /\ \A x \in banList : hushed[t] \subseteq x
    BY DEF Answered, Whole
  <2>2. ASSUME NEW t \in Reqs, NEW n \in gone'[t] PROVE n \in Stored /\ msgs'[n].deleted
    <3>1. n \in gone[t] \/ (n = m /\ row.deleted)
      BY <1>9, <2>2
    <3>2. \A q \in gone[t] : q \in Stored /\ msgs[q].deleted
      BY DEF Answered, Whole
    <3> QED BY <1>5, <1>7, <3>1, <3>2
  <2> QED BY <1>6, <2>1, <2>2 DEF Answered
<1>13. DeletedStaysEmpty'
  BY <1>5, <1>6 DEF DeletedStaysEmpty, Whole, Stored
<1> QED BY <1>1, <1>4, <1>10, <1>11, <1>12, <1>13, AnswerSlot, StepKeeps

LEMMA AddMessageKeeps ==
  ASSUME Whole, NEW s \in Reqs, AddMessage(s)
  PROVE  Whole'
<1>1. req[s].at \in ChatSteps /\ UNCHANGED <<rel, blocks, name, snap, stale, crossed, over>> /\ Answer(s, "ok")
      /\ UNCHANGED <<members, hidden, banned, banList, gone, hushed, late>>
  BY DEF AddMessage, At, ChatSteps
<1> DEFINE r == [at |-> "ok"]
<1>2. r \in Answers /\ req' = [req EXCEPT ![s] = r]
  BY <1>1 DEF Answer, Answers
<1> HIDE DEF r
<1>3. ~At(s, "inval") /\ ~At(s, "forget")
  BY DEF At, AddMessage
<1>4. TypeOK /\ req[s] \in ChatRequests
  BY <1>1, Kinds DEF Whole
<1>5. PICK me \in Users : me = req[s].me
  BY <1>4 DEF ChatRequests
<1>6. /\ CachedIsCurrent' /\ Parted' /\ BlockHolds' /\ FriendsTypeOK'
      /\ req' \in [Reqs -> Answers \cup FriendRequests \cup ChatRequests]
      /\ req'[s] = r /\ \A t \in Reqs \ {s} : req'[t] = req[t]
  BY <1>1, <1>2, <1>3, <1>5, ChatOutside
<1>7. PICK m \in Msgs \ Stored, t \in Times :
         msgs' = AddRow(m, Message(req[s].chat, req[s].me, IF req[s].text = "" THEN "text" ELSE req[s].text, t))
  BY DEF AddMessage
<1> DEFINE row == Message(req[s].chat, req[s].me, IF req[s].text = "" THEN "text" ELSE req[s].text, t)
<1>8. row \in Messages /\ ~row.deleted /\ msgs' = [msgs EXCEPT ![m] = row]
  BY <1>4, <1>7 DEF Message, Messages, ChatRequests, Texts, AddRow
<1> HIDE DEF row
<1>9. msgs' \in [Msgs -> {NoMsg} \cup Messages] /\ msgs'[m] = row /\ \A n \in Msgs \ {m} : msgs'[n] = msgs[n]
  BY <1>4, <1>8 DEF TypeOK
<1>10. Stored' = Stored \cup {m} /\ \A n \in Stored : msgs'[n] = msgs[n]
  BY <1>7, <1>8, <1>9, NoMsgIsNoRow DEF Stored
<1>11. \A u, c : Visible(u, c)' \cap Stored \subseteq Visible(u, c)
  BY <1>1, <1>10 DEF Visible, SinceJoining
<1>12. Grows(s)
  BY <1>1, <1>6, <1>10, <1>11 DEF Grows
<1>13. TypeOK'
  BY <1>1, <1>4, <1>6, <1>9 DEF TypeOK
<1>14. Answered'
  BY <1>1, <1>10 DEF Answered, Whole
<1>15. DeletedStaysEmpty'
  BY <1>1, <1>8, <1>9, <1>10 DEF DeletedStaysEmpty, Whole
<1> QED BY <1>2, <1>6, <1>12, <1>13, <1>14, <1>15, AnswerSlot, StepKeeps

(* The message of a request that is about to write is stored. *)
LEMMA ToWrite ==
  ASSUME Whole, NEW s \in Reqs, req[s].at \in {"write", "wipe", "set", "unset"}
  PROVE  /\ req[s].at \in ChatSteps /\ req[s] \in ChatRequests /\ req[s].me \in Users
         /\ req[s].msg \in Stored /\ msgs[req[s].msg] \in Messages
         /\ msgs[req[s].msg].deleted => msgs[req[s].msg].text = "" /\ \A u \in msgs[req[s].msg].reacts : <<req[s].msg, u>> \in late
<1>1. req[s].at \in ChatSteps /\ TypeOK
  BY DEF ChatSteps, Whole
<1>2. req[s] \in ChatRequests /\ req[s].msg \in Stored
  BY <1>1, Kinds DEF Whole, Slot, Course
<1> QED BY <1>1, <1>2, Rows DEF Whole, DeletedStaysEmpty, ChatRequests

LEMMA EditMessageKeeps ==
  ASSUME Whole, NEW s \in Reqs, EditMessage(s)
  PROVE  Whole'
<1>1. /\ req[s].at = "write" /\ msgs' = EditRow(req[s].msg) /\ \E result \in {"ok", "err"} : Answer(s, result)
      /\ UNCHANGED <<rel, blocks, name, snap, stale, crossed, over, members, hidden, banned, banList, gone, hushed, late>>
  BY DEF EditMessage, At
<1>2. PICK m : m = req[s].msg
  OBVIOUS
<1>3. req[s].at \in ChatSteps /\ m \in Stored /\ msgs[m] \in Messages
      /\ (msgs[m].deleted => msgs[m].text = "" /\ \A u \in msgs[m].reacts : <<m, u>> \in late)
  BY <1>1, <1>2, ToWrite
<1> DEFINE row == IF msgs[m].deleted THEN msgs[m] ELSE [msgs[m] EXCEPT !.text = "edited"]
<1>4. /\ row \in Messages /\ row.chat = msgs[m].chat /\ row.from = msgs[m].from /\ row.created = msgs[m].created
      /\ row.deleted = msgs[m].deleted /\ (row.deleted => row = msgs[m])
  BY <1>3 DEF Messages, Texts
<1>5. msgs' = [msgs EXCEPT ![m] = row]
  BY <1>1, <1>2, <1>3 DEF EditRow, Whole, TypeOK, Stored
<1> HIDE DEF row
<1> QED BY <1>1, <1>3, <1>4, <1>5, RowKeeps

LEMMA DeleteMessageKeeps ==
  ASSUME Whole, NEW s \in Reqs, DeleteMessage(s)
  PROVE  Whole'
<1>1. /\ req[s].at = "wipe" /\ UNCHANGED <<rel, blocks, name, snap, stale, crossed, over, members, hidden, banned, banList, hushed>>
  BY DEF DeleteMessage, At
<1>2. PICK m : m = req[s].msg
  OBVIOUS
<1>3. req[s].at \in ChatSteps /\ m \in Stored /\ msgs[m] \in Messages
  BY <1>1, <1>2, ToWrite
<1>4. CASE msgs[m].deleted
  <2>1. Answer(s, "err") /\ UNCHANGED <<msgs, gone, late>>
    BY <1>2, <1>4 DEF DeleteMessage
  <2> QED BY <1>1, <1>3, <2>1, AnswerKeeps
<1>5. CASE ~msgs[m].deleted
  <2>1. Answer(s, "ok") /\ msgs' = DeleteRow(m) /\ gone' = Heard(gone, m) /\ late' = late \cup {m} \X Reacting(m)
    BY <1>2, <1>5 DEF DeleteMessage
  <2> DEFINE row == [msgs[m] EXCEPT !.text = "", !.deleted = TRUE, !.reacts = {}]
  <2>2. /\ row \in Messages /\ row.chat = msgs[m].chat /\ row.from = msgs[m].from /\ row.created = msgs[m].created
        /\ row.deleted /\ row.text = "" /\ row.reacts = {}
    BY <1>3 DEF Messages, Texts
  <2>3. msgs' = [msgs EXCEPT ![m] = row]
    BY <1>3, <2>1 DEF DeleteRow, Whole, TypeOK, Stored
  <2> HIDE DEF row
  <2> QED BY <1>1, <1>3, <2>1, <2>2, <2>3, RowKeeps
<1> QED BY <1>4, <1>5

LEMMA ReactKeeps ==
  ASSUME Whole, NEW s \in Reqs, React(s) \/ Unreact(s)
  PROVE  Whole'
<1>1. /\ req[s].at \in {"set", "unset"} /\ Answer(s, "ok")
      /\ UNCHANGED <<rel, blocks, name, snap, stale, crossed, over, members, hidden, banned, banList, gone, hushed, late>>
  BY DEF React, Unreact, At
<1>2. PICK m, u : m = req[s].msg /\ u = req[s].me
  OBVIOUS
<1>3. req[s].at \in ChatSteps /\ m \in Stored /\ u \in Users /\ msgs[m] \in Messages
      /\ (msgs[m].deleted => msgs[m].text = "" /\ \A v \in msgs[m].reacts : <<m, v>> \in late)
  BY <1>1, <1>2, ToWrite
<1>4. CASE React(s)
  <2> DEFINE row == [msgs[m] EXCEPT !.reacts = @ \cup {u}]
  <2>1. /\ row \in Messages /\ row.chat = msgs[m].chat /\ row.from = msgs[m].from /\ row.created = msgs[m].created
        /\ row.deleted = msgs[m].deleted /\ row.text = msgs[m].text /\ row.reacts = msgs[m].reacts \cup {u}
    BY <1>3 DEF Messages
  <2>2. msgs' = [msgs EXCEPT ![m] = row] /\ At(s, "set")
    BY <1>2, <1>4 DEF React, ReactionSet
  <2> HIDE DEF row
  <2>3. msgs[m].deleted => <<m, u>> \in late
    BY <1>2, <2>2 DEF At, Whole, Slot, Foreseen, Course, ChatSteps, ChatOps, OnMessage
  <2> QED BY <1>1, <1>3, <2>1, <2>2, <2>3, RowKeeps
<1>5. CASE Unreact(s)
  <2> DEFINE row == [msgs[m] EXCEPT !.reacts = @ \ {u}]
  <2>1. /\ row \in Messages /\ row.chat = msgs[m].chat /\ row.from = msgs[m].from /\ row.created = msgs[m].created
        /\ row.deleted = msgs[m].deleted /\ row.text = msgs[m].text /\ row.reacts = msgs[m].reacts \ {u}
    BY <1>3 DEF Messages
  <2>2. msgs' = [msgs EXCEPT ![m] = row]
    BY <1>2, <1>5 DEF Unreact, ReactionDeleted
  <2> HIDE DEF row
  <2> QED BY <1>1, <1>3, <2>1, <2>2, RowKeeps
<1> QED BY <1>4, <1>5

-----------------------------------------------------------------------------
(* Forwarding, suspensions and membership.                                  *)

(* Who has been suspended is found so, in the table or in the list. *)
LEMMA HushedAreSuspended ==
  ASSUME Answered
  PROVE  \A t \in Reqs : hushed[t] \subseteq Suspended
<1>1. CASE banList = {}
  BY <1>1 DEF Answered, Suspended
<1>2. CASE banList # {}
  BY <1>2 DEF Answered, Suspended
<1> QED BY <1>1, <1>2

LEMMA ForwardContentKeeps ==
  ASSUME Whole, NEW s \in Reqs, ForwardContent(s)
  PROVE  Whole'
<1>1. /\ req[s].at = "content" /\ req[s].at \in ChatSteps /\ UNCHANGED <<rel, blocks, name, snap, stale, crossed, over>>
      /\ UNCHANGED <<msgs, members, hidden, banned, banList, gone, hushed, late>>
  BY DEF ForwardContent, At, ChatSteps, chatVars
<1>2. PICK m : m = req[s].msg
  OBVIOUS
<1>3. /\ TypeOK /\ Answered /\ req[s] \in ChatRequests /\ req[s].op = "forward" /\ m \in Stored /\ msgs[m] \in Messages
      /\ (Private(req[s].chat) => req[s].me \in req[s].chat)
  BY <1>1, <1>2, Kinds, Rows DEF Whole, Slot, Course, OnMessage
<1>4. CASE MessageContent(m) = {}
  BY <1>1, <1>2, <1>4, AnswerKeeps DEF ForwardContent
<1>5. CASE MessageContent(m) # {}
  <2>1. PICK text \in MessageContent(m) : req' = [req EXCEPT ![s].at = "author", ![s].text = text]
    BY <1>2, <1>5 DEF ForwardContent
  <2>2. text \in Texts /\ ~msgs[m].deleted
    BY <1>3, <2>1 DEF MessageContent, Messages
  <2> DEFINE r == [req[s] EXCEPT !.at = "author", !.text = text]
  <2>3. /\ r \in ChatRequests /\ r.at = "author" /\ r.op = "forward" /\ r.msg = m /\ r.chat = req[s].chat /\ r.me = req[s].me
    BY <1>2, <1>3, <2>2 DEF ChatRequests, ChatSteps
  <2>4. req' = [req EXCEPT ![s] = r]
    BY <2>1
  <2> HIDE DEF r
  <2>5. req'[s] = r /\ Stored' = Stored
    BY <1>1, <1>3, <2>4 DEF TypeOK, Stored
  <2>6. m \notin gone[s]
    BY <1>3, <2>2 DEF Answered
  <2>7. Course(s)'
    BY <1>3, <2>3, <2>5 DEF Course, ChatOps, OnMessage
  <2>8. Cleared(s)' /\ Foreseen(s)'
    BY <1>1, <2>3, <2>5, <2>6 DEF Cleared, Foreseen
  <2>9. PageTrue(s)' /\ Reading(s)' /\ HidesEnded(s)' /\ HasReadAll(s)'
    BY <2>3, <2>5 DEF PageTrue, Reading, HidesEnded, HasReadAll, At
  <2>10. ~At(s, "inval") /\ ~At(s, "forget") /\ req[s].me \in Users
    BY <1>1, <1>3 DEF At, ChatRequests
  <2> QED BY <1>1, <2>3, <2>4, <2>7, <2>8, <2>9, <2>10, ChatReadKeeps
<1> QED BY <1>4, <1>5

LEMMA ForwardAuthorKeeps ==
  ASSUME Whole, NEW s \in Reqs, ForwardAuthor(s)
  PROVE  Whole'
<1>1. /\ req[s].at = "author" /\ req[s].at \in ChatSteps /\ UNCHANGED <<rel, blocks, name, snap, stale, crossed, over>>
      /\ UNCHANGED <<msgs, members, hidden, banned, gone, hushed, late>> /\ banList' = {Suspended}
  BY DEF ForwardAuthor, At, ChatSteps, GetBanned
<1>2. Answered /\ req[s].op = "forward" /\ req[s].msg \notin gone[s]
  BY <1>1 DEF Whole, Slot, Course, Cleared
<1>3. CASE Answer(s, "err")
  BY <1>1, <1>3, AnswerKeeps
<1>4. CASE msgs[req[s].msg].from \notin Suspended /\ Goto(s, "post")
  <2>1. msgs[req[s].msg].from \notin hushed[s]
    BY <1>2, <1>4, HushedAreSuspended
  <2> QED BY <1>1, <1>2, <1>4, <2>1, GotoKeeps DEF OnMessage
<1> QED BY <1>3, <1>4 DEF ForwardAuthor

(* A step on the members or the suspensions. *)
LEMMA PeopleKeep ==
  ASSUME Whole, NEW s \in Reqs, req[s].at \in ChatSteps, UNCHANGED <<rel, blocks, name, snap, stale, crossed, over, msgs, gone, late>>,
         NEW r \in ChatRequests \cup Answers, req' = [req EXCEPT ![s] = r], Slot(s)',
         \A u \in Users, c \in Chats : Visible(u, c)' \subseteq Visible(u, c),
         members' \subseteq Users, hidden' \in [Users -> SUBSET Msgs], banned' \subseteq Users,
         banList' \subseteq banList, hushed' \in [Reqs -> SUBSET Users],
         \A t \in Reqs : ~At(t, "unused") => hushed'[t] \subseteq hushed[t],
         \A t \in Reqs : hushed'[t] \subseteq banned' /\ \A x \in banList' : hushed'[t] \subseteq x
  PROVE  Whole'
<1>1. ~At(s, "inval") /\ ~At(s, "forget")
  BY DEF At, ChatSteps, ChatOps, OnMessage
<1>2. PICK me \in Users : me = req[s].me
  BY Kinds DEF Whole, ChatRequests
<1>3. /\ CachedIsCurrent' /\ Parted' /\ BlockHolds' /\ FriendsTypeOK'
      /\ req' \in [Reqs -> Answers \cup FriendRequests \cup ChatRequests]
      /\ req'[s] = r /\ \A t \in Reqs \ {s} : req'[t] = req[t]
  BY <1>1, <1>2, ChatOutside
<1>4. Stored' = Stored
  BY DEF Stored
<1>5. Grows(s)
  BY <1>3, <1>4 DEF Grows
<1>6. TypeOK'
  BY <1>3 DEF TypeOK, Whole
<1>7. Answered'
  BY <1>4 DEF Answered, Whole
<1>8. DeletedStaysEmpty'
  BY <1>4 DEF DeletedStaysEmpty, Whole
<1> QED BY <1>3, <1>5, <1>6, <1>7, <1>8, StepKeeps

LEMMA BanKeeps ==
  ASSUME Whole, NEW s \in Reqs, Ban(s)
  PROVE  Whole'
<1>1. /\ req[s].at = "ban" /\ req[s].at \in ChatSteps /\ Goto(s, "forgetBans")
      /\ UNCHANGED <<rel, blocks, name, snap, stale, crossed, over, msgs, hidden, banList, gone, hushed, late>>
      /\ banned' = banned \cup {req[s].me} /\ members' \subseteq members
  BY DEF Ban, At, ChatSteps, ChatOps, BanUser
<1>2. TypeOK /\ Answered /\ req[s].me \in Users
  BY <1>1, Kinds DEF Whole, ChatRequests
<1>3. PICK r \in ChatRequests :
        /\ req' = [req EXCEPT ![s] = r]
        /\ Course(s)' /\ Cleared(s)' /\ Foreseen(s)' /\ PageTrue(s)' /\ Reading(s)' /\ HidesEnded(s)' /\ HasReadAll(s)'
  BY <1>1, GotoSlot
<1>4. BothDropped(s)'
  BY <1>1, <1>2 DEF Goto, BothDropped, At, TypeOK
<1>5. \A u, c : Visible(u, c)' \subseteq Visible(u, c)
  BY <1>1 DEF Visible, SinceJoining, Stored
<1>6. members' \subseteq Users /\ hidden' \in [Users -> SUBSET Msgs] /\ banned' \subseteq Users /\ hushed' \in [Reqs -> SUBSET Users]
  BY <1>1, <1>2 DEF TypeOK
<1>7. \A t \in Reqs : hushed'[t] \subseteq banned' /\ \A x \in banList' : hushed'[t] \subseteq x
  BY <1>1, <1>2 DEF Answered
<1> QED BY <1>1, <1>3, <1>4, <1>5, <1>6, <1>7, PeopleKeep DEF Slot

LEMMA UnbanKeeps ==
  ASSUME Whole, NEW s \in Reqs, Unban(s)
  PROVE  Whole'
<1>1. /\ req[s].at = "unban" /\ req[s].at \in ChatSteps
      /\ UNCHANGED <<rel, blocks, name, snap, stale, crossed, over, msgs, members, hidden, banList, gone, late>>
  BY DEF Unban, At, ChatSteps, ChatOps
<1>2. TypeOK /\ Answered /\ req[s].me \in Users
  BY <1>1, Kinds DEF Whole, ChatRequests
<1>3. CASE Answer(s, "err") /\ UNCHANGED <<banned, hushed>>
  BY <1>1, <1>3, AnswerKeeps
<1>4. CASE Goto(s, "forgetBans") /\ banned' = UnbanUser(req[s].me) /\ hushed' = Unheard(hushed, req[s].me)
  <2>1. hushed' \in [Reqs -> SUBSET Users] /\ \A t \in Reqs : hushed'[t] = hushed[t] \ {req[s].me}
    BY <1>2, <1>4 DEF Unheard, TypeOK
  <2>2. PICK r \in ChatRequests :
          /\ req' = [req EXCEPT ![s] = r]
          /\ Course(s)' /\ Cleared(s)' /\ Foreseen(s)' /\ PageTrue(s)' /\ Reading(s)' /\ HidesEnded(s)' /\ HasReadAll(s)'
    BY <1>1, <1>4, <2>1, GotoSlot
  <2>3. BothDropped(s)'
    BY <1>2, <1>4 DEF Goto, BothDropped, At, TypeOK
  <2>4. \A u, c : Visible(u, c)' = Visible(u, c)
    BY <1>1 DEF Visible, SinceJoining, Stored
  <2>5. members' \subseteq Users /\ hidden' \in [Users -> SUBSET Msgs] /\ banned' \subseteq Users
    BY <1>1, <1>2, <1>4 DEF TypeOK, UnbanUser
  <2>6. \A t \in Reqs : hushed'[t] \subseteq banned' /\ \A x \in banList' : hushed'[t] \subseteq x
    BY <1>1, <1>2, <1>4, <2>1 DEF Answered, UnbanUser
  <2> QED BY <1>1, <2>1, <2>2, <2>3, <2>4, <2>5, <2>6, PeopleKeep DEF Slot
<1> QED BY <1>3, <1>4 DEF Unban

LEMMA ForgetBansKeeps ==
  ASSUME Whole, NEW s \in Reqs, ForgetBans(s)
  PROVE  Whole'
<1>1. /\ req[s].at = "forgetBans" /\ req[s].at \in ChatSteps /\ Answer(s, "ok") /\ banList' = {}
      /\ UNCHANGED <<rel, blocks, name, snap, stale, crossed, over, msgs, members, hidden, banned, gone, late>>
      /\ hushed' = IF req[s].op = "ban" /\ req[s].me \in banned THEN Heard(hushed, req[s].me) ELSE hushed
  BY DEF ForgetBans, At, ChatSteps
<1>2. TypeOK /\ Answered /\ req[s].me \in Users
  BY <1>1, Kinds DEF Whole, ChatRequests
<1> DEFINE r == [at |-> "ok"]
<1>3. r \in Answers /\ req' = [req EXCEPT ![s] = r]
  BY <1>1 DEF Answer, Answers
<1> HIDE DEF r
<1>4. req'[s] = r
  BY <1>2, <1>3 DEF TypeOK
<1>5. /\ hushed' \in [Reqs -> SUBSET Users]
      /\ \A t \in Reqs : ~At(t, "unused") => hushed'[t] \subseteq hushed[t]
      /\ \A t \in Reqs : hushed'[t] \subseteq banned
  <2>1. hushed \in [Reqs -> SUBSET Users] /\ \A t \in Reqs : hushed[t] \subseteq banned
    BY <1>2 DEF TypeOK, Answered
  <2>2. CASE hushed' = hushed
    BY <2>1, <2>2
  <2>3. CASE req[s].me \in banned /\ hushed' = Heard(hushed, req[s].me)
    <3>1. hushed' = [t \in Reqs |-> IF At(t, "unused") THEN hushed[t] \cup {req[s].me} ELSE hushed[t]]
      BY <2>3 DEF Heard
    <3> QED BY <1>2, <2>1, <2>3, <3>1
  <2> QED BY <1>1, <2>2, <2>3
<1>6. \A u, c : Visible(u, c)' = Visible(u, c)
  BY <1>1 DEF Visible, SinceJoining, Stored
<1>7. members' \subseteq Users /\ hidden' \in [Users -> SUBSET Msgs] /\ banned' \subseteq Users
  BY <1>1, <1>2 DEF TypeOK
<1>8. banList' \subseteq banList /\ \A t \in Reqs : hushed'[t] \subseteq banned' /\ \A x \in banList' : hushed'[t] \subseteq x
  BY <1>1, <1>5
<1>9. Slot(s)' /\ \A u \in Users, c \in Chats : Visible(u, c)' \subseteq Visible(u, c)
  BY <1>3, <1>4, <1>6, AnswerSlot
<1> QED BY <1>1, <1>3, <1>5, <1>7, <1>8, <1>9, PeopleKeep

LEMMA LeaveOrJoinKeeps ==
  ASSUME Whole, NEW s \in Reqs, Leave(s) \/ Join(s)
  PROVE  Whole'
<1>1. /\ req[s].at \in ChatSteps /\ Answer(s, "ok")
      /\ UNCHANGED <<rel, blocks, name, snap, stale, crossed, over, msgs, banned, banList, gone, hushed, late>>
  BY DEF Leave, Join, At, ChatSteps, ChatOps
<1>2. TypeOK /\ Answered /\ req[s].me \in Users
  BY <1>1, Kinds DEF Whole, ChatRequests
<1> DEFINE r == [at |-> "ok"]
<1>3. r \in Answers /\ req' = [req EXCEPT ![s] = r]
  BY <1>1 DEF Answer, Answers
<1> HIDE DEF r
<1>4. req'[s] = r /\ Stored' = Stored
  BY <1>1, <1>2, <1>3 DEF TypeOK, Stored
<1>5. PICK me : me = req[s].me
  OBVIOUS
<1>6. /\ members' \subseteq Users /\ hidden' \in [Users -> SUBSET Msgs]
      /\ \A u, c : Visible(u, c)' \subseteq Visible(u, c)
  <2>1. members \subseteq Users /\ hidden \in [Users -> SUBSET Msgs] /\ Stored \subseteq Msgs
    BY <1>2 DEF TypeOK, Stored
  <2>2. CASE Leave(s)
    <3>1. members' = members \ {me} /\ hidden' = hidden
      BY <1>5, <2>2 DEF Leave
    <3> QED BY <1>1, <1>4, <2>1, <3>1 DEF Visible, SinceJoining
  <2>3. CASE Join(s) /\ me \in members
    <3>1. members' = members /\ hidden' = hidden
      BY <1>5, <2>3 DEF Join
    <3> QED BY <1>1, <1>4, <2>1, <3>1 DEF Visible, SinceJoining
  <2>4. CASE Join(s) /\ me \notin members
    <3>1. members' = members \cup {me} /\ hidden' = [hidden EXCEPT ![me] = {m \in Stored : msgs[m].chat = Group}]
      BY <1>5, <2>4 DEF Join
    <3>2. members' \subseteq Users /\ hidden' \in [Users -> SUBSET Msgs]
      BY <1>2, <1>5, <2>1, <3>1
    <3>3. ASSUME NEW u, NEW c, NEW m \in Visible(u, c)' PROVE m \in Visible(u, c)
      <4>1. m \in Stored /\ msgs[m].chat = c /\ (Private(c) \/ (u \in members' /\ m \notin hidden'[u]))
        BY <1>1, <1>4, <3>3 DEF Visible, SinceJoining
      <4>2. CASE u = me
        <5>1. hidden'[me] = {n \in Stored : msgs[n].chat = Group}
          BY <1>2, <1>5, <2>1, <3>1
        <5> QED BY <4>1, <4>2, <5>1 DEF Visible, Private
      <4>3. CASE u # me
        <5>1. u \in members' => u \in members /\ hidden'[u] = hidden[u]
          BY <2>1, <3>1, <4>3
        <5> QED BY <4>1, <5>1 DEF Visible, SinceJoining
      <4> QED BY <4>2, <4>3
    <3> QED BY <3>2, <3>3
  <2> QED BY <2>2, <2>3, <2>4
<1>7. banned' \subseteq Users /\ hushed' \in [Reqs -> SUBSET Users]
      /\ \A t \in Reqs : hushed'[t] \subseteq banned' /\ \A x \in banList' : hushed'[t] \subseteq x
  BY <1>1, <1>2 DEF TypeOK, Answered
<1>8. Slot(s)' /\ UNCHANGED <<gone, late>> /\ banList' \subseteq banList /\ \A t \in Reqs : hushed'[t] \subseteq hushed[t]
  BY <1>1, <1>3, <1>4, AnswerSlot
<1>9. \A u \in Users, c \in Chats : Visible(u, c)' \subseteq Visible(u, c)
  BY <1>6
<1> QED BY <1>1, <1>3, <1>6, <1>7, <1>8, <1>9, PeopleKeep

-----------------------------------------------------------------------------
(* Reading.                                                                 *)

(* What is known of a request that reads, and of what it goes on as. *)
LEMMA ReaderIs ==
  ASSUME Whole, NEW s \in Reqs, req[s].at \in {"page", "convs", "search", "counts", "hide", "shown", "end"}
  PROVE  /\ req[s].at \in ChatSteps /\ ~At(s, "inval") /\ ~At(s, "forget")
         /\ TypeOK /\ Answered /\ DeletedStaysEmpty
         /\ req[s] \in ChatRequests /\ req[s].me \in Users /\ req[s].chat \in Chats /\ req[s].page \subseteq Entries
         /\ req[s].at \in {"page", "counts", "end"} => req[s].op = "page"
         /\ req[s].at \in {"convs", "search"} => req[s].op = req[s].at
         /\ req[s].op \in OnMessage => req[s].msg \in Stored
         /\ Private(req[s].chat) => req[s].me \in req[s].chat
<1>1. req[s].at \in ChatSteps /\ TypeOK /\ Answered /\ DeletedStaysEmpty /\ Course(s)
  BY DEF ChatSteps, ChatOps, Whole, Slot
<1>2. req[s] \in ChatRequests
  BY <1>1, Kinds
<1> QED BY <1>1, <1>2 DEF Course, ChatRequests, ChatOps, At

(* Such a step needs to keep what is said of pages. *)
LEMMA ReaderKeeps ==
  ASSUME Whole, NEW s \in Reqs, req[s].at \in {"page", "convs", "search", "counts", "hide", "shown", "end"},
         UNCHANGED <<rel, blocks, name, snap, stale, crossed, over, msgs, members, hidden, banned, gone, hushed, late>>,
         banList' \in {banList, {Suspended}},
         NEW r \in ChatRequests, req' = [req EXCEPT ![s] = r],
         r.at \in {"page", "counts", "hide", "shown", "end"}, r.op = req[s].op, r.at \in {"page", "counts", "end"} => r.op = "page",
         r.msg = req[s].msg, r.chat = req[s].chat, r.me = req[s].me,
         PageTrue(s)', Reading(s)', HidesEnded(s)', HasReadAll(s)'
  PROVE  Whole'
<1>1. /\ req[s].at \in ChatSteps /\ ~At(s, "inval") /\ ~At(s, "forget") /\ req[s].me \in Users
      /\ (req[s].op \in OnMessage => req[s].msg \in Stored) /\ (Private(req[s].chat) => req[s].me \in req[s].chat)
      /\ TypeOK
  BY ReaderIs
<1>2. req'[s] = r /\ Stored' = Stored
  BY <1>1 DEF TypeOK, Stored
<1>3. Course(s)'
  BY <1>1, <1>2 DEF Course, ChatOps, OnMessage
<1>4. Cleared(s)' /\ Foreseen(s)'
  BY <1>2 DEF Cleared, Foreseen
<1> QED BY <1>1, <1>3, <1>4, ChatReadKeeps

(* A row as it is read: what is deleted has no text. *)
LEMMA ShownIs ==
  ASSUME TypeOK, Answered, DeletedStaysEmpty, NEW m \in Stored
  PROVE  /\ Shown(m) \in Entries /\ Shown(m).msg = m /\ Shown(m).from = msgs[m].from /\ Shown(m).reacts = {}
         /\ \A t \in Reqs : m \in gone[t] => Shown(m).text = ""
<1>1. m \in Msgs /\ msgs[m] \in Messages
  BY Rows
<1>2. \A t \in Reqs : m \in gone[t] => msgs[m].text = ""
  BY DEF Answered, DeletedStaysEmpty
<1> QED BY <1>1, <1>2 DEF Shown, Entries, Messages

(* A page of rows that were just read. *)
LEMMA PageOfRows ==
  ASSUME TypeOK, Answered, DeletedStaysEmpty, NEW s \in Reqs, NEW rows \in SUBSET Stored,
         UNCHANGED <<msgs, gone, late>>, req'[s].page = {Shown(n) : n \in rows}
  PROVE  PageTrue(s)' /\ {Shown(n) : n \in rows} \in SUBSET Entries
<1>1. Stored' = Stored
  BY DEF Stored
<1>2. \A n \in rows : /\ Shown(n) \in Entries /\ Shown(n).msg = n /\ Shown(n).from = msgs[n].from /\ Shown(n).reacts = {}
                      /\ \A t \in Reqs : n \in gone[t] => Shown(n).text = ""
  BY ShownIs
<1>3. ASSUME NEW e \in req'[s].page
      PROVE  /\ e.msg \in Stored' /\ e.from = msgs'[e.msg].from
             /\ e.msg \in gone'[s] => e.text = "" /\ \A u \in e.reacts : <<e.msg, u>> \in late'
  <2>1. PICK n \in rows : e = Shown(n)
    BY <1>3
  <2>2. e.msg = n /\ n \in Stored /\ e.from = msgs[n].from /\ e.reacts = {} /\ (n \in gone[s] => e.text = "")
    BY <1>2, <2>1
  <2> QED BY <1>1, <2>2
<1>4. \A n \in rows : Shown(n) \in Entries
  BY <1>2
<1>5. {Shown(n) : n \in rows} \in SUBSET Entries
  BY <1>4
<1> QED BY <1>3, <1>5 DEF PageTrue

LEMMA ConversationsKeeps ==
  ASSUME Whole, NEW s \in Reqs, Conversations(s) \/ Search(s)
  PROVE  Whole'
<1>1. /\ req[s].at \in {"convs", "search"}
      /\ UNCHANGED <<rel, blocks, name, snap, stale, crossed, over>> /\ UNCHANGED <<msgs, members, hidden, banned, banList, gone, hushed, late>>
  BY DEF Conversations, Search, At, chatVars
<1>2. /\ TypeOK /\ Answered /\ DeletedStaysEmpty /\ req[s] \in ChatRequests /\ req[s].op \in {"convs", "search"}
  BY <1>1, ReaderIs
<1>3. PICK rows : /\ rows \in {LastMessages(req[s].me), Matches(req[s].me)}
                  /\ req' = [req EXCEPT ![s].at = "hide", ![s].page = {Shown(m) : m \in rows}]
  BY DEF Conversations, Search
<1>4. rows \in SUBSET Stored
  BY <1>3 DEF LastMessages, Matches, Visible
<1> DEFINE page == {Shown(m) : m \in rows}
           r == [req[s] EXCEPT !.at = "hide", !.page = page]
<1>5. page \in SUBSET Entries
  <2>1. \A m \in rows : Shown(m) \in Entries
    BY <1>2, <1>4, ShownIs
  <2> QED BY <2>1
<1>6. req' = [req EXCEPT ![s] = r]
  BY <1>3
<1> HIDE DEF page
<1>7. r \in ChatRequests /\ r.at = "hide" /\ r.op = req[s].op /\ r.msg = req[s].msg /\ r.chat = req[s].chat /\ r.me = req[s].me /\ r.page = page
  BY <1>2, <1>5 DEF ChatRequests, ChatSteps
<1> HIDE DEF r
<1>8. req'[s] = r
  BY <1>2, <1>6 DEF TypeOK
<1>9. PageTrue(s)'
  BY <1>1, <1>2, <1>4, <1>7, <1>8, PageOfRows DEF page
<1>10. Reading(s)' /\ HidesEnded(s)' /\ HasReadAll(s)'
  BY <1>2, <1>7, <1>8 DEF Reading, HidesEnded, HasReadAll, At
<1> QED BY <1>1, <1>6, <1>7, <1>9, <1>10, ReaderKeeps

(* What is said of a client on its way back stays, as long as it reads nothing. *)
LEMMA ReadingOn ==
  ASSUME Whole, NEW s \in Reqs, req[s].at \in {"counts", "hide", "shown"},
         UNCHANGED <<msgs, members, hidden>>,
         NEW r \in ChatRequests, req'[s] = r, r.at \in {"hide", "shown", "page"}, r.op = req[s].op, r.chat = req[s].chat, r.me = req[s].me,
         r.first = req[s].first, r.before = req[s].before, r.read = req[s].read, r.there = req[s].there
  PROVE  Reading(s)' /\ HasReadAll(s)'
<1>1. Stored' = Stored /\ (\A u, c : Visible(u, c)' = Visible(u, c)) /\ \A m, n : Newer(m, n)' <=> Newer(m, n)
  BY DEF Stored, Visible, SinceJoining, Newer
<1>2. Unread(s)' = Unread(s)
  BY <1>1 DEF Unread
<1>3. \A m : Skipped(s, m)' <=> Skipped(s, m)
  BY <1>1 DEF Skipped
<1>4. ASSUME req[s].op = "page" PROVE req[s].first # None /\ Reading(s)
  BY <1>4 DEF Whole, Slot, Reading
<1> QED BY <1>1, <1>2, <1>3, <1>4 DEF Reading, HasReadAll, At

LEMMA ReactionCountsKeeps ==
  ASSUME Whole, NEW s \in Reqs, ReactionCounts(s)
  PROVE  Whole'
<1>1. /\ req[s].at = "counts" /\ req' = [req EXCEPT ![s].at = "hide", ![s].page = {ReactionSummary(e) : e \in @}]
      /\ UNCHANGED <<rel, blocks, name, snap, stale, crossed, over>> /\ UNCHANGED <<msgs, members, hidden, banned, banList, gone, hushed, late>>
  BY DEF ReactionCounts, At, chatVars
<1>2. /\ TypeOK /\ Answered /\ DeletedStaysEmpty /\ req[s] \in ChatRequests /\ req[s].page \subseteq Entries /\ PageTrue(s)
  BY <1>1, ReaderIs DEF Whole, Slot
<1> DEFINE page == {ReactionSummary(e) : e \in req[s].page}
           r == [req[s] EXCEPT !.at = "hide", !.page = page]
<1>3. ASSUME NEW e \in req[s].page
      PROVE  LET f == ReactionSummary(e)
             IN  /\ f \in Entries /\ f.msg \in Stored /\ f.from = msgs[f.msg].from
                 /\ f.msg \in gone[s] => f.text = "" /\ \A u \in f.reacts : <<f.msg, u>> \in late
  <2>1. /\ e \in Entries /\ e.msg \in Stored /\ e.from = msgs[e.msg].from /\ (e.msg \in gone[s] => e.text = "")
    BY <1>1, <1>2, <1>3 DEF PageTrue
  <2>2. msgs[e.msg] \in Messages
    BY <1>2, <2>1, Rows
  <2>3. e.msg \in gone[s] => \A u \in msgs[e.msg].reacts : <<e.msg, u>> \in late
    BY <1>2 DEF Answered, DeletedStaysEmpty
  <2> QED BY <2>1, <2>2, <2>3 DEF ReactionSummary, Entries, Messages
<1>4. page \in SUBSET Entries
  BY <1>3
<1>5. req' = [req EXCEPT ![s] = r]
  BY <1>1
<1>6. /\ r \in ChatRequests /\ r.at = "hide" /\ r.op = req[s].op /\ r.msg = req[s].msg /\ r.chat = req[s].chat /\ r.me = req[s].me /\ r.page = page
      /\ r.first = req[s].first /\ r.before = req[s].before /\ r.read = req[s].read /\ r.there = req[s].there
  <2> HIDE DEF page
  <2> QED BY <1>2, <1>4 DEF ChatRequests, ChatSteps
<1> HIDE DEF r
<1>7. req'[s] = r /\ Stored' = Stored
  BY <1>1, <1>2, <1>5 DEF TypeOK, Stored
<1>8. PageTrue(s)'
  <2>1. SUFFICES ASSUME NEW f \in page
                 PROVE  /\ f.msg \in Stored /\ f.from = msgs[f.msg].from
                        /\ f.msg \in gone[s] => f.text = "" /\ \A u \in f.reacts : <<f.msg, u>> \in late
    BY <1>1, <1>6, <1>7 DEF PageTrue
  <2>2. PICK e \in req[s].page : f = ReactionSummary(e)
    BY <2>1
  <2> QED BY <1>3, <2>2
<1>9. Reading(s)' /\ HasReadAll(s)'
  BY <1>1, <1>6, <1>7, ReadingOn
<1>10. HidesEnded(s)'
  BY <1>6, <1>7 DEF HidesEnded, At
<1> QED BY <1>1, <1>5, <1>6, <1>8, <1>9, <1>10, ReaderKeeps

LEMMA PageHideKeeps ==
  ASSUME Whole, NEW s \in Reqs, PageHide(s)
  PROVE  Whole'
<1>1. /\ req[s].at = "hide" /\ req' = [req EXCEPT ![s].at = "shown", ![s].page = UNION {HideSuspended(s, e) : e \in @}]
      /\ UNCHANGED <<rel, blocks, name, snap, stale, crossed, over, msgs, members, hidden, banned, gone, hushed, late>> /\ banList' = {Suspended}
  BY DEF PageHide, At, GetBanned
<1>2. /\ TypeOK /\ Answered /\ req[s] \in ChatRequests /\ req[s].page \subseteq Entries /\ PageTrue(s) /\ hushed[s] \subseteq Suspended
  BY <1>1, ReaderIs, HushedAreSuspended DEF Whole, Slot
<1> DEFINE page == UNION {HideSuspended(s, e) : e \in req[s].page}
           r == [req[s] EXCEPT !.at = "shown", !.page = page]
<1>3. ASSUME NEW e \in req[s].page, NEW f \in HideSuspended(s, e)
      PROVE  /\ f \in Entries /\ f.msg \in Stored /\ f.from = msgs[f.msg].from
             /\ f.msg \in gone[s] => f.text = "" /\ \A u \in f.reacts : <<f.msg, u>> \in late
             /\ f.from \in hushed[s] => f.text = "" /\ f.reacts = {}
  <2>1. /\ e \in Entries /\ e.msg \in Stored /\ e.from = msgs[e.msg].from
        /\ e.msg \in gone[s] => e.text = "" /\ \A u \in e.reacts : <<e.msg, u>> \in late
    BY <1>1, <1>2, <1>3 DEF PageTrue
  <2>2. (f = e /\ e.from \notin Suspended) \/ f = [e EXCEPT !.text = "", !.reacts = {}]
    BY <1>3 DEF HideSuspended
  <2> QED BY <1>2, <2>1, <2>2 DEF Entries, Texts
<1>4. page \in SUBSET Entries
  BY <1>3
<1>5. req' = [req EXCEPT ![s] = r]
  BY <1>1
<1>6. /\ r \in ChatRequests /\ r.at = "shown" /\ r.op = req[s].op /\ r.msg = req[s].msg /\ r.chat = req[s].chat /\ r.me = req[s].me /\ r.page = page
      /\ r.first = req[s].first /\ r.before = req[s].before /\ r.read = req[s].read /\ r.there = req[s].there
  <2> HIDE DEF page
  <2> QED BY <1>2, <1>4 DEF ChatRequests, ChatSteps
<1> HIDE DEF r
<1>7. req'[s] = r /\ Stored' = Stored
  BY <1>1, <1>2, <1>5 DEF TypeOK, Stored
<1>8. PageTrue(s)' /\ HidesEnded(s)'
  <2>1. SUFFICES ASSUME NEW f \in page
                 PROVE  /\ f.msg \in Stored /\ f.from = msgs[f.msg].from
                        /\ f.msg \in gone[s] => f.text = "" /\ \A u \in f.reacts : <<f.msg, u>> \in late
                        /\ f.from \in hushed[s] => f.text = "" /\ f.reacts = {}
    BY <1>1, <1>6, <1>7 DEF PageTrue, HidesEnded
  <2>2. PICK e \in req[s].page : f \in HideSuspended(s, e)
    BY <2>1
  <2> QED BY <1>3, <2>2
<1>9. Reading(s)' /\ HasReadAll(s)'
  BY <1>1, <1>6, <1>7, ReadingOn
<1> QED BY <1>1, <1>5, <1>6, <1>8, <1>9, ReaderKeeps

LEMMA PageReadKeeps ==
  ASSUME Whole, NEW s \in Reqs, PageRead(s)
  PROVE  Whole'
<1>1. /\ req[s].at \in {"shown", "end"}
      /\ UNCHANGED <<rel, blocks, name, snap, stale, crossed, over>> /\ UNCHANGED <<msgs, members, hidden, banned, banList, gone, hushed, late>>
  BY DEF PageRead, At, chatVars
<1>2. TypeOK /\ req[s] \in ChatRequests /\ req[s].at \in ChatSteps
  BY <1>1, ReaderIs
<1>3. CASE Answer(s, "ok")
  BY <1>1, <1>2, <1>3, AnswerKeeps
<1>4. CASE req[s].at = "shown" /\ req[s].op = "page" /\ req' = [req EXCEPT ![s].at = "page", ![s].page = {}]
  <2> DEFINE r == [req[s] EXCEPT !.at = "page", !.page = {}]
  <2>1. req' = [req EXCEPT ![s] = r]
    BY <1>4
  <2>2. /\ r \in ChatRequests /\ r.at = "page" /\ r.op = req[s].op /\ r.msg = req[s].msg /\ r.chat = req[s].chat /\ r.me = req[s].me
        /\ r.first = req[s].first /\ r.before = req[s].before /\ r.read = req[s].read /\ r.there = req[s].there
    BY <1>2 DEF ChatRequests, ChatSteps, ChatOps
  <2> HIDE DEF r
  <2>3. req'[s] = r
    BY <1>2, <2>1 DEF TypeOK
  <2>4. PageTrue(s)' /\ HidesEnded(s)'
    BY <2>2, <2>3 DEF PageTrue, HidesEnded, At
  <2>5. Reading(s)' /\ HasReadAll(s)'
    BY <1>1, <1>4, <2>2, <2>3, ReadingOn
  <2> QED BY <1>1, <1>4, <2>1, <2>2, <2>4, <2>5, ReaderKeeps
<1> QED BY <1>3, <1>4 DEF PageRead, At

-----------------------------------------------------------------------------
(* The pages of history.                                                    *)

(* ORDER BY created_at, id is a total order of what is stored. *)
LEMMA NewerIsTotal ==
  ASSUME TypeOK, NEW m \in Stored, NEW n \in Stored
  PROVE  /\ Newer(m, n) \/ Newer(n, m) \/ m = n
         /\ msgs[m].created >= msgs[n].created => msgs[m].created = msgs[n].created \/ Newer(m, n)
<1>1. m \in Msgs /\ n \in Msgs /\ msgs[m] \in Messages /\ msgs[n] \in Messages
  BY Rows
<1>2. m \in Nat /\ n \in Nat /\ msgs[m].created \in Nat /\ msgs[n].created \in Nat
  BY <1>1, MessagesAssumption DEF Messages
<1> QED BY <1>2 DEF Newer

(* A page has no rows only when there are none left. *)
LEMMA NoRowsLeft ==
  ASSUME NEW ms
  PROVE  RecentMessages(ms, {}) \/ FirstOf(ms, {}) => ms = {}
<1>1. Cardinality({}) # PageSize
  BY FS_EmptySet, MessagesAssumption
<1> QED BY <1>1 DEF RecentMessages, FirstOf

LEMMA LastPageKeeps ==
  ASSUME Whole, NEW s \in Reqs, PageRows(s), NEW ms, ms = Visible(req[s].me, req[s].chat),
         IF req[s].before = None THEN RecentMessages(ms, {}) ELSE MessagesBefore(ms, req[s].before, {}), Goto(s, "end")
  PROVE  Whole'
<1>1. /\ req[s].at = "page" /\ UNCHANGED <<rel, blocks, name, snap, stale, crossed, over>>
      /\ UNCHANGED <<msgs, members, hidden, banned, banList, gone, hushed, late>>
  BY DEF PageRows, At, chatVars
<1>2. TypeOK /\ req[s] \in ChatRequests /\ req[s].op = "page" /\ Reading(s)
  BY <1>1, ReaderIs DEF Whole, Slot
<1> DEFINE r == [req[s] EXCEPT !.at = "end"]
<1>3. req' = [req EXCEPT ![s] = r]
  BY DEF Goto
<1>4. /\ r \in ChatRequests /\ r.at = "end" /\ r.op = "page" /\ r.msg = req[s].msg /\ r.chat = req[s].chat /\ r.me = req[s].me
      /\ r.first = req[s].first /\ r.before = req[s].before /\ r.read = req[s].read /\ r.there = req[s].there
  BY <1>2 DEF ChatRequests, ChatSteps
<1> HIDE DEF r
<1>5. req'[s] = r /\ Stored' = Stored /\ (\A u, c : Visible(u, c)' = Visible(u, c)) /\ \A m, n : Newer(m, n)' <=> Newer(m, n)
  BY <1>1, <1>2, <1>3 DEF TypeOK, Stored, Visible, SinceJoining, Newer
<1>6. Unread(s)' = Unread(s) /\ Unread(s) \subseteq ms
  BY <1>4, <1>5 DEF Unread
<1>7. PageTrue(s)' /\ HidesEnded(s)'
  BY <1>4, <1>5 DEF PageTrue, HidesEnded, At
<1>8. CASE req[s].first = None
  <2>1. req[s].before = None /\ req[s].read = {} /\ req[s].there \subseteq Stored
    BY <1>1, <1>2, <1>8 DEF Reading
  <2>2. ms = {}
    BY <2>1, NoRowsLeft
  <2>3. Reading(s)' /\ HasReadAll(s)'
    BY <1>4, <1>5, <1>6, <1>8, <2>1, <2>2 DEF Reading, HasReadAll, At
  <2> QED BY <1>1, <1>2, <1>3, <1>4, <1>7, <2>3, ReaderKeeps
<1>9. CASE req[s].first # None
  <2>1. /\ req[s].first \in Stored /\ req[s].before \in Stored /\ req[s].there \subseteq Stored
        /\ \A m \in Unread(s) : Newer(req[s].before, m) \/ Skipped(s, m)
    BY <1>1, <1>2, <1>9 DEF Reading, At
  <2>2. req[s].before # None
    BY <2>1, MessagesAssumption DEF Stored
  <2>3. {m \in ms : Newer(req[s].before, m)} = {}
    BY <2>2, NoRowsLeft DEF MessagesBefore
  <2>4. \A m \in Unread(s) : Skipped(s, m)
    BY <1>6, <2>1, <2>3
  <2>5. \A m : Skipped(s, m)' <=> Skipped(s, m)
    BY <1>1, <1>4, <1>5 DEF Skipped
  <2>6. Reading(s)' /\ HasReadAll(s)'
    BY <1>4, <1>5, <1>6, <1>9, <2>1, <2>4, <2>5 DEF Reading, HasReadAll, At
  <2> QED BY <1>1, <1>2, <1>3, <1>4, <1>7, <2>6, ReaderKeeps
<1> QED BY <1>8, <1>9

LEMMA NextPageKeeps ==
  ASSUME Whole, NEW s \in Reqs, PageRows(s), NEW ms, ms = Visible(req[s].me, req[s].chat), NEW rows \in SUBSET ms,
         IF req[s].before = None THEN RecentMessages(ms, rows) ELSE MessagesBefore(ms, req[s].before, rows),
         NEW m \in rows, Oldest(rows, m),
         req' = [req EXCEPT ![s].at = "counts", ![s].page = {Shown(n) : n \in rows}, ![s].read = @ \cup rows, ![s].before = m,
                            ![s].first = IF req[s].before = None THEN m ELSE @]
  PROVE  Whole'
<1>1. /\ req[s].at = "page" /\ UNCHANGED <<rel, blocks, name, snap, stale, crossed, over>>
      /\ UNCHANGED <<msgs, members, hidden, banned, banList, gone, hushed, late>>
  BY DEF PageRows, At, chatVars
<1>2. TypeOK /\ Answered /\ DeletedStaysEmpty /\ req[s] \in ChatRequests /\ req[s].op = "page" /\ Reading(s)
  BY <1>1, ReaderIs DEF Whole, Slot
<1>3. ms \subseteq Stored /\ rows \subseteq Stored /\ rows \subseteq Msgs /\ m \in Msgs /\ m # None
  BY MessagesAssumption DEF Visible, Stored
<1> DEFINE page == {Shown(n) : n \in rows}
           first == IF req[s].before = None THEN m ELSE req[s].first
           r == [req[s] EXCEPT !.at = "counts", !.page = page, !.read = @ \cup rows, !.before = m, !.first = first]
<1>4. page \in SUBSET Entries
  <2>1. \A n \in rows : Shown(n) \in Entries
    BY <1>2, <1>3, ShownIs
  <2> QED BY <2>1
<1>5. req' = [req EXCEPT ![s] = r]
  OBVIOUS
<1> HIDE DEF page
<1>6. first \in Msgs \cup {None}
  BY <1>2, <1>3 DEF ChatRequests
<1> HIDE DEF first
<1>7. /\ r \in ChatRequests /\ r.at = "counts" /\ r.op = "page" /\ r.msg = req[s].msg /\ r.chat = req[s].chat /\ r.me = req[s].me
      /\ r.page = page /\ r.first = first /\ r.before = m /\ r.read = req[s].read \cup rows /\ r.there = req[s].there
  BY <1>2, <1>3, <1>4, <1>6 DEF ChatRequests, ChatSteps
<1> HIDE DEF r
<1>8. req'[s] = r /\ Stored' = Stored /\ (\A u, c : Visible(u, c)' = Visible(u, c)) /\ \A k, n : Newer(k, n)' <=> Newer(k, n)
  BY <1>1, <1>2, <1>5 DEF TypeOK, Stored, Visible, SinceJoining, Newer
<1>9. Unread(s)' = Unread(s) \ rows /\ Unread(s) \subseteq ms
  BY <1>7, <1>8 DEF Unread
<1>10. PageTrue(s)'
  BY <1>1, <1>2, <1>3, <1>7, <1>8, PageOfRows DEF page
<1>11. HidesEnded(s)' /\ HasReadAll(s)'
  BY <1>7, <1>8 DEF HidesEnded, HasReadAll, At
<1>12. first \in Stored /\ req[s].there \subseteq Stored
  <2>1. CASE req[s].before = None
    BY <1>1, <1>2, <1>3, <2>1 DEF first, Reading
  <2>2. CASE req[s].before # None
    BY <1>1, <1>2, <2>2 DEF first, Reading
  <2> QED BY <2>1, <2>2
<1>13. ASSUME NEW n \in Unread(s), n \notin rows
       PROVE  Newer(m, n) \/ (msgs[n].created = msgs[first].created /\ Newer(n, first))
  <2>1. n \in Stored /\ n \in ms /\ n # m /\ m \in Stored
    BY <1>3, <1>9, <1>13
  <2>2. CASE req[s].before = None
    <3>1. msgs[m].created >= msgs[n].created
      BY <1>13, <2>1, <2>2 DEF RecentMessages
    <3>2. Newer(m, n) \/ msgs[m].created = msgs[n].created
      BY <1>2, <2>1, <3>1, NewerIsTotal
    <3>3. Newer(m, n) \/ Newer(n, m)
      BY <1>2, <2>1, NewerIsTotal
    <3> QED BY <2>2, <3>2, <3>3 DEF first
  <2>3. CASE req[s].before # None
    <3>1. req[s].first # None
      BY <1>1, <1>2, <2>3 DEF Reading
    <3>2. Newer(req[s].before, n) \/ Skipped(s, n)
      BY <1>1, <1>2, <1>13, <3>1 DEF Reading, At
    <3>3. Newer(req[s].before, n) => Newer(m, n)
      BY <1>13, <2>1, <2>3 DEF MessagesBefore, FirstOf
    <3> QED BY <2>3, <3>2, <3>3 DEF first, Skipped
  <2> QED BY <2>2, <2>3
<1>14. Reading(s)'
  <2>1. PICK f : f = first
    OBVIOUS
  <2>2. /\ req'[s].there \subseteq Stored' /\ f # None /\ {f, m} \subseteq Stored' /\ req'[s].first = f /\ req'[s].before = m
    BY <1>3, <1>7, <1>8, <1>12, <2>1, MessagesAssumption DEF Stored
  <2>3. \A n \in Unread(s)' : Newer(m, n) \/ (msgs[n].created = msgs[f].created /\ Newer(n, f))
    BY <1>9, <1>13, <2>1
  <2>4. \A n \in Unread(s)' : Newer(m, n)' \/ (msgs'[n].created = msgs'[f].created /\ Newer(n, f)')
    BY <1>1, <1>8, <2>3
  <2>5. \A n \in Unread(s)' : Newer(req[s].before, n)' \/ Skipped(s, n)'
    BY <2>2, <2>4 DEF Skipped
  <2> QED BY <1>7, <1>8, <2>2, <2>5 DEF Reading, At
<1> QED BY <1>1, <1>2, <1>5, <1>7, <1>10, <1>11, <1>14, ReaderKeeps

LEMMA PageRowsKeeps ==
  ASSUME Whole, NEW s \in Reqs, PageRows(s)
  PROVE  Whole'
<1>1. /\ req[s].at = "page" /\ UNCHANGED <<rel, blocks, name, snap, stale, crossed, over>>
      /\ UNCHANGED <<msgs, members, hidden, banned, banList, gone, hushed, late>>
  BY DEF PageRows, At, chatVars
<1>2. req[s].at \in ChatSteps
  BY <1>1, ReaderIs
<1>3. CASE Answer(s, "err")
  BY <1>1, <1>2, <1>3, AnswerKeeps
<1>4. CASE ~Answer(s, "err")
  <2>1. PICK ms : ms = Visible(req[s].me, req[s].chat)
    OBVIOUS
  <2>2. PICK rows \in SUBSET ms :
          /\ IF req[s].before = None THEN RecentMessages(ms, rows) ELSE MessagesBefore(ms, req[s].before, rows)
          /\ \/ rows = {} /\ Goto(s, "end")
             \/ \E m \in rows :
                   /\ Oldest(rows, m)
                   /\ req' = [req EXCEPT ![s].at = "counts", ![s].page = {Shown(n) : n \in rows},
                                         ![s].read = @ \cup rows, ![s].before = m,
                                         ![s].first = IF req[s].before = None THEN m ELSE @]
    BY <1>4, <2>1 DEF PageRows
  <2>3. CASE rows = {} /\ Goto(s, "end")
    BY <2>1, <2>2, <2>3, LastPageKeeps
  <2>4. CASE ~(rows = {} /\ Goto(s, "end"))
    BY <2>1, <2>2, <2>4, NextPageKeeps
  <2> QED BY <2>3, <2>4
<1> QED BY <1>3, <1>4

-----------------------------------------------------------------------------
(* The whole.                                                               *)

LEMMA WholeStarts == Init => Whole
<1> SUFFICES ASSUME Init PROVE Whole
  OBVIOUS
<1>1. /\ FriendsInit /\ members = Users /\ hidden = [u \in Users |-> {}] /\ banned = {} /\ banList = {{}}
      /\ gone = [s \in Reqs |-> {}] /\ hushed = [s \in Reqs |-> {}] /\ late = {}
  BY DEF Init
<1>2. /\ rel = {} \/ \E a, b \in Users, st \in {"pending", "confirm"} : rel = {[from |-> a, to |-> b, status |-> st]}
      /\ blocks = {} /\ name = [u \in Users |-> "old"] /\ snap = [u \in Users |-> {Snapshot(u)}] /\ stale = {}
      /\ req = [s \in Reqs |-> Unused] /\ crossed = {} /\ over = [s \in Reqs |-> {}]
  BY <1>1 DEF FriendsInit
<1>3. FriendsTypeOK
  <2>1. /\ rel \subseteq [from : Users, to : Users, status : {"pending", "confirm"}]
        /\ \A r, q \in rel : {r.from, r.to} = {q.from, q.to} => r = q
    BY <1>2
  <2>2. DOMAIN snap = Users /\ name \in [Users -> {"old", "new"}] /\ over \in [Reqs -> SUBSET SUBSET Users]
    BY <1>2
  <2> QED BY <1>2, <2>1, <2>2 DEF FriendsTypeOK
<1>4. \A s \in Reqs : req[s] \in Answers /\ req[s].at = "unused"
  BY <1>2 DEF Unused, Answers
<1>5. PICK k \in Msgs, c \in Chats, u \in Users, t \in Times :
         msgs = [m \in Msgs |-> IF m = k THEN Message(c, u, "text", t) ELSE NoMsg]
  BY DEF Init
<1>6. Message(c, u, "text", t) \in Messages /\ ~Message(c, u, "text", t).deleted
  BY DEF Message, Messages, Texts
<1>7. msgs \in [Msgs -> {NoMsg} \cup Messages] /\ DeletedStaysEmpty
  BY <1>5, <1>6 DEF DeletedStaysEmpty, Stored
<1>8. TypeOK
  <2>1. req \in [Reqs -> Answers \cup FriendRequests \cup ChatRequests]
    BY <1>2, <1>4
  <2> QED BY <1>1, <1>3, <1>7, <2>1 DEF TypeOK
<1>9. BlockHolds /\ Parted /\ Answered /\ CachedIsCurrent
  BY <1>1, <1>2 DEF BlockHolds, BlockBetween, Parted, Answered, CachedIsCurrent
<1>10. \A s \in Reqs : Slot(s)
  BY <1>4 DEF Slot, BothDropped, Course, Cleared, Foreseen, PageTrue, Reading, HidesEnded, HasReadAll, At, ChatSteps, ChatOps, OnMessage
<1> QED BY <1>7, <1>8, <1>9, <1>10 DEF Whole

(* A step of no request: the list of suspensions may expire. *)
LEMMA IdleKeeps ==
  ASSUME Whole, BanListExpires \/ UNCHANGED vars
  PROVE  Whole'
<1>1. /\ UNCHANGED <<rel, blocks, name, snap, stale, req, crossed, over, msgs, members, hidden, banned, gone, hushed, late>>
      /\ banList' \subseteq banList
  BY DEF BanListExpires, vars, socialVars, chatVars
<1>2. TypeOK' /\ Answered'
  BY <1>1 DEF Whole, TypeOK, FriendsTypeOK, Answered, Stored
<1>3. BlockHolds' /\ Parted' /\ CachedIsCurrent'
  <2>1. \A a, b : BlockBetween(a, b)' = BlockBetween(a, b)
    BY <1>1 DEF BlockBetween
  <2>2. \A s : \A step : At(s, step)' <=> At(s, step)
    BY <1>1 DEF At
  <2> QED BY <1>1, <2>1, <2>2, SnapshotStays DEF Whole, BlockHolds, Parted, CachedIsCurrent
<1>4. Stored' = Stored /\ DeletedStaysEmpty'
  BY <1>1 DEF Whole, DeletedStaysEmpty, Stored
<1>5. \A s \in Reqs : Slot(s)'
  <2>1. /\ \A u, c : Visible(u, c)' = Visible(u, c)
        /\ \A m, n : Newer(m, n)' <=> Newer(m, n)
    BY <1>1, <1>4 DEF Visible, SinceJoining, Newer
  <2>2. \A s : Unread(s)' = Unread(s) /\ \A m : Skipped(s, m)' <=> Skipped(s, m)
    BY <1>1, <2>1 DEF Unread, Skipped
  <2> TAKE s \in Reqs
  <2>3. Slot(s)
    BY DEF Whole
  <2>4. BothDropped(s)' /\ Course(s)' /\ PageTrue(s)' /\ HidesEnded(s)'
    BY <1>1, <1>4, <2>3 DEF Slot, BothDropped, Course, PageTrue, HidesEnded, At, Pair
  <2>5. Cleared(s)' /\ Foreseen(s)'
    BY <1>1, <2>3 DEF Slot, Cleared, Foreseen, MustFail, WritesTo, At
  <2>6. Reading(s)' /\ HasReadAll(s)'
    BY <1>1, <1>4, <2>1, <2>2, <2>3 DEF Slot, Reading, HasReadAll, At
  <2> QED BY <2>4, <2>5, <2>6 DEF Slot
<1> QED BY <1>2, <1>3, <1>4, <1>5 DEF Whole

LEMMA ChatStepKeeps ==
  ASSUME Whole, NEW s \in Reqs, ChatStep(s)
  PROVE  Whole'
BY ChatStartKeeps, LocateKeeps, AuthorizeKeeps, SendAuthorizeKeeps, AddMessageKeeps, EditMessageKeeps, DeleteMessageKeeps,
   ReactKeeps, ForwardContentKeeps, ForwardAuthorKeeps, BanKeeps, UnbanKeeps, ForgetBansKeeps, PageRowsKeeps,
   ReactionCountsKeeps, ConversationsKeeps, PageHideKeeps, PageReadKeeps, TypingKeeps, LeaveOrJoinKeeps DEF ChatStep

LEMMA WholeKept == Whole /\ [Next]_vars => Whole'
<1> SUFFICES ASSUME Whole, [Next]_vars PROVE Whole'
  OBVIOUS
<1>1. ASSUME NEW s \in Reqs, ChatStep(s) PROVE Whole'
  BY <1>1, ChatStepKeeps
<1>2. ASSUME NEW s \in Reqs, FriendStep(s), UNCHANGED chatVars PROVE Whole'
  BY <1>2, FriendStepKeeps
<1>3. CASE BanListExpires \/ UNCHANGED vars
  BY <1>3, IdleKeeps
<1> QED BY <1>1, <1>2, <1>3 DEF Next

LEMMA WholeHolds == Spec => []Whole
BY WholeStarts, WholeKept, PTL DEF Spec

\* One row for two people and none past a block, whichever requests cross; two
\* people told of the end of their friendship by a request that dropped their
\* snapshots are no friends anywhere; and each request carries what the checks
\* below rest on (friends/service.go, Send, Block; friends.sql.go).
THEOREM MessagesInvHolds == Spec => []MessagesInv
BY WholeHolds, WholeIs, PTL

\* What is cached of friendships, requests and names is what the tables say, or
\* is about to be dropped, but where an invalidation failed or never came
\* (friends/service.go, invalidate, ForgetNames).
THEOREM CachedIsCurrentHolds == Spec => []CachedIsCurrent
BY WholeHolds, WholeIs, PTL

\* No edit or reaction brings anything back to a deleted message, but for the
\* reactions of requests that had found it when it was deleted
\* (chat/service.go, EditMessage, DeleteMessage, React).
THEOREM DeletedStaysEmptyHolds == Spec => []DeletedStaysEmpty
BY WholeHolds, WholeIs, PTL

\* A page asked for after a deletion or a suspension was answered shows none of
\* it (chat/service.go, withState; chat/repo.go, bannedCache).
THEOREM PageHidesHolds == Spec => []PageHides
BY WholeHolds, WholeIs, PTL

\* Paging back with (created_at, id) gives everything that was there, but for
\* messages of the same time as the oldest of the latest page (chat.sql.go,
\* GetRecentPrivateMessages, GetPrivateMessagesBefore).
THEOREM HistoryCompleteHolds == Spec => []HistoryComplete
BY WholeHolds, WholeIs, PTL

(* Who is told that someone types is checked in the same step. *)
LEMMA TypingChecks ==
  ASSUME Whole, NEW s \in Reqs, req[s].at = "typing", ChatStep(s) \/ FriendStep(s), req'[s].at = "ok"
  PROVE  req[s].chat \notin over[s]
<1>1. TypeOK /\ Parted /\ req[s] \in ChatRequests /\ (Private(req[s].chat) => req[s].me \in req[s].chat)
  BY Kinds DEF Whole, Slot, Course, ChatSteps, ChatOps, OnMessage
<1>2. Typing(s)
  <2>1. ~Fails(s)
    BY <1>1 DEF Fails, Answer, TypeOK
  <2> QED BY <2>1 DEF ChatStep, FriendStep, At, FriendStart, SendCheck, Create, CreateExists, Accept, Deny, Cancel, EndFriendship, NoSuchRow,
         Block, UnblockUser, ListRelationships, RenameUser, ForgetNames, ForgetSelf, Invalidate, InvalidateFails,
         ChatStart, Locate, Authorize, SendAuthorize, AddMessage, EditMessage, DeleteMessage, React, Unreact, ForwardContent,
         ForwardAuthor, Ban, Unban, ForgetBans, PageRows, ReactionCounts, Conversations, Search, PageHide, PageRead, Leave, Join
<1>3. PICK x \in Relationships(req[s].me) : MayPost(req[s].me, req[s].chat, x)
  BY <1>1, <1>2 DEF Typing, Answer, TypeOK
<1>4. PICK me \in Users, c \in Chats : me = req[s].me /\ c = req[s].chat
  BY <1>1 DEF ChatRequests
<1> QED BY <1>1, <1>3, <1>4, FriendsNotOver DEF MayPost

(* What a step of t does to the request of another slot: nothing. *)
LEMMA ElseStays ==
  ASSUME TypeOK, NEW t \in Reqs, ChatStep(t) \/ FriendStep(t), NEW s \in Reqs, s # t
  PROVE  req'[s] = req[s]
<1>1. \E r : req' = [req EXCEPT ![t] = r]
  <2>1. \A step : Goto(t, step) => \E r : req' = [req EXCEPT ![t] = r]
    BY DEF Goto
  <2>2. \A result : Answer(t, result) => \E r : req' = [req EXCEPT ![t] = r]
    BY DEF Answer
  <2>3. \A ids : Invalidates(t, ids) => \E r : req' = [req EXCEPT ![t] = r]
    BY DEF Invalidates
  <2>4. \A op, me, m, c : ChatAsk(t, op, me, m, c) \/ Ask(t, op, me, c) => \E r : req' = [req EXCEPT ![t] = r]
    BY DEF ChatAsk, Ask
  <2>5. CASE FriendStep(t)
    BY <2>1, <2>2, <2>3, <2>4, <2>5
    DEF FriendStep, FriendStart, SendCheck, Create, CreateExists, Accept, Deny, Cancel, EndFriendship, NoSuchRow,
        Block, UnblockUser, ListRelationships, RenameUser, ForgetNames, ForgetSelf, Invalidate, InvalidateFails, Fails,
        AskSend, AskUpdate, AskCancel, AskList, AskUnfriend, AskBlock, AskUnblock, AskRename
  <2>6. CASE ChatStart(t)
    BY <2>4, <2>6 DEF ChatStart, AskPost, AskEdit, AskDelete, AskReact, AskUnreact, AskForward, AskPage, AskConversations,
                      AskSearch, AskTyping, AskBan, AskUnban, AskLeaveOrJoin
  <2>7. CASE ForwardContent(t) \/ PageRows(t) \/ ReactionCounts(t) \/ Conversations(t) \/ Search(t) \/ PageHide(t) \/ PageRead(t)
    BY <2>1, <2>2, <2>7 DEF ForwardContent, PageRows, ReactionCounts, Conversations, Search, PageHide, PageRead
  <2>8. CASE \/ Locate(t) \/ Authorize(t) \/ SendAuthorize(t) \/ AddMessage(t) \/ EditMessage(t) \/ DeleteMessage(t)
             \/ React(t) \/ Unreact(t) \/ ForwardAuthor(t) \/ Ban(t) \/ Unban(t) \/ ForgetBans(t) \/ Typing(t) \/ Leave(t) \/ Join(t)
    BY <2>1, <2>2, <2>8 DEF Locate, Authorize, SendAuthorize, AddMessage, EditMessage, DeleteMessage, React, Unreact,
                            ForwardAuthor, Ban, Unban, ForgetBans, Typing, Leave, Join
  <2> QED BY <2>5, <2>6, <2>7, <2>8 DEF ChatStep
<1> QED BY <1>1 DEF TypeOK

\* Nothing gets through to a former friend or out of a hidden message for a
\* request that began after the end was answered, whatever runs between its
\* check and its write (chat/service.go, send, authorizeMessage, Forward).  A
\* friendship whose end was answered without its snapshots being dropped has
\* not ended for this (friends/service.go, invalidate).
THEOREM NothingAfterTheEndHolds == Spec => NothingAfterTheEnd
<1>1. Whole /\ [Next]_vars => [\A s \in Reqs : req[s].at \in {"store", "typing", "write", "set"} /\ req'[s].at = "ok"
                                               => ~MustFail(s)]_vars
  <2> SUFFICES ASSUME Whole, Next, NEW s \in Reqs, req[s].at \in {"store", "typing", "write", "set"}, req'[s].at = "ok"
               PROVE  ~MustFail(s)
    OBVIOUS
  <2>1. CASE req[s].at \in {"store", "write", "set"}
    BY <2>1 DEF Whole, Slot, Cleared
  <2>2. CASE req[s].at = "typing"
    <3>1. req'[s] # req[s]
      BY <2>2
    <3>2. PICK t \in Reqs : ChatStep(t) \/ FriendStep(t)
      BY <3>1 DEF Next, BanListExpires, socialVars
    <3>3. t = s
      BY <3>1, <3>2, ElseStays DEF Whole
    <3>4. req[s].chat \notin over[s]
      BY <2>2, <3>2, <3>3, TypingChecks
    <3> QED BY <2>2, <3>4 DEF MustFail, WritesTo, At
  <2> QED BY <2>1, <2>2
<1> QED BY <1>1, WholeHolds, PTL DEF Spec, NothingAfterTheEnd
===============================================================================
