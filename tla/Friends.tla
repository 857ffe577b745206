------------------------------- MODULE Friends -------------------------------
(***************************************************************************)
(* Friend requests, friendships and blocks: internal/friends, with its     *)
(* statements in internal/database/friends.sql.go, and the cache of        *)
(* relationships that friends, chat and calls read.                        *)
(*                                                                         *)
(* A request to the server occupies a slot of req and takes one step per   *)
(* statement and per use of the cache; requests interleave freely between  *)
(* their steps.  The cache is the versioned one, used here by what module  *)
(* FreshReads says of it: a miss is filled from the tables at once.  The   *)
(* id of a friend request is left out, because an id that is not the       *)
(* pair's row finds nothing.                                               *)
(***************************************************************************)
EXTENDS Naturals, FiniteSets

CONSTANTS Users,    \* people
          Reqs      \* bound: requests in a behaviour

VARIABLES rel,      \* user_relationships: [from, to, status]
          blocks,   \* user_blocks: <<blocker, blocked>>
          name,     \* users.name: user -> "old" or "new"
          snap,     \* the cache: user -> {} or {its Snapshot}
          stale,    \* history: users whose snapshot an invalidation should have dropped
                    \* that failed, was cut short or never came; until it is gone
          req,      \* slot -> the request it runs
          crossed,  \* history: pairs whose request was inserted in spite of a block
          over      \* history: slot -> pairs told before it began that their friendship
                    \* has ended, their snapshots dropped, and not friends since

socialVars == <<rel, blocks, name, snap, stale, req, crossed, over>>

-----------------------------------------------------------------------------
Between(a, b) == {r \in rel : {r.from, r.to} = {a, b}}

Confirmed(a, b) == \E r \in Between(a, b) : r.status = "confirm"

BlockBetween(a, b) == {<<a, b>>, <<b, a>>} \cap blocks

ListFriends(u) == {v \in Users \ {u} : Confirmed(u, v)}

ListIncomingFriendRequests(u) == {r.from : r \in {x \in rel : x.to = u /\ x.status = "pending"}}

ListOutgoingFriendRequests(u) == {r.to : r \in {x \in rel : x.from = u /\ x.status = "pending"}}

\* What repo.Snapshot builds of a user: everyone listed, with the name shown.
Known(u) == ListFriends(u) \cup ListIncomingFriendRequests(u) \cup ListOutgoingFriendRequests(u)

Snapshot(u) == [friends |-> ListFriends(u), incoming |-> ListIncomingFriendRequests(u),
                outgoing |-> ListOutgoingFriendRequests(u), names |-> [v \in Known(u) |-> name[v]]]

\* Relationships: what is cached of u; or what the tables say, on a miss, when
\* the entry's time to live has passed and when the cache cannot be read.
Relationships(u) == snap[u] \cup {Snapshot(u)}

\* Load, with the outcome x: what comes from the tables is cached, if the cache
\* can be written.
Load(u, x) == \/ UNCHANGED <<snap, stale>>
              \/ /\ x = Snapshot(u)
                 /\ snap' = [snap EXCEPT ![u] = {x}]
                 /\ stale' = stale \ {u}

-----------------------------------------------------------------------------
\* CreateFriendRequest inserts a pending row.
Pending(me, to) == [from |-> me, to |-> to, status |-> "pending"]

Unused == [at |-> "unused"]

Request(op, me, to) == [op |-> op, at |-> op, me |-> me, to |-> to, ids |-> {}]

At(s, step) == req[s].at = step

Goto(s, step) == req' = [req EXCEPT ![s].at = step]

\* A request is answered: "ok" or "err".
Answer(s, result) == req' = [req EXCEPT ![s] = [at |-> result]]

\* invalidate(me, other) is the next step.
Invalidates(s, ids) == req' = [req EXCEPT ![s].at = "inval", ![s].ids = ids]

Pair(s) == {req[s].me, req[s].to}

\* History: x has been answered, and is known to the requests that begin later;
\* or x is no longer so.
Heard(known, x) == [t \in Reqs |-> IF At(t, "unused") THEN known[t] \cup {x} ELSE known[t]]

Unheard(known, x) == [t \in Reqs |-> known[t] \ {x}]

\* At the start one pair may know each other, and everything is cached.
FriendsInit == /\ \E a, b \in Users : /\ a # b
                                      /\ rel \in {{}} \cup {{[from |-> a, to |-> b, status |-> st]} : st \in {"pending", "confirm"}}
               /\ blocks = {}
               /\ name = [u \in Users |-> "old"]
               /\ snap = [u \in Users |-> {Snapshot(u)}]
               /\ stale = {}
               /\ req = [s \in Reqs |-> Unused]
               /\ crossed = {}
               /\ over = [s \in Reqs |-> {}]

(* The handlers of /api/friends and /api/users/{id}/block, and what may be     *)
(* asked of them.                                                           *)

Ask(s, op, me, to) == /\ req' = [req EXCEPT ![s] = Request(op, me, to)]
                      /\ UNCHANGED <<rel, blocks, name, snap, stale, crossed, over>>

AskSend(s, me, to) == me # to /\ Ask(s, "send", me, to)

\* PUT with status "confirm" or "cancel".
AskUpdate(s, me, to) == me # to /\ \E op \in {"accept", "deny"} : Ask(s, op, me, to)

AskCancel(s, me, to) == me # to /\ Ask(s, "cancel", me, to)

AskList(s, me) == Ask(s, "list", me, me)

AskUnfriend(s, me, to) == me # to /\ Ask(s, "unfriend", me, to)

AskBlock(s, me, to) == me # to /\ Ask(s, "block", me, to)

AskUnblock(s, me, to) == me # to /\ Ask(s, "unblock", me, to)

\* PUT /api/users/me.
AskRename(s, me) == Ask(s, "rename", me, me)

FriendStart(s) ==
    /\ At(s, "unused")
    /\ \E me \in Users :
          \/ \E to \in Users : \/ AskSend(s, me, to) \/ AskUpdate(s, me, to) \/ AskCancel(s, me, to)
                               \/ AskUnfriend(s, me, to) \/ AskBlock(s, me, to) \/ AskUnblock(s, me, to)
          \/ AskList(s, me) \/ AskRename(s, me)

-----------------------------------------------------------------------------
(* The statements on user_relationships that need a row: the rows they find. *)

AcceptFriendRequest(me, other) == {r \in Between(me, other) : r.to = me /\ r.status = "pending"}

DenyFriendRequest(me, other) == {r \in Between(me, other) : r.to = me /\ r.status = "pending"}

CancelFriendRequest(me, other) == {r \in Between(me, other) : r.from = me /\ r.status = "pending"}

Unfriend(me, other) == {r \in Between(me, other) : r.status = "confirm"}

\* The row of the request that slot s is about.
Found(s) == CASE req[s].at = "accept" -> AcceptFriendRequest(req[s].me, req[s].to)
              [] req[s].at = "deny" -> DenyFriendRequest(req[s].me, req[s].to)
              [] req[s].at = "cancel" -> CancelFriendRequest(req[s].me, req[s].to)
              [] req[s].at = "unfriend" -> Unfriend(req[s].me, req[s].to)

\* None: ErrNotFound or ErrNotFriends.
NoSuchRow(s) == /\ req[s].at \in {"accept", "deny", "cancel", "unfriend"}
                /\ Found(s) = {}
                /\ Answer(s, "err")
                /\ UNCHANGED <<rel, blocks, name, snap, stale, crossed, over>>

\* Send: the check for blocks, then the insertion.
SendCheck(s) == /\ At(s, "send")
                /\ IF BlockBetween(req[s].me, req[s].to) = {} THEN Goto(s, "create") ELSE Answer(s, "err")
                /\ UNCHANGED <<rel, blocks, name, snap, stale, crossed, over>>

Create(s) ==
    /\ At(s, "create")
    /\ Between(req[s].me, req[s].to) = {}
    /\ rel' = rel \cup {Pending(req[s].me, req[s].to)}
    /\ crossed' = IF BlockBetween(req[s].me, req[s].to) = {} THEN crossed \ {Pair(s)} ELSE crossed \cup {Pair(s)}
    /\ Invalidates(s, Pair(s))
    /\ UNCHANGED <<blocks, name, snap, stale, over>>

\* The index on the pair refuses a second row, in either direction.
CreateExists(s) == /\ At(s, "create")
                   /\ Between(req[s].me, req[s].to) # {}
                   /\ Answer(s, "err")
                   /\ UNCHANGED <<rel, blocks, name, snap, stale, crossed, over>>

Accept(s) == /\ At(s, "accept")
             /\ \E r \in Found(s) : rel' = (rel \ {r}) \cup {[r EXCEPT !.status = "confirm"]}
             /\ over' = Unheard(over, Pair(s))
             /\ Invalidates(s, Pair(s))
             /\ UNCHANGED <<blocks, name, snap, stale, crossed>>

Deny(s) == /\ At(s, "deny")
           /\ \E r \in Found(s) : rel' = rel \ {r}
           /\ Invalidates(s, Pair(s))
           /\ UNCHANGED <<blocks, name, snap, stale, crossed, over>>

\* A mistake: only the cache of the one who cancels is invalidated.
CancelForgetsMe(s) == /\ At(s, "cancel")
                      /\ \E r \in Found(s) : rel' = rel \ {r}
                      /\ Invalidates(s, {req[s].me})
                      /\ UNCHANGED <<blocks, name, snap, stale, crossed, over>>

Cancel(s) == /\ At(s, "cancel")
             /\ \E r \in Found(s) : rel' = rel \ {r}
             /\ Invalidates(s, Pair(s))
             /\ UNCHANGED <<blocks, name, snap, stale, crossed, over>>

EndFriendship(s) == /\ At(s, "unfriend")
                    /\ \E r \in Found(s) : rel' = rel \ {r}
                    /\ Invalidates(s, Pair(s))
                    /\ UNCHANGED <<blocks, name, snap, stale, crossed, over>>

\* A mistake: only a friendship is deleted, a request stays.
BlockFriendsOnly(me, other) == /\ blocks' = blocks \cup {<<me, other>>}
                               /\ rel' = rel \ Unfriend(me, other)

\* One statement: the block is stored and every row of the pair is deleted.
BlockUser(me, other) == /\ blocks' = blocks \cup {<<me, other>>}
                        /\ rel' = rel \ Between(me, other)

Block(s) == /\ At(s, "block")
            /\ BlockUser(req[s].me, req[s].to)
            /\ Invalidates(s, Pair(s))
            /\ UNCHANGED <<name, snap, stale, crossed, over>>

UnblockUser(s) == /\ At(s, "unblock")
                  /\ blocks' = blocks \ {<<req[s].me, req[s].to>>}
                  /\ Answer(s, "ok")
                  /\ UNCHANGED <<rel, name, snap, stale, crossed, over>>

\* GET /api/friends and /api/friends/requests.
ListRelationships(s) == /\ At(s, "list")
                        /\ \E x \in Relationships(req[s].me) : Load(req[s].me, x)
                        /\ Answer(s, "ok")
                        /\ UNCHANGED <<rel, blocks, name, crossed, over>>

\* Any change of what others see of a profile; the hook OnRename is ForgetNames.
RenameUser(s) == /\ At(s, "rename")
                 /\ name' = [name EXCEPT ![req[s].me] = "new"]
                 /\ Goto(s, "forget")
                 /\ UNCHANGED <<rel, blocks, snap, stale, crossed, over>>

ForgetNames(s) == /\ At(s, "forget")
                  /\ Invalidates(s, Known(req[s].me) \cup {req[s].me})
                  /\ UNCHANGED <<rel, blocks, name, snap, stale, crossed, over>>

\* Who is known cannot be read: only the user's own entry is invalidated.
ForgetSelf(s) == /\ At(s, "forget")
                 /\ Invalidates(s, {req[s].me})
                 /\ stale' = stale \cup Known(req[s].me)
                 /\ UNCHANGED <<rel, blocks, name, snap, crossed, over>>

\* A mistake: only the caller's relationships are dropped from the cache.
InvalidateMe(s) ==
    /\ At(s, "inval")
    /\ snap' = [snap EXCEPT ![req[s].me] = {}]
    /\ stale' = stale \ {req[s].me}
    /\ over' = IF req[s].op \in {"unfriend", "block"} /\ ~Confirmed(req[s].me, req[s].to)
               THEN Heard(over, Pair(s)) ELSE over
    /\ Answer(s, "ok")
    /\ UNCHANGED <<rel, blocks, name, crossed>>

\* Invalidate, and the answer to the client; the end of a friendship is told.
Invalidate(s) ==
    /\ At(s, "inval")
    /\ snap' = [u \in Users |-> IF u \in req[s].ids THEN {} ELSE snap[u]]
    /\ stale' = stale \ req[s].ids
    /\ over' = IF req[s].op \in {"unfriend", "block"} /\ ~Confirmed(req[s].me, req[s].to)
               THEN Heard(over, Pair(s)) ELSE over
    /\ Answer(s, "ok")
    /\ UNCHANGED <<rel, blocks, name, crossed>>

\* Invalidate fails as a whole, being one transaction: that is logged, and the
\* client answered as if it had not.
InvalidateFails(s) == /\ At(s, "inval")
                      /\ stale' = stale \cup req[s].ids
                      /\ Answer(s, "ok")
                      /\ UNCHANGED <<rel, blocks, name, snap, crossed, over>>

\* Whose snapshots s has still to drop.
ToDrop(s) == CASE At(s, "inval") -> req[s].ids
               [] At(s, "forget") -> Known(req[s].me) \cup {req[s].me}
               [] OTHER -> {}

\* Any statement may fail, its answer be lost, or the server be killed: the
\* request goes no further.
Fails(s) == /\ req[s].at \notin {"unused", "ok", "err"}
            /\ stale' = stale \cup ToDrop(s)
            /\ Answer(s, "err")
            /\ UNCHANGED <<rel, blocks, name, snap, crossed, over>>

FriendStep(s) == \/ FriendStart(s) \/ SendCheck(s) \/ Create(s) \/ CreateExists(s)
                 \/ Accept(s) \/ Deny(s) \/ Cancel(s)
                 \/ EndFriendship(s) \/ NoSuchRow(s) \/ Block(s) \/ UnblockUser(s)
                 \/ ListRelationships(s) \/ RenameUser(s) \/ ForgetNames(s)
                 \/ ForgetSelf(s) \/ Invalidate(s) \/ InvalidateFails(s) \/ Fails(s)

-----------------------------------------------------------------------------
Answers == [at : {"unused", "ok", "err"}]

FriendSteps == {"send", "create", "accept", "deny", "cancel", "list", "unfriend", "block", "unblock", "rename", "forget", "inval"}

FriendRequests == [op : FriendSteps, at : FriendSteps, me : Users, to : Users, ids : SUBSET Users]

FriendsTypeOK == /\ rel \subseteq [from : Users, to : Users, status : {"pending", "confirm"}]
                 /\ \A r, q \in rel : {r.from, r.to} = {q.from, q.to} => r = q
                 /\ blocks \subseteq Users \X Users
                 /\ name \in [Users -> {"old", "new"}]
                 /\ DOMAIN snap = Users /\ stale \subseteq Users
                 /\ over \in [Reqs -> SUBSET SUBSET Users]

\* What is cached of a user's friends, requests and their names is what the
\* tables say, or a request that changed it is about to invalidate it, unless an
\* invalidation of it failed or the request ended without one: chat, calls and
\* presence decide by these snapshots (friends/service.go, "Every write goes to
\* postgres first; the cache is then invalidated").
CachedIsCurrent == \A u \in Users \ stale :
    \/ snap[u] \in {{}, {Snapshot(u)}}
    \/ \E s \in Reqs : \/ At(s, "inval") /\ u \in req[s].ids
                       \/ At(s, "forget") /\ (u = req[s].me \/ req[s].me \in Known(u))

\* A block ends any friendship or request and stops new ones: two people with
\* a block between them have no row, unless the request was checked before the
\* block and inserted after it (friends/service.go, Send).
BlockHolds == \A a, b \in Users : Between(a, b) # {} /\ BlockBetween(a, b) # {} => {a, b} \in crossed

\* A request that has ended a friendship drops what is cached of both.
BothDropped(s) == /\ At(s, "inval") /\ req[s].op \in {"unfriend", "block"} => req[s].ids = Pair(s)
                  /\ req[s].at \in {"rename", "forget"} => req[s].op = "rename"

\* Two people who were told that they are no friends any more, by a request that
\* dropped their snapshots, and have not become friends again, are none in the
\* tables or in the cache.
Parted == \A s \in Reqs, a, b \in Users : {a, b} \in over[s] =>
              ~Confirmed(a, b) /\ \A x \in snap[a] : b \notin x.friends
=============================================================================
