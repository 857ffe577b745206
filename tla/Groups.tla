------------------------------- MODULE Groups -------------------------------
(***************************************************************************)
(* One group chat: its row in chat_groups and its members in member_table, *)
(* changed by the operations of internal/groups, by the deletion of an     *)
(* account (internal/auth/account_repo.go), which hands over the groups    *)
(* the user leads and recounts the groups the user was in, and by a        *)
(* suspension (internal/admin/admin.go), which takes the user out of them. *)
(*                                                                         *)
(* An operation of internal/groups runs in a transaction that holds the    *)
(* lock on the group's row from its first statement: one step.  Who asks   *)
(* for it, and what the service looked up before (a cached snapshot, a     *)
(* friendship), is any user at any time.  DeleteUser is one transaction of *)
(* many statements at READ COMMITTED that takes the lock late, and the     *)
(* transaction of leaveGroups takes it only with its last statement: one   *)
(* step per statement, and nobody else sees their writes before they       *)
(* commit.  An operation that meets a row that one of them has written     *)
(* waits; if that is a deadlock, Postgres breaks it by failing either of   *)
(* the two.  A user has one of these transactions open at a time.          *)
(*                                                                         *)
(* Groups do not interact, so one is enough.  Names, pictures, visibility  *)
(* and invite codes are left out, and so are the events sent to members.   *)
(***************************************************************************)
EXTENDS Integers, FiniteSets

CONSTANTS Users,       \* people
          Creator,     \* the user who creates the group
          Deleters,    \* bound: the users who may delete their account
          Suspects,    \* bound: the users who may be suspended
          Perms,       \* the permissions a moderator may have
          MaxMember,   \* chat_groups.max_member
          MaxJoins,    \* bound: memberships begun
          NoUser

\* The permissions that the operations below ask for.
AddMembers == "add_members"
RemoveMembers == "remove_members"

\* No permission: what only the admin may do.
AdminOnly == ""

ASSUME GroupsAssumption == /\ IsFiniteSet(Users)
                           /\ Creator \in Users
                           /\ Deleters \subseteq Users /\ Suspects \subseteq Users
                           /\ MaxMember \in Nat /\ MaxMember >= 1
                           /\ MaxJoins \in Nat
                           /\ NoUser \notin Users
                           /\ AdminOnly \notin Perms

VARIABLES accounts,    \* the users who have an account
          exists,      \* the group has a row
          count,       \* current_member of that row
          role,        \* user -> role; "none" without a row in member_table
          perms,       \* user -> permissions
          joined,      \* user -> joined_at
          joins,       \* memberships begun: the clock that joined_at reads
          pc,          \* user -> the next statement about its removal, or "idle"
          banned,      \* users whose removal is by leaveGroups, not DeleteUser
          lists,       \* removals that recount the group
          heir,        \* user -> whom its removal promotes, or NoUser
          drops,       \* DeleteUsers that have deleted the group
          snap,        \* user -> the number of members that its recount saw
          lockedBy,    \* the removal that holds the group's row lock, or NoUser
          crossed      \* history: what has changed while a removal was open

group == <<exists, count, role, perms, joined, joins>>
deletion == <<pc, banned, lists, heir, drops, snap, lockedBy>>
vars == <<accounts, group, deletion, crossed>>

Members == {u \in Users : role[u] # "none"}

Admins == {u \in Users : role[u] = "admin"}

\* allowed: may somebody with this role and these permissions do perm?
Allowed(u, perm) == \/ role[u] = "admin"
                    \/ role[u] = "moderator" /\ perm \in perms[u]

\* The order of NextAdmin and EarliestOtherMember: moderators first, then by
\* the time of joining.
Before(u, v) == IF (role[u] = "moderator") = (role[v] = "moderator")
                THEN joined[u] < joined[v]
                ELSE role[u] = "moderator"

\* The first in that order among the members other than u.
IsNext(u, v) == /\ v \in Members \ {u}
                /\ \A w \in Members \ {u, v} : Before(v, w)

-----------------------------------------------------------------------------
\* Create: the group's row and its admin's, in one transaction.
Create(creator) == /\ exists = TRUE
                   /\ count = 1
                   /\ role = [u \in Users |-> IF u = creator THEN "admin" ELSE "none"]
                   /\ perms = [u \in Users |-> {}]
                   /\ joined = [u \in Users |-> 0]
                   /\ joins = 1

Init == /\ accounts = Users
        /\ Create(Creator)
        /\ pc = [u \in Users |-> "idle"]
        /\ banned = {}
        /\ lists = {}
        /\ heir = [u \in Users |-> NoUser]
        /\ drops = {}
        /\ snap = [u \in Users |-> 0]
        /\ lockedBy = NoUser
        /\ crossed = {}

-----------------------------------------------------------------------------
(* Operations of internal/groups *)

Removing == {u \in Users : pc[u] # "idle"}

\* Users whose rows an open removal has deleted: nobody can write them.
Going == {u \in Users : pc[u] \in {"recount", "update", "commit"}}

\* An open removal, other than v's, has promoted u: likewise.
Promoted(u, v) == \E w \in Users \ {v} : heir[w] = u /\ pc[w] \in {"delete", "recount", "update", "commit"}

\* withLockedGroup: the lock on the row, for an operation that writes the rows
\* of the users us.
WithLockedGroup(us) == /\ exists
                       /\ lockedBy = NoUser
                       /\ \A u \in us : u \notin Going /\ ~Promoted(u, NoUser)
                       /\ UNCHANGED <<accounts, deletion>>

\* as: the same, if actor may do perm.
As(actor, perm, us) == WithLockedGroup(us) /\ Allowed(actor, perm)

\* The operation changes what, and may do so during a removal.
Changes(what) == crossed' = IF Removing = {} THEN crossed ELSE crossed \cup what

\* u goes.  A heir that leaveGroups has picked, and not yet promoted, may go:
\* then nobody is promoted.
Goes(u) == Changes({"members"} \cup (IF \E v \in banned : pc[v] = "promote" /\ heir[v] = u THEN {"admin"} ELSE {}))

SetMembers(r, p) == role' = r /\ perms' = p

\* DeleteGroup: the rows in member_table go with it.
DeleteGroup == /\ exists' = FALSE
               /\ count' = 0
               /\ SetMembers([u \in Users |-> "none"], [u \in Users |-> {}])
               /\ UNCHANGED <<joined, joins>>

AddLocked(u) == /\ u \in accounts /\ role[u] = "none"
                /\ count < MaxMember
                /\ joins < MaxJoins
                /\ SetMembers([role EXCEPT ![u] = "member"], [perms EXCEPT ![u] = {}])
                /\ joined' = [joined EXCEPT ![u] = joins]
                /\ joins' = joins + 1
                /\ count' = count + 1
                /\ UNCHANGED exists

Join(u) == /\ WithLockedGroup({u})
           /\ AddLocked(u)
           /\ Changes({"members"})

AddMember(actor, target) == /\ As(actor, AddMembers, {target})
                            /\ AddLocked(target)
                            /\ Changes({"members"})

\* The rows of member_table after u's is deleted, and the counter.
DeleteMem(u, r, p) == /\ SetMembers([r EXCEPT ![u] = "none"], [p EXCEPT ![u] = {}])
                      /\ count' = IF count > 0 THEN count - 1 ELSE 0
                      /\ UNCHANGED <<exists, joined, joins>>

Leave(u) == /\ WithLockedGroup({u})
            /\ role[u] \in {"member", "moderator"}
            /\ DeleteMem(u, role, perms)
            /\ Goes(u)

\* The admin leaves and names a successor, or NextAdmin finds one.
LeaveAdmin(u, successor) == /\ WithLockedGroup({u, successor})
                            /\ role[u] = "admin"
                            /\ successor \in Members \ {u}
                            /\ DeleteMem(u, [role EXCEPT ![successor] = "admin"],
                                            [perms EXCEPT ![successor] = {}])
                            /\ Changes({"members", "admin"})

LeaveLast(u) == /\ WithLockedGroup(Members)
                /\ role[u] = "admin" /\ Members = {u}
                /\ DeleteGroup
                /\ Changes({"members", "admin"})

Kick(actor, target) == /\ As(actor, RemoveMembers, {target})
                       /\ target # actor
                       /\ \/ role[target] = "member"
                          \/ role[target] = "moderator" /\ role[actor] = "admin"
                       /\ DeleteMem(target, role, perms)
                       /\ Goes(target)

\* A mistake: the old admin is not made a member.
TransferKeepsAdmin(admin, target) ==
  /\ As(admin, AdminOnly, {admin, target})
  /\ target \in Members \ {admin}
  /\ SetMembers([role EXCEPT ![target] = "admin"], [perms EXCEPT ![target] = {}])
  /\ Changes({"admin"})
  /\ UNCHANGED <<exists, count, joined, joins>>

TransferAdmin(admin, target) ==
  /\ As(admin, AdminOnly, {admin, target})
  /\ target \in Members \ {admin}
  /\ SetMembers([role EXCEPT ![admin] = "member", ![target] = "admin"],
                [perms EXCEPT ![admin] = {}, ![target] = {}])
  /\ Changes({"admin"})
  /\ UNCHANGED <<exists, count, joined, joins>>

\* SetRole: a plain member has no permissions.
SetRole(admin, target, r, p) ==
  /\ As(admin, AdminOnly, {target})
  /\ target \in Members \ {admin}
  /\ SetMembers([role EXCEPT ![target] = r],
                [perms EXCEPT ![target] = IF r = "member" THEN {} ELSE p])
  /\ Changes({"roles"})
  /\ UNCHANGED <<exists, count, joined, joins>>

Delete(admin) == /\ As(admin, AdminOnly, Members)
                 /\ DeleteGroup
                 /\ Changes({"members", "admin"})

-----------------------------------------------------------------------------
(* DeleteUser and leaveGroups *)

Goto(u, there) == pc' = [pc EXCEPT ![u] = there]

\* The transaction is over: its locks and its memory go.
Done(u) == /\ Goto(u, "idle")
           /\ banned' = banned \ {u}
           /\ lists' = lists \ {u}
           /\ drops' = drops \ {u}
           /\ heir' = [heir EXCEPT ![u] = NoUser]
           /\ snap' = [snap EXCEPT ![u] = 0]
           /\ lockedBy' = IF lockedBy = u THEN NoUser ELSE lockedBy
           /\ UNCHANGED crossed

\* GroupsOfUser.
Begin(u) == /\ u \in accounts /\ pc[u] = "idle"
            /\ lists' = IF u \in Members THEN lists \cup {u} ELSE lists
            /\ Goto(u, "led")
            /\ Changes({"members", "admin"})
            /\ UNCHANGED <<accounts, group, banned, heir, drops, snap, lockedBy>>

\* GroupsLedBy.
Led(u) == /\ pc[u] = "led"
          /\ Goto(u, IF role[u] = "admin" THEN "lock" ELSE "delete")
          /\ UNCHANGED <<accounts, group, banned, lists, heir, drops, snap, lockedBy, crossed>>

\* leaveGroups: GroupMembershipsOf, whose role and counter are used later.
BeginBan(u) == /\ u \in accounts /\ pc[u] = "idle"
               /\ u \in Members /\ count > 1
               /\ banned' = banned \cup {u}
               /\ lists' = lists \cup {u}
               /\ Goto(u, IF role[u] = "admin" THEN "pick" ELSE "delete")
               /\ Changes({"members", "admin"})
               /\ UNCHANGED <<accounts, group, heir, drops, snap, lockedBy>>

\* A mistake: the row is read without FOR UPDATE.
ReadGroup(u) == /\ pc[u] = "lock"
                /\ exists /\ lockedBy = NoUser
                /\ Goto(u, "pick")
                /\ UNCHANGED <<accounts, group, banned, lists, heir, drops, snap, lockedBy, crossed>>

\* LockGroup: without a row, the transaction fails (Abort).
LockGroup(u) == /\ pc[u] = "lock"
                /\ exists /\ lockedBy = NoUser
                /\ lockedBy' = u
                /\ Goto(u, "pick")
                /\ UNCHANGED <<accounts, group, banned, lists, heir, drops, snap, crossed>>

\* EarliestOtherMember: the heir, or DeleteGroup when there is nobody else.
Pick(u) == /\ pc[u] = "pick"
           /\ u \in banned => Members \ {u} # {}
           /\ \/ /\ \E v \in Users : IsNext(u, v) /\ heir' = [heir EXCEPT ![u] = v]
                 /\ Goto(u, "promote")
                 /\ UNCHANGED drops
              \/ /\ Members \ {u} = {}
                 /\ drops' = drops \cup {u}
                 /\ Goto(u, "delete")
                 /\ UNCHANGED heir
           /\ UNCHANGED <<accounts, group, banned, lists, snap, lockedBy, crossed>>

\* leaveGroups: "alone after all".
Alone(u) == /\ pc[u] = "pick" /\ u \in banned
            /\ Members \ {u} = {}
            /\ Done(u)
            /\ UNCHANGED <<accounts, group>>

\* PromoteToLeader: waits for the row, and promotes nobody if it is gone.
Promote(u) == /\ pc[u] = "promote"
              /\ heir[u] \notin Going /\ ~Promoted(heir[u], u)
              /\ heir' = [heir EXCEPT ![u] = IF role[@] = "none" THEN NoUser ELSE @]
              /\ Goto(u, "delete")
              /\ UNCHANGED <<accounts, group, banned, lists, drops, snap, lockedBy, crossed>>

\* DeleteUserByID and its cascade, or DeleteMemFromGroup.
DeleteUserByID(u) == /\ pc[u] = "delete"
                     /\ ~Promoted(u, u)
                     /\ Goto(u, IF u \in lists THEN "recount" ELSE "commit")
                     /\ UNCHANGED <<accounts, group, banned, lists, heir, drops, snap, lockedBy, crossed>>

\* A mistake: the recount comes before the user's rows are deleted.
RecountTooEarly(u) == /\ pc[u] = "recount"
                      /\ snap' = [snap EXCEPT ![u] = Cardinality(Members)]
                      /\ Goto(u, "update")
                      /\ UNCHANGED <<accounts, group, banned, lists, heir, drops, lockedBy, crossed>>

\* RecountGroupMembers counts what the statement's snapshot shows, then waits
\* for the row and writes that.
RecountGroupMembers(u) == /\ pc[u] = "recount"
                          /\ snap' = [snap EXCEPT ![u] = Cardinality(Members \ {u})]
                          /\ Goto(u, "update")
                          /\ UNCHANGED <<accounts, group, banned, lists, heir, drops, lockedBy, crossed>>

RecountUpdate(u) == /\ pc[u] = "update"
                    /\ lockedBy \in {u, NoUser} \/ ~exists
                    /\ lockedBy' = IF exists THEN u ELSE lockedBy
                    /\ Goto(u, "commit")
                    /\ UNCHANGED <<accounts, group, banned, lists, heir, drops, snap, crossed>>

\* The role of v once u's removal has committed.
RoleAfter(u, v) == IF v = u THEN "none" ELSE IF v = heir[u] THEN "admin" ELSE role[v]

Commit(u) == /\ pc[u] = "commit"
             /\ accounts' = IF u \in banned THEN accounts ELSE accounts \ {u}
             /\ \/ u \in drops /\ DeleteGroup
                \/ /\ u \notin drops
                   /\ SetMembers([v \in Users |-> RoleAfter(u, v)],
                                 [v \in Users |-> IF v \in {u, heir[u]} THEN {} ELSE perms[v]])
                   /\ count' = IF u \in lists /\ exists THEN snap[u] ELSE count
                   /\ UNCHANGED <<exists, joined, joins>>
             /\ Done(u)

\* A statement fails, the request is cancelled or Postgres breaks a deadlock.
Abort(u) == /\ pc[u] # "idle"
            /\ Done(u)
            /\ UNCHANGED <<accounts, group>>

Removal(u) == \/ Led(u) \/ LockGroup(u) \/ Pick(u) \/ Alone(u) \/ Promote(u)
              \/ DeleteUserByID(u) \/ RecountGroupMembers(u) \/ RecountUpdate(u)
              \/ Commit(u) \/ Abort(u)

\* By a user for itself, and by an admin or moderator about another.
Operation == \/ \E u \in accounts : Join(u)
             \/ \E u \in Members : \/ Leave(u) \/ LeaveLast(u) \/ Delete(u)
                                   \/ \E v \in Users : \/ AddMember(u, v) \/ Kick(u, v)
                                                       \/ LeaveAdmin(u, v) \/ TransferAdmin(u, v)
             \/ \E u \in Admins, v \in Members : \/ SetRole(u, v, "member", {})
                                                \/ \E p \in SUBSET Perms : SetRole(u, v, "moderator", p)

Next == \/ Operation
        \/ \E u \in Deleters : Begin(u)
        \/ \E u \in Suspects : BeginBan(u)
        \/ \E u \in Deleters \cup Suspects : Removal(u)

Spec == Init /\ [][Next]_vars

-----------------------------------------------------------------------------
Statements == {"idle", "led", "lock", "pick", "promote", "delete", "recount", "update", "commit"}

\* The type invariant of the group's rows and of the open removals.
TypeOK == /\ accounts \subseteq Users
          /\ exists \in BOOLEAN
          /\ count \in Nat
          /\ role \in [Users -> {"none", "member", "moderator", "admin"}]
          /\ perms \in [Users -> SUBSET Perms]
          /\ joined \in [Users -> Nat]
          /\ joins \in Nat
          /\ pc \in [Users -> Statements]
          /\ banned \subseteq Users /\ lists \subseteq Users
          /\ heir \in [Users -> Users \cup {NoUser}]
          /\ drops \subseteq Users
          /\ snap \in [Users -> Nat]
          /\ lockedBy \in Users \cup {NoUser}
          /\ crossed \subseteq {"members", "admin", "roles"}

\* A group has exactly one admin (model.go: "one per group"), through every
\* hand-over, departure and account deletion, as long as nobody becomes admin
\* while an account is being deleted or suspended, and the heir that a
\* suspension has picked without the group's lock does not leave before it is
\* promoted (admin.go, leaveGroups).
OneAdmin == exists /\ "admin" \notin crossed => \E u \in Users : Admins = {u}

\* current_member is the number of members and never exceeds max_member, as
\* long as nobody joins or leaves while an account is deleted or suspended.
CountMatches == exists /\ "members" \notin crossed =>
                  count = Cardinality(Members) /\ count <= MaxMember

\* The heir that DeleteUser has picked is the one NextAdmin would name until the
\* transaction ends: the lock keeps joins, departures and new roles away.  Two
\* accounts that are deleted at the same time are not kept apart.
HeirIsNext == \A u \in Users \ banned : heir[u] # NoUser /\ "admin" \notin crossed => IsNext(u, heir[u])

-----------------------------------------------------------------------------
(* What these rest on.                                                      *)

\* A transaction that is over holds nothing, and one that has not picked a heir
\* has none.
Clean == \A u \in Users :
           /\ pc[u] = "idle" => u \notin banned \cup lists \cup drops /\ lockedBy # u
           /\ pc[u] \in {"idle", "led", "lock", "pick"} => heir[u] = NoUser

\* A second removal is noted as a change to members and admin.
OneAtATime == {"members", "admin"} \subseteq crossed \/ \A u, v \in Removing : u = v

\* DeleteUser picks a heir, and keeps it, under the group's lock.
Locked == \A u \in Users \ banned : pc[u] = "pick" \/ heir[u] # NoUser => lockedBy = u

\* A removal recounts the group if it takes a member out of it, and counts right;
\* the one it promotes is a member.
Recounts == "members" \notin crossed =>
              \A u \in Removing : /\ u \in lists <=> u \in Members
                                  /\ heir[u] # NoUser => heir[u] \in Members \ {u}
                                  /\ u \in lists /\ pc[u] \in {"update", "commit"} => snap[u] = Cardinality(Members \ {u})

\* A removal that takes the admin has a heir for it, or takes the group, too.
Promises == "admin" \notin crossed =>
              \A u \in Removing :
                /\ pc[u] \in {"lock", "pick", "promote"} => role[u] = "admin"
                /\ heir[u] # NoUser => role[u] = "admin" /\ heir[u] \in Members \ {u}
                /\ pc[u] \in {"promote", "delete", "recount", "update", "commit"} /\ role[u] = "admin" =>
                     heir[u] # NoUser \/ u \in drops

\* The rows have their types, the counter does not fall below zero, and it is
\* the number of members (repo.go, addLocked, Leave, Kick).
GroupsInv == TypeOK /\ CountMatches /\ Clean /\ OneAtATime /\ Locked /\ Recounts /\ Promises
=============================================================================
