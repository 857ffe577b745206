---------------------------- MODULE GroupsProofs ----------------------------
(***************************************************************************)
(* Groups proved for any users, permissions, limit of members, deletions   *)
(* and suspensions.                                                        *)
(***************************************************************************)
EXTENDS Groups, FiniteSetTheorems, TLAPS

\* What the runs check is inductive together.
Whole == GroupsInv /\ OneAdmin /\ HeirIsNext

LEMMA MembersFinite ==
  ASSUME NEW S \in SUBSET Users
  PROVE  IsFiniteSet(S) /\ Cardinality(S) \in Nat
BY GroupsAssumption, FS_Subset, FS_CardinalityType

(* Only users are members, of any role. *)
LEMMA MembersAreUsers == Members \subseteq Users /\ IsFiniteSet(Members) /\ Cardinality(Members) \in Nat
<1>1. Members \subseteq Users
  BY DEF Members
<1> QED BY <1>1, MembersFinite

-----------------------------------------------------------------------------
(* The operations of internal/groups.                                       *)

LEMMA ChangesMark ==
  ASSUME TypeOK, NEW what \in SUBSET {"members", "admin", "roles"}, Changes(what)
  PROVE  /\ crossed \subseteq crossed' /\ crossed' \subseteq {"members", "admin", "roles"}
         /\ \A x \in what : x \notin crossed' => Removing = {}
BY DEF Changes, TypeOK

(* An operation runs when nobody else has the group's lock, and touches no open
   removal. *)
LEMMA OperationKeeps ==
  ASSUME Whole, NEW us, WithLockedGroup(us), crossed \subseteq crossed',
         TypeOK', CountMatches', OneAdmin', Recounts', Promises'
  PROVE  Whole'
<1>1. UNCHANGED <<pc, banned, lists, heir, drops, snap, lockedBy>> /\ lockedBy = NoUser
  BY DEF WithLockedGroup, deletion
<1>2. Clean' /\ Locked'
  BY <1>1 DEF Whole, GroupsInv, Clean, Locked
<1>3. OneAtATime'
  BY <1>1 DEF Whole, GroupsInv, OneAtATime, Removing
<1>4. HeirIsNext'
  BY <1>1, GroupsAssumption DEF Whole, GroupsInv, Locked, HeirIsNext
<1> QED BY <1>2, <1>3, <1>4 DEF Whole, GroupsInv

(* While no removal is open, none has to be looked at. *)
LEMMA NobodyRemoved ==
  ASSUME pc' = pc
  PROVE  /\ Removing = {} \/ "members" \in crossed' => Recounts'
         /\ Removing = {} \/ "admin" \in crossed' => Promises'
BY DEF Removing, Recounts, Promises

(* A member more, a member less. *)
LEMMA OneMore ==
  ASSUME TypeOK, NEW u \in Users, role[u] = "none", NEW r \in {"member", "moderator", "admin"}, role' = [role EXCEPT ![u] = r]
  PROVE  Members' = Members \cup {u} /\ Cardinality(Members') = Cardinality(Members) + 1
<1>1. Members' = Members \cup {u} /\ u \notin Members
  BY DEF Members, TypeOK
<1> QED BY <1>1, MembersAreUsers, FS_AddElement

LEMMA OneLess ==
  ASSUME NEW u \in Members, NEW ms, ms = Members \ {u}
  PROVE  Cardinality(ms) = Cardinality(Members) - 1 /\ Cardinality(ms) \in Nat /\ Cardinality(Members) \in Nat
BY MembersAreUsers, FS_RemoveElement, FS_CardinalityType

LEMMA AddKeeps ==
  ASSUME Whole, NEW u \in Users, NEW us, WithLockedGroup(us), AddLocked(u), Changes({"members"})
  PROVE  Whole'
<1>1. TypeOK /\ exists /\ role' = [role EXCEPT ![u] = "member"] /\ perms' = [perms EXCEPT ![u] = {}]
      /\ joined' = [joined EXCEPT ![u] = joins] /\ joins' = joins + 1 /\ count' = count + 1 /\ count < MaxMember
      /\ exists' = exists /\ role[u] = "none"
  BY DEF Whole, GroupsInv, WithLockedGroup, AddLocked, SetMembers
<1>2. /\ UNCHANGED <<accounts, pc, banned, lists, heir, drops, snap, lockedBy>>
      /\ crossed \subseteq crossed' /\ crossed' \subseteq {"members", "admin", "roles"}
      /\ "members" \notin crossed' => Removing = {}
  BY <1>1, ChangesMark DEF WithLockedGroup, deletion
<1>3. TypeOK'
  BY <1>1, <1>2 DEF TypeOK
<1>4. CountMatches'
  <2>1. Members' = Members \cup {u} /\ Cardinality(Members') = Cardinality(Members) + 1
    BY <1>1, OneMore
  <2> QED BY <1>1, <1>2, <2>1, MembersAreUsers, GroupsAssumption DEF CountMatches, Whole, GroupsInv, TypeOK
<1>5. Admins' = Admins
  BY <1>1 DEF Admins, TypeOK
<1>6. OneAdmin'
  BY <1>1, <1>2, <1>5 DEF Whole, OneAdmin
<1>7. Recounts'
  BY <1>2, NobodyRemoved
<1>8. Promises'
  BY <1>1, <1>2 DEF Whole, GroupsInv, Promises, Removing, Members, TypeOK
<1> QED BY <1>2, <1>3, <1>4, <1>6, <1>7, <1>8, OperationKeeps

(* A member that is not the admin goes. *)
LEMMA GoKeeps ==
  ASSUME Whole, NEW u \in Users, NEW us, u \in us, WithLockedGroup(us), role[u] \in {"member", "moderator"},
         DeleteMem(u, role, perms), Goes(u)
  PROVE  Whole'
<1> DEFINE what == {"members"} \cup (IF \E v \in banned : pc[v] = "promote" /\ heir[v] = u THEN {"admin"} ELSE {})
<1>1. TypeOK /\ exists /\ role' = [role EXCEPT ![u] = "none"] /\ perms' = [perms EXCEPT ![u] = {}]
      /\ count' = (IF count > 0 THEN count - 1 ELSE 0)
      /\ UNCHANGED <<exists, joined, joins>>
  BY DEF Whole, GroupsInv, WithLockedGroup, DeleteMem, SetMembers
<1>2. /\ UNCHANGED <<accounts, pc, banned, lists, heir, drops, snap, lockedBy>> /\ lockedBy = NoUser
      /\ crossed \subseteq crossed' /\ crossed' \subseteq {"members", "admin", "roles"}
      /\ "members" \notin crossed' => Removing = {}
      /\ "admin" \notin crossed' /\ Removing # {} => ~\E v \in banned : pc[v] = "promote" /\ heir[v] = u
  BY <1>1, ChangesMark DEF WithLockedGroup, deletion, Goes
<1>3. TypeOK'
  BY <1>1, <1>2 DEF TypeOK
<1>4. Members' = Members \ {u} /\ u \in Members
  BY <1>1 DEF Members, TypeOK
<1>5. CountMatches'
  <2>1. Cardinality(Members') = Cardinality(Members) - 1 /\ Cardinality(Members') \in Nat /\ Cardinality(Members) \in Nat
    BY <1>4, OneLess
  <2> QED BY <1>1, <1>2, <2>1, GroupsAssumption DEF CountMatches, Whole, GroupsInv, TypeOK
<1>6. Admins' = Admins
  BY <1>1 DEF Admins, TypeOK
<1>7. OneAdmin'
  BY <1>1, <1>2, <1>6 DEF Whole, OneAdmin
<1>8. Recounts'
  BY <1>2, NobodyRemoved
<1>9. Promises'
  <2>1. SUFFICES ASSUME "admin" \notin crossed', Removing # {} PROVE Promises'
    BY <1>2, NobodyRemoved
  <2>2. ASSUME NEW v \in Removing, heir[v] = u PROVE FALSE
    <3>1. v \in Users /\ heir[v] # NoUser
      BY <2>2, GroupsAssumption DEF Removing
    <3>2. v \in banned
      BY <1>2, <3>1, GroupsAssumption DEF Whole, GroupsInv, Locked
    <3>3. pc[v] \in {"delete", "recount", "update", "commit"}
      BY <1>1, <1>2, <2>1, <2>2, <3>1, <3>2 DEF Whole, GroupsInv, Clean, TypeOK, Statements
    <3>4. Promoted(u, NoUser)
      BY <2>2, <3>1, <3>3, GroupsAssumption DEF Promoted
    <3> QED BY <3>4 DEF WithLockedGroup
  <2>3. \A v \in Users : role'[v] = "admin" <=> role[v] = "admin"
    BY <1>1 DEF TypeOK
  <2>4. Promises /\ Removing' = Removing /\ Removing \subseteq Users
    BY <1>2 DEF Whole, GroupsInv, Removing
  <2> QED BY <1>2, <1>4, <2>1, <2>2, <2>3, <2>4 DEF Promises
<1> QED BY <1>2, <1>3, <1>5, <1>7, <1>8, <1>9, OperationKeeps

(* The group goes. *)
LEMMA DeleteGroupKeeps ==
  ASSUME Whole, NEW us, WithLockedGroup(us), DeleteGroup, Changes({"members", "admin"})
  PROVE  Whole'
<1>1. TypeOK /\ exists' = FALSE /\ count' = 0 /\ role' = [u \in Users |-> "none"] /\ perms' = [u \in Users |-> {}]
      /\ UNCHANGED <<joined, joins>>
  BY DEF Whole, GroupsInv, DeleteGroup, SetMembers
<1>2. /\ UNCHANGED <<accounts, pc, banned, lists, heir, drops, snap, lockedBy>>
      /\ crossed \subseteq crossed' /\ crossed' \subseteq {"members", "admin", "roles"}
      /\ "members" \notin crossed' => Removing = {}
      /\ "admin" \notin crossed' => Removing = {}
  BY <1>1, ChangesMark DEF WithLockedGroup, deletion
<1>3. TypeOK'
  BY <1>1, <1>2 DEF TypeOK
<1>4. CountMatches' /\ OneAdmin'
  BY <1>1 DEF CountMatches, OneAdmin
<1>5. Recounts' /\ Promises'
  BY <1>2, NobodyRemoved
<1> QED BY <1>2, <1>3, <1>4, <1>5, OperationKeeps

(* Somebody else becomes the admin; the old one stays as r, or goes. *)
LEMMA HandOverKeeps ==
  ASSUME Whole, NEW a \in Users, NEW b \in Members \ {a}, NEW us, WithLockedGroup(us), role[a] = "admin",
         NEW r \in {"none", "member"}, role' = [role EXCEPT ![a] = r, ![b] = "admin"], perms' = [perms EXCEPT ![a] = {}, ![b] = {}],
         count' = (IF r = "none" THEN IF count > 0 THEN count - 1 ELSE 0 ELSE count), UNCHANGED <<exists, joined, joins>>,
         Changes((IF r = "none" THEN {"members"} ELSE {}) \cup {"admin"})
  PROVE  Whole'
<1>1. TypeOK /\ b \in Users /\ a # b
  BY DEF Whole, GroupsInv, Members
<1>2. /\ UNCHANGED <<accounts, pc, banned, lists, heir, drops, snap, lockedBy>>
      /\ crossed \subseteq crossed' /\ crossed' \subseteq {"members", "admin", "roles"}
      /\ r = "none" /\ "members" \notin crossed' => Removing = {}
      /\ "admin" \notin crossed' => Removing = {}
  BY <1>1, ChangesMark DEF WithLockedGroup, deletion
<1>3. TypeOK'
  BY <1>1, <1>2 DEF TypeOK
<1>4. /\ role'[a] = r /\ role'[b] = "admin" /\ \A u \in Users \ {a, b} : role'[u] = role[u]
  BY <1>1 DEF TypeOK
<1>5. OneAdmin'
  <2>1. SUFFICES ASSUME exists, "admin" \notin crossed PROVE Admins' = {b}
    BY <1>1, <1>2 DEF OneAdmin
  <2>2. Admins = {a}
    BY <2>1 DEF Whole, OneAdmin, Admins
  <2> QED BY <1>1, <1>4, <2>2 DEF Admins
<1>6. Members' = IF r = "none" THEN Members \ {a} ELSE Members
  BY <1>1, <1>4 DEF Members
<1>7. CountMatches'
  <2>1. CASE r = "none"
    <3>1. a \in Members
      BY DEF Members
    <3>2. Cardinality(Members') = Cardinality(Members) - 1 /\ Cardinality(Members') \in Nat /\ Cardinality(Members) \in Nat
      BY <1>6, <2>1, <3>1, OneLess
    <3> QED BY <1>1, <1>2, <2>1, <3>2, GroupsAssumption DEF CountMatches, Whole, GroupsInv, TypeOK
  <2>2. CASE r # "none"
    BY <1>2, <1>6, <2>2 DEF CountMatches, Whole, GroupsInv
  <2> QED BY <2>1, <2>2
<1>8. Promises'
  BY <1>2, NobodyRemoved
<1>9. Recounts'
  <2>1. CASE r = "none"
    BY <1>2, <2>1, NobodyRemoved
  <2>2. CASE r # "none"
    BY <1>2, <1>6, <2>2 DEF Recounts, Removing, Whole, GroupsInv
  <2> QED BY <2>1, <2>2
<1> QED BY <1>2, <1>3, <1>5, <1>7, <1>8, <1>9, OperationKeeps

(* A member gets another role. *)
LEMMA SetRoleKeeps ==
  ASSUME Whole, NEW a \in Users, role[a] = "admin", NEW b \in Users, NEW r \in {"member", "moderator"}, NEW p \in SUBSET Perms,
         SetRole(a, b, r, p)
  PROVE  Whole'
<1>1. TypeOK /\ exists /\ b \in Members \ {a} /\ role' = [role EXCEPT ![b] = r]
      /\ perms' = [perms EXCEPT ![b] = IF r = "member" THEN {} ELSE p] /\ WithLockedGroup({b})
      /\ UNCHANGED <<exists, count, joined, joins>> /\ Changes({"roles"})
  BY DEF Whole, GroupsInv, SetRole, As, SetMembers, WithLockedGroup
<1>2. /\ UNCHANGED <<accounts, pc, banned, lists, heir, drops, snap, lockedBy>>
      /\ crossed \subseteq crossed' /\ crossed' \subseteq {"members", "admin", "roles"}
      /\ "members" \in crossed' => "members" \in crossed
      /\ "admin" \in crossed' => "admin" \in crossed
  BY <1>1, ChangesMark DEF WithLockedGroup, deletion, Changes
<1>3. TypeOK'
  BY <1>1, <1>2 DEF TypeOK
<1>4. Members' = Members /\ role'[b] = r /\ \A u \in Users \ {b} : role'[u] = role[u]
  BY <1>1 DEF Members, TypeOK
<1>5. "admin" \notin crossed => role[b] # "admin"
  BY <1>1 DEF Whole, OneAdmin, Admins
<1>6. OneAdmin'
  <2>1. SUFFICES ASSUME "admin" \notin crossed PROVE Admins' = Admins
    BY <1>1, <1>2, <2>1 DEF Whole, OneAdmin
  <2> QED BY <1>4, <1>5, <2>1 DEF Admins
<1>7. CountMatches'
  BY <1>1, <1>2, <1>4 DEF Whole, GroupsInv, CountMatches
<1>8. Recounts'
  BY <1>2, <1>4 DEF Whole, GroupsInv, Recounts, Removing
<1>9. Promises'
  BY <1>2, <1>4, <1>5 DEF Whole, GroupsInv, Promises, Removing
<1> QED BY <1>1, <1>2, <1>3, <1>6, <1>7, <1>8, <1>9, OperationKeeps

LEMMA OperationsKeep == Whole /\ Operation => Whole'
<1> SUFFICES ASSUME Whole, Operation PROVE Whole'
  OBVIOUS
<1>1. TypeOK /\ accounts \subseteq Users /\ Members \subseteq Users /\ Admins \subseteq Users
  BY MembersAreUsers DEF Whole, GroupsInv, TypeOK, Admins
<1>2. ASSUME NEW u \in Users, Join(u) PROVE Whole'
  BY <1>2, AddKeeps DEF Join
<1>3. ASSUME NEW u \in Users, NEW v \in Users, AddMember(u, v) PROVE Whole'
  BY <1>3, AddKeeps DEF AddMember, As
<1>4. ASSUME NEW u \in Users, Leave(u) PROVE Whole'
  BY <1>4, GoKeeps DEF Leave
<1>5. ASSUME NEW u \in Users, NEW v \in Users, Kick(u, v) PROVE Whole'
  BY <1>5, GoKeeps DEF Kick, As
<1>6. ASSUME NEW u \in Users, LeaveLast(u) \/ Delete(u) PROVE Whole'
  BY <1>6, DeleteGroupKeeps DEF LeaveLast, Delete, As
<1>7. ASSUME NEW u \in Users, NEW v \in Users, LeaveAdmin(u, v) PROVE Whole'
  <2>1. /\ WithLockedGroup({u, v}) /\ role[u] = "admin" /\ v \in Members \ {u} /\ v # u /\ v \in Users
        /\ DeleteMem(u, [role EXCEPT ![v] = "admin"], [perms EXCEPT ![v] = {}])
        /\ Changes({"members", "admin"})
    BY <1>7 DEF LeaveAdmin
  <2>2. role' = [role EXCEPT ![u] = "none", ![v] = "admin"] /\ perms' = [perms EXCEPT ![u] = {}, ![v] = {}]
    BY <1>1, <2>1 DEF DeleteMem, SetMembers, TypeOK
  <2>3. /\ count' = (IF count > 0 THEN count - 1 ELSE 0) /\ UNCHANGED <<exists, joined, joins>>
        /\ (IF "none" = "none" THEN {"members"} ELSE {}) \cup {"admin"} = {"members", "admin"}
    BY <2>1 DEF DeleteMem
  <2> QED BY <2>1, <2>2, <2>3, HandOverKeeps
<1>8. ASSUME NEW u \in Users, NEW v \in Users, TransferAdmin(u, v) PROVE Whole'
  <2>1. /\ WithLockedGroup({u, v}) /\ v \in Members \ {u} /\ Allowed(u, AdminOnly)
        /\ role' = [role EXCEPT ![u] = "member", ![v] = "admin"] /\ perms' = [perms EXCEPT ![u] = {}, ![v] = {}]
        /\ UNCHANGED <<exists, count, joined, joins>> /\ Changes({"admin"})
    BY <1>8 DEF TransferAdmin, As, SetMembers
  <2>2. role[u] = "admin"
    BY <1>1, <2>1, GroupsAssumption DEF Allowed, TypeOK
  <2>3. (IF "member" = "none" THEN {"members"} ELSE {}) \cup {"admin"} = {"admin"}
    OBVIOUS
  <2> QED BY <2>1, <2>2, <2>3, HandOverKeeps
<1>9. ASSUME NEW u \in Users, role[u] = "admin", NEW v \in Users, NEW r \in {"member", "moderator"}, NEW p \in SUBSET Perms, SetRole(u, v, r, p)
      PROVE  Whole'
  BY <1>9, SetRoleKeeps
<1>10. CASE \E u \in accounts : Join(u)
  BY <1>1, <1>2, <1>10
<1>11. CASE \E u \in Members : \/ Leave(u) \/ LeaveLast(u) \/ Delete(u)
                               \/ \E v \in Users : \/ AddMember(u, v) \/ Kick(u, v)
                                                   \/ LeaveAdmin(u, v) \/ TransferAdmin(u, v)
  BY <1>1, <1>3, <1>4, <1>5, <1>6, <1>7, <1>8, <1>11
<1>12. CASE \E u \in Admins, v \in Members : \/ SetRole(u, v, "member", {})
                                             \/ \E p \in SUBSET Perms : SetRole(u, v, "moderator", p)
  <2>1. PICK u \in Admins, v \in Members : \/ SetRole(u, v, "member", {})
                                          \/ \E p \in SUBSET Perms : SetRole(u, v, "moderator", p)
    BY <1>12
  <2>2. u \in Users /\ role[u] = "admin" /\ v \in Users /\ {} \in SUBSET Perms
    BY <1>1, <2>1 DEF Admins
  <2> QED BY <1>9, <2>1, <2>2
<1> QED BY <1>10, <1>11, <1>12 DEF Operation

-----------------------------------------------------------------------------
(* The transactions that take a user out.                                   *)

(* A statement that writes no row of the group keeps what is said of the group
   itself. *)
LEMMA GroupStays ==
  ASSUME Whole, UNCHANGED group, crossed \subseteq crossed'
  PROVE  /\ Members' = Members /\ Admins' = Admins /\ CountMatches' /\ OneAdmin'
         /\ \A u, v : IsNext(u, v)' <=> IsNext(u, v)
<1>1. Members' = Members /\ Admins' = Admins
  BY DEF group, Members, Admins
<1>2. \A u, v : Before(u, v)' <=> Before(u, v)
  BY DEF group, Before
<1>3. \A u, v : IsNext(u, v)' <=> IsNext(u, v)
  BY <1>1, <1>2 DEF IsNext
<1> QED BY <1>1, <1>3 DEF Whole, GroupsInv, CountMatches, OneAdmin, group

LEMMA BeginKeeps ==
  ASSUME Whole, NEW u \in Users, Begin(u) \/ BeginBan(u)
  PROVE  Whole'
<1>1. TypeOK /\ pc[u] = "idle" /\ Clean /\ u \notin banned \cup lists \cup drops /\ heir[u] = NoUser /\ lockedBy # u
  BY DEF Whole, GroupsInv, Begin, BeginBan, Clean
<1>2. /\ UNCHANGED <<accounts, group, heir, drops, snap, lockedBy>> /\ Changes({"members", "admin"})
      /\ (u \in lists' <=> u \in Members) /\ lists' \subseteq lists \cup {u} /\ lists \subseteq lists'
      /\ banned' \subseteq banned \cup {u} /\ banned \subseteq banned'
  BY <1>1 DEF Begin, BeginBan
<1>3. \E there \in {"led", "pick", "delete"} :
        /\ pc' = [pc EXCEPT ![u] = there]
        /\ there = "led" \/ (u \in banned' /\ (there = "pick" <=> role[u] = "admin"))
  BY DEF Begin, BeginBan, Goto
<1>4. PICK there \in {"led", "pick", "delete"} :
        /\ pc'[u] = there /\ (\A v \in Users \ {u} : pc'[v] = pc[v]) /\ pc' \in [Users -> Statements]
        /\ there = "led" \/ (u \in banned' /\ (there = "pick" <=> role[u] = "admin"))
  BY <1>1, <1>3 DEF TypeOK, Statements
<1>5. crossed \subseteq crossed' /\ crossed' \subseteq {"members", "admin", "roles"}
      /\ (Removing = {} \/ {"members", "admin"} \subseteq crossed')
  BY <1>1, <1>2, ChangesMark
<1>6. TypeOK'
  BY <1>1, <1>2, <1>4, <1>5 DEF TypeOK, group
<1>7. Clean'
  BY <1>1, <1>2, <1>4 DEF Clean
<1>8. Removing' = Removing \cup {u}
  BY <1>4 DEF Removing
<1>9. OneAtATime'
  BY <1>5, <1>8 DEF OneAtATime
<1>10. Locked'
  BY <1>1, <1>2, <1>4 DEF Locked, Whole, GroupsInv
<1>11. /\ Members' = Members /\ CountMatches' /\ OneAdmin'
       /\ \A v, w : IsNext(v, w)' <=> IsNext(v, w)
  BY <1>2, <1>5, GroupStays
<1>12. Recounts'
  BY <1>1, <1>2, <1>4, <1>5, <1>8, <1>11 DEF Recounts
<1>13. Promises'
  BY <1>1, <1>2, <1>4, <1>5, <1>8, <1>11 DEF Promises, group
<1>14. HeirIsNext'
  BY <1>2, <1>5, <1>11 DEF Whole, HeirIsNext
<1> QED BY <1>6, <1>7, <1>9, <1>10, <1>11, <1>12, <1>13, <1>14 DEF Whole, GroupsInv

(* One statement of u's transaction that does not end it: what it has to say of
   u for the rest to follow. *)
LEMMA StatementKeeps ==
  ASSUME Whole, NEW u \in Users, pc[u] # "idle", NEW there \in Statements \ {"idle"}, Goto(u, there),
         UNCHANGED <<accounts, group, banned, lists, crossed>>, TypeOK', drops' \in {drops, drops \cup {u}},
         \A v \in Users \ {u} : heir'[v] = heir[v] /\ snap'[v] = snap[v],
         lockedBy' = lockedBy \/ (lockedBy' = u /\ lockedBy = NoUser),
         heir'[u] \in {heir[u], NoUser} \/ (pc[u] = "pick" /\ IsNext(u, heir'[u])),
         there \in {"led", "lock", "pick"} => heir'[u] = NoUser,
         there = "pick" => u \in banned \/ lockedBy' = u,
         there \in {"update", "commit"} /\ u \in lists =>
           snap'[u] = Cardinality(Members \ {u}) \/ (pc[u] = "update" /\ snap'[u] = snap[u]),
         "admin" \notin crossed =>
           /\ there \in {"lock", "pick", "promote"} => role[u] = "admin"
           /\ there \in {"promote", "delete", "recount", "update", "commit"} /\ role[u] = "admin" => heir'[u] # NoUser \/ u \in drops'
  PROVE  Whole'
<1>1. TypeOK /\ pc'[u] = there /\ \A v \in Users \ {u} : pc'[v] = pc[v]
  BY DEF Goto, Whole, GroupsInv, TypeOK
<1>2. Removing' = Removing /\ u \in Removing /\ Removing \subseteq Users
  BY <1>1 DEF Removing
<1>3. /\ Members' = Members /\ CountMatches' /\ OneAdmin'
      /\ \A v, w : IsNext(v, w)' <=> IsNext(v, w)
  BY GroupStays
<1>4. IsNext(u, heir'[u]) => heir'[u] \in Members \ {u}
  BY DEF IsNext
<1>5. Clean'
  BY <1>1 DEF Clean, Whole, GroupsInv
<1>6. OneAtATime'
  BY <1>2 DEF OneAtATime, Whole, GroupsInv
<1>7. Locked'
  BY <1>1, GroupsAssumption DEF Locked, Whole, GroupsInv
<1>8. Recounts'
  BY <1>1, <1>2, <1>3, <1>4 DEF Recounts, Whole, GroupsInv
<1>9. Promises'
  <2>1. role' = role
    BY DEF group
  <2>2. "admin" \notin crossed /\ pc[u] = "pick" => role[u] = "admin"
    BY <1>2 DEF Promises, Whole, GroupsInv
  <2> QED BY <1>1, <1>2, <1>3, <1>4, <2>1, <2>2 DEF Promises, Whole, GroupsInv
<1>10. HeirIsNext'
  BY <1>3 DEF HeirIsNext, Whole
<1> QED BY <1>3, <1>5, <1>6, <1>7, <1>8, <1>9, <1>10 DEF Whole, GroupsInv

LEMMA StatementsKeep ==
  ASSUME Whole, NEW u \in Users,
         Led(u) \/ LockGroup(u) \/ Pick(u) \/ Promote(u) \/ DeleteUserByID(u) \/ RecountGroupMembers(u) \/ RecountUpdate(u)
  PROVE  Whole'
<1>1. TypeOK /\ Clean /\ Locked /\ Recounts /\ Promises /\ Members \subseteq Users
  BY MembersAreUsers DEF Whole, GroupsInv
<1>2. pc[u] # "idle" => u \in Removing
  BY DEF Removing
<1>3. IsFiniteSet(Members \ {u}) /\ Cardinality(Members \ {u}) \in Nat
  BY <1>1, MembersFinite
<1>4. CASE Led(u)
  <2> DEFINE there == IF role[u] = "admin" THEN "lock" ELSE "delete"
  <2>1. /\ pc[u] = "led" /\ Goto(u, there) /\ heir[u] = NoUser /\ there \in Statements \ {"idle"}
        /\ UNCHANGED <<accounts, group, banned, lists, heir, drops, snap, lockedBy, crossed>>
    BY <1>1, <1>4 DEF Led, Clean, Statements
  <2>2. TypeOK'
    BY <1>1, <2>1 DEF TypeOK, Goto, group
  <2> QED BY <2>1, <2>2, StatementKeeps
<1>5. CASE LockGroup(u)
  <2>1. /\ pc[u] = "lock" /\ Goto(u, "pick") /\ heir[u] = NoUser /\ "pick" \in Statements \ {"idle"}
        /\ lockedBy = NoUser /\ lockedBy' = u
        /\ UNCHANGED <<accounts, group, banned, lists, heir, drops, snap, crossed>>
    BY <1>1, <1>5 DEF LockGroup, Clean, Statements
  <2>2. TypeOK'
    BY <1>1, <2>1 DEF TypeOK, Goto, group
  <2>3. "admin" \notin crossed => role[u] = "admin"
    BY <1>1, <1>2, <2>1 DEF Promises
  <2> QED BY <2>1, <2>2, <2>3, StatementKeeps
<1>6. CASE Pick(u)
  <2>1. pc[u] = "pick" /\ UNCHANGED <<accounts, group, banned, lists, snap, lockedBy, crossed>>
        /\ {"promote", "delete"} \subseteq Statements \ {"idle"} /\ heir[u] = NoUser
    BY <1>1, <1>6 DEF Pick, Clean, Statements
  <2>2. "admin" \notin crossed => role[u] = "admin"
    BY <1>1, <1>2, <2>1 DEF Promises
  <2>3. ASSUME NEW v \in Users, IsNext(u, v), heir' = [heir EXCEPT ![u] = v], Goto(u, "promote"), drops' = drops
        PROVE  Whole'
    <3>1. TypeOK'
      BY <1>1, <2>1, <2>3 DEF TypeOK, Goto, group
    <3>2. heir'[u] = v /\ v # NoUser /\ \A w \in Users \ {u} : heir'[w] = heir[w]
      BY <1>1, <2>3, GroupsAssumption DEF TypeOK
    <3> QED BY <2>1, <2>2, <2>3, <3>1, <3>2, StatementKeeps
  <2>4. ASSUME drops' = drops \cup {u}, Goto(u, "delete"), heir' = heir
        PROVE  Whole'
    <3>1. TypeOK'
      BY <1>1, <2>1, <2>4 DEF TypeOK, Goto, group
    <3> QED BY <2>1, <2>2, <2>4, <3>1, StatementKeeps
  <2> QED BY <1>6, <2>3, <2>4 DEF Pick
<1>7. CASE Promote(u)
  <2>1. /\ pc[u] = "promote" /\ Goto(u, "delete") /\ "delete" \in Statements \ {"idle"}
        /\ heir' = [heir EXCEPT ![u] = IF role[heir[u]] = "none" THEN NoUser ELSE heir[u]]
        /\ UNCHANGED <<accounts, group, banned, lists, drops, snap, lockedBy, crossed>>
    BY <1>7 DEF Promote, Statements
  <2>2. TypeOK'
    BY <1>1, <2>1 DEF TypeOK, Goto, group
  <2>3. heir'[u] \in {heir[u], NoUser} /\ \A v \in Users \ {u} : heir'[v] = heir[v]
    BY <1>1, <2>1 DEF TypeOK
  <2>4. "admin" \notin crossed /\ role[u] = "admin" => heir'[u] # NoUser \/ u \in drops
    <3>1. "admin" \notin crossed /\ role[u] = "admin" => (heir[u] # NoUser /\ heir[u] \in Members \ {u}) \/ u \in drops
      BY <1>1, <1>2, <2>1 DEF Promises
    <3> QED BY <1>1, <2>1, <3>1 DEF TypeOK, Members
  <2> QED BY <2>1, <2>2, <2>3, <2>4, StatementKeeps
<1>8. CASE DeleteUserByID(u)
  <2> DEFINE there == IF u \in lists THEN "recount" ELSE "commit"
  <2>1. /\ pc[u] = "delete" /\ Goto(u, there) /\ there \in Statements \ {"idle"} /\ there \notin {"led", "lock", "pick"}
        /\ UNCHANGED <<accounts, group, banned, lists, heir, drops, snap, lockedBy, crossed>>
    BY <1>8 DEF DeleteUserByID, Statements
  <2>2. TypeOK'
    BY <1>1, <2>1 DEF TypeOK, Goto, group
  <2>3. "admin" \notin crossed /\ role[u] = "admin" => heir[u] # NoUser \/ u \in drops
    BY <1>1, <1>2, <2>1 DEF Promises
  <2> QED BY <2>1, <2>2, <2>3, StatementKeeps
<1>9. CASE RecountGroupMembers(u)
  <2>1. /\ pc[u] = "recount" /\ Goto(u, "update") /\ "update" \in Statements \ {"idle"}
        /\ snap' = [snap EXCEPT ![u] = Cardinality(Members \ {u})]
        /\ UNCHANGED <<accounts, group, banned, lists, heir, drops, lockedBy, crossed>>
    BY <1>9 DEF RecountGroupMembers, Statements
  <2>2. TypeOK'
    BY <1>1, <1>3, <2>1 DEF TypeOK, Goto, group
  <2>3. snap'[u] = Cardinality(Members \ {u}) /\ \A v \in Users \ {u} : snap'[v] = snap[v]
    BY <1>1, <2>1 DEF TypeOK
  <2>4. "admin" \notin crossed /\ role[u] = "admin" => heir[u] # NoUser \/ u \in drops
    BY <1>1, <1>2, <2>1 DEF Promises
  <2> QED BY <2>1, <2>2, <2>3, <2>4, StatementKeeps
<1>10. CASE RecountUpdate(u)
  <2>1. /\ pc[u] = "update" /\ Goto(u, "commit") /\ "commit" \in Statements \ {"idle"}
        /\ lockedBy' = lockedBy \/ (lockedBy' = u /\ lockedBy = NoUser)
        /\ UNCHANGED <<accounts, group, banned, lists, heir, drops, snap, crossed>>
    BY <1>10 DEF RecountUpdate, Statements
  <2>2. TypeOK'
    BY <1>1, <2>1 DEF TypeOK, Goto, group
  <2>3. "admin" \notin crossed /\ role[u] = "admin" => heir[u] # NoUser \/ u \in drops
    BY <1>1, <1>2, <2>1 DEF Promises
  <2> QED BY <2>1, <2>2, <2>3, StatementKeeps
<1> QED BY <1>4, <1>5, <1>6, <1>7, <1>8, <1>9, <1>10

(* The transaction ends: it holds nothing, and if it was not alone everything
   has been noted as changed. *)
LEMMA DoneKeeps ==
  ASSUME Whole, NEW u \in Users, pc[u] # "idle", Done(u)
  PROVE  /\ Clean' /\ OneAtATime' /\ Locked'
         /\ Removing' = Removing \ {u} /\ u \in Removing /\ crossed' = crossed
         /\ {"members", "admin"} \subseteq crossed \/ Removing' = {}
         /\ pc' \in [Users -> Statements] /\ banned' \subseteq Users /\ lists' \subseteq Users /\ drops' \subseteq Users
         /\ heir' \in [Users -> Users \cup {NoUser}] /\ snap' \in [Users -> Nat] /\ lockedBy' \in Users \cup {NoUser}
         /\ \A v \in Users \ {u} : heir'[v] = heir[v] /\ snap'[v] = snap[v] /\ pc'[v] = pc[v]
         /\ heir'[u] = NoUser
<1>1. TypeOK /\ Clean /\ OneAtATime /\ Locked
  BY DEF Whole, GroupsInv
<1>2. /\ pc' = [pc EXCEPT ![u] = "idle"] /\ banned' = banned \ {u} /\ lists' = lists \ {u} /\ drops' = drops \ {u}
      /\ heir' = [heir EXCEPT ![u] = NoUser] /\ snap' = [snap EXCEPT ![u] = 0]
      /\ lockedBy' = (IF lockedBy = u THEN NoUser ELSE lockedBy) /\ crossed' = crossed
  BY DEF Done, Goto
<1>3. /\ pc'[u] = "idle" /\ heir'[u] = NoUser
      /\ \A v \in Users \ {u} : heir'[v] = heir[v] /\ snap'[v] = snap[v] /\ pc'[v] = pc[v]
  BY <1>1, <1>2 DEF TypeOK
<1>4. Removing' = Removing \ {u} /\ u \in Removing
  BY <1>3 DEF Removing
<1>5. Clean'
  BY <1>1, <1>2, <1>3, GroupsAssumption DEF Clean
<1>6. OneAtATime' /\ ({"members", "admin"} \subseteq crossed \/ Removing' = {})
  BY <1>1, <1>2, <1>4 DEF OneAtATime
<1>7. Locked'
  BY <1>1, <1>2, <1>3 DEF Locked
<1>8. /\ pc' \in [Users -> Statements] /\ banned' \subseteq Users /\ lists' \subseteq Users /\ drops' \subseteq Users
      /\ heir' \in [Users -> Users \cup {NoUser}] /\ snap' \in [Users -> Nat] /\ lockedBy' \in Users \cup {NoUser}
  BY <1>1, <1>2 DEF TypeOK, Statements
<1> QED BY <1>2, <1>3, <1>4, <1>5, <1>6, <1>7, <1>8

LEMMA AbortKeeps ==
  ASSUME Whole, NEW u \in Users, Abort(u) \/ Alone(u)
  PROVE  Whole'
<1>1. Done(u) /\ UNCHANGED <<accounts, group>> /\ pc[u] # "idle"
  BY DEF Abort, Alone
<1>2. /\ Clean' /\ OneAtATime' /\ Locked'
      /\ Removing' = Removing \ {u} /\ crossed' = crossed
      /\ \A v \in Users \ {u} : heir'[v] = heir[v] /\ snap'[v] = snap[v] /\ pc'[v] = pc[v]
      /\ heir'[u] = NoUser
  BY <1>1, DoneKeeps
<1>3. TypeOK'
  BY <1>1, <1>2, DoneKeeps DEF TypeOK, Whole, GroupsInv, group
<1>4. /\ Members' = Members /\ CountMatches' /\ OneAdmin'
      /\ \A v, w : IsNext(v, w)' <=> IsNext(v, w)
  BY <1>1, <1>2, GroupStays
<1>5. Recounts' /\ Promises'
  <2>1. Removing \subseteq Users /\ lists' = lists \ {u} /\ drops' = drops \ {u} /\ role' = role
    BY <1>1 DEF Removing, Done, group
  <2> QED BY <1>2, <1>4, <2>1 DEF Recounts, Promises, Whole, GroupsInv
<1>6. HeirIsNext'
  BY <1>1, <1>2, <1>4 DEF HeirIsNext, Whole, Done
<1> QED BY <1>2, <1>3, <1>4, <1>5, <1>6 DEF Whole, GroupsInv

(* The user goes: whoever it has promoted is the admin, and the counter is what
   it has counted. *)
LEMMA CommitKeeps ==
  ASSUME Whole, NEW u \in Users, Commit(u)
  PROVE  Whole'
<1>1. TypeOK /\ CountMatches /\ OneAdmin /\ Recounts /\ Promises /\ Members \subseteq Users
  BY MembersAreUsers DEF Whole, GroupsInv
<1>2. pc[u] = "commit" /\ Done(u) /\ accounts' = IF u \in banned THEN accounts ELSE accounts \ {u}
  BY DEF Commit
<1>3. /\ Clean' /\ OneAtATime' /\ Locked' /\ u \in Removing /\ crossed' = crossed
      /\ {"members", "admin"} \subseteq crossed \/ Removing' = {}
  BY <1>2, DoneKeeps
<1>4. Recounts' /\ Promises'
  BY <1>3 DEF Recounts, Promises
<1>5. HeirIsNext'
  BY <1>3 DEF HeirIsNext, Clean, Removing
<1>7. ASSUME TypeOK', CountMatches', OneAdmin' PROVE Whole'
  BY <1>3, <1>4, <1>5, <1>7 DEF Whole, GroupsInv
<1>8. CASE u \in drops
  <2>1. /\ exists' = FALSE /\ count' = 0 /\ role' = [v \in Users |-> "none"] /\ perms' = [v \in Users |-> {}]
        /\ UNCHANGED <<joined, joins>>
    BY <1>8 DEF Commit, DeleteGroup, SetMembers
  <2>2. TypeOK'
    <3>1. accounts' \subseteq Users
      BY <1>1, <1>2 DEF TypeOK
    <3> QED BY <1>1, <1>2, <2>1, <3>1, DoneKeeps DEF TypeOK
  <2>3. CountMatches' /\ OneAdmin'
    BY <2>1 DEF CountMatches, OneAdmin
  <2> QED BY <1>7, <2>2, <2>3
<1>9. CASE u \notin drops
  <2>1. /\ role' = [v \in Users |-> RoleAfter(u, v)]
        /\ perms' = [v \in Users |-> IF v \in {u, heir[u]} THEN {} ELSE perms[v]]
        /\ count' = (IF u \in lists /\ exists THEN snap[u] ELSE count)
        /\ UNCHANGED <<exists, joined, joins>>
    BY <1>9 DEF Commit, SetMembers
  <2>2. TypeOK'
    <3>1. accounts' \subseteq Users
      BY <1>1, <1>2 DEF TypeOK
    <3>2. role' \in [Users -> {"none", "member", "moderator", "admin"}] /\ perms' \in [Users -> SUBSET Perms] /\ count' \in Nat
      BY <1>1, <2>1 DEF TypeOK, RoleAfter
    <3> QED BY <1>1, <1>2, <2>1, <3>1, <3>2, DoneKeeps DEF TypeOK
  <2>3. role'[u] = "none" /\ \A v \in Users \ {u} : role'[v] = IF v = heir[u] THEN "admin" ELSE role[v]
    BY <2>1 DEF RoleAfter
  <2>4. CountMatches'
    <3>1. SUFFICES ASSUME exists, "members" \notin crossed
                   PROVE  count' = Cardinality(Members') /\ count' <= MaxMember
      BY <1>3, <2>1 DEF CountMatches
    <3>2. /\ u \in lists <=> u \in Members
          /\ heir[u] # NoUser => heir[u] \in Members \ {u}
          /\ u \in lists => snap[u] = Cardinality(Members \ {u})
      BY <1>1, <1>2, <1>3, <3>1 DEF Recounts
    <3>3. Members' = Members \ {u}
      BY <2>3, <3>2, GroupsAssumption DEF Members
    <3>4. count = Cardinality(Members) /\ count <= MaxMember
      BY <1>1, <3>1 DEF CountMatches
    <3>5. CASE u \in Members
      <4>1. Cardinality(Members \ {u}) = Cardinality(Members) - 1 /\ Cardinality(Members) \in Nat
        BY <3>5, OneLess
      <4> QED BY <2>1, <3>1, <3>2, <3>3, <3>4, <3>5, <4>1, GroupsAssumption
    <3>6. CASE u \notin Members
      <4>1. Members' = Members
        BY <3>3, <3>6
      <4> QED BY <2>1, <3>2, <3>4, <3>6, <4>1
    <3> QED BY <3>5, <3>6
  <2>5. OneAdmin'
    <3>1. SUFFICES ASSUME exists, "admin" \notin crossed
                   PROVE  \E v \in Users : Admins' = {v}
      BY <1>3, <2>1 DEF OneAdmin
    <3>2. /\ heir[u] # NoUser => role[u] = "admin" /\ heir[u] \in Members \ {u}
          /\ role[u] = "admin" => heir[u] # NoUser
      BY <1>1, <1>2, <1>3, <1>9, <3>1 DEF Promises
    <3>3. PICK a \in Users : Admins = {a}
      BY <1>1, <3>1 DEF OneAdmin
    <3>4. CASE u = a
      <4>1. heir[u] \in Users /\ Admins' = {heir[u]}
        BY <1>1, <2>3, <3>2, <3>3, <3>4 DEF Admins
      <4> QED BY <4>1
    <3>5. CASE u # a
      <4>1. heir[u] = NoUser
        BY <3>2, <3>3, <3>5 DEF Admins
      <4>2. Admins' = {a}
        BY <2>3, <3>3, <3>5, <4>1, GroupsAssumption DEF Admins
      <4> QED BY <4>2
    <3> QED BY <3>4, <3>5
  <2> QED BY <1>7, <2>2, <2>4, <2>5
<1> QED BY <1>8, <1>9

-----------------------------------------------------------------------------
LEMMA InitWhole == Init => Whole
<1> SUFFICES ASSUME Init PROVE Whole
  OBVIOUS
<1>1. /\ accounts = Users /\ exists = TRUE /\ count = 1 /\ joins = 1 /\ banned = {} /\ lists = {} /\ drops = {}
      /\ role = [u \in Users |-> IF u = Creator THEN "admin" ELSE "none"] /\ perms = [u \in Users |-> {}]
      /\ joined = [u \in Users |-> 0] /\ pc = [u \in Users |-> "idle"] /\ heir = [u \in Users |-> NoUser]
      /\ snap = [u \in Users |-> 0] /\ lockedBy = NoUser /\ crossed = {}
  BY DEF Init, Create
<1>2. TypeOK
  BY <1>1 DEF TypeOK, Statements
<1>3. Members = {Creator} /\ Admins = {Creator} /\ Removing = {}
  BY <1>1, GroupsAssumption DEF Members, Admins, Removing
<1>4. CountMatches
  <2>1. Cardinality({Creator}) = 1
    BY FS_Singleton
  <2> QED BY <1>1, <1>3, <2>1, GroupsAssumption DEF CountMatches
<1>5. OneAdmin
  BY <1>3, GroupsAssumption DEF OneAdmin
<1>6. Clean /\ OneAtATime /\ Locked /\ Recounts /\ Promises /\ HeirIsNext
  BY <1>1, <1>3, GroupsAssumption DEF Clean, OneAtATime, Locked, Recounts, Promises, HeirIsNext
<1> QED BY <1>2, <1>4, <1>5, <1>6 DEF Whole, GroupsInv

LEMMA NextKeeps == Whole /\ [Next]_vars => Whole'
<1> SUFFICES ASSUME Whole, [Next]_vars PROVE Whole'
  OBVIOUS
<1>1. CASE Operation
  BY <1>1, OperationsKeep
<1>2. CASE (\E u \in Deleters : Begin(u)) \/ (\E u \in Suspects : BeginBan(u))
  BY <1>2, BeginKeeps, GroupsAssumption
<1>3. CASE \E u \in Deleters \cup Suspects : Removal(u)
  <2>1. PICK u \in Users : Removal(u)
    BY <1>3, GroupsAssumption
  <2> QED BY <2>1, StatementsKeep, AbortKeeps, CommitKeeps DEF Removal
<1>4. CASE UNCHANGED vars
  BY <1>4 DEF vars, group, deletion, Whole, GroupsInv, OneAdmin, HeirIsNext, IsNext, Before, TypeOK, CountMatches,
              Clean, OneAtATime, Locked, Recounts, Promises, Members, Admins, Removing
<1> QED BY <1>1, <1>2, <1>3, <1>4 DEF Next

LEMMA WholeHolds == Spec => []Whole
BY InitWhole, NextKeeps, PTL DEF Spec

(* The rows have their types, and current_member is the number of members and
   within max_member, through the operations of groups/repo.go and through the
   deletions and suspensions (account_repo.go, admin.go) that no join or
   departure crosses. *)
THEOREM GroupsInvHolds == Spec => []GroupsInv
<1>1. Whole => GroupsInv
  BY DEF Whole
<1> QED BY <1>1, WholeHolds, PTL

(* A group has one admin: TransferAdmin, LeaveAdmin, SetRole, DeleteUser and
   leaveGroups move the role and never leave two behind, or none. *)
THEOREM OneAdminHolds == Spec => []OneAdmin
<1>1. Whole => OneAdmin
  BY DEF Whole
<1> QED BY <1>1, WholeHolds, PTL

(* The heir that EarliestOtherMember gives to DeleteUser is next in line until
   the transaction ends: the lock of LockGroup keeps it so. *)
THEOREM HeirIsNextHolds == Spec => []HeirIsNext
<1>1. Whole => HeirIsNext
  BY DEF Whole
<1> QED BY <1>1, WholeHolds, PTL
=============================================================================
