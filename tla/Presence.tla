------------------------------ MODULE Presence -------------------------------
(***************************************************************************)
(* Who is shown as online: internal/presence on the hub's hooks.           *)
(*                                                                         *)
(* Of the hub (module Hub) only matters who has a connection, and that it  *)
(* starts a hook at every change of it, each on a goroutine of its own: of *)
(* the hooks that wait for Service.mu any may go first.  What they write   *)
(* to last_seen_at is left out.  An announcement takes two steps: the rows *)
(* are read, and then the state that the hub has at that moment goes out;  *)
(* nothing blocks between looking at the hub and writing to it.  The       *)
(* announcements are followed by a friend who stays connected.             *)
(***************************************************************************)
EXTENDS Naturals

CONSTANTS Users,
          MaxChanges,   \* bound: connections made and lost
          MaxSettings   \* bound: changes of "hide my last seen"

VARIABLES online,       \* users with a connection
          hooks,        \* user -> hooks that have not run yet, by kind: TRUE is online
          pending,      \* Service.pending: user -> "none", "armed" or "fired"
          armed,        \* user -> grace timers that run, in pending or not
          fired,        \* user -> grace timers whose function has not run yet
          reading,      \* user -> announcements that have not read the rows
          telling,      \* user -> hide flag -> announcements that read it so
          hide,         \* users.hide_last_seen
          blind,        \* the same of the friend, who then is told nothing
          view,         \* user -> what the friend's app shows
          changes,      \* connections made and lost so far
          settings      \* changes of settings so far

vars == <<online, hooks, pending, armed, fired, reading, telling, hide, blind, view, changes, settings>>

-----------------------------------------------------------------------------
Nothing == [x \in BOOLEAN |-> 0]

\* What the friend should see of u: the entry of GET /api/friends/presence.
Entry(u) == IF hide[u] THEN "hidden" ELSE IF u \in online THEN "online" ELSE "offline"

Init == /\ online = {}
        /\ hooks = [u \in Users |-> Nothing]
        /\ pending = [u \in Users |-> "none"]
        /\ armed = [u \in Users |-> 0]
        /\ fired = [u \in Users |-> 0]
        /\ reading = [u \in Users |-> 0]
        /\ telling = [u \in Users |-> Nothing]
        /\ hide = [u \in Users |-> FALSE]
        /\ blind = FALSE
        /\ view = [u \in Users |-> "offline"]
        /\ changes = 0
        /\ settings = 0

\* The hub: the first device of u connects, or the last one goes.
HubChanged(u) == /\ changes < MaxChanges
                 /\ changes' = changes + 1
                 /\ online' = IF u \in online THEN online \ {u} ELSE online \cup {u}
                 /\ hooks' = [hooks EXCEPT ![u][u \notin online] = @ + 1]
                 /\ UNCHANGED <<pending, armed, fired, reading, telling, hide, blind, view, settings>>

Announces(u) == reading' = [reading EXCEPT ![u] = @ + 1]

\* Changed, online: back within the grace, or an announcement.
CameOnline(u) ==
    /\ hooks[u][TRUE] > 0
    /\ hooks' = [hooks EXCEPT ![u][TRUE] = @ - 1]
    /\ IF pending[u] = "none"
       THEN Announces(u) /\ UNCHANGED <<pending, armed>>
       ELSE /\ pending' = [pending EXCEPT ![u] = "none"]
            /\ armed' = [armed EXCEPT ![u] = IF pending[u] = "armed" THEN @ - 1 ELSE @]
            /\ UNCHANGED reading
    /\ UNCHANGED <<online, fired, telling, hide, blind, view, changes, settings>>

\* Changed, offline: the grace begins, unless one is running.
WentOffline(u) ==
    /\ hooks[u][FALSE] > 0
    /\ hooks' = [hooks EXCEPT ![u][FALSE] = @ - 1]
    /\ IF pending[u] = "none"
       THEN pending' = [pending EXCEPT ![u] = "armed"] /\ armed' = [armed EXCEPT ![u] = @ + 1]
       ELSE UNCHANGED <<pending, armed>>
    /\ UNCHANGED <<online, fired, reading, telling, hide, blind, view, changes, settings>>

\* A timer fires: the one in pending, or one that pending has lost.
TimerFires(u) ==
    /\ armed[u] > 0
    /\ \/ pending[u] = "armed" /\ pending' = [pending EXCEPT ![u] = "fired"]
       \/ armed[u] > (IF pending[u] = "armed" THEN 1 ELSE 0) /\ UNCHANGED pending
    /\ armed' = [armed EXCEPT ![u] = @ - 1]
    /\ fired' = [fired EXCEPT ![u] = @ + 1]
    /\ UNCHANGED <<online, hooks, reading, telling, hide, blind, view, changes, settings>>

\* Its function deletes the entry of the user, whichever timer that holds now.
GraceEnds(u) == /\ fired[u] > 0
                /\ fired' = [fired EXCEPT ![u] = @ - 1]
                /\ pending' = [pending EXCEPT ![u] = "none"]
                /\ Announces(u)
                /\ UNCHANGED <<online, hooks, armed, telling, hide, blind, view, changes, settings>>

\* broadcast: PresenceOf; a friend who hides gets nothing.
PresenceOf(u) ==
    /\ reading[u] > 0
    /\ reading' = [reading EXCEPT ![u] = @ - 1]
    /\ telling' = IF blind THEN telling ELSE [telling EXCEPT ![u][hide[u]] = @ + 1]
    /\ UNCHANGED <<online, hooks, pending, armed, fired, hide, blind, view, changes, settings>>

\* broadcast: the state of this moment.
Broadcast(u, h) ==
    /\ telling[u][h] > 0
    /\ telling' = [telling EXCEPT ![u][h] = @ - 1]
    /\ view' = [view EXCEPT ![u] = IF h THEN "hidden" ELSE IF u \in online THEN "online" ELSE "offline"]
    /\ UNCHANGED <<online, hooks, pending, armed, fired, reading, hide, blind, changes, settings>>

\* SetHidden: the setting, and what the friend is told of it.
SetHidden(u) == /\ settings < MaxSettings
                /\ settings' = settings + 1
                /\ hide' = [hide EXCEPT ![u] = ~@]
                /\ Announces(u)
                /\ UNCHANGED <<online, hooks, pending, armed, fired, telling, blind, view, changes>>

\* GET /api/friends/presence, whenever the friend's list opens.
Friends == /\ ~blind
           /\ view' = [u \in Users |-> Entry(u)]
           /\ UNCHANGED <<online, hooks, pending, armed, fired, reading, telling, hide, blind, changes, settings>>

\* SetHidden by the friend; after turning it off the app fetches the list again.
FriendHides == /\ settings < MaxSettings
               /\ settings' = settings + 1
               /\ blind' = ~blind
               /\ view' = IF blind THEN [u \in Users |-> Entry(u)] ELSE view
               /\ UNCHANGED <<online, hooks, pending, armed, fired, reading, telling, hide, changes>>

Next == \/ \E u \in Users : \/ HubChanged(u) \/ CameOnline(u) \/ WentOffline(u) \/ TimerFires(u) \/ GraceEnds(u)
                            \/ PresenceOf(u) \/ SetHidden(u) \/ \E h \in BOOLEAN : Broadcast(u, h)
        \/ Friends \/ FriendHides

Spec == Init /\ [][Next]_vars
-----------------------------------------------------------------------------
\* No hook, timer or announcement of u is under way.
Settled(u) == hooks[u] = Nothing /\ armed[u] = 0 /\ fired[u] = 0 /\ reading[u] = 0 /\ telling[u] = Nothing

\* "back within the grace: friends never saw them leave" (presence.go:85), which
\* is why no announcement follows then: what a friend who follows the events
\* sees is right once every hook, timer and announcement has run.
PresenceIsRight == \A u \in Users : Settled(u) /\ ~blind => view[u] = Entry(u)
=============================================================================
