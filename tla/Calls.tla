-------------------------------- MODULE Calls --------------------------------
(***************************************************************************)
(* 1:1 voice calls: the Manager of internal/calls/calls.go, with the call  *)
(* log in Postgres and the connections of the websocket hub it hears of.   *)
(*                                                                         *)
(* Every goroutine that is inside the Manager is a task.  A task takes one *)
(* step per section under Manager.mu, per statement on the call log and    *)
(* per round of events sent, and tasks interleave freely between them.  A  *)
(* connection's reader handles its events one after the other.  Timers and *)
(* the hub's Connected and Disconnected run on goroutines of their own; a  *)
(* timer that has fired can no longer be stopped.                          *)
(*                                                                         *)
(* Time is abstracted: an armed timer may fire at any moment.  The daily   *)
(* allowance, the per-minute limit on starts and database failures are     *)
(* nondeterministic refusals.  Call payloads are left out.                 *)
(***************************************************************************)
EXTENDS Integers, FiniteSets

CONSTANTS Users,        \* people
          Conns,        \* websocket connections; each one connects once
          Owner,        \* connection -> its user
          Device,       \* connection -> the device it was opened by
          CallIds,      \* ids of calls (bound: calls in a behaviour)
          Callers,      \* bound: the users who place calls
          Untouched,    \* bound: connections whose user only lets them ring
          InitUp,       \* connections that are registered at the start
          MaxSignals,   \* bound on CallSignal per side per call
          Signallers,   \* bound: the users who send CallSignal
          MaxRestarts,  \* bound: server restarts
          Flaky,        \* bound: connections that may break
          Slow,         \* bound: connections whose send buffer may be full
          Breakups,     \* bound: friendships {a, b} that may end
          May,          \* what may go wrong: a subset of Troubles
          NoUser, NoConn, NoCall

\* Postgres fails, there is a daily allowance of call time, too many calls are
\* started in a minute.
Troubles == {"fail", "daily", "limit"}

ASSUME CallsAssumption == /\ Owner \in [Conns -> Users]
                          /\ InitUp \subseteq Conns
                          /\ MaxSignals \in Nat
                          /\ MaxRestarts \in Nat
                          /\ May \subseteq Troubles
                          /\ NoUser \notin Users
                          /\ NoConn \notin Conns
                          /\ NoCall \notin CallIds

VARIABLES friends,      \* friendships: sets {a, b}
          breaking,     \* ended friendships whose EndBetween is still to come
          alive,        \* connections whose socket works
          up,           \* connections registered with the hub
          used,         \* connections that were ever opened
          phase,        \* call -> "free", "ringing", "active" (in Manager.calls), "over"
          caller,       \* call -> the user who called
          callee,       \* call -> the user who was called
          dev,          \* call -> user -> its connection in the call
          timer,        \* call -> the armed call.timer: "ring", "max", "limit" or "off"
          lost,         \* call -> users in call.lost
          grace,        \* call -> users whose reconnect timer is armed
          signals,      \* call -> user -> signals counted
          byUser,       \* Manager.byUser
          tasks,        \* goroutines inside the Manager
          log,          \* call -> its row in the table calls
          shown,        \* <<connection, call>>: the device shows an incoming call
          answered,     \* history: calls that were answered
          restarts      \* history: server restarts

hub == <<alive, up, used>>
people == <<caller, callee>>
inCall == <<dev, timer, lost, grace, signals>>
memory == <<phase, people, inCall, byUser>>
social == <<friends, breaking>>
vars == <<social, hub, memory, tasks, log, shown, answered, restarts>>

-----------------------------------------------------------------------------
Reasons == {"", "ended", "missed", "declined", "cancelled", "busy",
            "disconnected", "unfriended", "daily_limit", "interrupted"}

RowStates == {"none", "ringing", "active", "ended", "missed", "declined",
              "cancelled", "busy", "failed", "unfriended", "disconnected", "daily_limit"}

NoRow == [state |-> "none", answered |-> FALSE, ended |-> FALSE, reason |-> ""]

Rows == [state : RowStates, answered : BOOLEAN, ended : BOOLEAN, reason : Reasons]

HandlerSteps == {"start.check", "start.lock", "start.insert", "start.ring", "start.busy",
                 "accept.read", "accept.lock", "accept.answer", "accept.tell"}
EndSteps == {"end.lock", "end.finish", "end.tell"}
ConnSteps == {"connected", "connected.ring", "disconnected"}
Steps == HandlerSteps \cup EndSteps \cup ConnSteps

\* A goroutine: its next step, the connection it is about, whether it runs on
\* that connection's reader, and its local variables.
Tasks == [at : Steps, conn : Conns \cup {NoConn}, reader : BOOLEAN,
          to : Users \cup {NoUser}, call : CallIds \cup {NoCall},
          reason : Reasons, was : BOOLEAN]

Handler(at, c, to, id) ==
    [at |-> at, conn |-> c, reader |-> TRUE, to |-> to, call |-> id, reason |-> "", was |-> FALSE]

Notice(at, c) ==
    [at |-> at, conn |-> c, reader |-> FALSE, to |-> NoUser, call |-> NoCall, reason |-> "", was |-> FALSE]

\* A goroutine that is about to call Manager.end.
Ending(id, reason) ==
    [at |-> "end.lock", conn |-> NoConn, reader |-> FALSE, to |-> NoUser, call |-> id,
     reason |-> reason, was |-> FALSE]

Live == {id \in CallIds : phase[id] \in {"ringing", "active"}}

Parties(id) == {caller[id], callee[id]}

Peer(id, u) == IF u = caller[id] THEN callee[id] ELSE caller[id]

\* start has not told the callee yet: nobody else knows the call.
Starting(id) == \E t \in tasks : t.call = id /\ t.at \in {"start.insert", "start.ring"}

\* A phone learns of a call from an event, or from the push that start ends with.
Knows(c, id) == <<c, id>> \in shown \/ (id \in Live /\ ~Starting(id))

Busy(c) == \E t \in tasks : t.reader /\ t.conn = c

\* Task t takes its next step: it becomes the tasks in new.
Continue(t, new) == tasks' = (tasks \ {t}) \cup new

At(t, step) == {[t EXCEPT !.at = step]}

-----------------------------------------------------------------------------
Init == /\ friends = {{a, b} : a, b \in Users}
        /\ breaking = {}
        /\ alive = InitUp
        /\ up = InitUp
        /\ used = InitUp
        /\ phase = [id \in CallIds |-> "free"]
        /\ caller = [id \in CallIds |-> NoUser]
        /\ callee = [id \in CallIds |-> NoUser]
        /\ dev = [id \in CallIds |-> [u \in Users |-> NoConn]]
        /\ timer = [id \in CallIds |-> "off"]
        /\ lost = [id \in CallIds |-> {}]
        /\ grace = [id \in CallIds |-> {}]
        /\ signals = [id \in CallIds |-> [u \in Users |-> 0]]
        /\ byUser = [u \in Users |-> NoCall]
        /\ tasks = {}
        /\ log = [id \in CallIds |-> NoRow]
        /\ shown = {}
        /\ answered = {}
        /\ restarts = 0

-----------------------------------------------------------------------------
(* CallStart *)

\* The reader of c gets CallStart {to}; a call to oneself is refused.
CallStart(c, to) ==
    /\ c \in alive /\ ~Busy(c)
    /\ Owner[c] \in Callers /\ c \notin Untouched /\ to # Owner[c]
    /\ \E id \in CallIds : phase[id] = "free"
    /\ tasks' = tasks \cup {Handler("start.check", c, to, NoCall)}
    /\ UNCHANGED <<social, hub, memory, log, shown, answered, restarts>>

\* start: AreFriends says yes (its cache is invalidated before EndBetween), and
\* the allowance is not used up.
StartCheck(t) ==
    /\ t.at = "start.check"
    /\ {Owner[t.conn], t.to} \in friends \cup breaking
    /\ Continue(t, At(t, "start.lock"))
    /\ UNCHANGED <<social, hub, memory, log, shown, answered, restarts>>

\* start: not friends, nothing left of the allowance, or Postgres failed.
StartRefused(t) ==
    /\ t.at = "start.check"
    /\ {Owner[t.conn], t.to} \notin friends \/ May \cap {"daily", "fail"} # {}
    /\ Continue(t, {})
    /\ UNCHANGED <<social, hub, memory, log, shown, answered, restarts>>

\* start, under mu: the caller is in a call already, or allowStart says no.
StartInCall(t) ==
    /\ t.at = "start.lock"
    /\ byUser[Owner[t.conn]] # NoCall \/ "limit" \in May
    /\ Continue(t, {})
    /\ UNCHANGED <<social, hub, memory, log, shown, answered, restarts>>

\* start, under mu: the callee is in another call.
StartBusy(t, id) ==
    /\ t.at = "start.lock"
    /\ byUser[Owner[t.conn]] = NoCall
    /\ byUser[t.to] # NoCall
    /\ phase[id] = "free"
    /\ phase' = [phase EXCEPT ![id] = "over"]
    /\ caller' = [caller EXCEPT ![id] = Owner[t.conn]]
    /\ callee' = [callee EXCEPT ![id] = t.to]
    /\ Continue(t, {[t EXCEPT !.at = "start.busy", !.call = id]})
    /\ UNCHANGED <<social, hub, inCall, byUser, log, shown, answered, restarts>>

\* Mutant: start does not look whether the callee is in a call.
StartRingOverBusy(t, id) ==
    /\ t.at = "start.lock"
    /\ byUser[Owner[t.conn]] = NoCall
    /\ phase[id] = "free"
    /\ phase' = [phase EXCEPT ![id] = "ringing"]
    /\ caller' = [caller EXCEPT ![id] = Owner[t.conn]]
    /\ callee' = [callee EXCEPT ![id] = t.to]
    /\ dev' = [dev EXCEPT ![id][Owner[t.conn]] = t.conn]
    /\ timer' = [timer EXCEPT ![id] = "ring"]
    /\ byUser' = [byUser EXCEPT ![Owner[t.conn]] = id, ![t.to] = id]
    /\ Continue(t, {[t EXCEPT !.at = "start.insert", !.call = id]})
    /\ UNCHANGED <<social, hub, lost, grace, signals, log, shown, answered, restarts>>

\* start, under mu: the call rings.
StartCall(t, id) ==
    /\ t.at = "start.lock"
    /\ byUser[Owner[t.conn]] = NoCall
    /\ byUser[t.to] = NoCall
    /\ phase[id] = "free"
    /\ phase' = [phase EXCEPT ![id] = "ringing"]
    /\ caller' = [caller EXCEPT ![id] = Owner[t.conn]]
    /\ callee' = [callee EXCEPT ![id] = t.to]
    /\ dev' = [dev EXCEPT ![id][Owner[t.conn]] = t.conn]
    /\ timer' = [timer EXCEPT ![id] = "ring"]
    /\ byUser' = [byUser EXCEPT ![Owner[t.conn]] = id, ![t.to] = id]
    /\ Continue(t, {[t EXCEPT !.at = "start.insert", !.call = id]})
    /\ UNCHANGED <<social, hub, lost, grace, signals, log, shown, answered, restarts>>

\* What a statement on the call log leaves behind: its effect, or nothing when
\* Postgres fails (every failure is only logged).
Write(id, row) == \/ log' = [log EXCEPT ![id] = row]
                  \/ "fail" \in May /\ UNCHANGED log

\* record: InsertCall of the ringing call.
StartInsert(t) ==
    /\ t.at = "start.insert"
    /\ Write(t.call, [NoRow EXCEPT !.state = "ringing"])
    /\ Continue(t, At(t, "start.ring"))
    /\ UNCHANGED <<social, hub, memory, shown, answered, restarts>>

\* CallRinging to the caller, CallIncoming to every device of the callee.
StartRing(t) ==
    /\ t.at = "start.ring"
    /\ shown' = shown \cup ({c \in up : Owner[c] = t.to} \X {t.call})
    /\ Continue(t, {})
    /\ UNCHANGED <<social, hub, memory, log, answered, restarts>>

\* record: InsertCall of the refused call, then CallEnded "busy" to the caller.
StartBusyInsert(t) ==
    /\ t.at = "start.busy"
    /\ Write(t.call, [state |-> "busy", answered |-> FALSE, ended |-> TRUE, reason |-> "busy"])
    /\ Continue(t, {})
    /\ UNCHANGED <<social, hub, memory, shown, answered, restarts>>

-----------------------------------------------------------------------------
(* CallAccept *)

\* The reader of c gets CallAccept for a call it knows of.
CallAccept(c, id) ==
    /\ c \in alive /\ ~Busy(c)
    /\ Knows(c, id) /\ Owner[c] = callee[id] /\ c \notin Untouched
    /\ shown' = shown \ {<<c, id>>}
    /\ tasks' = tasks \cup {Handler("accept.read", c, NoUser, id)}
    /\ UNCHANGED <<social, hub, memory, log, answered, restarts>>

\* accept: the first look at the call, and what both sides have left today.
AcceptRead(t) ==
    /\ t.at = "accept.read"
    /\ \/ Continue(t, At(t, "accept.lock"))
       \/ {"daily", "fail"} \subseteq May /\ t.call \in Live /\ Continue(t, {})
    /\ UNCHANGED <<social, hub, memory, log, shown, answered, restarts>>

\* accept: nothing left today, the call is ended.
AcceptNoTime(t) ==
    /\ t.at = "accept.read"
    /\ "daily" \in May
    /\ t.call \in Live /\ callee[t.call] = Owner[t.conn]
    /\ Continue(t, {[t EXCEPT !.at = "end.lock", !.reason = "daily_limit"]})
    /\ UNCHANGED <<social, hub, memory, log, shown, answered, restarts>>

Answerable(t) == phase[t.call] = "ringing" /\ callee[t.call] = Owner[t.conn]

\* accept, under mu: the call is gone, not for this user, or answered already.
AcceptUnknown(t) ==
    /\ t.at = "accept.lock"
    /\ ~Answerable(t)
    /\ Continue(t, {})
    /\ UNCHANGED <<social, hub, memory, log, shown, answered, restarts>>

\* Mutant: accept stops the ring timer and arms no other.
AcceptNoTimer(t) ==
    /\ t.at = "accept.lock"
    /\ Answerable(t)
    /\ phase' = [phase EXCEPT ![t.call] = "active"]
    /\ dev' = [dev EXCEPT ![t.call][Owner[t.conn]] = t.conn]
    /\ timer' = [timer EXCEPT ![t.call] = "off"]
    /\ answered' = answered \cup {t.call}
    /\ Continue(t, At(t, "accept.answer"))
    /\ UNCHANGED <<social, hub, people, lost, grace, signals, byUser, log, shown, restarts>>

\* accept, under mu: the call is active, on this device, for a limited time.
\* The ring timer is stopped; if it has fired, its goroutine still comes.
AcceptCall(t) ==
    /\ t.at = "accept.lock"
    /\ Answerable(t)
    /\ phase' = [phase EXCEPT ![t.call] = "active"]
    /\ dev' = [dev EXCEPT ![t.call][Owner[t.conn]] = t.conn]
    /\ \E limit \in {"max"} \cup (IF "daily" \in May THEN {"limit"} ELSE {}) :
          timer' = [timer EXCEPT ![t.call] = limit]
    /\ answered' = answered \cup {t.call}
    /\ Continue(t, At(t, "accept.answer"))
    /\ UNCHANGED <<social, hub, people, lost, grace, signals, byUser, log, shown, restarts>>

\* Mutant: AnswerCall without "AND state = 'ringing'".
AnswerAny(t) ==
    /\ t.at = "accept.answer"
    /\ IF log[t.call].state # "none"
       THEN Write(t.call, [log[t.call] EXCEPT !.state = "active", !.answered = TRUE])
       ELSE UNCHANGED log
    /\ Continue(t, At(t, "accept.tell"))
    /\ UNCHANGED <<social, hub, memory, shown, answered, restarts>>

\* AnswerCall: a ringing row becomes active.
AcceptAnswer(t) ==
    /\ t.at = "accept.answer"
    /\ IF log[t.call].state = "ringing"
       THEN Write(t.call, [log[t.call] EXCEPT !.state = "active", !.answered = TRUE])
       ELSE UNCHANGED log
    /\ Continue(t, At(t, "accept.tell"))
    /\ UNCHANGED <<social, hub, memory, shown, answered, restarts>>

\* Mutant: only the caller is told that the call was answered.
AcceptTellsCaller(t) ==
    /\ t.at = "accept.tell"
    /\ Continue(t, {})
    /\ UNCHANGED <<social, hub, memory, log, shown, answered, restarts>>

\* CallAccepted to the caller; CallEnded "answered_elsewhere" to the callee's
\* other devices, which stop ringing.  WriteToUserExcept skips a device whose
\* buffer is full, and that device stays connected.
AcceptTell(t) ==
    /\ t.at = "accept.tell"
    /\ \E full \in SUBSET Slow :
          shown' = {s \in shown : ~(/\ s[2] = t.call /\ s[1] # t.conn /\ Owner[s[1]] = Owner[t.conn]
                                   /\ s[1] \notin full)}
    /\ Continue(t, {})
    /\ UNCHANGED <<social, hub, memory, log, answered, restarts>>

-----------------------------------------------------------------------------
(* CallSignal, CallDecline and CallEnd *)

\* signal: only a device of the active call, up to MaxSignals times; the data
\* goes to the other device of the call.
CallSignal(c, id) ==
    /\ c \in alive /\ ~Busy(c)
    /\ phase[id] = "active"
    /\ Owner[c] \in Parties(id) \cap Signallers /\ dev[id][Owner[c]] = c
    /\ signals[id][Owner[c]] < MaxSignals
    /\ signals' = [signals EXCEPT ![id][Owner[c]] = @ + 1]
    /\ UNCHANGED <<social, hub, phase, people, dev, timer, lost, grace, byUser,
                   tasks, log, shown, answered, restarts>>

\* hangUp, under mu: why the call ends depends on who asks and when.
HangUpReason(id, u) == IF phase[id] = "active" THEN "ended"
                       ELSE IF u = caller[id] THEN "cancelled" ELSE "declined"

\* The reader of c gets CallEnd or CallDecline for a call of its user.
CallEnd(c, id) ==
    /\ c \in alive /\ ~Busy(c)
    /\ Knows(c, id) /\ id \in Live /\ Owner[c] \in Parties(id) /\ c \notin Untouched
    /\ tasks' = tasks \cup {[Handler("end.lock", c, NoUser, id) EXCEPT
                                !.reason = HangUpReason(id, Owner[c])]}
    /\ UNCHANGED <<social, hub, memory, log, shown, answered, restarts>>

-----------------------------------------------------------------------------
(* end *)

\* end, under mu: the call leaves both maps and its timers are stopped.
EndCall(t) ==
    /\ t.at = "end.lock"
    /\ t.call \in Live
    /\ phase' = [phase EXCEPT ![t.call] = "over"]
    /\ byUser' = [u \in Users |-> IF u \in Parties(t.call) /\ byUser[u] = t.call
                                  THEN NoCall ELSE byUser[u]]
    /\ timer' = [timer EXCEPT ![t.call] = "off"]
    /\ grace' = [grace EXCEPT ![t.call] = {}]
    /\ Continue(t, {[t EXCEPT !.at = "end.finish", !.was = (phase[t.call] = "active")]})
    /\ UNCHANGED <<social, hub, people, dev, lost, signals, log, shown, answered, restarts>>

\* end, under mu: somebody ended the call before.
EndAgain(t) ==
    /\ t.at = "end.lock"
    /\ t.call \notin Live
    /\ Continue(t, {})
    /\ UNCHANGED <<social, hub, memory, log, shown, answered, restarts>>

\* Mutant: the state of the row is the reason, answered or not.
ReasonIsState(t) == t.reason

\* The state an ended call is logged with.
EndState(t) == IF t.was THEN "ended"
               ELSE IF t.reason \in {"disconnected", "unfriended", "daily_limit"} THEN "failed"
               ELSE t.reason

\* FinishCall: closes the row unless it is closed already.
EndFinish(t) ==
    /\ t.at = "end.finish"
    /\ IF log[t.call].state # "none" /\ ~log[t.call].ended
       THEN Write(t.call, [log[t.call] EXCEPT !.state = EndState(t), !.ended = TRUE,
                                              !.reason = t.reason])
       ELSE UNCHANGED log
    /\ Continue(t, At(t, "end.tell"))
    /\ UNCHANGED <<social, hub, memory, shown, answered, restarts>>

\* CallEnded to every device of both sides.
EndTell(t) ==
    /\ t.at = "end.tell"
    /\ shown' = {s \in shown : ~(s[2] = t.call /\ s[1] \in up /\ Owner[s[1]] \in Parties(t.call))}
    /\ Continue(t, {})
    /\ UNCHANGED <<social, hub, memory, log, answered, restarts>>

-----------------------------------------------------------------------------
(* Timers *)

TimerReason(id) == CASE timer[id] = "ring" -> "missed"
                     [] timer[id] = "limit" -> "daily_limit"
                     [] OTHER -> "ended"

\* The call's timer fires: its goroutine is about to call end.  Ringing lasts
\* far longer than the 2 seconds a handler has, so start has returned.
FireTimer(id) ==
    /\ timer[id] # "off"
    /\ timer[id] = "ring" => ~Starting(id)
    /\ timer' = [timer EXCEPT ![id] = "off"]
    /\ tasks' = tasks \cup {Ending(id, TimerReason(id))}
    /\ UNCHANGED <<social, hub, phase, people, dev, lost, grace, signals, byUser,
                   log, shown, answered, restarts>>

\* A reconnect timer fires.  Half a minute is enough for a goroutine of the
\* user that was under way to have run.
FireGrace(id, u) ==
    /\ u \in grace[id]
    /\ \A t \in tasks : t.at = "connected" \/ t.reader => Owner[t.conn] # u
    /\ grace' = [grace EXCEPT ![id] = @ \ {u}]
    /\ tasks' = tasks \cup {Ending(id, "disconnected")}
    /\ UNCHANGED <<social, hub, phase, people, dev, timer, lost, signals, byUser,
                   log, shown, answered, restarts>>

-----------------------------------------------------------------------------
(* Connections *)

\* A device opens a socket, its earlier one being dead, and the hub registers it.
Connect(c) ==
    /\ c \notin used
    /\ \A d \in alive : Device[d] # Device[c]
    /\ alive' = alive \cup {c}
    /\ up' = up \cup {c}
    /\ used' = used \cup {c}
    /\ tasks' = tasks \cup {Notice("connected", c)}
    /\ UNCHANGED <<social, memory, log, shown, answered, restarts>>

\* A socket breaks; the hub has not noticed yet.
SocketDies(c) ==
    /\ c \in Flaky \cap alive
    /\ alive' = alive \ {c}
    /\ UNCHANGED <<social, up, used, memory, tasks, log, shown, answered, restarts>>

\* The hub drops a connection: its reader has ended, or its buffer is full, or
\* the user has too many devices, or was disconnected.
HubRemove(c) ==
    /\ c \in Flaky \cap up
    /\ up' = up \ {c}
    /\ shown' = {s \in shown : s[1] # c}
    /\ tasks' = tasks \cup {Notice("disconnected", c)}
    /\ UNCHANGED <<social, alive, used, memory, log, answered, restarts>>

\* The call of a connection's user, and what Connected does about it.
CallOf(c) == byUser[Owner[c]]
Rings(c) == /\ CallOf(c) # NoCall
            /\ phase[CallOf(c)] = "ringing" /\ callee[CallOf(c)] = Owner[c]
Rejoins(c) == /\ CallOf(c) # NoCall
              /\ phase[CallOf(c)] = "active" /\ Owner[c] \in lost[CallOf(c)]

\* Connected, under mu: no call, or none that this connection changes.
ConnectedIdle(t) ==
    /\ t.at = "connected"
    /\ ~Rings(t.conn) /\ ~Rejoins(t.conn)
    /\ Continue(t, {})
    /\ UNCHANGED <<social, hub, memory, log, shown, answered, restarts>>

\* Connected, under mu: the user is being called.
ConnectedRinging(t) ==
    /\ t.at = "connected"
    /\ Rings(t.conn)
    /\ Continue(t, {[t EXCEPT !.at = "connected.ring", !.call = CallOf(t.conn)]})
    /\ UNCHANGED <<social, hub, memory, log, shown, answered, restarts>>

\* Connected, under mu: an active call moves to the connection.  Its reconnect
\* timer is stopped; if it has fired, its goroutine still comes.
ConnectedRejoins(t) ==
    /\ t.at = "connected"
    /\ Rejoins(t.conn)
    /\ lost' = [lost EXCEPT ![CallOf(t.conn)] = @ \ {Owner[t.conn]}]
    /\ grace' = [grace EXCEPT ![CallOf(t.conn)] = @ \ {Owner[t.conn]}]
    /\ dev' = [dev EXCEPT ![CallOf(t.conn)][Owner[t.conn]] = t.conn]
    /\ Continue(t, {})
    /\ UNCHANGED <<social, hub, phase, people, timer, signals, byUser, log, shown, answered, restarts>>

\* CallIncoming to the device that just came.
ConnectedRing(t) ==
    /\ t.at = "connected.ring"
    /\ shown' = shown \cup (({t.conn} \cap up) \X {t.call})
    /\ Continue(t, {})
    /\ UNCHANGED <<social, hub, memory, log, answered, restarts>>

\* The connection that is in its user's call.
InCall(c) == CallOf(c) # NoCall /\ dev[CallOf(c)][Owner[c]] = c
CancelsCall(c) == InCall(c) /\ phase[CallOf(c)] = "ringing" /\ caller[CallOf(c)] = Owner[c]
DropsOut(c) == InCall(c) /\ phase[CallOf(c)] = "active"

\* Disconnected, under mu: the connection is in no call.
DisconnectedIdle(t) ==
    /\ t.at = "disconnected"
    /\ ~CancelsCall(t.conn) /\ ~DropsOut(t.conn)
    /\ Continue(t, {})
    /\ UNCHANGED <<social, hub, memory, log, shown, answered, restarts>>

\* Disconnected, under mu: the caller's device is gone while it rings.
DisconnectedCancels(t) ==
    /\ t.at = "disconnected"
    /\ CancelsCall(t.conn)
    /\ Continue(t, {Ending(CallOf(t.conn), "cancelled")})
    /\ UNCHANGED <<social, hub, memory, log, shown, answered, restarts>>

\* Mutant: the reconnect timer is not armed.
DropWithoutTimer(t) ==
    /\ t.at = "disconnected"
    /\ DropsOut(t.conn)
    /\ lost' = [lost EXCEPT ![CallOf(t.conn)] = @ \cup {Owner[t.conn]}]
    /\ Continue(t, {})
    /\ UNCHANGED <<social, hub, phase, people, dev, timer, grace, signals, byUser, log, shown, answered, restarts>>

\* Disconnected, under mu: a device of an active call is gone; unless one is
\* armed already, a timer gives it time to come back.
DisconnectedDrops(t) ==
    /\ t.at = "disconnected"
    /\ DropsOut(t.conn)
    /\ lost' = [lost EXCEPT ![CallOf(t.conn)] = @ \cup {Owner[t.conn]}]
    /\ grace' = [grace EXCEPT ![CallOf(t.conn)] =
                    IF Owner[t.conn] \in lost[CallOf(t.conn)] THEN @ ELSE @ \cup {Owner[t.conn]}]
    /\ Continue(t, {})
    /\ UNCHANGED <<social, hub, phase, people, dev, timer, signals, byUser, log, shown, answered, restarts>>

-----------------------------------------------------------------------------
(* Unfriending and restarting *)

\* A friendship ends in Postgres; the cache and the calls will hear of it.
Unfriend(a, b) ==
    /\ {a, b} \in friends \cap Breakups /\ a # b
    /\ friends' = friends \ {{a, b}}
    /\ breaking' = breaking \cup {{a, b}}
    /\ UNCHANGED <<hub, memory, tasks, log, shown, answered, restarts>>

\* EndBetween: a's call, if it is with b, is about to be ended.
EndBetween(a, b) ==
    /\ {a, b} \in breaking
    /\ breaking' = breaking \ {{a, b}}
    /\ tasks' = IF byUser[a] # NoCall /\ Peer(byUser[a], a) = b
                THEN tasks \cup {Ending(byUser[a], "unfriended")}
                ELSE tasks
    /\ UNCHANGED <<friends, hub, memory, log, shown, answered, restarts>>

\* Mutant: nothing is recovered at startup.
NoRecover == log

\* InterruptOpenCalls: every open row is closed.
Recover == [id \in CallIds |->
              IF log[id].state # "none" /\ ~log[id].ended
              THEN [log[id] EXCEPT !.state = IF log[id].answered THEN "ended" ELSE "failed",
                                   !.ended = TRUE, !.reason = "interrupted"]
              ELSE log[id]]

\* The server dies and comes back: all that was in memory is gone.
Restart ==
    /\ restarts < MaxRestarts
    /\ restarts' = restarts + 1
    /\ log' = Recover \/ ("fail" \in May /\ UNCHANGED log)
    /\ phase' = [id \in CallIds |-> IF id \in Live THEN "over" ELSE phase[id]]
    /\ byUser' = [u \in Users |-> NoCall]
    /\ timer' = [id \in CallIds |-> "off"]
    /\ lost' = [id \in CallIds |-> {}]
    /\ grace' = [id \in CallIds |-> {}]
    /\ tasks' = {}
    /\ breaking' = {}
    /\ alive' = {}
    /\ up' = {}
    /\ shown' = {}
    /\ UNCHANGED <<friends, used, people, dev, signals, answered>>

-----------------------------------------------------------------------------
Step(t) == \/ StartCheck(t) \/ StartRefused(t) \/ StartInCall(t)
           \/ \E id \in CallIds : StartBusy(t, id) \/ StartCall(t, id)
           \/ StartInsert(t) \/ StartRing(t) \/ StartBusyInsert(t)
           \/ AcceptRead(t) \/ AcceptNoTime(t) \/ AcceptUnknown(t)
           \/ AcceptCall(t) \/ AcceptAnswer(t) \/ AcceptTell(t)
           \/ EndCall(t) \/ EndAgain(t) \/ EndFinish(t) \/ EndTell(t)
           \/ ConnectedIdle(t) \/ ConnectedRinging(t) \/ ConnectedRejoins(t) \/ ConnectedRing(t)
           \/ DisconnectedIdle(t) \/ DisconnectedCancels(t) \/ DisconnectedDrops(t)

Client == \E c \in Conns :
            \/ Connect(c)
            \/ SocketDies(c)
            \/ HubRemove(c)
            \/ \E to \in Users : CallStart(c, to)
            \/ \E id \in CallIds : CallAccept(c, id) \/ CallSignal(c, id) \/ CallEnd(c, id)

Timers == \E id \in CallIds : FireTimer(id) \/ \E u \in Users : FireGrace(id, u)

Next == \/ \E t \in tasks : Step(t)
        \/ Client
        \/ Timers
        \/ \E a, b \in Users : Unfriend(a, b) \/ EndBetween(a, b)
        \/ Restart

\* Goroutines run on and timers fire.  Nobody has to call, answer or hang up.
Fairness == /\ \A id \in CallIds :
                 /\ WF_vars(FireTimer(id))
                 /\ \A s \in Steps : WF_vars(\E t \in tasks : t.call = id /\ t.at = s /\ Step(t))

Spec == Init /\ [][Next]_vars
FairSpec == Spec /\ Fairness

-----------------------------------------------------------------------------
(* Properties *)

TypeOK == /\ breaking \subseteq SUBSET Users
          /\ alive \subseteq Conns /\ up \subseteq Conns /\ used \subseteq Conns
          /\ phase \in [CallIds -> {"free", "ringing", "active", "over"}]
          /\ caller \in [CallIds -> Users \cup {NoUser}]
          /\ callee \in [CallIds -> Users \cup {NoUser}]
          /\ dev \in [CallIds -> [Users -> Conns \cup {NoConn}]]
          /\ timer \in [CallIds -> {"off", "ring", "max", "limit"}]
          /\ lost \in [CallIds -> SUBSET Users]
          /\ grace \in [CallIds -> SUBSET Users]
          /\ signals \in [CallIds -> [Users -> 0..MaxSignals]]
          /\ byUser \in [Users -> CallIds \cup {NoCall}]
          /\ tasks \subseteq Tasks
          /\ log \in [CallIds -> Rows]
          /\ shown \subseteq Conns \X CallIds
          /\ answered \subseteq CallIds
          /\ restarts \in 0..MaxRestarts

(* Nobody is in two calls, and nobody is kept busy by a call that is over:
   Manager.calls and Manager.byUser agree after every section under mu. *)
OneCallEach ==
    /\ \A id \in Live : /\ caller[id] # callee[id]
                        /\ \A u \in Parties(id) : u \in Users /\ byUser[u] = id
    /\ \A u \in Users : byUser[u] # NoCall => byUser[u] \in Live /\ u \in Parties(byUser[u])

(* The log tells the truth about whether a call was answered, whichever of
   accept, hangUp, the timers and the restart came first: a row says "ended"
   only for a call that was answered, and "missed", "declined", "cancelled" or
   "busy" only for one that was not. *)
LogIsTruthful == \A id \in CallIds :
    /\ log[id].state = "ended" \/ log[id].answered => id \in answered
    /\ log[id].state \in {"missed", "declined", "cancelled", "busy"} => id \notin answered

(* The invariant that carries OneCallEach and LogIsTruthful from one step to
   the next: what each phase says about the row and the answer, and what each
   goroutine may rely on between two of its steps. *)
EndReasons == Reasons \ {"", "busy", "interrupted"}
Inserts == {"start.insert", "start.busy"}

RowOK(id) ==
    /\ phase[id] = "free" => log[id] = NoRow /\ id \notin answered
    /\ phase[id] = "ringing" => log[id].state \in {"none", "ringing"} /\ id \notin answered
    /\ phase[id] = "active" => id \in answered
    /\ timer[id] \in {"max", "limit"} => id \in answered
    /\ log[id].ended => log[id].state # "ringing"

TaskOK(t) ==
    /\ t.at \in HandlerSteps \cup ConnSteps => t.conn \in Conns
    /\ t.at \in {"start.check", "start.lock"} => t.to \in Users /\ t.to # Owner[t.conn]
    /\ t.at \notin {"start.check", "start.lock", "connected", "disconnected"} => t.call \in CallIds
    /\ t.at \in Inserts => log[t.call] = NoRow /\ phase[t.call] # "free"
    /\ t.at = "start.busy" => phase[t.call] = "over" /\ t.call \notin answered
    /\ t.at = "accept.answer" => t.call \in answered
    /\ t.at \in {"end.lock", "end.finish"} =>
          t.reason \in EndReasons /\ (t.reason = "ended" => t.call \in answered)
    /\ t.at = "end.finish" => phase[t.call] = "over" /\ (t.was <=> t.call \in answered)

OneInsert == \A s, t \in tasks :
    s.at \in Inserts /\ t.at \in Inserts /\ s.call = t.call => s = t

CallsInv == /\ TypeOK
            /\ OneCallEach
            /\ LogIsTruthful
            /\ \A id \in CallIds : RowOK(id)
            /\ \A t \in tasks : TaskOK(t)
            /\ OneInsert

(* Whoever dropped out of an active call has a timer running, or the call is
   about to be ended: the peer is not left talking to nobody for hours. *)
LostIsTimed == \A id \in CallIds : phase[id] = "active" =>
    \A u \in lost[id] : \/ u \in grace[id]
                         \/ \E t \in tasks : t.at = "end.lock" /\ t.call = id

(* A closed row of the log never changes again: not by a late AnswerCall or
   InsertCall, not by a second FinishCall, not by the recovery. *)
ClosedRowsStay == [][\A id \in CallIds : log[id].ended => log'[id] = log[id]]_vars

\* No handler is under way.
Quiet == tasks = {} /\ breaking = {}

\* A call between two who are no longer friends.
FellOut(id) == {caller[id], callee[id]} \notin friends

(* "ringing or active for a call in progress" (API_CONTRACT.md:1176): when no
   handler is under way, the open rows are those of the calls in memory.  When
   an unfriending ends a call, its row may be inserted later and stay open. *)
LogMatchesCalls == Quiet =>
    \A id \in CallIds : IF id \in Live THEN log[id].state = phase[id]
                        ELSE log[id].state = "none" \/ log[id].ended \/ FellOut(id)

\* It was not told that its user has answered on another device.
Skipped(c, id) == c \in Slow /\ phase[id] = "active" /\ dev[id][Owner[c]] # c

(* No phone is left ringing for a call that is over or was answered elsewhere:
   except, until the call ends, one whose buffer was full when it was to be told
   of the answer (WriteToUserExcept skips it).  This is for connections that hold.
   A call may also be announced after its end was, for start and Connected send
   outside the mutex: when an unfriending (here) or the loss of the caller's
   connection ends a call that is being started, and to a phone that connects
   just then. *)
PhonesStopRinging == Quiet =>
    \A s \in shown : phase[s[2]] = "ringing" \/ FellOut(s[2]) \/ Skipped(s[1], s[2])

(* Every call ends, whatever the two phones do: a ringing call by the ring
   timer, an answered one by its maximum length. *)
CallsEnd == \A id \in CallIds : (id \in Live) ~> (id \notin Live)
=============================================================================
