----------------------------- MODULE CallsProofs -----------------------------
(***************************************************************************)
(* Calls proved for any number of people, connections, calls and restarts. *)
(*                                                                         *)
(* CallsInv is inductive.  Most steps only hand a goroutine from one point *)
(* to the next: QuietStep deals with all of them at once.  The steps that  *)
(* change the calls or the log have a lemma each.  Two more invariants     *)
(* rest on it: Timed, of those who dropped out, and Settling, of what the  *)
(* log and the phones catch up with while connections and Postgres hold.   *)
(***************************************************************************)
EXTENDS Calls, TLAPS

(* Nothing has been called yet. *)
LEMMA CallsInit == Init => CallsInv
<1> SUFFICES ASSUME Init PROVE CallsInv
  OBVIOUS
<1> USE CallsAssumption DEF Init
<1>1. TypeOK
  <2>1. NoRow \in Rows
    BY DEF Rows, NoRow, RowStates, Reasons
  <2>2. 0 \in 0..MaxSignals /\ 0 \in 0..MaxRestarts
    OBVIOUS
  <2>3. signals \in [CallIds -> [Users -> 0..MaxSignals]]
    BY <2>2
  <2>4. dev \in [CallIds -> [Users -> Conns \cup {NoConn}]]
    OBVIOUS
  <2> QED BY <2>1, <2>2, <2>3, <2>4 DEF TypeOK
<1>2. Live = {}
  BY DEF Live
<1>3. OneCallEach
  BY <1>2 DEF OneCallEach
<1>4. LogIsTruthful
  BY DEF LogIsTruthful, NoRow
<1>5. \A id \in CallIds : RowOK(id)
  BY DEF RowOK, NoRow
<1>6. (\A t \in tasks : TaskOK(t)) /\ OneInsert
  BY DEF OneInsert
<1> QED BY <1>1, <1>3, <1>4, <1>5, <1>6 DEF CallsInv

(* The variables that hardly any conjunct but TypeOK speaks of keep their types,
   and no timer is armed. *)
Side == /\ breaking' \subseteq SUBSET Users
        /\ alive' \subseteq Conns /\ up' \subseteq Conns /\ used' \subseteq Conns
        /\ shown' \subseteq Conns \X CallIds
        /\ restarts' \in 0..MaxRestarts
        /\ dev' \in [CallIds -> [Users -> Conns \cup {NoConn}]]
        /\ lost' \in [CallIds -> SUBSET Users]
        /\ grace' \in [CallIds -> SUBSET Users]
        /\ signals' \in [CallIds -> [Users -> 0..MaxSignals]]
        /\ timer' \in [CallIds -> {"off", "ring", "max", "limit"}]
        /\ \A id \in CallIds : timer'[id] \in {timer[id], "off"}

(* What a step that concerns no call and no row leaves alone. *)
core == <<phase, people, byUser, log, answered>>

(* The goroutines after a step: some of those before it, and new ones that are
   fit to run and do not insert a row. *)
Handed(new) == /\ tasks' \subseteq tasks \cup new
               /\ new \subseteq Tasks
               /\ \A t \in new : t.at \notin Inserts

(* If goroutines are handed on and the insertions are the ones there were,
   then no row is inserted twice. *)
LEMMA HandedOne ==
  ASSUME OneInsert, NEW new, Handed(new)
  PROVE  OneInsert'
BY DEF OneInsert, Handed

(* A step that leaves the phases, the index, the log and the answers alone
   preserves the invariant if the goroutines it makes are fit to run. *)
LEMMA QuietStep ==
  ASSUME CallsInv, UNCHANGED core, Side,
         NEW new, Handed(new), \A t \in new : TaskOK(t)
  PROVE  CallsInv'
<1> USE DEF CallsInv
<1>1. UNCHANGED <<phase, caller, callee, byUser, log, answered>>
  BY DEF core, people
<1>2. TypeOK'
  BY <1>1 DEF TypeOK, Side, Handed
<1>3. OneCallEach' /\ LogIsTruthful'
  BY <1>1 DEF OneCallEach, LogIsTruthful, Live, Parties
<1>4. (\A id \in CallIds : RowOK(id))'
  BY <1>1 DEF RowOK, Side
<1>5. (\A t \in tasks : TaskOK(t))'
  BY <1>1 DEF Handed, TaskOK
<1>6. OneInsert'
  BY HandedOne
<1> QED BY <1>2, <1>3, <1>4, <1>5, <1>6

-----------------------------------------------------------------------------
(* The steps of start. *)

(* The checks of start pass or refuse; nothing is written. *)
LEMMA StartQuiet ==
  ASSUME CallsInv, NEW t \in tasks,
         StartCheck(t) \/ StartRefused(t) \/ StartInCall(t) \/ StartRing(t)
  PROVE  CallsInv'
<1> t \in Tasks /\ TaskOK(t)
  BY DEF CallsInv, TypeOK
<1>0. TypeOK
  BY DEF CallsInv
<1>1. CASE StartCheck(t)
  <2> DEFINE new == {[t EXCEPT !.at = "start.lock"]}
  <2>1. Handed(new)
    BY <1>1 DEF StartCheck, Continue, At, Handed, Tasks, Steps, HandlerSteps, Inserts
  <2>2. \A n \in new : TaskOK(n)
    BY <1>1 DEF StartCheck, TaskOK, Tasks, HandlerSteps, ConnSteps, Inserts
  <2>3. Side /\ UNCHANGED core
    BY <1>0, <1>1 DEF StartCheck, Side, TypeOK, social, hub, memory, inCall, core
  <2> QED BY <2>1, <2>2, <2>3, QuietStep
<1>2. CASE StartRefused(t) \/ StartInCall(t)
  <2>1. Handed({})
    BY <1>2 DEF StartRefused, StartInCall, Continue, Handed
  <2>2. Side /\ UNCHANGED core
    BY <1>0, <1>2 DEF StartRefused, StartInCall, Side, TypeOK, social, hub, memory, inCall, core
  <2> QED BY <2>1, <2>2, QuietStep
<1>3. CASE StartRing(t)
  <2>1. Handed({})
    BY <1>3 DEF StartRing, Continue, Handed
  <2>2. t.call \in CallIds
    BY <1>3 DEF StartRing, TaskOK
  <2>3. shown' \subseteq Conns \X CallIds
    BY <1>0, <1>3, <2>2 DEF StartRing, TypeOK
  <2>4. Side /\ UNCHANGED core
    BY <1>0, <1>3, <2>3 DEF StartRing, Side, TypeOK, social, hub, memory, inCall, core
  <2> QED BY <2>1, <2>4, QuietStep
<1> QED BY <1>1, <1>2, <1>3

-----------------------------------------------------------------------------
(* The steps of accept and end that write nothing. *)

(* accept looks at the call, is refused, finds no time left, or tells. *)
LEMMA AcceptQuiet ==
  ASSUME CallsInv, NEW t \in tasks,
         AcceptRead(t) \/ AcceptNoTime(t) \/ AcceptUnknown(t) \/ AcceptTell(t)
  PROVE  CallsInv'
<1> t \in Tasks /\ TaskOK(t)
  BY DEF CallsInv, TypeOK
<1>0. TypeOK
  BY DEF CallsInv
<1>1. Side /\ UNCHANGED core
  BY <1>0 DEF AcceptRead, AcceptNoTime, AcceptUnknown, AcceptTell, Side, TypeOK, social, hub, memory, inCall, core
<1>2. CASE tasks' = tasks \ {t}
  <2>1. Handed({})
    BY <1>2 DEF Handed
  <2> QED BY <1>1, <2>1, QuietStep
<1>3. CASE AcceptRead(t) /\ Continue(t, At(t, "accept.lock"))
  <2> DEFINE new == {[t EXCEPT !.at = "accept.lock"]}
  <2>1. Handed(new)
    BY <1>3 DEF Continue, At, Handed, Tasks, Steps, HandlerSteps, Inserts
  <2>2. \A n \in new : TaskOK(n)
    BY <1>3 DEF AcceptRead, TaskOK, Tasks, HandlerSteps, ConnSteps, Inserts
  <2> QED BY <1>1, <2>1, <2>2, QuietStep
<1>4. CASE AcceptNoTime(t)
  <2> DEFINE new == {[t EXCEPT !.at = "end.lock", !.reason = "daily_limit"]}
  <2>1. Handed(new)
    BY <1>4 DEF AcceptNoTime, Continue, Handed, Tasks, Steps, EndSteps, Inserts, Reasons
  <2>2. \A n \in new : TaskOK(n)
    BY <1>4 DEF AcceptNoTime, TaskOK, Tasks, HandlerSteps, ConnSteps, Inserts, EndReasons, Reasons
  <2> QED BY <1>1, <2>1, <2>2, QuietStep
<1> QED BY <1>2, <1>3, <1>4 DEF AcceptRead, AcceptUnknown, AcceptTell, Continue

(* end finds the call gone, or tells both sides. *)
LEMMA EndQuiet ==
  ASSUME CallsInv, NEW t \in tasks, EndAgain(t) \/ EndTell(t)
  PROVE  CallsInv'
<1>1. Side /\ UNCHANGED core
  BY DEF CallsInv, EndAgain, EndTell, Side, TypeOK, social, hub, memory, inCall, core
<1>2. Handed({})
  BY DEF EndAgain, EndTell, Continue, Handed
<1> QED BY <1>1, <1>2, QuietStep

-----------------------------------------------------------------------------
(* Events of phones, timers and the hub. *)

(* The goroutines that these events make are fit to run. *)
LEMMA NewTasks ==
  ASSUME TypeOK, NEW c \in Conns
  PROVE  /\ \A to \in Users : to # Owner[c] =>
              /\ Handler("start.check", c, to, NoCall) \in Tasks
              /\ TaskOK(Handler("start.check", c, to, NoCall))
              /\ Handler("start.check", c, to, NoCall).at \notin Inserts
         /\ \A id \in CallIds :
              /\ Handler("accept.read", c, NoUser, id) \in Tasks
              /\ TaskOK(Handler("accept.read", c, NoUser, id))
              /\ Handler("accept.read", c, NoUser, id).at \notin Inserts
         /\ \A at \in {"connected", "disconnected"} :
              Notice(at, c) \in Tasks /\ TaskOK(Notice(at, c)) /\ Notice(at, c).at \notin Inserts
BY CallsAssumption
DEF Handler, Notice, Tasks, TaskOK, Steps, HandlerSteps, EndSteps, ConnSteps, Reasons, Inserts

(* A goroutine that is about to end a call is fit to run. *)
LEMMA NewEnding ==
  ASSUME NEW id \in CallIds, NEW reason \in EndReasons, reason = "ended" => id \in answered
  PROVE  /\ Ending(id, reason) \in Tasks
         /\ TaskOK(Ending(id, reason))
         /\ Ending(id, reason).at \notin Inserts
BY CallsAssumption
DEF Ending, Tasks, TaskOK, Steps, HandlerSteps, EndSteps, ConnSteps, Reasons, Inserts, EndReasons

(* A phone asks for something, or a connection comes or goes. *)
LEMMA ClientStep ==
  ASSUME CallsInv, Client
  PROVE  CallsInv'
<1>0. TypeOK
  BY DEF CallsInv
<1> PICK c \in Conns : \/ Connect(c) \/ SocketDies(c) \/ HubRemove(c)
                       \/ \E to \in Users : CallStart(c, to)
                       \/ \E id \in CallIds : CallAccept(c, id) \/ CallSignal(c, id) \/ CallEnd(c, id)
  BY DEF Client
<1>1. CASE Connect(c)
  <2>1. Side /\ UNCHANGED core
    BY <1>0, <1>1 DEF Connect, Side, TypeOK, social, hub, memory, inCall, core
  <2>2. Handed({Notice("connected", c)})
    BY <1>0, <1>1, NewTasks DEF Connect, Handed
  <2> QED BY <1>0, <2>1, <2>2, NewTasks, QuietStep
<1>2. CASE SocketDies(c)
  <2>1. Side /\ UNCHANGED core
    BY <1>0, <1>2 DEF SocketDies, Side, TypeOK, social, hub, memory, inCall, core
  <2>2. Handed({})
    BY <1>2 DEF SocketDies, Handed
  <2> QED BY <2>1, <2>2, QuietStep
<1>3. CASE HubRemove(c)
  <2>1. Side /\ UNCHANGED core
    BY <1>0, <1>3 DEF HubRemove, Side, TypeOK, social, hub, memory, inCall, core
  <2>2. Handed({Notice("disconnected", c)})
    BY <1>0, <1>3, NewTasks DEF HubRemove, Handed
  <2> QED BY <1>0, <2>1, <2>2, NewTasks, QuietStep
<1>4. ASSUME NEW to \in Users, CallStart(c, to)
      PROVE  CallsInv'
  <2>1. Side /\ UNCHANGED core
    BY <1>0, <1>4 DEF CallStart, Side, TypeOK, social, hub, memory, inCall, core
  <2>2. to # Owner[c]
    BY <1>4 DEF CallStart
  <2>3. Handed({Handler("start.check", c, to, NoCall)})
    BY <1>0, <1>4, <2>2, NewTasks DEF CallStart, Handed
  <2> QED BY <1>0, <2>1, <2>2, <2>3, NewTasks, QuietStep
<1>5. ASSUME NEW id \in CallIds, CallAccept(c, id)
      PROVE  CallsInv'
  <2>1. Side /\ UNCHANGED core
    BY <1>0, <1>5 DEF CallAccept, Side, TypeOK, social, hub, memory, inCall, core
  <2>2. Handed({Handler("accept.read", c, NoUser, id)})
    BY <1>0, <1>5, NewTasks DEF CallAccept, Handed
  <2> QED BY <1>0, <2>1, <2>2, NewTasks, QuietStep
<1>6. ASSUME NEW id \in CallIds, CallSignal(c, id)
      PROVE  CallsInv'
  <2>1. Owner[c] \in Users
    BY CallsAssumption
  <2>2. signals' \in [CallIds -> [Users -> 0..MaxSignals]]
    BY <1>0, <1>6, <2>1, CallsAssumption DEF CallSignal, TypeOK
  <2>3. Side /\ UNCHANGED core
    BY <1>0, <1>6, <2>2 DEF CallSignal, Side, TypeOK, social, hub, core
  <2>4. Handed({})
    BY <1>6 DEF CallSignal, Handed
  <2> QED BY <2>3, <2>4, QuietStep
<1>7. ASSUME NEW id \in CallIds, CallEnd(c, id)
      PROVE  CallsInv'
  <2> DEFINE why == HangUpReason(id, Owner[c])
             n == [Handler("end.lock", c, NoUser, id) EXCEPT !.reason = why]
  <2>1. Side /\ UNCHANGED core
    BY <1>0, <1>7 DEF CallEnd, Side, TypeOK, social, hub, memory, inCall, core
  <2>2. why \in EndReasons /\ (why = "ended" => id \in answered)
    BY DEF HangUpReason, EndReasons, Reasons, CallsInv, RowOK
  <2>3. n \in Tasks /\ n.at = "end.lock"
    BY <2>2, CallsAssumption DEF Handler, Tasks, Steps, EndSteps, EndReasons
  <2>4. TaskOK(n)
    BY <2>2 DEF Handler, TaskOK, HandlerSteps, ConnSteps, Inserts
  <2>5. Handed({n})
    BY <1>7, <2>3 DEF CallEnd, Handed, Inserts
  <2> QED BY <2>1, <2>4, <2>5, QuietStep
<1> QED BY <1>1, <1>2, <1>3, <1>4, <1>5, <1>6, <1>7
(* A timer fires.  Of the reasons only "ended" needs an answered call, and the
   timer that gives it is armed by accept. *)
LEMMA TimersStep ==
  ASSUME CallsInv, Timers
  PROVE  CallsInv'
<1>0. TypeOK
  BY DEF CallsInv
<1>1. ASSUME NEW id \in CallIds, FireTimer(id)
      PROVE  CallsInv'
  <2> DEFINE why == TimerReason(id)
  <2>1. Side /\ UNCHANGED core
    BY <1>0, <1>1 DEF FireTimer, Side, TypeOK, social, hub, core
  <2>2. timer[id] \in {"ring", "max", "limit"}
    BY <1>0, <1>1 DEF FireTimer, TypeOK
  <2>3. why \in EndReasons /\ (why = "ended" => id \in answered)
    BY <2>2 DEF TimerReason, EndReasons, Reasons, CallsInv, RowOK
  <2> HIDE DEF why
  <2>4. Handed({Ending(id, why)})
    BY <1>1, <2>3, NewEnding DEF FireTimer, Handed, why
  <2> QED BY <2>1, <2>3, <2>4, NewEnding, QuietStep
<1>2. ASSUME NEW id \in CallIds, NEW u \in Users, FireGrace(id, u)
      PROVE  CallsInv'
  <2>1. Side /\ UNCHANGED core
    BY <1>0, <1>2 DEF FireGrace, Side, TypeOK, social, hub, core
  <2>2. "disconnected" \in EndReasons
    BY DEF EndReasons, Reasons
  <2>3. Handed({Ending(id, "disconnected")})
    BY <1>2, <2>2, NewEnding DEF FireGrace, Handed
  <2> QED BY <2>1, <2>2, <2>3, NewEnding, QuietStep
<1> QED BY <1>1, <1>2 DEF Timers

(* Connected and Disconnected: the call may move to another connection or
   count somebody as lost, but its phase does not change here. *)
LEMMA NoticeStep ==
  ASSUME CallsInv, NEW t \in tasks,
         \/ ConnectedIdle(t) \/ ConnectedRinging(t) \/ ConnectedRejoins(t) \/ ConnectedRing(t)
         \/ DisconnectedIdle(t) \/ DisconnectedCancels(t) \/ DisconnectedDrops(t)
  PROVE  CallsInv'
<1>0. TypeOK /\ t \in Tasks /\ TaskOK(t)
  BY DEF CallsInv, TypeOK
<1>1. t.conn \in Conns /\ Owner[t.conn] \in Users
  BY <1>0, CallsAssumption
  DEF TaskOK, ConnSteps, ConnectedIdle, ConnectedRinging, ConnectedRejoins, ConnectedRing,
      DisconnectedIdle, DisconnectedCancels, DisconnectedDrops
<1>2. CallOf(t.conn) # NoCall => CallOf(t.conn) \in CallIds
  BY <1>0, <1>1 DEF CallOf, TypeOK
<1>3. CASE ConnectedIdle(t) \/ DisconnectedIdle(t)
  <2>1. Side /\ UNCHANGED core
    BY <1>0, <1>3 DEF ConnectedIdle, DisconnectedIdle, Side, TypeOK, social, hub, memory, inCall, core
  <2>2. Handed({})
    BY <1>3 DEF ConnectedIdle, DisconnectedIdle, Continue, Handed
  <2> QED BY <2>1, <2>2, QuietStep
<1>4. CASE ConnectedRinging(t)
  <2> DEFINE n == [t EXCEPT !.at = "connected.ring", !.call = CallOf(t.conn)]
  <2>1. Side /\ UNCHANGED core
    BY <1>0, <1>4 DEF ConnectedRinging, Side, TypeOK, social, hub, memory, inCall, core
  <2>2. CallOf(t.conn) \in CallIds
    BY <1>2, <1>4 DEF ConnectedRinging, Rings
  <2>3. n \in Tasks /\ n.at \notin Inserts
    BY <1>0, <2>2 DEF Tasks, Steps, ConnSteps, Inserts
  <2>4. TaskOK(n)
    BY <1>0, <1>1, <2>2 DEF Tasks, TaskOK, HandlerSteps, ConnSteps, Inserts
  <2>5. Handed({n})
    BY <1>4, <2>3 DEF ConnectedRinging, Continue, Handed
  <2> QED BY <2>1, <2>4, <2>5, QuietStep
<1>5. CASE ConnectedRejoins(t)
  <2>1. CallOf(t.conn) \in CallIds
    BY <1>2, <1>5 DEF ConnectedRejoins, Rejoins
  <2>2. Side /\ UNCHANGED core
    BY <1>0, <1>1, <1>5, <2>1 DEF ConnectedRejoins, Side, TypeOK, social, hub, core
  <2>3. Handed({})
    BY <1>5 DEF ConnectedRejoins, Continue, Handed
  <2> QED BY <2>2, <2>3, QuietStep
<1>6. CASE ConnectedRing(t)
  <2>1. t.call \in CallIds
    BY <1>0, <1>6 DEF ConnectedRing, TaskOK
  <2>2. Side /\ UNCHANGED core
    BY <1>0, <1>1, <1>6, <2>1 DEF ConnectedRing, Side, TypeOK, social, hub, memory, inCall, core
  <2>3. Handed({})
    BY <1>6 DEF ConnectedRing, Continue, Handed
  <2> QED BY <2>2, <2>3, QuietStep
<1>7. CASE DisconnectedCancels(t)
  <2>1. CallOf(t.conn) \in CallIds
    BY <1>2, <1>7 DEF DisconnectedCancels, CancelsCall, InCall
  <2>2. Side /\ UNCHANGED core
    BY <1>0, <1>7 DEF DisconnectedCancels, Side, TypeOK, social, hub, memory, inCall, core
  <2>3. "cancelled" \in EndReasons
    BY DEF EndReasons, Reasons
  <2>4. Handed({Ending(CallOf(t.conn), "cancelled")})
    BY <1>7, <2>1, <2>3, NewEnding DEF DisconnectedCancels, Continue, Handed
  <2> QED BY <2>1, <2>2, <2>3, <2>4, NewEnding, QuietStep
<1>8. CASE DisconnectedDrops(t)
  <2>1. CallOf(t.conn) \in CallIds
    BY <1>2, <1>8 DEF DisconnectedDrops, DropsOut, InCall
  <2>2. Side /\ UNCHANGED core
    BY <1>0, <1>1, <1>8, <2>1 DEF DisconnectedDrops, Side, TypeOK, social, hub, core
  <2>3. Handed({})
    BY <1>8 DEF DisconnectedDrops, Continue, Handed
  <2> QED BY <2>2, <2>3, QuietStep
<1> QED BY <1>3, <1>4, <1>5, <1>6, <1>7, <1>8

(* A friendship ends, and with it a call between the two. *)
LEMMA SocialStep ==
  ASSUME CallsInv, NEW a \in Users, NEW b \in Users, Unfriend(a, b) \/ EndBetween(a, b)
  PROVE  CallsInv'
<1>0. TypeOK
  BY DEF CallsInv
<1>1. CASE Unfriend(a, b)
  <2>1. Side /\ UNCHANGED core
    BY <1>0, <1>1 DEF Unfriend, Side, TypeOK, hub, memory, inCall, core
  <2>2. Handed({})
    BY <1>1 DEF Unfriend, Handed
  <2> QED BY <2>1, <2>2, QuietStep
<1>2. CASE EndBetween(a, b)
  <2>1. Side /\ UNCHANGED core
    BY <1>0, <1>2 DEF EndBetween, Side, TypeOK, hub, memory, inCall, core
  <2>2. CASE tasks' = tasks
    <3>1. Handed({})
      BY <2>2 DEF Handed
    <3> QED BY <2>1, <3>1, QuietStep
  <2>3. CASE byUser[a] # NoCall /\ tasks' = tasks \cup {Ending(byUser[a], "unfriended")}
    <3>1. byUser[a] \in CallIds /\ "unfriended" \in EndReasons
      BY <1>0, <2>3 DEF TypeOK, EndReasons, Reasons
    <3>2. Handed({Ending(byUser[a], "unfriended")})
      BY <2>3, <3>1, NewEnding DEF Handed
    <3> QED BY <2>1, <3>1, <3>2, NewEnding, QuietStep
  <2> QED BY <1>2, <2>2, <2>3 DEF EndBetween
<1> QED BY <1>1, <1>2
-----------------------------------------------------------------------------
(* The steps that write a row of the log. *)

(* Writing one row preserves the invariant if the row fits the call and no
   other goroutine is about to insert it. *)
LEMMA LogWrite ==
  ASSUME CallsInv, NEW t \in tasks, t.call \in CallIds, NEW row \in Rows,
         log' = [log EXCEPT ![t.call] = row],
         UNCHANGED <<phase, caller, callee, timer, byUser, answered>>, Side,
         NEW new \in SUBSET Tasks, tasks' = (tasks \ {t}) \cup new,
         \A n \in new : n.at \notin Inserts /\ TaskOK(n),
         \A s \in tasks \ {t} : s.at \in Inserts => s.call # t.call,
         phase[t.call] # "free",
         phase[t.call] = "ringing" => row.state \in {"none", "ringing"},
         row.ended => row.state # "ringing",
         row.state = "ended" \/ row.answered => t.call \in answered,
         row.state \in {"missed", "declined", "cancelled", "busy"} => t.call \notin answered
  PROVE  CallsInv'
<1> USE DEF CallsInv
<1>1. log \in [CallIds -> Rows]
  BY DEF TypeOK
<1>2. TypeOK'
  BY <1>1 DEF TypeOK, Side
<1>3. OneCallEach'
  BY DEF OneCallEach, Live, Parties
<1>4. LogIsTruthful'
  BY <1>1 DEF LogIsTruthful
<1>5. (\A id \in CallIds : RowOK(id))'
  BY <1>1 DEF RowOK
<1>6. (\A s \in tasks : TaskOK(s))'
  <2> SUFFICES ASSUME NEW s \in tasks' PROVE TaskOK(s)'
    OBVIOUS
  <2>1. TaskOK(s) /\ (s.at \in Inserts => s.call # t.call)
    OBVIOUS
  <2> QED BY <1>1, <2>1 DEF TaskOK
<1>7. OneInsert'
  BY DEF OneInsert
<1> QED BY <1>2, <1>3, <1>4, <1>5, <1>6, <1>7

(* record in start: the row of a call that rings or was refused. *)
LEMMA InsertStep ==
  ASSUME CallsInv, NEW t \in tasks, StartInsert(t) \/ StartBusyInsert(t)
  PROVE  CallsInv'
<1>0. TypeOK /\ t \in Tasks /\ TaskOK(t) /\ OneInsert
  BY DEF CallsInv, TypeOK
<1>1. t.at \in Inserts /\ t.call \in CallIds /\ phase[t.call] # "free"
  BY <1>0 DEF StartInsert, StartBusyInsert, TaskOK, Inserts
<1>2. \A s \in tasks \ {t} : s.at \in Inserts => s.call # t.call
  BY <1>0, <1>1 DEF OneInsert
<1>3. Side /\ UNCHANGED <<phase, caller, callee, timer, byUser, answered>>
  BY <1>0 DEF StartInsert, StartBusyInsert, Side, TypeOK, social, hub, memory, people, inCall
<1>4. ASSUME NEW row \in Rows, NEW new \in SUBSET Tasks,
             log' = [log EXCEPT ![t.call] = row], tasks' = (tasks \ {t}) \cup new,
             \A n \in new : n.at \notin Inserts /\ TaskOK(n),
             row.ended => row.state # "ringing", ~row.answered,
             \/ row.state = "ringing"
             \/ row.state = "busy" /\ phase[t.call] = "over" /\ t.call \notin answered
      PROVE  CallsInv'
  <2>1. /\ phase[t.call] = "ringing" => row.state \in {"none", "ringing"}
        /\ row.state = "ended" \/ row.answered => t.call \in answered
        /\ row.state \in {"missed", "declined", "cancelled", "busy"} => t.call \notin answered
    BY <1>4
  <2> QED BY <1>1, <1>2, <1>3, <1>4, <2>1, LogWrite
<1>5. CASE StartInsert(t)
  <2> DEFINE n == [t EXCEPT !.at = "start.ring"]
             row == [NoRow EXCEPT !.state = "ringing"]
  <2>1. {n} \in SUBSET Tasks /\ n.at \notin Inserts
    BY <1>0 DEF Tasks, Steps, HandlerSteps, Inserts
  <2>2. TaskOK(n)
    BY <1>0, <1>5, <1>1 DEF StartInsert, Tasks, TaskOK, HandlerSteps, ConnSteps, Inserts
  <2>3. row \in Rows /\ row.state = "ringing" /\ ~row.ended /\ ~row.answered
    BY DEF NoRow, Rows, RowStates, Reasons
  <2>4. tasks' = (tasks \ {t}) \cup {n}
    BY <1>5 DEF StartInsert, Continue, At
  <2> HIDE DEF n, row
  <2>5. CASE log' = [log EXCEPT ![t.call] = row]
    BY <1>4, <2>1, <2>2, <2>3, <2>4, <2>5
  <2>6. CASE UNCHANGED log
    <3>1. UNCHANGED core /\ Handed({n})
      BY <1>3, <2>1, <2>4, <2>6 DEF core, people, Handed
    <3> QED BY <1>3, <2>2, <3>1, QuietStep
  <2> QED BY <1>5, <2>5, <2>6 DEF StartInsert, Write, row
<1>6. CASE StartBusyInsert(t)
  <2> DEFINE row == [state |-> "busy", answered |-> FALSE, ended |-> TRUE, reason |-> "busy"]
  <2>1. row \in Rows /\ row.state = "busy" /\ ~row.answered
    BY DEF Rows, RowStates, Reasons
  <2>2. tasks' = (tasks \ {t}) \cup {}
    BY <1>6 DEF StartBusyInsert, Continue
  <2>3. phase[t.call] = "over" /\ t.call \notin answered
    BY <1>0, <1>6 DEF StartBusyInsert, TaskOK
  <2> HIDE DEF row
  <2>4. CASE log' = [log EXCEPT ![t.call] = row]
    <3>1. {} \in SUBSET Tasks /\ \A n \in {} : n.at \notin Inserts /\ TaskOK(n)
      OBVIOUS
    <3>2. row.ended => row.state # "ringing"
      BY <2>1
    <3> QED BY <1>4, <2>1, <2>2, <2>3, <2>4, <3>1, <3>2
  <2>5. CASE UNCHANGED log
    <3>1. UNCHANGED core /\ Handed({})
      BY <1>3, <2>2, <2>5 DEF core, people, Handed
    <3> QED BY <1>3, <3>1, QuietStep
  <2> QED BY <1>6, <2>4, <2>5 DEF StartBusyInsert, Write, row
<1> QED BY <1>5, <1>6

(* AnswerCall and FinishCall: a row that is there is answered or closed. *)
LEMMA UpdateStep ==
  ASSUME CallsInv, NEW t \in tasks, AcceptAnswer(t) \/ EndFinish(t)
  PROVE  CallsInv'
<1>0. TypeOK /\ t \in Tasks /\ TaskOK(t)
  BY DEF CallsInv, TypeOK
<1>1. t.call \in CallIds /\ log[t.call] \in Rows
  BY <1>0 DEF AcceptAnswer, EndFinish, TaskOK, TypeOK
<1>2. RowOK(t.call)
  BY <1>1 DEF CallsInv
<1>3. Side /\ UNCHANGED <<phase, caller, callee, timer, byUser, answered>>
  BY <1>0 DEF AcceptAnswer, EndFinish, Side, TypeOK, social, hub, memory, people, inCall
<1> NoRow.state = "none"
  BY DEF NoRow
<1>4. log[t.call].state # "none" => \A s \in tasks \ {t} : s.at \in Inserts => s.call # t.call
  BY DEF CallsInv, TaskOK
<1>5. log[t.call].state # "none" => phase[t.call] # "free"
  BY <1>2 DEF RowOK
<1>6. CASE AcceptAnswer(t)
  <2> DEFINE n == [t EXCEPT !.at = "accept.tell"]
             row == [log[t.call] EXCEPT !.state = "active", !.answered = TRUE]
  <2>1. n \in Tasks /\ n.at \notin Inserts
    BY <1>0 DEF Tasks, Steps, HandlerSteps, Inserts
  <2>2. TaskOK(n)
    BY <1>0, <1>6 DEF AcceptAnswer, Tasks, TaskOK, HandlerSteps, ConnSteps, Inserts
  <2>3. row \in Rows /\ row.state = "active"
    BY <1>1 DEF Rows, RowStates
  <2>4. t.call \in answered /\ phase[t.call] # "ringing"
    BY <1>0, <1>2, <1>6 DEF AcceptAnswer, TaskOK, RowOK
  <2>5. tasks' = (tasks \ {t}) \cup {n}
    BY <1>6 DEF AcceptAnswer, Continue, At
  <2> HIDE DEF n, row
  <2>6. CASE log[t.call].state = "ringing" /\ log' = [log EXCEPT ![t.call] = row]
    <3>1. {n} \in SUBSET Tasks /\ \A x \in {n} : x.at \notin Inserts /\ TaskOK(x)
      BY <2>1, <2>2
    <3>2. /\ phase[t.call] = "ringing" => row.state \in {"none", "ringing"}
          /\ row.ended => row.state # "ringing"
          /\ row.state = "ended" \/ row.answered => t.call \in answered
          /\ row.state \in {"missed", "declined", "cancelled", "busy"} => t.call \notin answered
      BY <2>3, <2>4
    <3>3. phase[t.call] # "free" /\ \A s \in tasks \ {t} : s.at \in Inserts => s.call # t.call
      BY <1>4, <1>5, <2>6
    <3> QED BY <1>1, <1>3, <2>3, <2>5, <2>6, <3>1, <3>2, <3>3, LogWrite
  <2>7. CASE UNCHANGED log
    <3>1. UNCHANGED core /\ Handed({n})
      BY <1>3, <2>1, <2>5, <2>7 DEF core, people, Handed
    <3> QED BY <1>3, <2>2, <3>1, QuietStep
  <2> QED BY <1>6, <2>6, <2>7 DEF AcceptAnswer, Write, row
<1>7. CASE EndFinish(t)
  <2> DEFINE n == [t EXCEPT !.at = "end.tell"]
             row == [log[t.call] EXCEPT !.state = EndState(t), !.ended = TRUE, !.reason = t.reason]
  <2>1. n \in Tasks /\ n.at \notin Inserts
    BY <1>0 DEF Tasks, Steps, EndSteps, Inserts
  <2>2. TaskOK(n)
    BY <1>0, <1>7 DEF EndFinish, Tasks, TaskOK, HandlerSteps, ConnSteps, Inserts
  <2>3. /\ t.reason \in EndReasons /\ (t.reason = "ended" => t.call \in answered)
        /\ phase[t.call] = "over" /\ (t.was <=> t.call \in answered)
    BY <1>0, <1>7 DEF EndFinish, TaskOK
  <2>4. /\ EndState(t) \in RowStates \ {"none", "ringing", "active", "busy"}
        /\ EndState(t) = "ended" => t.call \in answered
        /\ EndState(t) \in {"missed", "declined", "cancelled"} => t.call \notin answered
    BY <2>3 DEF EndState, EndReasons, Reasons, RowStates
  <2>5. /\ row \in Rows /\ row.state = EndState(t) /\ row.answered = log[t.call].answered
    BY <1>1, <2>3, <2>4 DEF Rows, EndReasons
  <2>6. log[t.call].answered => t.call \in answered
    BY <1>1 DEF CallsInv, LogIsTruthful
  <2>7. tasks' = (tasks \ {t}) \cup {n}
    BY <1>7 DEF EndFinish, Continue, At
  <2> HIDE DEF n, row
  <2>8. CASE log[t.call].state # "none" /\ log' = [log EXCEPT ![t.call] = row]
    <3>1. {n} \in SUBSET Tasks /\ \A x \in {n} : x.at \notin Inserts /\ TaskOK(x)
      BY <2>1, <2>2
    <3>2. /\ phase[t.call] = "ringing" => row.state \in {"none", "ringing"}
          /\ row.ended => row.state # "ringing"
          /\ row.state = "ended" \/ row.answered => t.call \in answered
          /\ row.state \in {"missed", "declined", "cancelled", "busy"} => t.call \notin answered
      BY <2>3, <2>4, <2>5, <2>6
    <3>3. phase[t.call] # "free" /\ \A s \in tasks \ {t} : s.at \in Inserts => s.call # t.call
      BY <1>4, <1>5, <2>8
    <3> QED BY <1>1, <1>3, <2>5, <2>7, <2>8, <3>1, <3>2, <3>3, LogWrite
  <2>9. CASE UNCHANGED log
    <3>1. UNCHANGED core /\ Handed({n})
      BY <1>3, <2>1, <2>7, <2>9 DEF core, people, Handed
    <3> QED BY <1>3, <2>2, <3>1, QuietStep
  <2> QED BY <1>7, <2>8, <2>9 DEF EndFinish, Write, row
<1> QED BY <1>6, <1>7
-----------------------------------------------------------------------------
(* The sections under mu that change the calls. *)

(* A free call has no row, was not answered, and no goroutine is about it. *)
LEMMA FreeCall ==
  ASSUME CallsInv, NEW id \in CallIds, phase[id] = "free"
  PROVE  /\ log[id] = NoRow /\ id \notin answered /\ id \notin Live
         /\ timer[id] \in {"off", "ring"}
         /\ \A s \in tasks : s.at \in Inserts \cup {"end.finish"} => s.call # id
BY DEF CallsInv, RowOK, TaskOK, Inserts, Live, TypeOK

(* start refuses a call because the callee is busy. *)
LEMMA BusyStep ==
  ASSUME CallsInv, NEW t \in tasks, NEW id \in CallIds, StartBusy(t, id)
  PROVE  CallsInv'
<1> DEFINE n == [t EXCEPT !.at = "start.busy", !.call = id]
<1> USE DEF CallsInv
<1>0. t \in Tasks /\ TaskOK(t) /\ phase[id] = "free"
  BY DEF TypeOK, StartBusy
<1>1. t.conn \in Conns /\ Owner[t.conn] \in Users /\ t.to \in Users
  BY <1>0, CallsAssumption DEF StartBusy, TaskOK, HandlerSteps
<1>2. /\ phase' = [phase EXCEPT ![id] = "over"]
      /\ caller' = [caller EXCEPT ![id] = Owner[t.conn]]
      /\ callee' = [callee EXCEPT ![id] = t.to]
      /\ tasks' = (tasks \ {t}) \cup {n}
      /\ UNCHANGED <<breaking, alive, up, used, dev, timer, lost, grace, signals, byUser,
                     log, shown, answered, restarts>>
  BY DEF StartBusy, Continue, social, hub, inCall
<1>3. n \in Tasks /\ n.at = "start.busy" /\ n.call = id /\ n.conn = t.conn
  BY <1>0 DEF Tasks, Steps, HandlerSteps
<1> HIDE DEF n
<1>4. TypeOK'
  BY <1>1, <1>2, <1>3 DEF TypeOK
<1>5. OneCallEach'
  <2>1. Live' = Live /\ id \notin Live
    BY <1>0, <1>2 DEF Live, TypeOK
  <2>2. \A k \in Live : k # id /\ caller'[k] = caller[k] /\ callee'[k] = callee[k]
    BY <1>2, <2>1 DEF Live, TypeOK
  <2> QED BY <1>2, <2>1, <2>2, CallsAssumption DEF OneCallEach, Parties
<1>6. LogIsTruthful' /\ (\A k \in CallIds : RowOK(k))'
  BY <1>0, <1>2 DEF LogIsTruthful, RowOK, TypeOK
<1>7. (\A s \in tasks : TaskOK(s))'
  <2>1. TaskOK(n)'
    BY <1>0, <1>1, <1>2, <1>3, FreeCall DEF TaskOK, Inserts, HandlerSteps, TypeOK
  <2>2. ASSUME NEW s \in tasks PROVE TaskOK(s)'
    BY <1>0, <1>2, <2>2, FreeCall DEF TaskOK, Inserts, TypeOK
  <2> QED BY <1>2, <2>1, <2>2
<1>8. OneInsert'
  BY <1>0, <1>2, <1>3, FreeCall DEF OneInsert
<1> QED BY <1>4, <1>5, <1>6, <1>7, <1>8

(* start makes a call ring: both users were free. *)
LEMMA RingStep ==
  ASSUME CallsInv, NEW t \in tasks, NEW id \in CallIds, StartCall(t, id)
  PROVE  CallsInv'
<1> DEFINE n == [t EXCEPT !.at = "start.insert", !.call = id]
           me == Owner[t.conn]
<1> USE DEF CallsInv
<1>0. t \in Tasks /\ TaskOK(t) /\ phase[id] = "free"
  BY DEF TypeOK, StartCall
<1>1. t.conn \in Conns /\ me \in Users /\ t.to \in Users /\ t.to # me
  BY <1>0, CallsAssumption DEF StartCall, TaskOK, HandlerSteps
<1>2. /\ phase' = [phase EXCEPT ![id] = "ringing"]
      /\ caller' = [caller EXCEPT ![id] = me]
      /\ callee' = [callee EXCEPT ![id] = t.to]
      /\ dev' = [dev EXCEPT ![id][me] = t.conn]
      /\ timer' = [timer EXCEPT ![id] = "ring"]
      /\ byUser' = [byUser EXCEPT ![me] = id, ![t.to] = id]
      /\ tasks' = (tasks \ {t}) \cup {n}
      /\ byUser[me] = NoCall /\ byUser[t.to] = NoCall
      /\ UNCHANGED <<breaking, alive, up, used, lost, grace, signals, log, shown, answered, restarts>>
  BY DEF StartCall, Continue, social, hub
<1>3. n \in Tasks /\ n.at = "start.insert" /\ n.call = id /\ n.conn = t.conn
  BY <1>0 DEF Tasks, Steps, HandlerSteps
<1> HIDE DEF n, me
<1>4. TypeOK'
  BY <1>1, <1>2, <1>3 DEF TypeOK
<1>5. OneCallEach'
  <2>1. Live' = Live \cup {id} /\ id \notin Live
    BY <1>0, <1>2 DEF Live, TypeOK
  <2>2. \A k \in Live : k # id /\ caller'[k] = caller[k] /\ callee'[k] = callee[k]
    BY <1>2, <2>1 DEF Live, TypeOK
  <2>3. caller'[id] = me /\ callee'[id] = t.to
    BY <1>2 DEF TypeOK
  <2>4. \A u \in Users : byUser'[u] = IF u \in {me, t.to} THEN id ELSE byUser[u]
    BY <1>1, <1>2 DEF TypeOK
  <2>5. \A k \in Live : \A u \in Parties(k) : u \in Users /\ byUser[u] = k /\ u \notin {me, t.to}
    BY <1>2, CallsAssumption DEF OneCallEach, Live
  <2>6. \A k \in Live : Parties(k)' = Parties(k)
    BY <2>2 DEF Parties
  <2>7. ASSUME NEW k \in Live'
        PROVE  (caller[k] # callee[k])' /\ \A u \in Parties(k)' : u \in Users /\ byUser'[u] = k
    <3>1. CASE k = id
      BY <1>1, <2>3, <2>4, <3>1 DEF Parties
    <3>2. CASE k \in Live
      BY <2>2, <2>4, <2>5, <2>6, <3>2 DEF OneCallEach
    <3> QED BY <2>1, <2>7, <3>1, <3>2
  <2>8. ASSUME NEW u \in Users, byUser'[u] # NoCall
        PROVE  byUser'[u] \in Live' /\ u \in Parties(byUser[u])'
    <3>1. CASE u \in {me, t.to}
      BY <2>1, <2>3, <2>4, <3>1 DEF Parties
    <3>2. CASE u \notin {me, t.to}
      BY <2>1, <2>2, <2>4, <2>8, <3>2 DEF OneCallEach, Parties
    <3> QED BY <3>1, <3>2
  <2> QED BY <2>7, <2>8 DEF OneCallEach
<1>6. LogIsTruthful'
  BY <1>2 DEF LogIsTruthful
<1>7. (\A k \in CallIds : RowOK(k))'
  <2>1. NoRow.state = "none" /\ ~NoRow.ended
    BY DEF NoRow
  <2>2. log[id] = NoRow /\ id \notin answered
    BY <1>0, FreeCall
  <2>3. /\ phase'[id] = "ringing" /\ timer'[id] = "ring"
        /\ \A k \in CallIds \ {id} : phase'[k] = phase[k] /\ timer'[k] = timer[k]
    BY <1>2 DEF TypeOK
  <2>4. RowOK(id)'
    BY <1>2, <2>1, <2>2, <2>3 DEF RowOK
  <2>5. ASSUME NEW k \in CallIds \ {id} PROVE RowOK(k)'
    BY <1>2, <2>3 DEF RowOK
  <2> QED BY <2>4, <2>5
<1>8. (\A s \in tasks : TaskOK(s))'
  <2>1. TaskOK(n)'
    BY <1>0, <1>1, <1>2, <1>3, FreeCall DEF TaskOK, Inserts, HandlerSteps, TypeOK
  <2>2. ASSUME NEW s \in tasks PROVE TaskOK(s)'
    BY <1>0, <1>2, <2>2, FreeCall DEF TaskOK, Inserts, TypeOK
  <2> QED BY <1>2, <2>1, <2>2
<1>9. OneInsert'
  BY <1>0, <1>2, <1>3, FreeCall DEF OneInsert, Inserts
<1> QED BY <1>4, <1>5, <1>6, <1>7, <1>8, <1>9

(* accept makes a ringing call active. *)
LEMMA AcceptStep ==
  ASSUME CallsInv, NEW t \in tasks, AcceptCall(t)
  PROVE  CallsInv'
<1> DEFINE n == [t EXCEPT !.at = "accept.answer"]
           id == t.call
           me == Owner[t.conn]
<1> USE DEF CallsInv
<1>0. t \in Tasks /\ TaskOK(t)
  BY DEF TypeOK
<1>1. t.conn \in Conns /\ me \in Users /\ id \in CallIds
  BY <1>0, CallsAssumption DEF AcceptCall, TaskOK, HandlerSteps
<1>2. /\ phase' = [phase EXCEPT ![id] = "active"] /\ phase[id] = "ringing"
      /\ dev' = [dev EXCEPT ![id][me] = t.conn]
      /\ \E k \in {"max", "limit"} : timer' = [timer EXCEPT ![id] = k]
      /\ answered' = answered \cup {id}
      /\ tasks' = (tasks \ {t}) \cup {n}
      /\ UNCHANGED <<breaking, alive, up, used, caller, callee, lost, grace, signals, byUser,
                     log, shown, restarts>>
  BY DEF AcceptCall, Answerable, Continue, At, social, hub, people
<1>3. n \in Tasks /\ n.at = "accept.answer" /\ n.call = id /\ n.conn = t.conn
  BY <1>0 DEF Tasks, Steps, HandlerSteps
<1> HIDE DEF n, me, id
<1>4. TypeOK'
  BY <1>1, <1>2, <1>3 DEF TypeOK
<1>5. OneCallEach'
  <2>1. Live' = Live
    BY <1>1, <1>2 DEF Live, TypeOK
  <2> QED BY <1>2, <2>1 DEF OneCallEach, Parties
<1>6. log[id].state \in {"none", "ringing"}
  BY <1>1, <1>2 DEF RowOK
<1>7. LogIsTruthful'
  BY <1>1, <1>2, <1>6 DEF LogIsTruthful
<1>8. (\A k \in CallIds : RowOK(k))'
  <2>1. RowOK(id)'
    BY <1>1, <1>2 DEF RowOK, TypeOK
  <2>2. ASSUME NEW k \in CallIds \ {id} PROVE RowOK(k)'
    BY <1>2 DEF RowOK, TypeOK
  <2> QED BY <2>1, <2>2
<1>9. (\A s \in tasks : TaskOK(s))'
  <2>1. TaskOK(n)'
    BY <1>1, <1>2, <1>3 DEF TaskOK, Inserts, HandlerSteps
  <2>2. ASSUME NEW s \in tasks PROVE TaskOK(s)'
    BY <1>2, <2>2 DEF TaskOK, Inserts, TypeOK
  <2> QED BY <1>2, <2>1, <2>2
<1>10. OneInsert'
  BY <1>2, <1>3 DEF OneInsert, Inserts
<1> QED BY <1>4, <1>5, <1>7, <1>8, <1>9, <1>10

(* end takes a call out of both maps. *)
LEMMA EndStep ==
  ASSUME CallsInv, NEW t \in tasks, EndCall(t)
  PROVE  CallsInv'
<1> DEFINE id == t.call
<1> USE DEF CallsInv
<1>0. t \in Tasks /\ TaskOK(t) /\ t.at = "end.lock"
  BY DEF TypeOK, EndCall
<1> PICK n : n = [t EXCEPT !.at = "end.finish", !.was = (phase[t.call] = "active")]
  OBVIOUS
<1>1. id \in CallIds /\ id \in Live
  BY DEF EndCall, Live
<1>2. /\ phase' = [phase EXCEPT ![id] = "over"]
      /\ byUser' = [u \in Users |-> IF u \in Parties(id) /\ byUser[u] = id THEN NoCall ELSE byUser[u]]
      /\ timer' = [timer EXCEPT ![id] = "off"]
      /\ grace' = [grace EXCEPT ![id] = {}]
      /\ tasks' = (tasks \ {t}) \cup {n}
      /\ UNCHANGED <<breaking, alive, up, used, caller, callee, dev, lost, signals,
                     log, shown, answered, restarts>>
  BY DEF EndCall, Continue, social, hub, people
<1>3. /\ n \in Tasks /\ n.at = "end.finish" /\ n.call = id /\ n.reason = t.reason
      /\ n.was <=> phase[id] = "active"
  BY <1>0 DEF Tasks, Steps, EndSteps
<1> HIDE DEF id
<1>4. TypeOK'
  BY <1>1, <1>2, <1>3 DEF TypeOK
<1>5. OneCallEach'
  <2>1. Live' = Live \ {id}
    BY <1>1, <1>2 DEF Live, TypeOK
  <2>2. \A k \in CallIds : Parties(k)' = Parties(k)
    BY <1>2 DEF Parties
  <2>3. \A u \in Users : byUser'[u] = IF byUser[u] = id THEN NoCall ELSE byUser[u]
    BY <1>1, <1>2, CallsAssumption DEF OneCallEach
  <2>4. \A k \in Live' : \A u \in Parties(k) : u \in Users /\ byUser'[u] = k
    BY <2>1, <2>3 DEF OneCallEach
  <2>5. \A u \in Users : byUser'[u] # NoCall => byUser'[u] \in Live' /\ u \in Parties(byUser'[u])
    BY <2>1, <2>3 DEF OneCallEach
  <2>6. Live' \subseteq CallIds
    BY DEF Live
  <2>7. \A k \in Live' : (caller[k] # callee[k])'
    BY <1>2, <2>1 DEF OneCallEach
  <2>8. \A u \in Users : byUser'[u] # NoCall => u \in Parties(byUser[u])'
    BY <2>2, <2>5, <2>6
  <2> QED BY <2>2, <2>4, <2>5, <2>6, <2>7, <2>8 DEF OneCallEach
<1>6. LogIsTruthful'
  BY <1>2 DEF LogIsTruthful
<1>7. (\A k \in CallIds : RowOK(k))'
  <2>1. /\ phase'[id] = "over" /\ timer'[id] = "off"
        /\ \A k \in CallIds \ {id} : phase'[k] = phase[k] /\ timer'[k] = timer[k]
    BY <1>1, <1>2 DEF TypeOK
  <2> QED BY <1>1, <1>2, <2>1 DEF RowOK
<1>8. (\A s \in tasks : TaskOK(s))'
  <2>1. n.was <=> id \in answered
    BY <1>1, <1>3 DEF RowOK, Live
  <2>2. TaskOK(n)'
    <3>1. t.reason \in EndReasons /\ (t.reason = "ended" => id \in answered)
      BY <1>0 DEF TaskOK, id
    <3>2. phase'[id] = "over"
      BY <1>1, <1>2 DEF TypeOK
    <3> QED BY <1>1, <1>2, <1>3, <2>1, <3>1, <3>2 DEF TaskOK, Inserts, HandlerSteps, ConnSteps
  <2>3. ASSUME NEW s \in tasks PROVE TaskOK(s)'
    BY <1>1, <1>2, <2>3 DEF TaskOK, Inserts, TypeOK
  <2> QED BY <1>2, <2>2, <2>3
<1>9. OneInsert'
  BY <1>2, <1>3 DEF OneInsert, Inserts
<1> QED BY <1>4, <1>5, <1>6, <1>7, <1>8, <1>9

(* The server restarts: no goroutine and no call survives, and the open rows
   are closed as what they were. *)
LEMMA RestartStep ==
  ASSUME CallsInv, Restart
  PROVE  CallsInv'
<1> USE DEF CallsInv
<1>1. /\ phase' = [id \in CallIds |-> IF id \in Live THEN "over" ELSE phase[id]]
      /\ byUser' = [u \in Users |-> NoCall]
      /\ timer' = [id \in CallIds |-> "off"]
      /\ tasks' = {} /\ UNCHANGED <<caller, callee, answered>>
  BY DEF Restart, people
<1>2. Live' = {}
  BY <1>1 DEF Live
<1>3. \A id \in CallIds : log'[id] \in Rows /\ (log'[id] = log[id] \/
        /\ log[id].state # "none" /\ log'[id].ended
        /\ log'[id].answered = log[id].answered
        /\ log'[id].state = IF log[id].answered THEN "ended" ELSE "failed")
  <2>1. CASE UNCHANGED log
    BY <2>1 DEF TypeOK
  <2>2. CASE log' = Recover
    <3> SUFFICES ASSUME NEW id \in CallIds, log[id].state # "none", ~log[id].ended
                 PROVE  /\ log'[id] \in Rows /\ log'[id].ended
                        /\ log'[id].answered = log[id].answered
                        /\ log'[id].state = IF log[id].answered THEN "ended" ELSE "failed"
      BY <2>2 DEF Recover, TypeOK
    <3> DEFINE s == IF log[id].answered THEN "ended" ELSE "failed"
    <3>1. log[id] \in Rows /\ s \in RowStates /\ "interrupted" \in Reasons
      BY DEF TypeOK, RowStates, Reasons
    <3>2. log'[id] = [log[id] EXCEPT !.state = s, !.ended = TRUE, !.reason = "interrupted"]
      BY <2>2 DEF Recover
    <3> HIDE DEF s
    <3>3. log'[id] \in Rows /\ log'[id].ended /\ log'[id].answered = log[id].answered /\ log'[id].state = s
      BY <3>1, <3>2 DEF Rows
    <3> QED BY <3>3 DEF s
  <2> QED BY <2>1, <2>2 DEF Restart
<1>4. log' \in [CallIds -> Rows]
  BY <1>3 DEF Restart, Recover, TypeOK
<1>5. TypeOK'
  <2>1. restarts' \in 0..MaxRestarts
    BY CallsAssumption DEF Restart, TypeOK
  <2> QED BY <1>1, <1>4, <2>1 DEF Restart, TypeOK, people
<1>6. OneCallEach'
  BY <1>1, <1>2 DEF OneCallEach
<1>7. LogIsTruthful'
  <2> SUFFICES ASSUME NEW id \in CallIds
               PROVE  /\ log'[id].state = "ended" \/ log'[id].answered => id \in answered
                      /\ log'[id].state \in {"missed", "declined", "cancelled", "busy"} => id \notin answered
    BY <1>1 DEF LogIsTruthful
  <2> QED BY <1>3 DEF LogIsTruthful
<1>8. (\A id \in CallIds : RowOK(id))'
  <2> SUFFICES ASSUME NEW id \in CallIds PROVE RowOK(id)'
    OBVIOUS
  <2>1. phase'[id] \in {"free", "over"} /\ (phase'[id] = "free" => phase[id] = "free") /\ timer'[id] = "off"
    BY <1>1 DEF Live, TypeOK
  <2>0. NoRow.state = "none"
    BY DEF NoRow
  <2>2. phase[id] = "free" => log[id] = NoRow /\ log[id].state = "none" /\ id \notin answered
    BY <2>0 DEF RowOK
  <2>3. log'[id].ended => log'[id].state # "ringing"
    BY <1>3 DEF RowOK
  <2> QED BY <1>1, <1>3, <2>1, <2>2, <2>3 DEF RowOK
<1> QED BY <1>1, <1>5, <1>6, <1>7, <1>8 DEF OneInsert

-----------------------------------------------------------------------------
(* Every step preserves the invariant. *)
LEMMA CallsNext == CallsInv /\ [Next]_vars => CallsInv'
<1> SUFFICES ASSUME CallsInv, [Next]_vars PROVE CallsInv'
  OBVIOUS
<1>1. ASSUME NEW t \in tasks, Step(t) PROVE CallsInv'
  BY <1>1, StartQuiet, AcceptQuiet, EndQuiet, NoticeStep, InsertStep, UpdateStep,
     BusyStep, RingStep, AcceptStep, EndStep DEF Step
<1>2. CASE UNCHANGED vars
  <2>1. Side /\ UNCHANGED core
    BY <1>2 DEF vars, social, hub, memory, inCall, core, Side, CallsInv, TypeOK
  <2>2. Handed({})
    BY <1>2 DEF vars, Handed
  <2> QED BY <2>1, <2>2, QuietStep
<1> QED BY <1>1, <1>2, ClientStep, TimersStep, SocialStep, RestartStep DEF Next

(* The invariant holds in every reachable state. *)
THEOREM CallsInvHolds == Spec => []CallsInv
<1> QED BY CallsInit, CallsNext, PTL DEF Spec

(* Nobody is ever in two calls or kept busy by a call that is over. *)
THEOREM OneCallEachHolds == Spec => []OneCallEach
<1>1. CallsInv => OneCallEach
  BY DEF CallsInv
<1> QED BY <1>1, CallsInvHolds, PTL

(* The call log never says of an answered call that it was missed, declined,
   cancelled or busy, and never of another that it was answered. *)
THEOREM LogIsTruthfulHolds == Spec => []LogIsTruthful
<1>1. CallsInv => LogIsTruthful
  BY DEF CallsInv
<1> QED BY <1>1, CallsInvHolds, PTL

(* No step touches a closed row: an insertion finds no row, AnswerCall wants a
   ringing one, and FinishCall and the recovery want an open one. *)
THEOREM ClosedRowsStayHolds == Spec => ClosedRowsStay
<1> DEFINE Stay == \A id \in CallIds : log[id].ended => log'[id] = log[id]
<1>1. ASSUME CallsInv, Next PROVE Stay
  <2> SUFFICES ASSUME NEW id \in CallIds, log[id].ended PROVE log'[id] = log[id]
    OBVIOUS
  <2>0. log \in [CallIds -> Rows] /\ RowOK(id)
    BY <1>1 DEF CallsInv, TypeOK
  <2>1. ASSUME NEW t \in tasks, Step(t) PROVE log'[id] = log[id]
    <3>0. TaskOK(t) /\ ~NoRow.ended
      BY <1>1 DEF CallsInv, NoRow
    <3>1. ASSUME NEW row, t.call # id, Write(t.call, row) PROVE log'[id] = log[id]
      BY <2>0, <3>1 DEF Write
    <3>2. CASE StartInsert(t) \/ StartBusyInsert(t)
      <4>1. t.call # id
        BY <3>0, <3>2 DEF StartInsert, StartBusyInsert, TaskOK, Inserts
      <4> QED BY <3>1, <3>2, <4>1 DEF StartInsert, StartBusyInsert
    <3>3. CASE AcceptAnswer(t)
      <4>1. log[t.call].state = "ringing" => t.call # id
        BY <2>0 DEF RowOK
      <4> QED BY <3>1, <3>3, <4>1 DEF AcceptAnswer
    <3>4. CASE EndFinish(t)
      BY <3>1, <3>4 DEF EndFinish
    <3> QED
      BY <2>1, <3>2, <3>3, <3>4
      DEF Step, StartCheck, StartRefused, StartInCall, StartBusy, StartCall, StartRing,
          AcceptRead, AcceptNoTime, AcceptUnknown, AcceptCall, AcceptTell, EndCall, EndAgain, EndTell,
          ConnectedIdle, ConnectedRinging, ConnectedRejoins, ConnectedRing,
          DisconnectedIdle, DisconnectedCancels, DisconnectedDrops
  <2>2. CASE Client
    BY <2>2 DEF Client, Connect, SocketDies, HubRemove, CallStart, CallAccept, CallSignal, CallEnd
  <2>3. CASE Timers
    BY <2>3 DEF Timers, FireTimer, FireGrace
  <2>4. CASE \E a, b \in Users : Unfriend(a, b) \/ EndBetween(a, b)
    BY <2>4 DEF Unfriend, EndBetween
  <2>5. CASE Restart
    BY <2>5 DEF Restart, Recover
  <2> QED BY <1>1, <2>1, <2>2, <2>3, <2>4, <2>5 DEF Next
<1>2. CallsInv /\ [Next]_vars => [Stay]_vars
  BY <1>1
<1> QED BY <1>2, CallsInvHolds, PTL DEF Spec, ClosedRowsStay
-----------------------------------------------------------------------------
(* Whoever dropped out is timed.  Nobody is counted as lost before the call is
   active, and then each of the steps that could leave somebody without a timer
   makes a goroutine that ends the call. *)
NobodyLostYet == \A id \in CallIds : phase[id] \in {"free", "ringing"} => lost[id] = {}

Timed == NobodyLostYet /\ LostIsTimed

(* A step that leaves the phases, the lost and the timers alone, and takes no
   goroutine away that is about to end an active call, keeps them timed. *)
LEMMA TimedStays ==
  ASSUME Timed, UNCHANGED <<phase, lost, grace>>,
         \A t \in tasks : t.at = "end.lock" /\ phase[t.call] = "active" => t \in tasks'
  PROVE  Timed'
BY DEF Timed, NobodyLostYet, LostIsTimed

(* Every step keeps the lost timed. *)
LEMMA TimedNext ==
  ASSUME CallsInv, Timed, [Next]_vars
  PROVE  Timed'
<1>0. TypeOK /\ \A t \in tasks : TaskOK(t)
  BY DEF CallsInv
<1>1. ASSUME NEW t \in tasks, Step(t) PROVE Timed'
  <2>0. t \in Tasks /\ TaskOK(t)
    BY <1>0 DEF TypeOK
  <2>1. CASE t.at # "end.lock" /\ UNCHANGED <<phase, lost, grace>>
    <3>1. \A n \in tasks : n # t => n \in tasks'
      BY <1>1, <2>1
      DEF Step, StartCheck, StartRefused, StartInCall, StartBusy, StartCall, StartInsert, StartRing,
          StartBusyInsert, AcceptRead, AcceptNoTime, AcceptUnknown, AcceptCall, AcceptAnswer, AcceptTell,
          EndCall, EndAgain, EndFinish, EndTell, ConnectedIdle, ConnectedRinging, ConnectedRejoins,
          ConnectedRing, DisconnectedIdle, DisconnectedCancels, DisconnectedDrops, Continue
    <3> QED BY <2>1, <3>1, TimedStays
  <2>2. ASSUME NEW id \in CallIds, StartBusy(t, id) \/ StartCall(t, id)
        PROVE  Timed'
    <3>1. /\ phase[id] = "free" /\ phase'[id] \in {"over", "ringing"}
          /\ \A k \in CallIds \ {id} : phase'[k] = phase[k]
          /\ UNCHANGED <<lost, grace>>
          /\ t.at = "start.lock"
          /\ \A n \in tasks : n # t => n \in tasks'
      BY <1>0, <2>2 DEF StartBusy, StartCall, TypeOK, Continue, inCall
    <3> QED BY <3>1 DEF Timed, NobodyLostYet, LostIsTimed
  <2>3. CASE AcceptCall(t)
    <3>1. t.call \in CallIds /\ t.at = "accept.lock"
      BY <2>0, <2>3 DEF AcceptCall, TaskOK
    <3>2. /\ phase[t.call] = "ringing" /\ phase'[t.call] = "active"
          /\ \A k \in CallIds \ {t.call} : phase'[k] = phase[k]
          /\ UNCHANGED <<lost, grace>>
          /\ \A n \in tasks : n # t => n \in tasks'
      BY <1>0, <2>3, <3>1 DEF AcceptCall, Answerable, TypeOK, Continue
    <3> QED BY <3>1, <3>2 DEF Timed, NobodyLostYet, LostIsTimed
  <2>4. CASE EndCall(t)
    <3>1. t.call \in CallIds
      BY <2>4 DEF EndCall, Live
    <3>2. /\ phase'[t.call] = "over"
          /\ \A k \in CallIds \ {t.call} : phase'[k] = phase[k] /\ grace'[k] = grace[k]
          /\ UNCHANGED lost
          /\ \A n \in tasks : n # t => n \in tasks'
      BY <1>0, <2>4, <3>1 DEF EndCall, TypeOK, Continue
    <3> QED BY <3>1, <3>2 DEF Timed, NobodyLostYet, LostIsTimed
  <2>5. CASE EndAgain(t)
    <3>1. t.call \in CallIds /\ phase[t.call] # "active"
      BY <2>0, <2>5 DEF EndAgain, TaskOK, Live
    <3>2. UNCHANGED <<phase, lost, grace>> /\ \A n \in tasks : n # t => n \in tasks'
      BY <2>5 DEF EndAgain, memory, inCall, Continue
    <3> QED BY <3>1, <3>2, TimedStays
  <2>6. ASSUME ConnectedRejoins(t) \/ DisconnectedDrops(t)
        PROVE  Timed'
    <3>1. t.conn \in Conns /\ Owner[t.conn] \in Users
      BY <2>0, <2>6, CallsAssumption DEF TaskOK, ConnSteps, ConnectedRejoins, DisconnectedDrops
    <3>2. PICK id \in CallIds : id = CallOf(t.conn) /\ phase[id] = "active"
      BY <1>0, <2>6, <3>1 DEF ConnectedRejoins, Rejoins, DisconnectedDrops, DropsOut, InCall, CallOf, TypeOK
    <3>3. PICK u \in Users : u = Owner[t.conn]
      BY <3>1
    <3>4. /\ UNCHANGED phase
          /\ \A n \in tasks : n # t => n \in tasks'
          /\ \A k \in CallIds \ {id} : lost'[k] = lost[k] /\ grace'[k] = grace[k]
          /\ \/ lost'[id] = lost[id] \ {u} /\ grace'[id] = grace[id] \ {u}
             \/ /\ lost'[id] = lost[id] \cup {u}
                /\ grace'[id] = IF u \in lost[id] THEN grace[id] ELSE grace[id] \cup {u}
          /\ t.at # "end.lock"
      BY <1>0, <2>6, <3>2, <3>3 DEF ConnectedRejoins, DisconnectedDrops, TypeOK, Continue
    <3> QED BY <3>2, <3>4 DEF Timed, NobodyLostYet, LostIsTimed
  <2>7. CASE t.at # "end.lock" /\ ~UNCHANGED <<phase, lost, grace>>
    BY <1>1, <2>2, <2>3, <2>4, <2>6, <2>7
    DEF Step, StartCheck, StartRefused, StartInCall, StartInsert, StartRing, StartBusyInsert, AcceptRead,
        AcceptNoTime, AcceptUnknown, AcceptAnswer, AcceptTell, EndAgain, EndFinish, EndTell, ConnectedIdle,
        ConnectedRinging, ConnectedRing, DisconnectedIdle, DisconnectedCancels, memory, inCall
  <2>8. CASE t.at = "end.lock"
    BY <1>1, <2>2, <2>4, <2>5, <2>8
    DEF Step, StartCheck, StartRefused, StartInCall, StartBusy, StartCall, StartInsert, StartRing,
        StartBusyInsert, AcceptRead, AcceptNoTime, AcceptUnknown, AcceptCall, AcceptAnswer, AcceptTell,
        EndFinish, EndTell, ConnectedIdle, ConnectedRinging, ConnectedRejoins, ConnectedRing,
        DisconnectedIdle, DisconnectedCancels, DisconnectedDrops
  <2> QED BY <2>1, <2>7, <2>8
<1>2. CASE Client
  <2>1. UNCHANGED <<phase, lost, grace>> /\ tasks \subseteq tasks'
    BY <1>2 DEF Client, Connect, SocketDies, HubRemove, CallStart, CallAccept, CallSignal, CallEnd, memory, inCall
  <2> QED BY <2>1, TimedStays
<1>3. ASSUME NEW id \in CallIds, FireTimer(id) PROVE Timed'
  <2>1. UNCHANGED <<phase, lost, grace>> /\ tasks \subseteq tasks'
    BY <1>3 DEF FireTimer
  <2> QED BY <2>1, TimedStays
<1>4. ASSUME NEW id \in CallIds, NEW u \in Users, FireGrace(id, u) PROVE Timed'
  <2>1. PICK n : n = Ending(id, "disconnected")
    OBVIOUS
  <2>2. n.at = "end.lock" /\ n.call = id
    BY <2>1 DEF Ending
  <2>3. /\ UNCHANGED <<phase, lost>> /\ tasks' = tasks \cup {n}
        /\ \A k \in CallIds \ {id} : grace'[k] = grace[k]
    BY <1>0, <1>4, <2>1 DEF FireGrace, TypeOK
  <2> QED BY <2>2, <2>3 DEF Timed, NobodyLostYet, LostIsTimed
<1>5. CASE \E a, b \in Users : Unfriend(a, b) \/ EndBetween(a, b)
  <2>1. UNCHANGED <<phase, lost, grace>> /\ tasks \subseteq tasks'
    BY <1>5 DEF Unfriend, EndBetween, memory, inCall
  <2> QED BY <2>1, TimedStays
<1>6. CASE Restart
  <2>1. \A k \in CallIds : lost'[k] = {}
    BY <1>6 DEF Restart
  <2> QED BY <2>1 DEF Timed, NobodyLostYet, LostIsTimed
<1>7. CASE UNCHANGED vars
  <2>1. UNCHANGED <<phase, lost, grace, tasks>>
    BY <1>7 DEF vars, memory, inCall
  <2> QED BY <2>1, TimedStays
<1> QED BY <1>1, <1>2, <1>3, <1>4, <1>5, <1>6, <1>7 DEF Next, Timers

(* Whoever dropped out of an active call has a timer running, or the call is
   about to be ended, however often sockets break, come back, and whatever
   timer fires meanwhile. *)
THEOREM LostIsTimedHolds == Spec => []LostIsTimed
<1>1. Init => Timed
  BY DEF Init, Timed, NobodyLostYet, LostIsTimed
<1>2. CallsInv /\ Timed /\ [Next]_vars => Timed'
  BY TimedNext
<1>3. Timed => LostIsTimed
  BY DEF Timed
<1> QED BY <1>1, <1>2, <1>3, CallsInvHolds, PTL DEF Spec
-----------------------------------------------------------------------------
(* What the log and the phones show once nothing is under way, as long as the
   connections hold and Postgres answers. *)
Steady == Flaky = {} /\ InitUp = Conns /\ "fail" \notin May

Starts == {"start.insert", "start.ring"}
Accepted == {"accept.answer", "accept.tell"}
Accepts == {"accept.read", "accept.lock"} \cup Accepted

\* No connection comes or goes.
Held == /\ used = Conns
        /\ \A t \in tasks : t.at \notin ConnSteps
        /\ \A id \in CallIds : grace[id] = {}

\* A timer is armed for a call in memory, and one that accept armed for an active one.
TimerOK(id) == /\ timer[id] # "off" => phase[id] \in {"ringing", "active"}
               /\ timer[id] \in {"max", "limit"} => phase[id] = "active"

\* A row is behind the memory only if a goroutine is about to write it.
RowFollows(id) ==
    /\ phase[id] = "ringing" =>
          \/ log[id].state = "ringing"
          \/ \E t \in tasks : t.at = "start.insert" /\ t.call = id
    /\ phase[id] = "active" =>
          \/ log[id].state = "active"
          \/ log[id].state = "ringing" /\ \E t \in tasks : t.at = "accept.answer" /\ t.call = id
    /\ phase[id] = "over" =>
          \/ log[id].state = "none" \/ log[id].ended \/ FellOut(id)
          \/ \E t \in tasks : t.at = "end.finish" /\ t.call = id

\* A phone that shows a call was told by start, and is about to be told when
\* the call was answered or has ended, or was skipped when that was told.
PhoneOK(c, id) ==
    /\ c \in up /\ Owner[c] = callee[id] /\ ~Starting(id)
    /\ \/ phase[id] = "ringing"
       \/ phase[id] # "free" /\ FellOut(id)
       \/ phase[id] = "active" /\ \E t \in tasks : t.at \in Accepted /\ t.call = id
       \/ phase[id] = "over" /\ \E t \in tasks : t.at \in {"end.finish", "end.tell"} /\ t.call = id
       \/ Skipped(c, id)

\* Nobody but EndBetween knows a call that is being started.
Knowing(t) ==
    /\ t.at \in Starts => /\ t.to = callee[t.call]
                          /\ \/ phase[t.call] = "ringing"
                             \/ phase[t.call] = "over" /\ FellOut(t.call)
    /\ t.at \in Accepts => phase[t.call] # "free" /\ ~Starting(t.call) /\ <<t.conn, t.call>> \notin shown
    /\ t.at \in Accepted => /\ Owner[t.conn] = callee[t.call] /\ phase[t.call] # "ringing"
                            /\ phase[t.call] = "active" => dev[t.call][Owner[t.conn]] = t.conn
    /\ t.at \in EndSteps => /\ phase[t.call] # "free"
                            /\ ~Starting(t.call) \/ t.reason = "unfriended"
                            /\ t.reason = "unfriended" => FellOut(t.call)

OneStart == \A s, t \in tasks : s.at \in Starts /\ t.at \in Starts /\ s.call = t.call => s = t

Settling == /\ Held
            /\ friends \cap breaking = {}
            /\ \A id \in CallIds : TimerOK(id)
            /\ \A id \in CallIds : RowFollows(id)
            /\ \A s \in shown : PhoneOK(s[1], s[2])
            /\ \A t \in tasks : Knowing(t)
            /\ OneStart

(* What a step that does not touch a call, its row or its phones, and takes no
   goroutine away that is to follow it up, leaves true of it. *)
LEMMA RowKept ==
  ASSUME NEW k \in CallIds, RowFollows(k), phase'[k] = phase[k], log'[k] = log[k],
         FellOut(k) => FellOut(k)',
         \A s \in tasks : s.call = k /\ s.at \in {"start.insert", "accept.answer", "end.finish"} => s \in tasks'
  PROVE  RowFollows(k)'
BY DEF RowFollows

(* The same for a phone that shows the call. *)
LEMMA PhoneKept ==
  ASSUME NEW c, NEW k, PhoneOK(c, k), phase'[k] = phase[k], callee'[k] = callee[k], dev'[k] = dev[k], c \in up',
         FellOut(k) => FellOut(k)', Starting(k)' => Starting(k),
         \A s \in tasks : s.call = k /\ s.at \in Accepted \cup {"end.finish", "end.tell"} => s \in tasks'
  PROVE  PhoneOK(c, k)'
BY DEF PhoneOK, Skipped

(* A step after which goroutine n is about to tell the phones, or the others that were stay. *)
LEMMA PhoneFollows ==
  ASSUME NEW c, NEW k, PhoneOK(c, k), callee'[k] = callee[k], c \in up',
         FellOut(k) => FellOut(k)', Starting(k)' => Starting(k),
         NEW n, n \in tasks', n.call = k,
         \/ phase'[k] = "active" /\ n.at \in Accepted
         \/ phase'[k] = "over" /\ n.at \in {"end.finish", "end.tell"}
         \/ /\ phase'[k] = phase[k] /\ n.at \in Accepted
            /\ \A s \in tasks : s.call = k /\ s.at \in {"end.finish", "end.tell"} => s \in tasks'
  PROVE  PhoneOK(c, k)'
BY DEF PhoneOK, Skipped

(* And for what a goroutine knows of its call. *)
LEMMA KnowingKept ==
  ASSUME NEW s \in tasks, Knowing(s),
         s.at \in Starts \cup Accepts \cup EndSteps =>
           /\ phase'[s.call] = phase[s.call] /\ callee'[s.call] = callee[s.call] /\ dev'[s.call] = dev[s.call]
           /\ FellOut(s.call) => FellOut(s.call)'
           /\ Starting(s.call)' => Starting(s.call)
           /\ s.at \in Accepts => (<<s.conn, s.call>> \in shown' => <<s.conn, s.call>> \in shown)
  PROVE  Knowing(s)'
BY DEF Knowing, Accepted, Accepts

(* No call is started twice. *)
LEMMA OneStartKept ==
  ASSUME OneStart, NEW t \in tasks, NEW n, tasks' \subseteq (tasks \ {t}) \cup {n},
         n.at \in Starts => (t.at \in Starts /\ t.call = n.call) \/ ~Starting(n.call)
  PROVE  OneStart'
BY DEF OneStart, Starting, Starts

(* A goroutine takes its next step while the connections hold. *)
LEMMA SettlingStep ==
  ASSUME Steady, CallsInv, Settling, NEW t \in tasks, Step(t)
  PROVE  Settling'
<1> DEFINE kinds == Starts \cup Accepts \cup EndSteps
<1>0. /\ TypeOK /\ t \in Tasks /\ TaskOK(t) /\ Knowing(t) /\ t.at \notin ConnSteps
      /\ \A s \in tasks : TaskOK(s) /\ Knowing(s)
      /\ \A id \in CallIds : RowOK(id)
      /\ \A id \in CallIds : RowFollows(id) /\ TimerOK(id) /\ grace[id] = {}
      /\ OneStart
  BY DEF CallsInv, TypeOK, Settling, Held
<1>a. \A s \in tasks : s.at \in kinds => s.call \in CallIds
  BY <1>0 DEF TaskOK, Starts, Accepts, Accepted, EndSteps
<1>b. \A c, k : <<c, k>> \in shown => PhoneOK(c, k)
  BY DEF Settling
<1>d. \A id \in CallIds : RowFollows(id)
  BY <1>0
<1>c. shown \subseteq Conns \X CallIds
  BY <1>0 DEF TypeOK
<1>1. CASE StartCheck(t)
  <2> PICK n : n = [t EXCEPT !.at = "start.lock"]
    OBVIOUS
  <2>1. n.at = "start.lock" /\ n.conn = t.conn /\ n.to = t.to /\ n.call = t.call /\ n.reason = t.reason
    BY <1>0 DEF Tasks
  <2>2. /\ tasks' = (tasks \ {t}) \cup {n}
        /\ t.at = "start.check"
        /\ UNCHANGED <<social, hub, phase, caller, callee, dev, timer, grace, log, shown>>
    BY <1>0, <1>1 DEF StartCheck, Continue, At, memory, people, inCall
  <2>3. t.at \notin kinds
    BY <2>2 DEF Starts, Accepts, Accepted, EndSteps
  <2>4. /\ \A k \in CallIds : Starting(k)' => Starting(k)
        /\ \A s \in tasks : s # t => s \in tasks'
        /\ \A k \in CallIds : FellOut(k)' <=> FellOut(k)
    BY <2>1, <2>2 DEF Starting, FellOut, social
  <2>8. Held' /\ (friends \cap breaking = {})'
    BY <1>0, <2>1, <2>2 DEF Settling, Held, ConnSteps, hub, social
  <2>9. (\A k \in CallIds : TimerOK(k))'
    BY <1>0, <1>a, <1>b, <2>1, <2>2, <2>3, <2>4 DEF TimerOK
  <2>10. ASSUME NEW k \in CallIds PROVE RowFollows(k)'
    BY <1>0, <1>a, <1>b, <2>1, <2>2, <2>3, <2>4, RowKept
  <2>11. ASSUME NEW c \in Conns, NEW k \in CallIds, <<c, k>> \in shown' PROVE PhoneOK(c, k)'
    BY <1>0, <1>a, <1>b, <2>1, <2>2, <2>3, <2>4, <2>11, PhoneKept DEF hub, Accepted, PhoneOK
  <2>12. ASSUME NEW s \in tasks, s # t PROVE Knowing(s)'
    BY <1>0, <1>a, <1>b, <2>1, <2>2, <2>3, <2>4, <2>12, KnowingKept
  <2>13. Knowing(n)'
    BY <1>0, <1>a, <1>b, <2>1, <2>2, <2>3, <2>4 DEF Knowing, Accepts, Accepted, Starts, EndSteps
  <2>14. OneStart'
    BY <1>0, <2>1, <2>2, OneStartKept DEF Starts
  <2>15. shown' \subseteq Conns \X CallIds
    BY <1>0, <1>c, <2>2
  <2>16. (\A s \in shown : PhoneOK(s[1], s[2]))'
    BY <2>11, <2>15
  <2>17. (\A s \in tasks : Knowing(s))'
    BY <2>2, <2>12, <2>13
  <2> QED BY <2>8, <2>9, <2>10, <2>14, <2>16, <2>17 DEF Settling
<1>2. CASE StartRefused(t) \/ StartInCall(t)
  <2>2. /\ tasks' = tasks \ {t}
        /\ t.at \in {"start.check", "start.lock"}
        /\ UNCHANGED <<social, hub, phase, caller, callee, dev, timer, grace, log, shown>>
    BY <1>0, <1>2 DEF StartRefused, StartInCall, Continue, memory, people, inCall
  <2>3. t.at \notin kinds
    BY <2>2 DEF Starts, Accepts, Accepted, EndSteps
  <2>4. /\ \A k \in CallIds : Starting(k)' => Starting(k)
        /\ \A s \in tasks : s # t => s \in tasks'
        /\ \A k \in CallIds : FellOut(k)' <=> FellOut(k)
    BY <2>2 DEF Starting, FellOut, social
  <2>8. Held' /\ (friends \cap breaking = {})'
    BY <1>0, <2>2 DEF Settling, Held, ConnSteps, hub, social
  <2>9. (\A k \in CallIds : TimerOK(k))'
    BY <1>0, <1>a, <1>b, <2>2, <2>3, <2>4 DEF TimerOK
  <2>10. ASSUME NEW k \in CallIds PROVE RowFollows(k)'
    BY <1>0, <1>a, <1>b, <2>2, <2>3, <2>4, RowKept
  <2>11. ASSUME NEW c \in Conns, NEW k \in CallIds, <<c, k>> \in shown' PROVE PhoneOK(c, k)'
    BY <1>0, <1>a, <1>b, <2>2, <2>3, <2>4, <2>11, PhoneKept DEF hub, Accepted, PhoneOK
  <2>12. ASSUME NEW s \in tasks, s # t PROVE Knowing(s)'
    BY <1>0, <1>a, <1>b, <2>2, <2>3, <2>4, <2>12, KnowingKept
  <2>13. tasks' \subseteq tasks
    BY <2>2
  <2>14. OneStart'
    BY <1>0, <2>2 DEF OneStart
  <2>15. shown' \subseteq Conns \X CallIds
    BY <1>0, <1>c, <2>2
  <2>16. (\A s \in shown : PhoneOK(s[1], s[2]))'
    BY <2>11, <2>15
  <2>17. (\A s \in tasks : Knowing(s))'
    BY <2>2, <2>12, <2>13
  <2> QED BY <2>8, <2>9, <2>10, <2>14, <2>16, <2>17 DEF Settling
<1>3. ASSUME NEW id \in CallIds, StartBusy(t, id) PROVE Settling'
  <2> PICK n : n = [t EXCEPT !.at = "start.busy", !.call = id]
    OBVIOUS
  <2>1. n.at = "start.busy" /\ n.conn = t.conn /\ n.to = t.to /\ n.call = id /\ n.reason = t.reason
    BY <1>0 DEF Tasks
  <2>2. /\ tasks' = (tasks \ {t}) \cup {n}
        /\ t.at = "start.lock" /\ phase[id] = "free" /\ phase'[id] = "over"
        /\ \A k \in CallIds \ {id} : phase'[k] = phase[k] /\ caller'[k] = caller[k] /\ callee'[k] = callee[k]
        /\ UNCHANGED <<social, hub, dev, timer, grace, log, shown>>
    BY <1>0, <1>3 DEF StartBusy, Continue, inCall, TypeOK
  <2>3. t.at \notin kinds
    BY <2>2 DEF Starts, Accepts, Accepted, EndSteps
  <2>4. /\ \A k \in CallIds : Starting(k)' => Starting(k)
        /\ \A s \in tasks : s # t => s \in tasks'
        /\ \A k \in CallIds \ {id} : FellOut(k)' <=> FellOut(k)
    BY <2>1, <2>2 DEF Starting, FellOut, social
  <2>8. Held' /\ (friends \cap breaking = {})'
    BY <1>0, <2>1, <2>2 DEF Settling, Held, ConnSteps, hub, social
  <2>9. (\A k \in CallIds : TimerOK(k))'
    BY <1>0, <1>a, <1>b, <2>1, <2>2, <2>3, <2>4 DEF TimerOK
  <2>10. ASSUME NEW k \in CallIds PROVE RowFollows(k)'
    <3>1. CASE k # id
      BY <1>0, <1>a, <1>b, <2>1, <2>2, <2>3, <2>4, <3>1, RowKept
    <3>2. CASE k = id
      <4>1. log[id] = NoRow /\ NoRow.state = "none"
        BY <1>0, <2>2 DEF RowOK, NoRow
      <4>2. log'[id].state = "none" /\ phase'[id] = "over"
        BY <2>2, <4>1
      <4> QED BY <3>2, <4>2 DEF RowFollows
    <3> QED BY <3>1, <3>2
  <2>11. ASSUME NEW c \in Conns, NEW k \in CallIds, <<c, k>> \in shown' PROVE PhoneOK(c, k)'
    <3>1. CASE k # id
      BY <1>0, <1>a, <1>b, <2>1, <2>2, <2>3, <2>4, <2>11, <3>1, PhoneKept DEF hub, Accepted, PhoneOK
    <3>2. CASE k = id
      BY <1>0, <1>a, <1>b, <2>1, <2>2, <2>3, <2>4, <2>11, <3>2 DEF PhoneOK, Skipped, Knowing, Accepted, Accepts, Starts, hub
    <3> QED BY <3>1, <3>2
  <2>12. ASSUME NEW s \in tasks, s # t PROVE Knowing(s)'
    <3>1. CASE s.call # id
      BY <1>0, <1>a, <1>b, <2>1, <2>2, <2>3, <2>4, <2>12, <3>1, KnowingKept
    <3>2. CASE s.call = id
      BY <1>0, <1>a, <1>b, <2>1, <2>2, <2>3, <2>4, <2>12, <3>2 DEF Knowing, Accepts, Accepted, Starts, EndSteps
    <3> QED BY <3>1, <3>2
  <2>13. Knowing(n)'
    BY <1>0, <1>a, <1>b, <2>1, <2>2, <2>3, <2>4 DEF Knowing, Accepts, Accepted, Starts, EndSteps
  <2>14. OneStart'
    BY <1>0, <2>1, <2>2, OneStartKept DEF Starts
  <2>15. shown' \subseteq Conns \X CallIds
    BY <1>0, <1>c, <2>2
  <2>16. (\A s \in shown : PhoneOK(s[1], s[2]))'
    BY <2>11, <2>15
  <2>17. (\A s \in tasks : Knowing(s))'
    BY <2>2, <2>12, <2>13
  <2> QED BY <2>8, <2>9, <2>10, <2>14, <2>16, <2>17 DEF Settling
<1>4. ASSUME NEW id \in CallIds, StartCall(t, id) PROVE Settling'
  <2> PICK n : n = [t EXCEPT !.at = "start.insert", !.call = id]
    OBVIOUS
  <2>1. n.at = "start.insert" /\ n.conn = t.conn /\ n.to = t.to /\ n.call = id /\ n.reason = t.reason
    BY <1>0 DEF Tasks
  <2>2. /\ tasks' = (tasks \ {t}) \cup {n}
        /\ t.at = "start.lock" /\ phase[id] = "free" /\ phase'[id] = "ringing" /\ timer'[id] = "ring" /\ callee'[id] = t.to
        /\ \A k \in CallIds \ {id} : /\ phase'[k] = phase[k] /\ caller'[k] = caller[k] /\ callee'[k] = callee[k]
                                   /\ timer'[k] = timer[k] /\ dev'[k] = dev[k]
        /\ UNCHANGED <<social, hub, grace, log, shown>>
    BY <1>0, <1>4 DEF StartCall, Continue, TypeOK
  <2>3. t.at \notin kinds
    BY <2>2 DEF Starts, Accepts, Accepted, EndSteps
  <2>4. /\ \A k \in CallIds : Starting(k)' => Starting(k) \/ k = id
        /\ \A s \in tasks : s # t => s \in tasks'
        /\ \A k \in CallIds \ {id} : FellOut(k)' <=> FellOut(k)
    BY <2>1, <2>2 DEF Starting, FellOut, social
  <2>7. ~Starting(id) /\ ~Starting(n.call)
    BY <1>0, <2>1, <2>2 DEF Knowing, Starting, Starts
  <2>8. Held' /\ (friends \cap breaking = {})'
    BY <1>0, <2>1, <2>2 DEF Settling, Held, ConnSteps, hub, social
  <2>9. (\A k \in CallIds : TimerOK(k))'
    BY <1>0, <1>a, <1>b, <2>1, <2>2, <2>3, <2>4, <2>7 DEF TimerOK
  <2>10. ASSUME NEW k \in CallIds PROVE RowFollows(k)'
    <3>1. CASE k # id
      BY <1>0, <1>a, <1>b, <2>1, <2>2, <2>3, <2>4, <2>7, <3>1, RowKept
    <3>2. CASE k = id
      BY <1>0, <1>a, <1>b, <2>1, <2>2, <2>3, <2>4, <2>7, <3>2 DEF RowFollows, NoRow, RowOK
    <3> QED BY <3>1, <3>2
  <2>11. ASSUME NEW c \in Conns, NEW k \in CallIds, <<c, k>> \in shown' PROVE PhoneOK(c, k)'
    <3>1. CASE k # id
      BY <1>0, <1>a, <1>b, <2>1, <2>2, <2>3, <2>4, <2>7, <2>11, <3>1, PhoneKept DEF hub, Accepted, PhoneOK
    <3>2. CASE k = id
      BY <1>0, <1>a, <1>b, <2>1, <2>2, <2>3, <2>4, <2>7, <2>11, <3>2 DEF PhoneOK, Skipped, Knowing, Accepted, Accepts, Starts, hub
    <3> QED BY <3>1, <3>2
  <2>12. ASSUME NEW s \in tasks, s # t PROVE Knowing(s)'
    <3>1. CASE s.call # id
      BY <1>0, <1>a, <1>b, <2>1, <2>2, <2>3, <2>4, <2>7, <2>12, <3>1, KnowingKept
    <3>2. CASE s.call = id
      BY <1>0, <1>a, <1>b, <2>1, <2>2, <2>3, <2>4, <2>7, <2>12, <3>2 DEF Knowing, Accepts, Accepted, Starts, EndSteps
    <3> QED BY <3>1, <3>2
  <2>13. Knowing(n)'
    BY <1>0, <1>a, <1>b, <2>1, <2>2, <2>3, <2>4, <2>7 DEF Knowing, Accepts, Accepted, Starts, EndSteps
  <2>14. OneStart'
    BY <1>0, <2>1, <2>2, <2>7, OneStartKept DEF Starts
  <2>15. shown' \subseteq Conns \X CallIds
    BY <1>0, <1>c, <2>2
  <2>16. (\A s \in shown : PhoneOK(s[1], s[2]))'
    BY <2>11, <2>15
  <2>17. (\A s \in tasks : Knowing(s))'
    BY <2>2, <2>12, <2>13
  <2> QED BY <2>8, <2>9, <2>10, <2>14, <2>16, <2>17 DEF Settling
<1>5. CASE StartInsert(t)
  <2> PICK n : n = [t EXCEPT !.at = "start.ring"]
    OBVIOUS
  <2>1. n.at = "start.ring" /\ n.conn = t.conn /\ n.to = t.to /\ n.call = t.call /\ n.reason = t.reason
    BY <1>0 DEF Tasks
  <2>3. t.call \in CallIds
    BY <1>0, <1>5 DEF TaskOK, StartInsert
  <2>2. /\ tasks' = (tasks \ {t}) \cup {n}
        /\ t.at = "start.insert" /\ log'[t.call].state = "ringing"
        /\ \A k \in CallIds \ {t.call} : log'[k] = log[k]
        /\ UNCHANGED <<social, hub, phase, caller, callee, dev, timer, grace, shown>>
    <3>1. log' = [log EXCEPT ![t.call] = [NoRow EXCEPT !.state = "ringing"]]
      BY <1>5 DEF StartInsert, Write, Steady
    <3>2. log \in [CallIds -> Rows]
      BY <1>0 DEF TypeOK
    <3>3. /\ log'[t.call].state = "ringing"
          /\ \A k \in CallIds \ {t.call} : log'[k] = log[k]
      BY <2>3, <3>1, <3>2 DEF Rows, NoRow
    <3> QED BY <1>5, <3>3 DEF StartInsert, Write, Steady, Continue, At, memory, people, inCall
  <2>4. /\ \A k \in CallIds : Starting(k)' => Starting(k)
        /\ \A s \in tasks : s # t => s \in tasks'
        /\ \A k \in CallIds : FellOut(k)' <=> FellOut(k)
    BY <2>1, <2>2 DEF Starting, FellOut, social
  <2>8. Held' /\ (friends \cap breaking = {})'
    BY <1>0, <2>1, <2>2 DEF Settling, Held, ConnSteps, hub, social
  <2>9. (\A k \in CallIds : TimerOK(k))'
    BY <1>0, <1>a, <1>b, <2>1, <2>2, <2>3, <2>4 DEF TimerOK
  <2>10. ASSUME NEW k \in CallIds PROVE RowFollows(k)'
    <3>1. CASE k # t.call
      BY <1>0, <1>a, <1>b, <2>1, <2>2, <2>3, <2>4, <3>1, RowKept
    <3>2. CASE k = t.call
      BY <1>0, <1>a, <1>b, <2>1, <2>2, <2>3, <2>4, <3>2 DEF RowFollows, Knowing, Starts
    <3> QED BY <3>1, <3>2
  <2>11. ASSUME NEW c \in Conns, NEW k \in CallIds, <<c, k>> \in shown' PROVE PhoneOK(c, k)'
    BY <1>0, <1>a, <1>b, <2>1, <2>2, <2>3, <2>4, <2>11, PhoneKept DEF hub, Accepted, PhoneOK
  <2>12. ASSUME NEW s \in tasks, s # t PROVE Knowing(s)'
    BY <1>0, <1>a, <1>b, <2>1, <2>2, <2>3, <2>4, <2>12, KnowingKept
  <2>13. Knowing(n)'
    BY <1>0, <1>a, <1>b, <2>1, <2>2, <2>3, <2>4 DEF Knowing, Accepts, Accepted, Starts, EndSteps
  <2>14. OneStart'
    BY <1>0, <2>1, <2>2, OneStartKept DEF Starts
  <2>15. shown' \subseteq Conns \X CallIds
    BY <1>0, <1>c, <2>2
  <2>16. (\A s \in shown : PhoneOK(s[1], s[2]))'
    BY <2>11, <2>15
  <2>17. (\A s \in tasks : Knowing(s))'
    BY <2>2, <2>12, <2>13
  <2> QED BY <2>8, <2>9, <2>10, <2>14, <2>16, <2>17 DEF Settling
<1>6. CASE StartBusyInsert(t)
  <2>2. /\ tasks' = tasks \ {t}
        /\ t.at = "start.busy" /\ log'[t.call].ended
        /\ \A k \in CallIds \ {t.call} : log'[k] = log[k]
        /\ UNCHANGED <<social, hub, phase, caller, callee, dev, timer, grace, shown>>
    BY <1>0, <1>6 DEF StartBusyInsert, Write, Steady, Continue, memory, people, inCall, TypeOK, TaskOK
  <2>3. t.call \in CallIds
    BY <1>0, <2>2 DEF TaskOK
  <2>4. /\ \A k \in CallIds : Starting(k)' => Starting(k)
        /\ \A s \in tasks : s # t => s \in tasks'
        /\ \A k \in CallIds : FellOut(k)' <=> FellOut(k)
    BY <2>2 DEF Starting, FellOut, social
  <2>8. Held' /\ (friends \cap breaking = {})'
    BY <1>0, <2>2 DEF Settling, Held, ConnSteps, hub, social
  <2>9. (\A k \in CallIds : TimerOK(k))'
    BY <1>0, <1>a, <1>b, <2>2, <2>3, <2>4 DEF TimerOK
  <2>10. ASSUME NEW k \in CallIds PROVE RowFollows(k)'
    <3>1. CASE k # t.call
      BY <1>0, <1>a, <1>b, <2>2, <2>3, <2>4, <3>1, RowKept
    <3>2. CASE k = t.call
      BY <1>0, <1>a, <1>b, <2>2, <2>3, <2>4, <3>2 DEF RowFollows, RowOK, TaskOK
    <3> QED BY <3>1, <3>2
  <2>11. ASSUME NEW c \in Conns, NEW k \in CallIds, <<c, k>> \in shown' PROVE PhoneOK(c, k)'
    BY <1>0, <1>a, <1>b, <2>2, <2>3, <2>4, <2>11, PhoneKept DEF hub, Accepted, PhoneOK
  <2>12. ASSUME NEW s \in tasks, s # t PROVE Knowing(s)'
    BY <1>0, <1>a, <1>b, <2>2, <2>3, <2>4, <2>12, KnowingKept
  <2>13. tasks' \subseteq tasks
    BY <2>2
  <2>14. OneStart'
    BY <1>0, <2>2 DEF OneStart
  <2>15. shown' \subseteq Conns \X CallIds
    BY <1>0, <1>c, <2>2
  <2>16. (\A s \in shown : PhoneOK(s[1], s[2]))'
    BY <2>11, <2>15
  <2>17. (\A s \in tasks : Knowing(s))'
    BY <2>2, <2>12, <2>13
  <2> QED BY <2>8, <2>9, <2>10, <2>14, <2>16, <2>17 DEF Settling
<1>7. CASE StartRing(t)
  <2>2. /\ tasks' = tasks \ {t}
        /\ t.at = "start.ring"
        /\ shown' = shown \cup ({c \in up : Owner[c] = t.to} \X {t.call})
        /\ UNCHANGED <<social, hub, phase, caller, callee, dev, timer, grace, log>>
    BY <1>0, <1>7 DEF StartRing, Continue, memory, people, inCall
  <2>3. t.call \in CallIds
    BY <1>0, <2>2 DEF TaskOK
  <2>4. /\ \A k \in CallIds : Starting(k)' => Starting(k)
        /\ \A s \in tasks : s # t => s \in tasks'
        /\ \A k \in CallIds : FellOut(k)' <=> FellOut(k)
    BY <2>2 DEF Starting, FellOut, social
  <2>7. ~Starting(t.call)' /\ Starting(t.call)
    BY <1>0, <2>2 DEF OneStart, Starting, Starts
  <2>8. Held' /\ (friends \cap breaking = {})'
    BY <1>0, <2>2 DEF Settling, Held, ConnSteps, hub, social
  <2>9. (\A k \in CallIds : TimerOK(k))'
    BY <1>0, <1>a, <1>b, <2>2, <2>3, <2>4, <2>7 DEF TimerOK
  <2>10. ASSUME NEW k \in CallIds PROVE RowFollows(k)'
    BY <1>0, <1>a, <1>b, <2>2, <2>3, <2>4, <2>7, RowKept
  <2>11. ASSUME NEW c \in Conns, NEW k \in CallIds, <<c, k>> \in shown' PROVE PhoneOK(c, k)'
    <3>1. CASE k # t.call
      BY <1>0, <1>a, <1>b, <2>2, <2>3, <2>4, <2>7, <2>11, <3>1, PhoneKept DEF hub, Accepted, PhoneOK
    <3>2. CASE k = t.call
      BY <1>0, <1>a, <1>b, <2>2, <2>3, <2>4, <2>7, <2>11, <3>2 DEF PhoneOK, Skipped, Knowing, Accepted, Accepts, Starts, hub
    <3> QED BY <3>1, <3>2
  <2>12. ASSUME NEW s \in tasks, s # t PROVE Knowing(s)'
    <3>1. CASE s.call # t.call
      BY <1>0, <1>a, <1>b, <2>2, <2>3, <2>4, <2>7, <2>12, <3>1, KnowingKept
    <3>2. CASE s.call = t.call
      BY <1>0, <1>a, <1>b, <2>2, <2>3, <2>4, <2>7, <2>12, <3>2 DEF Knowing, Accepts, Accepted, Starts, EndSteps
    <3> QED BY <3>1, <3>2
  <2>13. tasks' \subseteq tasks
    BY <2>2
  <2>14. OneStart'
    BY <1>0, <2>2 DEF OneStart
  <2>15. shown' \subseteq Conns \X CallIds
    BY <1>0, <1>c, <2>2, <2>3 DEF TypeOK
  <2>16. (\A s \in shown : PhoneOK(s[1], s[2]))'
    BY <2>11, <2>15
  <2>17. (\A s \in tasks : Knowing(s))'
    BY <2>2, <2>12, <2>13
  <2> QED BY <2>8, <2>9, <2>10, <2>14, <2>16, <2>17 DEF Settling
<1>8. CASE AcceptRead(t)
  <2> PICK n : n = [t EXCEPT !.at = "accept.lock"]
    OBVIOUS
  <2>1. n.at = "accept.lock" /\ n.conn = t.conn /\ n.to = t.to /\ n.call = t.call /\ n.reason = t.reason
    BY <1>0 DEF Tasks
  <2>2. /\ tasks' = (tasks \ {t}) \cup {n} \/ tasks' = tasks \ {t}
        /\ t.at = "accept.read"
        /\ UNCHANGED <<social, hub, phase, caller, callee, dev, timer, grace, log, shown>>
    BY <1>0, <1>8 DEF AcceptRead, Steady, Continue, At, memory, people, inCall
  <2>3. t.call \in CallIds
    BY <1>0, <2>2 DEF TaskOK
  <2>4. /\ \A k \in CallIds : Starting(k)' => Starting(k)
        /\ \A s \in tasks : s # t => s \in tasks'
        /\ \A k \in CallIds : FellOut(k)' <=> FellOut(k)
    BY <2>1, <2>2 DEF Starting, FellOut, social
  <2>8. Held' /\ (friends \cap breaking = {})'
    BY <1>0, <2>1, <2>2 DEF Settling, Held, ConnSteps, hub, social
  <2>9. (\A k \in CallIds : TimerOK(k))'
    BY <1>0, <1>a, <1>b, <2>1, <2>2, <2>3, <2>4 DEF TimerOK
  <2>10. ASSUME NEW k \in CallIds PROVE RowFollows(k)'
    BY <1>0, <1>a, <1>b, <2>1, <2>2, <2>3, <2>4, RowKept
  <2>11. ASSUME NEW c \in Conns, NEW k \in CallIds, <<c, k>> \in shown' PROVE PhoneOK(c, k)'
    BY <1>0, <1>a, <1>b, <2>1, <2>2, <2>3, <2>4, <2>11, PhoneKept DEF hub, Accepted, PhoneOK
  <2>12. ASSUME NEW s \in tasks, s # t PROVE Knowing(s)'
    BY <1>0, <1>a, <1>b, <2>1, <2>2, <2>3, <2>4, <2>12, KnowingKept
  <2>13. Knowing(n)'
    BY <1>0, <1>a, <1>b, <2>1, <2>2, <2>3, <2>4 DEF Knowing, Accepts, Accepted, Starts, EndSteps
  <2>14. OneStart'
    BY <1>0, <2>1, <2>2, OneStartKept DEF Starts
  <2>15. shown' \subseteq Conns \X CallIds
    BY <1>0, <1>c, <2>2
  <2>16. (\A s \in shown : PhoneOK(s[1], s[2]))'
    BY <2>11, <2>15
  <2>17. (\A s \in tasks : Knowing(s))'
    BY <2>2, <2>12, <2>13
  <2> QED BY <2>8, <2>9, <2>10, <2>14, <2>16, <2>17 DEF Settling
<1>9. CASE AcceptNoTime(t)
  <2> PICK n : n = [t EXCEPT !.at = "end.lock", !.reason = "daily_limit"]
    OBVIOUS
  <2>1. n.at = "end.lock" /\ n.conn = t.conn /\ n.to = t.to /\ n.call = t.call /\ n.reason = "daily_limit"
    BY <1>0 DEF Tasks
  <2>2. /\ tasks' = (tasks \ {t}) \cup {n}
        /\ t.at = "accept.read"
        /\ UNCHANGED <<social, hub, phase, caller, callee, dev, timer, grace, log, shown>>
    BY <1>0, <1>9 DEF AcceptNoTime, Continue, memory, people, inCall
  <2>3. t.call \in CallIds
    BY <1>0, <2>2 DEF TaskOK
  <2>4. /\ \A k \in CallIds : Starting(k)' => Starting(k)
        /\ \A s \in tasks : s # t => s \in tasks'
        /\ \A k \in CallIds : FellOut(k)' <=> FellOut(k)
    BY <2>1, <2>2 DEF Starting, FellOut, social
  <2>8. Held' /\ (friends \cap breaking = {})'
    BY <1>0, <2>1, <2>2 DEF Settling, Held, ConnSteps, hub, social
  <2>9. (\A k \in CallIds : TimerOK(k))'
    BY <1>0, <1>a, <1>b, <2>1, <2>2, <2>3, <2>4 DEF TimerOK
  <2>10. ASSUME NEW k \in CallIds PROVE RowFollows(k)'
    BY <1>0, <1>a, <1>b, <2>1, <2>2, <2>3, <2>4, RowKept
  <2>11. ASSUME NEW c \in Conns, NEW k \in CallIds, <<c, k>> \in shown' PROVE PhoneOK(c, k)'
    BY <1>0, <1>a, <1>b, <2>1, <2>2, <2>3, <2>4, <2>11, PhoneKept DEF hub, Accepted, PhoneOK
  <2>12. ASSUME NEW s \in tasks, s # t PROVE Knowing(s)'
    BY <1>0, <1>a, <1>b, <2>1, <2>2, <2>3, <2>4, <2>12, KnowingKept
  <2>13. Knowing(n)'
    BY <1>0, <1>a, <1>b, <2>1, <2>2, <2>3, <2>4 DEF Knowing, Accepts, Accepted, Starts, EndSteps
  <2>14. OneStart'
    BY <1>0, <2>1, <2>2, OneStartKept DEF Starts
  <2>15. shown' \subseteq Conns \X CallIds
    BY <1>0, <1>c, <2>2
  <2>16. (\A s \in shown : PhoneOK(s[1], s[2]))'
    BY <2>11, <2>15
  <2>17. (\A s \in tasks : Knowing(s))'
    BY <2>2, <2>12, <2>13
  <2> QED BY <2>8, <2>9, <2>10, <2>14, <2>16, <2>17 DEF Settling
<1>10. CASE AcceptUnknown(t)
  <2>2. /\ tasks' = tasks \ {t}
        /\ t.at = "accept.lock"
        /\ UNCHANGED <<social, hub, phase, caller, callee, dev, timer, grace, log, shown>>
    BY <1>0, <1>10 DEF AcceptUnknown, Continue, memory, people, inCall
  <2>3. t.call \in CallIds
    BY <1>0, <2>2 DEF TaskOK
  <2>4. /\ \A k \in CallIds : Starting(k)' => Starting(k)
        /\ \A s \in tasks : s # t => s \in tasks'
        /\ \A k \in CallIds : FellOut(k)' <=> FellOut(k)
    BY <2>2 DEF Starting, FellOut, social
  <2>8. Held' /\ (friends \cap breaking = {})'
    BY <1>0, <2>2 DEF Settling, Held, ConnSteps, hub, social
  <2>9. (\A k \in CallIds : TimerOK(k))'
    BY <1>0, <1>a, <1>b, <2>2, <2>3, <2>4 DEF TimerOK
  <2>10. ASSUME NEW k \in CallIds PROVE RowFollows(k)'
    BY <1>0, <1>a, <1>b, <2>2, <2>3, <2>4, RowKept
  <2>11. ASSUME NEW c \in Conns, NEW k \in CallIds, <<c, k>> \in shown' PROVE PhoneOK(c, k)'
    BY <1>0, <1>a, <1>b, <2>2, <2>3, <2>4, <2>11, PhoneKept DEF hub, Accepted, PhoneOK
  <2>12. ASSUME NEW s \in tasks, s # t PROVE Knowing(s)'
    BY <1>0, <1>a, <1>b, <2>2, <2>3, <2>4, <2>12, KnowingKept
  <2>13. tasks' \subseteq tasks
    BY <2>2
  <2>14. OneStart'
    BY <1>0, <2>2 DEF OneStart
  <2>15. shown' \subseteq Conns \X CallIds
    BY <1>0, <1>c, <2>2
  <2>16. (\A s \in shown : PhoneOK(s[1], s[2]))'
    BY <2>11, <2>15
  <2>17. (\A s \in tasks : Knowing(s))'
    BY <2>2, <2>12, <2>13
  <2> QED BY <2>8, <2>9, <2>10, <2>14, <2>16, <2>17 DEF Settling
<1>11. CASE AcceptCall(t)
  <2> PICK n : n = [t EXCEPT !.at = "accept.answer"]
    OBVIOUS
  <2>1. n.at = "accept.answer" /\ n.conn = t.conn /\ n.to = t.to /\ n.call = t.call /\ n.reason = t.reason
    BY <1>0 DEF Tasks
  <2>2. /\ tasks' = (tasks \ {t}) \cup {n}
        /\ t.at = "accept.lock" /\ phase[t.call] = "ringing" /\ callee[t.call] = Owner[t.conn]
        /\ phase' = [phase EXCEPT ![t.call] = "active"]
        /\ \E k : timer' = [timer EXCEPT ![t.call] = k]
        /\ dev' = [dev EXCEPT ![t.call][Owner[t.conn]] = t.conn]
        /\ UNCHANGED <<social, hub, caller, callee, grace, log, shown>>
    BY <1>0, <1>11 DEF AcceptCall, Answerable, Continue, At, people
  <2>3. t.call \in CallIds
    BY <1>0, <2>2 DEF TaskOK
  <2>5. /\ phase'[t.call] = "active" /\ dev'[t.call][Owner[t.conn]] = t.conn
        /\ \A k \in CallIds \ {t.call} : phase'[k] = phase[k] /\ timer'[k] = timer[k] /\ dev'[k] = dev[k]
    <3>1. t.conn \in Conns /\ Owner[t.conn] \in Users
      BY <1>0, <2>2, CallsAssumption DEF TaskOK, HandlerSteps
    <3> QED BY <1>0, <2>2, <2>3, <3>1 DEF TypeOK
  <2>4. /\ \A k \in CallIds : Starting(k)' => Starting(k)
        /\ \A s \in tasks : s # t => s \in tasks'
        /\ \A k \in CallIds : FellOut(k)' <=> FellOut(k)
    BY <2>1, <2>2 DEF Starting, FellOut, social
  <2>7. \A s \in tasks : s.call = t.call => s.at \notin Starts
    BY <1>0, <2>2 DEF Knowing, Accepts, Accepted, Starting, Starts
  <2>8. Held' /\ (friends \cap breaking = {})'
    BY <1>0, <2>1, <2>2 DEF Settling, Held, ConnSteps, hub, social
  <2>9. (\A k \in CallIds : TimerOK(k))'
    BY <1>0, <1>a, <1>b, <2>1, <2>2, <2>3, <2>4, <2>5, <2>7 DEF TimerOK, TypeOK
  <2>10. ASSUME NEW k \in CallIds PROVE RowFollows(k)'
    <3>1. CASE k # t.call
      BY <1>0, <1>a, <1>b, <2>1, <2>2, <2>3, <2>4, <2>5, <2>7, <3>1, RowKept
    <3>2. CASE k = t.call
      BY <1>d, <2>1, <2>2, <2>3, <2>5, <2>7, <3>2 DEF RowFollows, Starts
    <3> QED BY <3>1, <3>2
  <2>11. ASSUME NEW c \in Conns, NEW k \in CallIds, <<c, k>> \in shown' PROVE PhoneOK(c, k)'
    <3>1. CASE k # t.call
      BY <1>0, <1>a, <1>b, <2>1, <2>2, <2>3, <2>4, <2>5, <2>7, <2>11, <3>1, PhoneKept DEF hub, Accepted, PhoneOK
    <3>2. CASE k = t.call
      <4>1. PhoneOK(c, k) /\ c \in up'
        BY <1>b, <2>2, <2>11 DEF PhoneOK, hub
      <4>2. n \in tasks' /\ n.call = k
        BY <2>1, <2>2, <3>2
      <4>3. phase'[k] = "active" /\ n.at \in Accepted /\ callee'[k] = callee[k]
        BY <1>0, <2>1, <2>2, <2>3, <2>5, <3>2 DEF Accepted, TaskOK
      <4> QED BY <2>4, <4>1, <4>2, <4>3, PhoneFollows
    <3> QED BY <3>1, <3>2
  <2>12. ASSUME NEW s \in tasks, s # t PROVE Knowing(s)'
    <3>1. CASE s.call # t.call
      BY <1>0, <1>a, <1>b, <2>1, <2>2, <2>3, <2>4, <2>5, <2>7, <2>12, <3>1, KnowingKept
    <3>2. CASE s.call = t.call
      BY <1>0, <1>a, <1>b, <2>1, <2>2, <2>3, <2>4, <2>5, <2>7, <2>12, <3>2 DEF Knowing, Accepts, Accepted, Starts, EndSteps
    <3> QED BY <3>1, <3>2
  <2>13. Knowing(n)'
    BY <1>0, <1>a, <1>b, <2>1, <2>2, <2>3, <2>4, <2>5, <2>7 DEF Knowing, Accepts, Accepted, Starts, EndSteps
  <2>14. OneStart'
    BY <1>0, <2>1, <2>2, OneStartKept DEF Starts
  <2>15. shown' \subseteq Conns \X CallIds
    BY <1>0, <1>c, <2>2
  <2>16. (\A s \in shown : PhoneOK(s[1], s[2]))'
    BY <2>11, <2>15
  <2>17. (\A s \in tasks : Knowing(s))'
    BY <2>2, <2>12, <2>13
  <2> QED BY <2>8, <2>9, <2>10, <2>14, <2>16, <2>17 DEF Settling
<1>12. CASE AcceptAnswer(t)
  <2> PICK n : n = [t EXCEPT !.at = "accept.tell"]
    OBVIOUS
  <2>1. n.at = "accept.tell" /\ n.conn = t.conn /\ n.to = t.to /\ n.call = t.call /\ n.reason = t.reason
    BY <1>0 DEF Tasks
  <2>3. t.call \in CallIds
    BY <1>0, <1>12 DEF TaskOK, AcceptAnswer
  <2>2. /\ tasks' = (tasks \ {t}) \cup {n}
        /\ t.at = "accept.answer"
        /\ log[t.call].state = "ringing" => log'[t.call].state = "active" /\ log'[t.call].ended = log[t.call].ended
        /\ log[t.call].state # "ringing" => log'[t.call] = log[t.call]
        /\ \A k \in CallIds \ {t.call} : log'[k] = log[k]
        /\ UNCHANGED <<social, hub, phase, caller, callee, dev, timer, grace, shown>>
    <3>1. IF log[t.call].state = "ringing"
          THEN log' = [log EXCEPT ![t.call] = [log[t.call] EXCEPT !.state = "active", !.answered = TRUE]]
          ELSE UNCHANGED log
      BY <1>12 DEF AcceptAnswer, Write, Steady
    <3>2. log \in [CallIds -> Rows]
      BY <1>0 DEF TypeOK
    <3>3. /\ log[t.call].state = "ringing" => log'[t.call].state = "active" /\ log'[t.call].ended = log[t.call].ended
          /\ log[t.call].state # "ringing" => log'[t.call] = log[t.call]
          /\ \A k \in CallIds \ {t.call} : log'[k] = log[k]
      <4>1. CASE log[t.call].state = "ringing"
        <5> PICK r \in Rows : r = log[t.call]
          BY <2>3, <3>2
        <5>1. log'[t.call] = [r EXCEPT !.state = "active", !.answered = TRUE]
          BY <2>3, <3>1, <3>2, <4>1
        <5>2. log'[t.call].state = "active" /\ log'[t.call].ended = r.ended
          BY <5>1 DEF Rows
        <5>3. \A k \in CallIds \ {t.call} : log'[k] = log[k]
          BY <3>1, <3>2, <4>1
        <5> QED BY <4>1, <5>2, <5>3
      <4> QED BY <3>1, <4>1
    <3> QED BY <1>12, <3>3 DEF AcceptAnswer, Write, Steady, Continue, At, memory, people, inCall
  <2>4. /\ \A k \in CallIds : Starting(k)' => Starting(k)
        /\ \A s \in tasks : s # t => s \in tasks'
        /\ \A k \in CallIds : FellOut(k)' <=> FellOut(k)
    BY <2>1, <2>2 DEF Starting, FellOut, social
  <2>8. Held' /\ (friends \cap breaking = {})'
    BY <1>0, <2>1, <2>2 DEF Settling, Held, ConnSteps, hub, social
  <2>9. (\A k \in CallIds : TimerOK(k))'
    BY <1>0, <1>a, <1>b, <2>1, <2>2, <2>3, <2>4 DEF TimerOK
  <2>10. ASSUME NEW k \in CallIds PROVE RowFollows(k)'
    <3>1. CASE k # t.call
      BY <1>0, <1>a, <1>b, <2>1, <2>2, <2>3, <2>4, <3>1, RowKept
    <3>2. CASE k = t.call
      BY <1>0, <1>a, <1>b, <2>1, <2>2, <2>3, <2>4, <3>2 DEF RowFollows, Knowing, Accepts, Accepted
    <3> QED BY <3>1, <3>2
  <2>11. ASSUME NEW c \in Conns, NEW k \in CallIds, <<c, k>> \in shown' PROVE PhoneOK(c, k)'
    <3>1. CASE k # t.call
      BY <1>0, <1>a, <1>b, <2>1, <2>2, <2>3, <2>4, <2>11, <3>1, PhoneKept DEF hub, Accepted, PhoneOK
    <3>2. CASE k = t.call
      <4>1. PhoneOK(c, k) /\ c \in up'
        BY <1>b, <2>2, <2>11 DEF PhoneOK, hub
      <4>2. n \in tasks' /\ n.call = k
        BY <2>1, <2>2, <3>2
      <4>3. phase'[k] = phase[k] /\ n.at \in Accepted /\ t.at = "accept.answer" /\ callee'[k] = callee[k]
        BY <1>0, <2>1, <2>2, <2>3, <3>2 DEF Accepted, TaskOK
      <4> QED BY <2>4, <4>1, <4>2, <4>3, PhoneFollows
    <3> QED BY <3>1, <3>2
  <2>12. ASSUME NEW s \in tasks, s # t PROVE Knowing(s)'
    BY <1>0, <1>a, <1>b, <2>1, <2>2, <2>3, <2>4, <2>12, KnowingKept
  <2>13. Knowing(n)'
    BY <1>0, <1>a, <1>b, <2>1, <2>2, <2>3, <2>4 DEF Knowing, Accepts, Accepted, Starts, EndSteps
  <2>14. OneStart'
    BY <1>0, <2>1, <2>2, OneStartKept DEF Starts
  <2>15. shown' \subseteq Conns \X CallIds
    BY <1>0, <1>c, <2>2
  <2>16. (\A s \in shown : PhoneOK(s[1], s[2]))'
    BY <2>11, <2>15
  <2>17. (\A s \in tasks : Knowing(s))'
    BY <2>2, <2>12, <2>13
  <2> QED BY <2>8, <2>9, <2>10, <2>14, <2>16, <2>17 DEF Settling
<1>13. CASE AcceptTell(t)
  <2>2. /\ tasks' = tasks \ {t}
        /\ t.at = "accept.tell"
        /\ shown' \subseteq shown
        /\ \A s \in shown' : s[2] = t.call /\ Owner[s[1]] = Owner[t.conn] => s[1] \in Slow \cup {t.conn}
        /\ UNCHANGED <<social, hub, phase, caller, callee, dev, timer, grace, log>>
    BY <1>0, <1>13 DEF AcceptTell, Continue, memory, people, inCall
  <2>3. t.call \in CallIds
    BY <1>0, <2>2 DEF TaskOK
  <2>4. /\ \A k \in CallIds : Starting(k)' => Starting(k)
        /\ \A s \in tasks : s # t => s \in tasks'
        /\ \A k \in CallIds : FellOut(k)' <=> FellOut(k)
    BY <2>2 DEF Starting, FellOut, social
  <2>8. Held' /\ (friends \cap breaking = {})'
    BY <1>0, <2>2 DEF Settling, Held, ConnSteps, hub, social
  <2>9. (\A k \in CallIds : TimerOK(k))'
    BY <1>0, <1>a, <1>b, <2>2, <2>3, <2>4 DEF TimerOK
  <2>10. ASSUME NEW k \in CallIds PROVE RowFollows(k)'
    BY <1>0, <1>a, <1>b, <2>2, <2>3, <2>4, RowKept
  <2>11. ASSUME NEW c \in Conns, NEW k \in CallIds, <<c, k>> \in shown' PROVE PhoneOK(c, k)'
    <3>1. CASE k # t.call
      BY <1>0, <1>a, <1>b, <2>2, <2>3, <2>4, <2>11, <3>1, PhoneKept DEF hub, Accepted, PhoneOK
    <3>2. CASE k = t.call
      BY <1>0, <1>a, <1>b, <2>2, <2>3, <2>4, <2>11, <3>2 DEF PhoneOK, Skipped, Knowing, Accepted, Accepts, Starts, hub
    <3> QED BY <3>1, <3>2
  <2>12. ASSUME NEW s \in tasks, s # t PROVE Knowing(s)'
    BY <1>0, <1>a, <1>b, <2>2, <2>3, <2>4, <2>12, KnowingKept
  <2>13. tasks' \subseteq tasks
    BY <2>2
  <2>14. OneStart'
    BY <1>0, <2>2 DEF OneStart
  <2>15. shown' \subseteq Conns \X CallIds
    BY <1>0, <1>c, <2>2
  <2>16. (\A s \in shown : PhoneOK(s[1], s[2]))'
    BY <2>11, <2>15
  <2>17. (\A s \in tasks : Knowing(s))'
    BY <2>2, <2>12, <2>13
  <2> QED BY <2>8, <2>9, <2>10, <2>14, <2>16, <2>17 DEF Settling
<1>14. CASE EndCall(t)
  <2> PICK n : n = [t EXCEPT !.at = "end.finish", !.was = (phase[t.call] = "active")]
    OBVIOUS
  <2>1. n.at = "end.finish" /\ n.conn = t.conn /\ n.to = t.to /\ n.call = t.call /\ n.reason = t.reason
    BY <1>0 DEF Tasks
  <2>2. /\ tasks' = (tasks \ {t}) \cup {n}
        /\ t.at = "end.lock" /\ phase[t.call] \in {"ringing", "active"} /\ phase'[t.call] = "over" /\ timer'[t.call] = "off"
        /\ \A k \in CallIds \ {t.call} : phase'[k] = phase[k] /\ timer'[k] = timer[k]
        /\ \A k \in CallIds : grace[k] = {} => grace'[k] = {}
        /\ UNCHANGED <<social, hub, caller, callee, dev, log, shown>>
    BY <1>0, <1>14 DEF EndCall, Live, Continue, people, TypeOK
  <2>3. t.call \in CallIds
    BY <1>0, <2>2 DEF TaskOK
  <2>4. /\ \A k \in CallIds : Starting(k)' => Starting(k)
        /\ \A s \in tasks : s # t => s \in tasks'
        /\ \A k \in CallIds : FellOut(k)' <=> FellOut(k)
    BY <2>1, <2>2 DEF Starting, FellOut, social
  <2>7. \A s \in tasks : s.call = t.call /\ s.at \in Starts => FellOut(t.call)
    BY <1>0, <2>2 DEF Knowing, Starting, Starts, EndSteps
  <2>8. Held' /\ (friends \cap breaking = {})'
    BY <1>0, <2>1, <2>2 DEF Settling, Held, ConnSteps, hub, social
  <2>9. (\A k \in CallIds : TimerOK(k))'
    BY <1>0, <1>a, <1>b, <2>1, <2>2, <2>3, <2>4, <2>7 DEF TimerOK
  <2>10. ASSUME NEW k \in CallIds PROVE RowFollows(k)'
    <3>1. CASE k # t.call
      BY <1>0, <1>a, <1>b, <2>1, <2>2, <2>3, <2>4, <2>7, <3>1, RowKept
    <3>2. CASE k = t.call
      BY <1>0, <1>a, <1>b, <2>1, <2>2, <2>3, <2>4, <2>7, <3>2 DEF RowFollows, NoRow, RowOK
    <3> QED BY <3>1, <3>2
  <2>11. ASSUME NEW c \in Conns, NEW k \in CallIds, <<c, k>> \in shown' PROVE PhoneOK(c, k)'
    <3>1. CASE k # t.call
      BY <1>0, <1>a, <1>b, <2>1, <2>2, <2>3, <2>4, <2>7, <2>11, <3>1, PhoneKept DEF hub, Accepted, PhoneOK
    <3>2. CASE k = t.call
      <4>1. PhoneOK(c, k) /\ c \in up'
        BY <1>b, <2>2, <2>11 DEF PhoneOK, hub
      <4>2. n \in tasks' /\ n.call = k
        BY <2>1, <2>2, <3>2
      <4>3. phase'[k] = "over" /\ n.at = "end.finish" /\ callee'[k] = callee[k]
        BY <1>0, <2>1, <2>2, <2>3, <3>2 DEF Accepted, TaskOK
      <4>4. (FellOut(k) => FellOut(k)') /\ (Starting(k)' => Starting(k)) /\ n.at \in {"end.finish", "end.tell"}
        BY <2>4, <4>3
      <4> HIDE DEF kinds
      <4> QED BY <4>1, <4>2, <4>3, <4>4, PhoneFollows
    <3> QED BY <3>1, <3>2
  <2>12. ASSUME NEW s \in tasks, s # t PROVE Knowing(s)'
    <3>1. CASE s.call # t.call
      BY <1>0, <1>a, <1>b, <2>1, <2>2, <2>3, <2>4, <2>7, <2>12, <3>1, KnowingKept
    <3>2. CASE s.call = t.call
      BY <1>0, <1>a, <1>b, <2>1, <2>2, <2>3, <2>4, <2>7, <2>12, <3>2 DEF Knowing, Accepts, Accepted, Starts, EndSteps
    <3> QED BY <3>1, <3>2
  <2>13. Knowing(n)'
    BY <1>0, <1>a, <1>b, <2>1, <2>2, <2>3, <2>4, <2>7 DEF Knowing, Accepts, Accepted, Starts, EndSteps
  <2>14. OneStart'
    BY <1>0, <2>1, <2>2, OneStartKept DEF Starts
  <2>15. shown' \subseteq Conns \X CallIds
    BY <1>0, <1>c, <2>2
  <2>16. (\A s \in shown : PhoneOK(s[1], s[2]))'
    BY <2>11, <2>15
  <2>17. (\A s \in tasks : Knowing(s))'
    BY <2>2, <2>12, <2>13
  <2> QED BY <2>8, <2>9, <2>10, <2>14, <2>16, <2>17 DEF Settling
<1>15. CASE EndAgain(t)
  <2>2. /\ tasks' = tasks \ {t}
        /\ t.at = "end.lock" /\ phase[t.call] \notin {"ringing", "active"}
        /\ UNCHANGED <<social, hub, phase, caller, callee, dev, timer, grace, log, shown>>
    BY <1>0, <1>15 DEF EndAgain, Live, Continue, memory, people, inCall, TaskOK
  <2>3. t.call \in CallIds
    BY <1>0, <2>2 DEF TaskOK
  <2>4. /\ \A k \in CallIds : Starting(k)' => Starting(k)
        /\ \A s \in tasks : s # t => s \in tasks'
        /\ \A k \in CallIds : FellOut(k)' <=> FellOut(k)
    BY <2>2 DEF Starting, FellOut, social
  <2>8. Held' /\ (friends \cap breaking = {})'
    BY <1>0, <2>2 DEF Settling, Held, ConnSteps, hub, social
  <2>9. (\A k \in CallIds : TimerOK(k))'
    BY <1>0, <1>a, <1>b, <2>2, <2>3, <2>4 DEF TimerOK
  <2>10. ASSUME NEW k \in CallIds PROVE RowFollows(k)'
    BY <1>0, <1>a, <1>b, <2>2, <2>3, <2>4, RowKept
  <2>11. ASSUME NEW c \in Conns, NEW k \in CallIds, <<c, k>> \in shown' PROVE PhoneOK(c, k)'
    BY <1>0, <1>a, <1>b, <2>2, <2>3, <2>4, <2>11, PhoneKept DEF hub, Accepted, PhoneOK
  <2>12. ASSUME NEW s \in tasks, s # t PROVE Knowing(s)'
    BY <1>0, <1>a, <1>b, <2>2, <2>3, <2>4, <2>12, KnowingKept
  <2>13. tasks' \subseteq tasks
    BY <2>2
  <2>14. OneStart'
    BY <1>0, <2>2 DEF OneStart
  <2>15. shown' \subseteq Conns \X CallIds
    BY <1>0, <1>c, <2>2
  <2>16. (\A s \in shown : PhoneOK(s[1], s[2]))'
    BY <2>11, <2>15
  <2>17. (\A s \in tasks : Knowing(s))'
    BY <2>2, <2>12, <2>13
  <2> QED BY <2>8, <2>9, <2>10, <2>14, <2>16, <2>17 DEF Settling
<1>16. CASE EndFinish(t)
  <2> PICK n : n = [t EXCEPT !.at = "end.tell"]
    OBVIOUS
  <2>1. n.at = "end.tell" /\ n.conn = t.conn /\ n.to = t.to /\ n.call = t.call /\ n.reason = t.reason
    BY <1>0 DEF Tasks
  <2>3. t.call \in CallIds
    BY <1>0, <1>16 DEF TaskOK, EndFinish
  <2>2. /\ tasks' = (tasks \ {t}) \cup {n}
        /\ t.at = "end.finish"
        /\ log'[t.call].state = "none" \/ log'[t.call].ended
        /\ \A k \in CallIds \ {t.call} : log'[k] = log[k]
        /\ UNCHANGED <<social, hub, phase, caller, callee, dev, timer, grace, shown>>
    <3>1. IF log[t.call].state # "none" /\ ~log[t.call].ended
          THEN log' = [log EXCEPT ![t.call] = [log[t.call] EXCEPT !.state = EndState(t), !.ended = TRUE, !.reason = t.reason]]
          ELSE UNCHANGED log
      BY <1>16 DEF EndFinish, Write, Steady
    <3>2. log \in [CallIds -> Rows]
      BY <1>0 DEF TypeOK
    <3>3. /\ log'[t.call].state = "none" \/ log'[t.call].ended
          /\ \A k \in CallIds \ {t.call} : log'[k] = log[k]
      BY <2>3, <3>1, <3>2 DEF Rows, NoRow
    <3> QED BY <1>16, <3>3 DEF EndFinish, Write, Steady, Continue, At, memory, people, inCall
  <2>4. /\ \A k \in CallIds : Starting(k)' => Starting(k)
        /\ \A s \in tasks : s # t => s \in tasks'
        /\ \A k \in CallIds : FellOut(k)' <=> FellOut(k)
    BY <2>1, <2>2 DEF Starting, FellOut, social
  <2>8. Held' /\ (friends \cap breaking = {})'
    BY <1>0, <2>1, <2>2 DEF Settling, Held, ConnSteps, hub, social
  <2>9. (\A k \in CallIds : TimerOK(k))'
    BY <1>0, <1>a, <1>b, <2>1, <2>2, <2>3, <2>4 DEF TimerOK
  <2>10. ASSUME NEW k \in CallIds PROVE RowFollows(k)'
    <3>1. CASE k # t.call
      BY <1>0, <1>a, <1>b, <2>1, <2>2, <2>3, <2>4, <3>1, RowKept
    <3>2. CASE k = t.call
      BY <1>0, <1>a, <1>b, <2>1, <2>2, <2>3, <2>4, <3>2 DEF RowFollows, TaskOK
    <3> QED BY <3>1, <3>2
  <2>11. ASSUME NEW c \in Conns, NEW k \in CallIds, <<c, k>> \in shown' PROVE PhoneOK(c, k)'
    <3>1. CASE k # t.call
      BY <1>0, <1>a, <1>b, <2>1, <2>2, <2>3, <2>4, <2>11, <3>1, PhoneKept DEF hub, Accepted, PhoneOK
    <3>2. CASE k = t.call
      <4>1. PhoneOK(c, k) /\ c \in up'
        BY <1>b, <2>2, <2>11 DEF PhoneOK, hub
      <4>2. n \in tasks' /\ n.call = k
        BY <2>1, <2>2, <3>2
      <4>3. phase'[k] = "over" /\ n.at = "end.tell" /\ callee'[k] = callee[k]
        BY <1>0, <2>1, <2>2, <2>3, <3>2 DEF Accepted, TaskOK
      <4> QED BY <2>4, <4>1, <4>2, <4>3, PhoneFollows
    <3> QED BY <3>1, <3>2
  <2>12. ASSUME NEW s \in tasks, s # t PROVE Knowing(s)'
    BY <1>0, <1>a, <1>b, <2>1, <2>2, <2>3, <2>4, <2>12, KnowingKept
  <2>13. Knowing(n)'
    BY <1>0, <1>a, <1>b, <2>1, <2>2, <2>3, <2>4 DEF Knowing, Accepts, Accepted, Starts, EndSteps
  <2>14. OneStart'
    BY <1>0, <2>1, <2>2, OneStartKept DEF Starts
  <2>15. shown' \subseteq Conns \X CallIds
    BY <1>0, <1>c, <2>2
  <2>16. (\A s \in shown : PhoneOK(s[1], s[2]))'
    BY <2>11, <2>15
  <2>17. (\A s \in tasks : Knowing(s))'
    BY <2>2, <2>12, <2>13
  <2> QED BY <2>8, <2>9, <2>10, <2>14, <2>16, <2>17 DEF Settling
<1>17. CASE EndTell(t)
  <2>2. /\ tasks' = tasks \ {t}
        /\ t.at = "end.tell"
        /\ shown' = {s \in shown : ~(s[2] = t.call /\ s[1] \in up /\ Owner[s[1]] \in Parties(t.call))}
        /\ UNCHANGED <<social, hub, phase, caller, callee, dev, timer, grace, log>>
    BY <1>0, <1>17 DEF EndTell, Continue, memory, people, inCall
  <2>3. t.call \in CallIds
    BY <1>0, <2>2 DEF TaskOK
  <2>4. /\ \A k \in CallIds : Starting(k)' => Starting(k)
        /\ \A s \in tasks : s # t => s \in tasks'
        /\ \A k \in CallIds : FellOut(k)' <=> FellOut(k)
    BY <2>2 DEF Starting, FellOut, social
  <2>8. Held' /\ (friends \cap breaking = {})'
    BY <1>0, <2>2 DEF Settling, Held, ConnSteps, hub, social
  <2>9. (\A k \in CallIds : TimerOK(k))'
    BY <1>0, <1>a, <1>b, <2>2, <2>3, <2>4 DEF TimerOK
  <2>10. ASSUME NEW k \in CallIds PROVE RowFollows(k)'
    BY <1>0, <1>a, <1>b, <2>2, <2>3, <2>4, RowKept
  <2>11. ASSUME NEW c \in Conns, NEW k \in CallIds, <<c, k>> \in shown' PROVE PhoneOK(c, k)'
    <3>1. CASE k # t.call
      BY <1>0, <1>a, <1>b, <2>2, <2>3, <2>4, <2>11, <3>1, PhoneKept DEF hub, Accepted, PhoneOK
    <3>2. CASE k = t.call
      BY <1>0, <1>a, <1>b, <2>2, <2>3, <2>4, <2>11, <3>2 DEF PhoneOK, Skipped, Knowing, Accepted, Accepts, Starts, hub, Parties
    <3> QED BY <3>1, <3>2
  <2>12. ASSUME NEW s \in tasks, s # t PROVE Knowing(s)'
    BY <1>0, <1>a, <1>b, <2>2, <2>3, <2>4, <2>12, KnowingKept
  <2>13. tasks' \subseteq tasks
    BY <2>2
  <2>14. OneStart'
    BY <1>0, <2>2 DEF OneStart
  <2>15. shown' \subseteq Conns \X CallIds
    BY <1>0, <1>c, <2>2
  <2>16. (\A s \in shown : PhoneOK(s[1], s[2]))'
    BY <2>11, <2>15
  <2>17. (\A s \in tasks : Knowing(s))'
    BY <2>2, <2>12, <2>13
  <2> QED BY <2>8, <2>9, <2>10, <2>14, <2>16, <2>17 DEF Settling
<1> QED
  BY <1>0, <1>1, <1>2, <1>3, <1>4, <1>5, <1>6, <1>7, <1>8, <1>9, <1>10, <1>11, <1>12, <1>13, <1>14, <1>15, <1>16, <1>17
  DEF Step, ConnSteps, ConnectedIdle, ConnectedRinging, ConnectedRejoins, ConnectedRing,
      DisconnectedIdle, DisconnectedCancels, DisconnectedDrops

(* Phones ask, timers fire, friendships end, the server restarts. *)
LEMMA SettlingEvents ==
  ASSUME Steady, CallsInv, Settling,
         Client \/ Timers \/ (\E a, b \in Users : Unfriend(a, b) \/ EndBetween(a, b)) \/ Restart \/ UNCHANGED vars
  PROVE  Settling'
<1>0. /\ TypeOK
      /\ \A s \in tasks : TaskOK(s) /\ Knowing(s)
      /\ \A id \in CallIds : RowOK(id)
      /\ \A id \in CallIds : RowFollows(id) /\ TimerOK(id) /\ grace[id] = {}
      /\ OneStart
      /\ friends \cap breaking = {}
  BY DEF CallsInv, TypeOK, Settling, Held
<1>a. \A s \in tasks : s.at \in Starts \cup Accepts \cup EndSteps => s.call \in CallIds
  BY <1>0 DEF TaskOK, Starts, Accepts, Accepted, EndSteps
<1>b. \A c, k : <<c, k>> \in shown => PhoneOK(c, k)
  BY DEF Settling
<1>c. shown \subseteq Conns \X CallIds
  BY <1>0 DEF TypeOK
\* No call changes; at most a goroutine comes that is fit to run, and a phone stops to show a call.
<1>1. ASSUME UNCHANGED <<up, used, phase, caller, callee, dev, grace, log>>, Held', shown' \subseteq shown,
             \A id \in CallIds : timer'[id] \in {timer[id], "off"},
             friends' \subseteq friends, friends' \cap breaking' = {},
             NEW n, tasks' \in {tasks, tasks \cup {n}}, tasks' # tasks => n.at \notin Starts /\ Knowing(n)'
      PROVE  Settling'
  <2>1. /\ \A k \in CallIds : Starting(k)' => Starting(k)
        /\ tasks \subseteq tasks'
        /\ \A k \in CallIds : FellOut(k) => FellOut(k)'
    BY <1>1 DEF Starting, FellOut, Starts
  <2>2. (\A k \in CallIds : TimerOK(k))'
    BY <1>0, <1>1 DEF TimerOK
  <2>3. (\A k \in CallIds : RowFollows(k))'
    BY <1>0, <1>1, <2>1, RowKept
  <2>4. (\A s \in shown : PhoneOK(s[1], s[2]))'
    <3>1. ASSUME NEW c \in Conns, NEW k \in CallIds, <<c, k>> \in shown' PROVE PhoneOK(c, k)'
      <4>1. PhoneOK(c, k) /\ c \in up'
        BY <1>b, <1>1, <3>1 DEF PhoneOK
      <4> QED BY <1>1, <2>1, <4>1, PhoneKept
    <3> QED BY <1>c, <1>1, <3>1
  <2>5. (\A s \in tasks : Knowing(s))'
    <3>1. ASSUME NEW s \in tasks PROVE Knowing(s)'
      BY <1>0, <1>a, <1>1, <2>1, <3>1, KnowingKept
    <3> QED BY <1>1, <3>1
  <2>6. OneStart'
    BY <1>0, <1>1 DEF OneStart
  <2> QED BY <1>1, <2>2, <2>3, <2>4, <2>5, <2>6 DEF Settling
<1>2. CASE Client
  <2> PICK c \in Conns : \/ Connect(c) \/ SocketDies(c) \/ HubRemove(c)
                         \/ \E to \in Users : CallStart(c, to)
                         \/ \E id \in CallIds : CallAccept(c, id) \/ CallSignal(c, id) \/ CallEnd(c, id)
    BY <1>2 DEF Client
  <2>1. ~(Connect(c) \/ SocketDies(c) \/ HubRemove(c))
    BY DEF Connect, SocketDies, HubRemove, Steady, Settling, Held
  <2>2. ASSUME NEW to \in Users, CallStart(c, to) PROVE Settling'
    <3> PICK n : n = Handler("start.check", c, to, NoCall)
      OBVIOUS
    <3>1. n.at = "start.check"
      BY DEF Handler
    <3>2. Knowing(n)'
      BY <3>1 DEF Knowing, Starts, Accepts, Accepted, EndSteps
    <3>3. /\ tasks' = tasks \cup {n}
          /\ UNCHANGED <<up, used, phase, caller, callee, dev, timer, grace, log, shown, friends, breaking>>
      BY <2>2 DEF CallStart, social, hub, memory, people, inCall
    <3>4. Held'
      BY <3>1, <3>3 DEF Settling, Held, ConnSteps
    <3> QED BY <1>0, <1>1, <3>1, <3>2, <3>3, <3>4 DEF Starts
  <2>3. ASSUME NEW id \in CallIds, CallAccept(c, id) PROVE Settling'
    <3> PICK n : n = Handler("accept.read", c, NoUser, id)
      OBVIOUS
    <3>1. n.at = "accept.read" /\ n.conn = c /\ n.call = id
      BY DEF Handler
    <3>2. phase[id] # "free" /\ ~Starting(id)
      BY <1>b, <2>3 DEF CallAccept, Knows, PhoneOK, Skipped, Live
    <3>3. /\ tasks' = tasks \cup {n} /\ shown' = shown \ {<<c, id>>}
          /\ UNCHANGED <<up, used, phase, caller, callee, dev, timer, grace, log, friends, breaking>>
      BY <2>3 DEF CallAccept, social, hub, memory, people, inCall
    <3>4. ~Starting(id)'
      BY <3>1, <3>2, <3>3 DEF Starting
    <3>5. Knowing(n)'
      BY <3>1, <3>2, <3>3, <3>4 DEF Knowing, Starts, Accepts, Accepted, EndSteps
    <3>6. Held'
      BY <3>1, <3>3 DEF Settling, Held, ConnSteps
    <3> QED BY <1>0, <1>1, <3>1, <3>3, <3>5, <3>6 DEF Starts
  <2>4. ASSUME NEW id \in CallIds, CallSignal(c, id) PROVE Settling'
    <3>1. UNCHANGED <<up, used, phase, caller, callee, dev, timer, grace, log, shown, friends, breaking, tasks>>
      BY <2>4 DEF CallSignal, social, hub, people
    <3>2. Held'
      BY <3>1 DEF Settling, Held
    <3> QED BY <1>0, <1>1, <3>1, <3>2
  <2>5. ASSUME NEW id \in CallIds, CallEnd(c, id) PROVE Settling'
    <3> PICK r : r = HangUpReason(id, Owner[c])
      OBVIOUS
    <3>0. PICK n : n = [Handler("end.lock", c, NoUser, id) EXCEPT !.reason = r]
      OBVIOUS
    <3>1. n.at = "end.lock" /\ n.call = id /\ n.reason # "unfriended"
      BY <3>0 DEF Handler, HangUpReason
    <3>2. phase[id] # "free" /\ ~Starting(id)
      BY <1>b, <2>5 DEF CallEnd, Knows, PhoneOK, Skipped, Live
    <3>3. /\ tasks' = tasks \cup {n}
          /\ UNCHANGED <<up, used, phase, caller, callee, dev, timer, grace, log, shown, friends, breaking>>
      BY <2>5, <3>0 DEF CallEnd, social, hub, memory, people, inCall
    <3>4. ~Starting(id)'
      BY <3>1, <3>2, <3>3 DEF Starting
    <3>5. Knowing(n)'
      BY <3>1, <3>2, <3>3, <3>4 DEF Knowing, Starts, Accepts, Accepted, EndSteps
    <3>6. Held'
      <4>1. Held
        BY DEF Settling
      <4> QED BY <3>1, <3>3, <4>1 DEF Held, ConnSteps
    <3> QED BY <1>0, <1>1, <3>1, <3>3, <3>5, <3>6 DEF Starts
  <2> QED BY <2>1, <2>2, <2>3, <2>4, <2>5
<1>3. CASE Timers
  <2>1. ASSUME NEW id \in CallIds, FireTimer(id) PROVE Settling'
    <3> PICK r : r = TimerReason(id)
      OBVIOUS
    <3> PICK n : n = Ending(id, r)
      OBVIOUS
    <3>1. n.at = "end.lock" /\ n.call = id /\ n.reason # "unfriended"
      BY DEF Ending, TimerReason
    <3>2. phase[id] # "free" /\ ~Starting(id)
      <4>1. phase[id] \in {"ringing", "active"} /\ (timer[id] # "ring" => phase[id] = "active")
        BY <1>0, <2>1 DEF FireTimer, TimerOK, TypeOK
      <4>2. Starting(id) => phase[id] # "active"
        BY <1>0 DEF Starting, Knowing, Starts
      <4> QED BY <2>1, <4>1, <4>2 DEF FireTimer
    <3>3. /\ tasks' = tasks \cup {n} /\ timer' = [timer EXCEPT ![id] = "off"]
          /\ UNCHANGED <<up, used, phase, caller, callee, dev, grace, log, shown, friends, breaking>>
      BY <2>1 DEF FireTimer, social, hub, people
    <3>4. ~Starting(id)' /\ \A k \in CallIds : timer'[k] \in {timer[k], "off"}
      BY <1>0, <3>1, <3>2, <3>3 DEF Starting, TypeOK
    <3>5. Knowing(n)'
      BY <3>1, <3>2, <3>3, <3>4 DEF Knowing, Starts, Accepts, Accepted, EndSteps
    <3>6. Held'
      <4>1. Held
        BY DEF Settling
      <4> QED BY <3>1, <3>3, <4>1 DEF Held, ConnSteps
    <3> QED BY <1>0, <1>1, <3>1, <3>3, <3>4, <3>5, <3>6 DEF Starts
  <2>2. \A id \in CallIds, u \in Users : ~FireGrace(id, u)
    BY <1>0 DEF FireGrace
  <2> QED BY <1>3, <2>1, <2>2 DEF Timers
<1>4. ASSUME NEW a \in Users, NEW b \in Users, Unfriend(a, b) PROVE Settling'
  <2>1. /\ UNCHANGED <<up, used, phase, caller, callee, dev, timer, grace, log, shown, tasks>>
        /\ friends' \subseteq friends /\ friends' \cap breaking' = {}
    BY <1>0, <1>4 DEF Unfriend, hub, memory, people, inCall
  <2>2. Held'
    BY <2>1 DEF Settling, Held
  <2> QED BY <1>0, <1>1, <2>1, <2>2
<1>5. ASSUME NEW a \in Users, NEW b \in Users, EndBetween(a, b) PROVE Settling'
  <2> PICK id : id = byUser[a]
    OBVIOUS
  <2> PICK n : n = Ending(id, "unfriended")
    OBVIOUS
  <2>1. n.at = "end.lock" /\ n.call = id /\ n.reason = "unfriended"
    BY DEF Ending
  <2>2. /\ UNCHANGED <<up, used, phase, caller, callee, dev, timer, grace, log, shown, friends>>
        /\ friends' \cap breaking' = {} /\ {a, b} \notin friends
        /\ tasks' \in {tasks, tasks \cup {n}}
        /\ tasks' # tasks => id # NoCall /\ Peer(id, a) = b
    BY <1>0, <1>5 DEF EndBetween, hub, memory, people, inCall
  <2>3. id # NoCall => id \in Live /\ a \in Parties(id)
    BY DEF CallsInv, OneCallEach
  <2>4. tasks' # tasks => phase'[id] # "free" /\ FellOut(id)'
    BY <2>2, <2>3 DEF Live, Parties, Peer, FellOut
  <2>5. tasks' # tasks => Knowing(n)'
    BY <2>1, <2>4 DEF Knowing, Starts, Accepts, Accepted, EndSteps
  <2>6. Held'
    BY <2>1, <2>2 DEF Settling, Held, ConnSteps
  <2> QED BY <1>0, <1>1, <2>1, <2>2, <2>5, <2>6 DEF Starts
<1>6. CASE Restart
  <2>1. /\ tasks' = {} /\ shown' = {} /\ breaking' = {} /\ UNCHANGED <<used, caller, callee>>
        /\ \A id \in CallIds : timer'[id] = "off" /\ grace'[id] = {} /\ phase'[id] \in {"free", "over"}
        /\ log' = Recover
    BY <1>0, <1>6 DEF Restart, Steady, people, Live, TypeOK
  <2>2. \A id \in CallIds : log'[id].state = "none" \/ log'[id].ended
    <3> SUFFICES ASSUME NEW id \in CallIds PROVE log'[id].state = "none" \/ log'[id].ended
      OBVIOUS
    <3> PICK r \in Rows : r = log[id]
      BY <1>0 DEF TypeOK
    <3>1. log'[id] = IF r.state # "none" /\ ~r.ended
                     THEN [r EXCEPT !.state = IF r.answered THEN "ended" ELSE "failed",
                                    !.ended = TRUE, !.reason = "interrupted"]
                     ELSE r
      BY <2>1 DEF Recover
    <3> QED BY <3>1 DEF Rows
  <2> QED BY <2>1, <2>2 DEF Settling, Held, TimerOK, RowFollows, OneStart
<1>7. CASE UNCHANGED vars
  <2>1. UNCHANGED <<up, used, phase, caller, callee, dev, timer, grace, log, shown, friends, breaking, tasks>>
    BY <1>7 DEF vars, social, hub, memory, people, inCall
  <2>2. Held'
    BY <2>1 DEF Settling, Held
  <2> QED BY <1>0, <1>1, <2>1, <2>2
<1> QED BY <1>2, <1>3, <1>4, <1>5, <1>6, <1>7

(* What is settled stays so: every step keeps Settling. *)
LEMMA SettlingHolds ==
  ASSUME Steady
  PROVE  Spec => []Settling
<1>1. Init => Settling
  BY DEF Init, Steady, Settling, Held, TimerOK, RowFollows, OneStart
<1>2. CallsInv /\ Settling /\ [Next]_vars => Settling'
  BY SettlingStep, SettlingEvents DEF Next
<1> QED BY <1>1, <1>2, CallsInvHolds, PTL DEF Spec

(* As long as connections hold and Postgres answers, the open rows of the log
   are those of the calls in memory whenever no handler is under way, also when
   friendships end, limits are reached and the server restarts. *)
THEOREM LogMatchesCallsHolds ==
  ASSUME Steady
  PROVE  Spec => []LogMatchesCalls
<1>1. CallsInv /\ Settling => LogMatchesCalls
  <2> SUFFICES ASSUME CallsInv, Settling, tasks = {}, NEW id \in CallIds
               PROVE  IF id \in Live THEN log[id].state = phase[id]
                      ELSE log[id].state = "none" \/ log[id].ended \/ FellOut(id)
    BY DEF LogMatchesCalls, Quiet
  <2>1. RowFollows(id) /\ RowOK(id) /\ TypeOK
    BY DEF Settling, CallsInv
  <2>2. phase \in [CallIds -> {"free", "ringing", "active", "over"}]
    BY <2>1 DEF TypeOK
  <2>3. CASE phase[id] = "free"
    <3>1. log[id] = NoRow /\ NoRow.state = "none"
      BY <2>1, <2>3 DEF RowOK, NoRow
    <3>2. id \notin Live /\ log[id].state = "none"
      BY <2>3, <3>1 DEF Live
    <3> QED BY <3>2
  <2>4. CASE phase[id] \in {"ringing", "active"}
    <3>1. id \in Live
      BY <2>4 DEF Live
    <3>2. log[id].state = phase[id]
      BY <2>1, <2>4 DEF RowFollows
    <3> QED BY <3>1, <3>2
  <2>5. CASE phase[id] = "over"
    <3>1. id \notin Live
      BY <2>5 DEF Live
    <3>2. log[id].state = "none" \/ log[id].ended \/ FellOut(id)
      BY <2>1, <2>5 DEF RowFollows
    <3> QED BY <3>1, <3>2
  <2> QED BY <2>2, <2>3, <2>4, <2>5
<1> QED BY <1>1, CallsInvHolds, SettlingHolds, PTL

(* As long as connections hold and Postgres answers, no phone rings for a call
   that has ended once no handler is under way, and for one that was answered
   elsewhere only a phone whose buffer may have been full when that was told. *)
THEOREM PhonesStopRingingHolds ==
  ASSUME Steady
  PROVE  Spec => []PhonesStopRinging
<1>1. Settling => PhonesStopRinging
  BY DEF Settling, PhoneOK, PhonesStopRinging, Quiet
<1> QED BY <1>1, SettlingHolds, PTL
=============================================================================
