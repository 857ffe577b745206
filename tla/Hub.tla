-------------------------------- MODULE Hub ---------------------------------
(***************************************************************************)
(* The websocket hub (internal/ws): the live connections of every user, the *)
(* two goroutines of each connection (ReadPump and WritePump) and the Send  *)
(* channel between them and the hub, which the hub alone closes.            *)
(*                                                                         *)
(* A section under Hub.mu is one step.  A connection that is found slow is *)
(* removed in a later step, since send collects those under the read lock  *)
(* and removes them after it.  Hub.Run takes a new client or a departing   *)
(* one from its channels: one step each, as nobody else waits for the rest *)
(* of the loop's body.  The hooks run on goroutines of their own; here     *)
(* they are counted when they are started.  Events are not told apart: of  *)
(* a Send channel only the number of events waiting in it counts.          *)
(***************************************************************************)
EXTENDS Integers, SequencesExt

CONSTANTS Users,
          Conns,        \* connections, each used once
          Owner,        \* connection -> its user
          MaxDevices,   \* connections that a user may have
          SendBuffer,   \* capacity of a Send channel
          MaxEvents     \* bound: events sent

ASSUME HubAssumption == /\ Owner \in [Conns -> Users]
                        /\ MaxDevices \in Nat \ {0}
                        /\ SendBuffer \in Nat \ {0}
                        /\ MaxEvents \in Nat

VARIABLES clients,      \* user -> registered connections, oldest first
          sock,         \* conn -> its websocket: "none", "open", "broken" or "closed"
          waiting,      \* conn -> events in its Send channel
          closes,       \* conn -> how often Send was closed: twice panics
          reader,       \* conn -> its ReadPump: "none", "reads", "leaves" or "done"
          writer,       \* conn -> its WritePump: "none", "writes" or "done"
          slow,         \* connections that a sender has found full and will remove
          told,         \* user -> online hooks minus offline hooks
          goodbyes,     \* conn -> Disconnected hooks
          events        \* events sent

hub == <<clients, closes, told, goodbyes>>
pumps == <<sock, reader, writer>>
vars == <<hub, pumps, waiting, slow, events>>

Init == /\ clients = [u \in Users |-> <<>>]
        /\ sock = [c \in Conns |-> "none"]
        /\ waiting = [c \in Conns |-> 0]
        /\ closes = [c \in Conns |-> 0]
        /\ reader = [c \in Conns |-> "none"]
        /\ writer = [c \in Conns |-> "none"]
        /\ slow = {}
        /\ told = [u \in Users |-> 0]
        /\ goodbyes = [c \in Conns |-> 0]
        /\ events = 0

Listed(c) == c \in Range(clients[Owner[c]])

-----------------------------------------------------------------------------
(* Coming and going *)

\* Close Send and start the Disconnected hook, for each of the connections cs.
CloseAll(cs) == /\ closes' = [c \in Conns |-> IF c \in cs THEN closes[c] + 1 ELSE closes[c]]
                /\ goodbyes' = [c \in Conns |-> IF c \in cs THEN goodbyes[c] + 1 ELSE goodbyes[c]]

\* changed: the presence hook, if the step takes u from offline to online (1)
\* or back (-1).
Changed(u, by) == told' = [told EXCEPT ![u] = @ + by]

\* Serve and Hub.Run, Register: one device too many pushes out the oldest.
Register(c) ==
  LET u == Owner[c]
      list == Append(clients[u], c)
      over == Len(list) > MaxDevices
  IN /\ sock[c] = "none"
     /\ clients' = [clients EXCEPT ![u] = IF over THEN Tail(list) ELSE list]
     /\ CloseAll(IF over THEN {Head(list)} ELSE {})
     /\ Changed(u, IF clients[u] = <<>> THEN 1 ELSE 0)
     /\ sock' = [sock EXCEPT ![c] = "open"]
     /\ reader' = [reader EXCEPT ![c] = "reads"]
     /\ writer' = [writer EXCEPT ![c] = "writes"]
     /\ UNCHANGED <<waiting, slow, events>>

\* A registered connection leaves the list of its user.
Drop(c) == \E i \in DOMAIN clients[Owner[c]] :
             /\ clients[Owner[c]][i] = c
             /\ clients' = [clients EXCEPT ![Owner[c]] = RemoveAt(@, i)]
             /\ CloseAll({c})
             /\ Changed(Owner[c], IF Len(clients[Owner[c]]) = 1 THEN -1 ELSE 0)

\* A mistake: Send is closed whether or not the connection is registered.
RemoveAnyway(c) == \/ Drop(c)
                   \/ ~Listed(c) /\ CloseAll({c}) /\ UNCHANGED <<clients, told>>

\* remove: drops the connection if it is still registered.
RemoveClient(c) == \/ Drop(c)
                   \/ ~Listed(c) /\ UNCHANGED hub

\* Hub.Run, Unregister, and the end of ReadPump that waited for it.
Unregister(c) == /\ reader[c] = "leaves"
                 /\ RemoveClient(c)
                 /\ reader' = [reader EXCEPT ![c] = "done"]
                 /\ sock' = [sock EXCEPT ![c] = "closed"]
                 /\ UNCHANGED <<writer, waiting, slow, events>>

\* A mistake: the offline hook runs for a user who had no connection.
DisconnectTellsAlways(u) == /\ clients' = [clients EXCEPT ![u] = <<>>]
                            /\ CloseAll(Range(clients[u]))
                            /\ Changed(u, -1)
                            /\ UNCHANGED <<pumps, waiting, slow, events>>

\* Disconnect: account deleted, banned or signed out everywhere.
Disconnect(u) == /\ clients' = [clients EXCEPT ![u] = <<>>]
                 /\ CloseAll(Range(clients[u]))
                 /\ Changed(u, IF clients[u] = <<>> THEN 0 ELSE -1)
                 /\ UNCHANGED <<pumps, waiting, slow, events>>

-----------------------------------------------------------------------------
(* Sending: under the read lock, to connections that are registered *)

Full(c) == waiting[c] >= SendBuffer

\* One more event for those of the connections cs that have room.
Put(cs) == /\ events < MaxEvents
           /\ events' = events + 1
           /\ waiting' = [c \in Conns |-> IF c \in cs /\ ~Full(c) THEN waiting[c] + 1 ELSE waiting[c]]

\* send, for WriteToUsers, and SendToConn: those without room will be removed.
SendTo(cs) == /\ Put(cs)
              /\ slow' = slow \cup {c \in cs : Full(c)}
              /\ UNCHANGED <<hub, pumps>>

WriteToUsers(targets) == SendTo({c \in Conns : Owner[c] \in targets /\ Listed(c)})

SendToConn(c) == Listed(c) /\ SendTo({c})

\* WriteToUserExcept: those without room miss the event.
WriteToUserExcept(u, except) == /\ Put(Range(clients[u]) \ {except})
                                /\ UNCHANGED <<hub, pumps, slow>>

RemoveSlow(c) == /\ c \in slow
                 /\ slow' = slow \ {c}
                 /\ RemoveClient(c)
                 /\ UNCHANGED <<pumps, waiting, events>>

-----------------------------------------------------------------------------
(* The pumps *)

\* The peer goes away, or answers no ping.
SocketBreaks(c) == /\ sock[c] = "open"
                   /\ sock' = [sock EXCEPT ![c] = "broken"]
                   /\ UNCHANGED <<hub, reader, writer, waiting, slow, events>>

\* ReadPump: a read fails, since the socket is broken or closed.
ReadFails(c) == /\ reader[c] = "reads"
                /\ sock[c] # "open"
                /\ reader' = [reader EXCEPT ![c] = "leaves"]
                /\ UNCHANGED <<hub, sock, writer, waiting, slow, events>>

\* WritePump writes the event it takes and those that wait behind it.
Write(c) == /\ writer[c] = "writes"
            /\ waiting[c] > 0
            /\ sock[c] = "open"
            /\ waiting' = [waiting EXCEPT ![c] = 0]
            /\ UNCHANGED <<hub, pumps, slow, events>>

\* A mistake: WritePump leaves the socket open.
WriterEndsOpen(c) == /\ writer' = [writer EXCEPT ![c] = "done"]
                     /\ UNCHANGED <<hub, sock, reader, waiting, slow, events>>

WriterEnds(c) == /\ writer' = [writer EXCEPT ![c] = "done"]
                 /\ sock' = [sock EXCEPT ![c] = "closed"]
                 /\ UNCHANGED <<hub, reader, waiting, slow, events>>

\* WritePump: an event or a ping cannot be written.
WriteFails(c) == /\ writer[c] = "writes"
                 /\ sock[c] # "open"
                 /\ WriterEnds(c)

\* WritePump: the hub has closed Send and nothing waits in it.
SendIsClosed(c) == /\ writer[c] = "writes"
                   /\ closes[c] > 0 /\ waiting[c] = 0
                   /\ WriterEnds(c)

-----------------------------------------------------------------------------
ReadPump(c) == ReadFails(c) \/ Unregister(c)

WritePump(c) == Write(c) \/ WriteFails(c) \/ SendIsClosed(c)

Next == \/ \E c \in Conns : \/ Register(c) \/ SendToConn(c) \/ RemoveSlow(c)
                            \/ SocketBreaks(c) \/ ReadPump(c) \/ WritePump(c)
        \/ \E u \in Users : Disconnect(u)
        \/ \E us \in SUBSET Users : WriteToUsers(us)
        \/ \E c \in Conns : WriteToUserExcept(Owner[c], c)

Spec == Init /\ [][Next]_vars

\* The pumps are goroutines that the scheduler runs, and Hub.Run always comes back
\* to its select, where a departing client waits its turn.
Fairness == \A c \in Conns : WF_vars(ReadPump(c)) /\ WF_vars(WritePump(c))

FairSpec == Spec /\ Fairness

-----------------------------------------------------------------------------
\* The type invariant.  A Send channel never holds more than it has room for,
\* and a user never has more than MaxDevices connections.
TypeOK == /\ clients \in [Users -> Seq(Conns)]
          /\ \A u \in Users : Len(clients[u]) <= MaxDevices
          /\ sock \in [Conns -> {"none", "open", "broken", "closed"}]
          /\ waiting \in [Conns -> 0..SendBuffer]
          /\ closes \in [Conns -> Nat]
          /\ reader \in [Conns -> {"none", "reads", "leaves", "done"}]
          /\ writer \in [Conns -> {"none", "writes", "done"}]
          /\ slow \subseteq Conns
          /\ told \in [Users -> Int]
          /\ goodbyes \in [Conns -> Nat]
          /\ events \in 0..MaxEvents

\* No goroutine panics: Send is closed once, and while the connection can still
\* be found in the hub, where every sender looks, Send is open.
NoPanic == \A c \in Conns : closes[c] <= 1 /\ (Listed(c) => closes[c] = 0)

\* The presence hook agrees with the map: told that a user is online exactly
\* when the user has a connection, whoever removed the last one.
HooksMatch == \A u \in Users : told[u] = IF clients[u] = <<>> THEN 0 ELSE 1

\* Calls hear of the end of every connection exactly once, by eviction,
\* Disconnect, a slow device or a broken socket, when it leaves the hub.
OneGoodbye == \A c \in Conns : goodbyes[c] = IF sock[c] # "none" /\ ~Listed(c) THEN 1 ELSE 0

\* A device that cannot be reached leaves the hub, and no goroutine is left
\* behind: when the hub lets go of a connection, both of its pumps end.
ConnsEnd == \A c \in Conns : sock[c] = "broken" \/ closes[c] > 0
                               ~> ~Listed(c) /\ reader[c] = "done" /\ writer[c] = "done"

\* A list names each connection once, under its owner, and only after it has
\* registered; before that nothing of it runs.
Orderly == /\ \A u \in Users : /\ IsInjective(clients[u])
                              /\ \A c \in Range(clients[u]) : Owner[c] = u /\ sock[c] # "none"
           /\ \A c \in Conns : sock[c] = "none" => /\ closes[c] = 0
                                                   /\ reader[c] = "none" /\ writer[c] = "none"

\* The safety of the hub: its limits, no close of a closed channel, and one
\* farewell per connection (hub.go, Run, remove, Disconnect, send).
HubInv == TypeOK /\ Orderly /\ NoPanic /\ OneGoodbye
=============================================================================
