------------------------------ MODULE Markers -------------------------------
(***************************************************************************)
(* Read markers of a private chat: MarkSeen of internal/chat/service.go    *)
(* publishes a job on the queue of module Queue, HandleSeen stores it      *)
(* (AddLastSeenMessage), and the list of conversations counts what is      *)
(* unread by it.                                                           *)
(*                                                                         *)
(* A job is one call of MarkSeen by one reader; its payload is the message *)
(* that was seen.  The key chat:seen, which MarkSeen sets first, is left   *)
(* out: nothing reads it.                                                  *)
(***************************************************************************)
EXTENDS Queue

CONSTANTS Created   \* message -> created_at

VARIABLES marker    \* seen_messages: {} or {the last message seen}

ASSUME MarkersAssumption == /\ \A m \in DOMAIN Created : Created[m] \in Nat
                            /\ \A f \in Payloads, j \in Jobs : f[j] \in DOMAIN Created

markerVars == <<vars, marker>>

-----------------------------------------------------------------------------
\* A mistake: the marker is set to whatever comes last.
SetLastSeenMessage(m) == {m}

\* INSERT ... ON CONFLICT DO UPDATE ... WHERE the new one is not older.
AddLastSeenMessage(m) == IF \E old \in marker : Created[m] < Created[old] THEN marker ELSE {m}

\* ListPrivateConversations: the other's messages after the marker.
Unread == {m \in DOMAIN Created : \A s \in marker : Created[m] > Created[s]}

\* MarkSeen: a message of the chat; the receipt to the other is not kept.
MarkSeen(j) == Publish(j) /\ UNCHANGED marker

\* HandleSeen: one statement, which may be committed although it fails.
\* classify: an error in the data is for good.
HandleSeen(t, outcome) ==
  /\ Handle(t, outcome)
  /\ LET stored == AddLastSeenMessage(CHOOSE m \in PayloadOf(t.entry.jobs) : TRUE)
     IN CASE outcome = "ok" -> marker' = stored
          [] outcome = "error" -> marker' \in {marker, stored}
          [] outcome = "permanent" -> UNCHANGED marker

MarkersInit == Init /\ marker \in {{}} \cup {{m} : m \in DOMAIN Created}

MarkersNext == \/ \E j \in Jobs : MarkSeen(j)
               \/ \E d \in delayed : MoveDue(d) /\ UNCHANGED marker
               \/ \E e \in stream : (Read(e) \/ Reclaim(e)) /\ UNCHANGED marker
               \/ \E t \in tasks, o \in {"ok", "error", "permanent"} : HandleSeen(t, o)
               \/ \E t \in tasks : Finish(t) /\ UNCHANGED marker
               \/ \E ts \in SUBSET tasks : ts # {} /\ Abandon(ts) /\ UNCHANGED marker

\* The fairness of the queue, whose loops run beside the handlers.
MarkersSpec == MarkersInit /\ [][MarkersNext]_markerVars /\ Fairness
-----------------------------------------------------------------------------
\* A receipt that was handled stays: whatever order the jobs run in, and however
\* often, nothing at or before a message whose job is done is counted as unread
\* (chat.sql.go, AddLastSeenMessage: "a late or repeated receipt never moves it
\* back").
SeenStaysSeen == \A j \in Jobs : done[j] > 0 => \A m \in Unread : Created[m] > Created[payload[j]]
=============================================================================
