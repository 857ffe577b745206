----------------------------- MODULE FreshReads -----------------------------
(***************************************************************************)
(* What a read through the cache promises, with no cache in sight.         *)
(*                                                                         *)
(* One record of Postgres has a revision that writers raise.  A write is   *)
(* acknowledged once its writer has invalidated the cache.  A read that    *)
(* starts after a write was acknowledged returns that write or a later     *)
(* one; it never returns a revision that was not committed.                *)
(***************************************************************************)
EXTENDS Integers

CONSTANT Readers      \* the requests that read the record

VARIABLES db,         \* the revision committed in Postgres
          acked,      \* the newest acknowledged revision
          busy,       \* the reads in progress
          floor,      \* acked when the read of a reader started
          got         \* what the last read of a reader returned

vars == <<db, acked, busy, floor, got>>

Init == /\ db = 0
        /\ acked = 0
        /\ busy = {}
        /\ floor = [r \in Readers |-> 0]
        /\ got = [r \in Readers |-> 0]

\* A writer commits.
Commit == /\ db' = db + 1
          /\ UNCHANGED <<acked, busy, floor, got>>

\* A committed write is acknowledged, and with it every earlier one.
Ack == /\ \E n \in (acked + 1)..db : acked' = n
       /\ UNCHANGED <<db, busy, floor, got>>

\* A read starts.
Begin(r) == /\ r \notin busy
            /\ busy' = busy \cup {r}
            /\ floor' = [floor EXCEPT ![r] = acked]
            /\ UNCHANGED <<db, acked, got>>

\* A read returns a committed revision no older than its floor.
Return(r) == /\ r \in busy
             /\ busy' = busy \ {r}
             /\ \E n \in floor[r]..db : got' = [got EXCEPT ![r] = n]
             /\ UNCHANGED <<db, acked, floor>>

\* A read fails: Postgres could not be read.
Fail(r) == /\ r \in busy
           /\ busy' = busy \ {r}
           /\ UNCHANGED <<db, acked, floor, got>>

Next == \/ Commit
        \/ Ack
        \/ \E r \in Readers : Begin(r) \/ Return(r) \/ Fail(r)

Spec == Init /\ [][Next]_vars
=============================================================================
