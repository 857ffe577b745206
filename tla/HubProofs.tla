------------------------------ MODULE HubProofs ------------------------------
(***************************************************************************)
(* Hub proved for any users, connections, limits and numbers of events.    *)
(*                                                                         *)
(* HubInv is inductive as it stands: Orderly says that a list names no     *)
(* connection twice, so that what leaves a list is in it no longer.  The   *)
(* first lemmas are about such lists; a step on the map is then one of     *)
(* three changes of a single list, and every other step leaves it alone.   *)
(***************************************************************************)
EXTENDS Hub, SequenceTheorems, TLAPS

(* The entries of a list are the values at its positions. *)
LEMMA InRange ==
  ASSUME NEW s \in Seq(Conns), NEW c
  PROVE  c \in Range(s) <=> \E i \in 1..Len(s) : s[i] = c
BY LenProperties DEF Range

(* A list of different entries, in terms of its positions. *)
LEMMA InjectiveList ==
  ASSUME NEW s \in Seq(Conns)
  PROVE  IsInjective(s) <=> \A i, j \in 1..Len(s) : s[i] = s[j] => i = j
BY LenProperties DEF IsInjective

(* A list without positions names nobody. *)
LEMMA EmptyList ==
  ASSUME NEW s \in Seq(Conns), Len(s) = 0
  PROVE  IsInjective(s) /\ Range(s) = {}
<1>1. ASSUME NEW c \in Range(s) PROVE FALSE
  <2>1. PICK i \in 1..Len(s) : s[i] = c
    BY InRange
  <2> QED BY <2>1
<1>2. \A i, j \in 1..Len(s) : s[i] = s[j] => i = j
  OBVIOUS
<1>3. IsInjective(s)
  BY <1>2, InjectiveList
<1> QED BY <1>1, <1>3

(* RemoveAt drops one position of a list and closes the gap. *)
LEMMA RemoveAtList ==
  ASSUME NEW s \in Seq(Conns), NEW i \in 1..Len(s)
  PROVE  /\ RemoveAt(s, i) \in Seq(Conns)
         /\ Len(RemoveAt(s, i)) = Len(s) - 1
         /\ \A j \in 1..Len(s) - 1 : RemoveAt(s, i)[j] = IF j < i THEN s[j] ELSE s[j + 1]
<1> DEFINE a == SubSeq(s, 1, i - 1)
           b == SubSeq(s, i + 1, Len(s))
<1>1. Len(s) \in Nat /\ \A j \in 1..Len(s) : s[j] \in Conns
  BY LenProperties, ElementOfSeq
<1>2. a \in Seq(Conns) /\ Len(a) = i - 1 /\ \A j \in 1..i - 1 : a[j] = s[j]
  BY <1>1, SubSeqProperties, SMTT(30)
<1>3. b \in Seq(Conns) /\ Len(b) = Len(s) - i /\ \A j \in 1..Len(s) - i : b[j] = s[i + j]
  BY <1>1, SubSeqProperties, SMTT(30)
<1> HIDE DEF a, b
<1>4. /\ a \o b \in Seq(Conns)
      /\ Len(a \o b) = Len(a) + Len(b)
      /\ \A j \in 1..Len(a) + Len(b) : (a \o b)[j] = IF j <= Len(a) THEN a[j] ELSE b[j - Len(a)]
  BY <1>2, <1>3, ConcatProperties
<1>5. Len(a) + Len(b) = Len(s) - 1
  BY <1>1, <1>2, <1>3
<1>6. ASSUME NEW j \in 1..Len(s) - 1
      PROVE  (a \o b)[j] = IF j < i THEN s[j] ELSE s[j + 1]
  <2>1. CASE j < i
    BY <1>1, <1>2, <1>4, <1>5, <2>1
  <2>2. CASE ~(j < i)
    <3>1. j - Len(a) \in 1..Len(s) - i /\ i + (j - Len(a)) = j + 1 /\ ~(j <= Len(a))
      BY <1>1, <1>2, <2>2
    <3> QED BY <1>3, <1>4, <1>5, <2>2, <3>1
  <2> QED BY <2>1, <2>2
<1>7. RemoveAt(s, i) = a \o b
  BY DEF RemoveAt, a, b
<1> QED BY <1>4, <1>5, <1>6, <1>7

(* What leaves a list without repetitions is in it no longer; the rest stays. *)
LEMMA RemoveAtRange ==
  ASSUME NEW s \in Seq(Conns), IsInjective(s), NEW i \in 1..Len(s)
  PROVE  /\ IsInjective(RemoveAt(s, i))
         /\ Range(RemoveAt(s, i)) = Range(s) \ {s[i]}
<1> DEFINE r == RemoveAt(s, i)
<1>1. /\ r \in Seq(Conns) /\ Len(r) = Len(s) - 1 /\ Len(s) \in Nat
      /\ \A j \in 1..Len(s) - 1 : r[j] = IF j < i THEN s[j] ELSE s[j + 1]
  BY RemoveAtList, LenProperties
<1>2. \A j, k \in 1..Len(s) : s[j] = s[k] => j = k
  BY InjectiveList
<1> HIDE DEF r
<1>3. \A j, k \in 1..Len(r) : r[j] = r[k] => j = k
  BY <1>1, <1>2
<1>4. ASSUME NEW c PROVE c \in Range(r) <=> c \in Range(s) /\ c # s[i]
  <2>1. ASSUME NEW j \in 1..Len(r), r[j] = c PROVE c \in Range(s) /\ c # s[i]
    <3>1. (IF j < i THEN j ELSE j + 1) \in 1..Len(s)
      BY <1>1
    <3> QED BY <1>1, <1>2, <2>1, <3>1, InRange
  <2>2. ASSUME NEW j \in 1..Len(s), s[j] = c, c # s[i] PROVE c \in Range(r)
    <3>1. (IF j < i THEN j ELSE j - 1) \in 1..Len(r)
      BY <1>1, <2>2
    <3>2. r[IF j < i THEN j ELSE j - 1] = c
      BY <1>1, <2>2, <3>1
    <3> QED BY <1>1, <3>1, <3>2, InRange
  <2> QED BY <1>1, <2>1, <2>2, InRange
<1> QED BY <1>1, <1>3, <1>4, InjectiveList DEF r

(* A new connection goes to the end of its user's list, and the oldest of a
   list that has become too long goes. *)
LEMMA RegisterList ==
  ASSUME NEW s \in Seq(Conns), IsInjective(s), NEW c \in Conns, c \notin Range(s)
  PROVE  /\ Append(s, c) \in Seq(Conns) /\ IsInjective(Append(s, c))
         /\ Range(Append(s, c)) = Range(s) \cup {c}
         /\ Len(Append(s, c)) = Len(s) + 1
<1> DEFINE l == Append(s, c)
<1>1. /\ l \in Seq(Conns) /\ Len(l) = Len(s) + 1 /\ Len(s) \in Nat
      /\ \A i \in 1..Len(s) : l[i] = s[i]
      /\ l[Len(s) + 1] = c
  BY AppendProperties, LenProperties
<1>2. \A i, j \in 1..Len(s) : s[i] = s[j] => i = j
  BY InjectiveList
<1>3. \A i \in 1..Len(s) : s[i] # c
  BY InRange
<1> HIDE DEF l
<1>4. \A i, j \in 1..Len(l) : l[i] = l[j] => i = j
  BY <1>1, <1>2, <1>3
<1>5. ASSUME NEW d PROVE d \in Range(l) <=> d \in Range(s) \/ d = c
  <2>1. d \in Range(l) <=> \E i \in 1..Len(l) : l[i] = d
    BY <1>1, InRange
  <2>2. d \in Range(s) <=> \E i \in 1..Len(s) : s[i] = d
    BY InRange
  <2> QED BY <1>1, <2>1, <2>2
<1> QED BY <1>1, <1>4, <1>5, InjectiveList DEF l

(* The first of a list without repetitions is not in the rest. *)
LEMMA TailList ==
  ASSUME NEW s \in Seq(Conns), s # <<>>, IsInjective(s)
  PROVE  /\ Tail(s) \in Seq(Conns) /\ IsInjective(Tail(s))
         /\ Range(Tail(s)) = Range(s) \ {Head(s)}
         /\ Len(Tail(s)) = Len(s) - 1
         /\ Head(s) \in Range(s)
<1> DEFINE l == Tail(s)
<1>1. /\ l \in Seq(Conns) /\ Len(l) = Len(s) - 1
      /\ \A i \in 1..Len(l) : l[i] = s[i + 1]
  BY HeadTailProperties
<1>2. Len(s) \in Nat \ {0} /\ Head(s) = s[1]
  BY EmptySeq
<1>3. \A i, j \in 1..Len(s) : s[i] = s[j] => i = j
  BY InjectiveList
<1> HIDE DEF l
<1>4. \A i, j \in 1..Len(l) : l[i] = l[j] => i = j
  BY <1>1, <1>2, <1>3
<1>5. ASSUME NEW d PROVE d \in Range(l) <=> d \in Range(s) /\ d # Head(s)
  <2>1. d \in Range(l) <=> \E i \in 1..Len(l) : l[i] = d
    BY <1>1, InRange
  <2>2. d \in Range(s) <=> \E i \in 1..Len(s) : s[i] = d
    BY InRange
  <2>3. ASSUME NEW i \in 1..Len(s), s[i] = d, d # Head(s) PROVE i - 1 \in 1..Len(l) /\ l[i - 1] = d
    BY <1>1, <1>2, <2>3
  <2> QED BY <1>1, <1>2, <1>3, <2>1, <2>2, <2>3
<1>6. Head(s) \in Range(s)
  BY <1>2, InRange
<1> QED BY <1>1, <1>4, <1>5, <1>6, InjectiveList DEF l

-----------------------------------------------------------------------------
(* The invariants of the map: what of HubInv a change of one list concerns. *)
MapInv == /\ clients \in [Users -> Seq(Conns)]
          /\ \A u \in Users : /\ Len(clients[u]) <= MaxDevices
                              /\ IsInjective(clients[u])
                              /\ \A c \in Range(clients[u]) : Owner[c] = u /\ sock[c] # "none"
          /\ closes \in [Conns -> Nat] /\ goodbyes \in [Conns -> Nat] /\ told \in [Users -> Int]
          /\ \A c \in Conns : sock[c] = "none" => closes[c] = 0
          /\ NoPanic /\ OneGoodbye /\ HooksMatch

(* A change of one user's list keeps them, if it closes exactly the connections
   that leave the list, adds only connections that were new, and starts the
   hook exactly when the list becomes empty or not empty. *)
LEMMA ListChange ==
  ASSUME MapInv, sock \in [Conns -> {"none", "open", "broken", "closed"}],
         NEW u \in Users, NEW l \in Seq(Conns), IsInjective(l), Len(l) <= MaxDevices,
         clients' = [clients EXCEPT ![u] = l],
         CloseAll(Range(clients[u]) \ Range(l)),
         Changed(u, (IF l = <<>> THEN 0 ELSE 1) - (IF clients[u] = <<>> THEN 0 ELSE 1)),
         \A c \in Range(l) : Owner[c] = u /\ sock'[c] # "none",
         \A c \in Range(l) \ Range(clients[u]) : sock[c] = "none",
         \A c \in Conns : c \notin Range(l) => (sock[c] = "none" <=> sock'[c] = "none")
  PROVE  MapInv'
<1> USE HubAssumption DEF MapInv
<1>1. Range(l) \subseteq Conns /\ \A v \in Users : Range(clients[v]) \subseteq Conns
  BY RangeOfSeq
<1>2. /\ clients' \in [Users -> Seq(Conns)] /\ clients'[u] = l
      /\ \A v \in Users \ {u} : clients'[v] = clients[v]
  OBVIOUS
<1>3. \A c \in Conns : Listed(c)' <=> IF Owner[c] = u THEN c \in Range(l) ELSE Listed(c)
  BY <1>2 DEF Listed
<1>4. \A c \in Conns : Owner[c] = u => (Listed(c) <=> c \in Range(clients[u]))
  BY DEF Listed
<1>5. \A c \in Conns : /\ closes'[c] = IF c \in Range(clients[u]) \ Range(l) THEN closes[c] + 1 ELSE closes[c]
                       /\ goodbyes'[c] = IF c \in Range(clients[u]) \ Range(l) THEN goodbyes[c] + 1 ELSE goodbyes[c]
  BY DEF CloseAll
<1>6. closes' \in [Conns -> Nat] /\ goodbyes' \in [Conns -> Nat]
  <2>1. closes \in [Conns -> Nat] /\ goodbyes \in [Conns -> Nat]
    OBVIOUS
  <2> DEFINE gone == Range(clients[u]) \ Range(l)
  <2>2. /\ closes' = [c \in Conns |-> IF c \in gone THEN closes[c] + 1 ELSE closes[c]]
        /\ goodbyes' = [c \in Conns |-> IF c \in gone THEN goodbyes[c] + 1 ELSE goodbyes[c]]
    BY DEF CloseAll
  <2> HIDE DEF gone, MapInv
  <2> QED BY <2>1, <2>2, SMT
<1>7. told' \in [Users -> Int] /\ HooksMatch'
  <2>1. /\ told \in [Users -> Int] /\ HooksMatch
        /\ told' = [told EXCEPT ![u] = @ + ((IF l = <<>> THEN 0 ELSE 1)
                                             - (IF clients[u] = <<>> THEN 0 ELSE 1))]
    BY DEF Changed
  <2> HIDE DEF MapInv
  <2>2. told'[u] = (IF l = <<>> THEN 0 ELSE 1) /\ \A v \in Users \ {u} : told'[v] = told[v]
    BY <2>1 DEF HooksMatch
  <2>3. told' \in [Users -> Int]
    BY <2>1
  <2> QED BY <1>2, <2>1, <2>2, <2>3 DEF HooksMatch
<1>8. \A v \in Users : /\ Len(clients'[v]) <= MaxDevices
                       /\ IsInjective(clients'[v])
                       /\ \A c \in Range(clients'[v]) : Owner[c] = v /\ sock'[c] # "none"
  BY <1>1, <1>2
<1>9. \A c \in Conns : sock'[c] = "none" => closes'[c] = 0
  BY <1>5
<1>10. NoPanic'
  BY <1>3, <1>4, <1>5 DEF NoPanic
<1>11. OneGoodbye'
  <2> SUFFICES ASSUME NEW c \in Conns
               PROVE  goodbyes'[c] = IF sock'[c] # "none" /\ ~Listed(c)' THEN 1 ELSE 0
    BY DEF OneGoodbye
  <2>1. CASE c \in Range(clients[u]) \ Range(l)
    <3>1. Owner[c] = u /\ sock[c] # "none" /\ sock'[c] # "none"
      BY <2>1
    <3>2. Listed(c) /\ ~Listed(c)' /\ goodbyes[c] = 0
      BY <1>3, <1>4, <2>1, <3>1 DEF OneGoodbye
    <3>3. goodbyes'[c] = goodbyes[c] + 1
      BY <1>5, <2>1
    <3> HIDE DEF MapInv
    <3> QED BY <3>1, <3>2, <3>3
  <2>2. CASE c \in Range(l)
    BY <1>3, <1>4, <1>5, <2>2 DEF OneGoodbye
  <2>3. CASE c \notin Range(l) /\ c \notin Range(clients[u])
    BY <1>3, <1>4, <1>5, <2>3 DEF OneGoodbye
  <2> QED BY <2>1, <2>2, <2>3
<1> QED BY <1>2, <1>6, <1>7, <1>8, <1>9, <1>10, <1>11

-----------------------------------------------------------------------------
(* The invariants of what is outside the map: pumps, Send channels, senders. *)
PumpInv == /\ sock \in [Conns -> {"none", "open", "broken", "closed"}]
           /\ waiting \in [Conns -> 0..SendBuffer]
           /\ reader \in [Conns -> {"none", "reads", "leaves", "done"}]
           /\ writer \in [Conns -> {"none", "writes", "done"}]
           /\ slow \subseteq Conns
           /\ events \in 0..MaxEvents
           /\ \A c \in Conns : sock[c] = "none" => reader[c] = "none" /\ writer[c] = "none"

(* Together the two parts are the invariants that the runs check. *)
LEMMA Parts == HubInv /\ HooksMatch <=> MapInv /\ PumpInv
BY DEF HubInv, TypeOK, Orderly, MapInv, PumpInv

(* A step that leaves the map alone keeps the invariants of the map, as long as
   no socket appears or vanishes. *)
LEMMA MapStays ==
  ASSUME MapInv, UNCHANGED hub,
         \A c \in Conns : sock[c] = "none" <=> sock'[c] = "none"
  PROVE  MapInv'
<1>1. clients' = clients /\ closes' = closes /\ told' = told /\ goodbyes' = goodbyes
  BY DEF hub
<1>2. \A c \in Conns : Listed(c)' <=> Listed(c)
  BY <1>1 DEF Listed
<1>3. \A u \in Users : Range(clients[u]) \subseteq Conns
  BY RangeOfSeq DEF MapInv
<1>4. NoPanic' /\ OneGoodbye' /\ HooksMatch'
  BY <1>1, <1>2 DEF MapInv, NoPanic, OneGoodbye, HooksMatch
<1> QED BY <1>1, <1>3, <1>4 DEF MapInv

(* remove keeps the invariants of the map, whoever calls it and however late. *)
LEMMA RemoveKeeps ==
  ASSUME MapInv, PumpInv, NEW c \in Conns, RemoveClient(c),
         \A d \in Conns : sock[d] = "none" <=> sock'[d] = "none"
  PROVE  MapInv'
<1>1. CASE Drop(c)
  <2> DEFINE u == Owner[c]
  <2>1. u \in Users /\ clients[u] \in Seq(Conns) /\ IsInjective(clients[u]) /\ Len(clients[u]) <= MaxDevices
        /\ \A d \in Range(clients[u]) : Owner[d] = u /\ sock[d] # "none"
    BY HubAssumption DEF MapInv
  <2>2. PICK i \in 1..Len(clients[u]) :
          /\ clients[u][i] = c
          /\ clients' = [clients EXCEPT ![u] = RemoveAt(clients[u], i)]
          /\ CloseAll({c})
          /\ Changed(u, IF Len(clients[u]) = 1 THEN -1 ELSE 0)
    BY <1>1, <2>1, LenProperties DEF Drop
  <2> DEFINE l == RemoveAt(clients[u], i)
  <2>3. /\ l \in Seq(Conns) /\ Len(l) = Len(clients[u]) - 1 /\ IsInjective(l)
        /\ Range(l) = Range(clients[u]) \ {c}
    BY <2>1, <2>2, RemoveAtList, RemoveAtRange
  <2>4. c \in Range(clients[u]) /\ Range(clients[u]) \ Range(l) = {c} /\ Range(clients[u]) \subseteq Conns
    BY <2>1, <2>2, <2>3, InRange, RangeOfSeq
  <2> HIDE DEF l
  <2>5. clients[u] # <<>> /\ (l = <<>> <=> Len(clients[u]) = 1)
    <3>1. Len(clients[u]) \in Nat /\ Len(l) \in Nat /\ 1 <= Len(clients[u])
      BY <2>1, <2>3, LenProperties
    <3>2. (clients[u] = <<>> <=> Len(clients[u]) = 0) /\ (l = <<>> <=> Len(l) = 0)
      BY <2>1, <2>3, EmptySeq
    <3> QED BY <2>3, <3>1, <3>2
  <2>6. (IF Len(clients[u]) = 1 THEN -1 ELSE 0)
          = (IF l = <<>> THEN 0 ELSE 1) - (IF clients[u] = <<>> THEN 0 ELSE 1)
    BY <2>5
  <2>7. Changed(u, (IF l = <<>> THEN 0 ELSE 1) - (IF clients[u] = <<>> THEN 0 ELSE 1))
    BY <2>2, <2>6
  <2>8. CloseAll(Range(clients[u]) \ Range(l)) /\ clients' = [clients EXCEPT ![u] = l]
    BY <2>2, <2>4 DEF l
  <2>9. Len(l) <= MaxDevices
    BY <2>1, <2>3, LenProperties, HubAssumption
  <2>10. /\ \A d \in Range(l) : Owner[d] = u /\ sock'[d] # "none"
         /\ \A d \in Range(l) \ Range(clients[u]) : sock[d] = "none"
    BY <2>1, <2>3, <2>4
  <2>11. sock \in [Conns -> {"none", "open", "broken", "closed"}]
    BY DEF PumpInv
  <2> HIDE DEF u
  <2> QED BY <2>1, <2>3, <2>7, <2>8, <2>9, <2>10, <2>11, ListChange
<1>2. CASE UNCHANGED hub
  BY <1>2, MapStays
<1> QED BY <1>1, <1>2 DEF RemoveClient

(* Register keeps them: the connection that a new one pushes out is an older
   one, never itself. *)
LEMMA RegisterKeeps ==
  ASSUME MapInv, PumpInv, NEW c \in Conns, Register(c)
  PROVE  MapInv'
<1> DEFINE u == Owner[c]
           s == clients[u]
           list == Append(s, c)
           over == Len(list) > MaxDevices
           l == IF over THEN Tail(list) ELSE list
<1>1. /\ sock[c] = "none"
      /\ clients' = [clients EXCEPT ![u] = l]
      /\ CloseAll(IF over THEN {Head(list)} ELSE {})
      /\ Changed(u, IF s = <<>> THEN 1 ELSE 0)
      /\ sock' = [sock EXCEPT ![c] = "open"]
  BY DEF Register
<1>2. /\ u \in Users /\ s \in Seq(Conns) /\ IsInjective(s) /\ Len(s) <= MaxDevices
      /\ \A d \in Range(s) : Owner[d] = u /\ sock[d] # "none"
      /\ Len(s) \in Nat /\ MaxDevices \in Nat \ {0}
  BY HubAssumption, LenProperties DEF MapInv
<1>3. c \notin Range(s) /\ Range(s) \subseteq Conns
  BY <1>1, <1>2, RangeOfSeq
<1>4. /\ list \in Seq(Conns) /\ IsInjective(list)
      /\ Range(list) = Range(s) \cup {c} /\ Len(list) = Len(s) + 1
  BY <1>2, <1>3, RegisterList
<1>5. list # <<>>
  BY <1>2, <1>4, EmptySeq
<1>6. ASSUME over PROVE Head(list) \in Range(s)
  <2>1. 1 \in 1..Len(s)
    BY <1>2, <1>4, <1>6
  <2>2. Head(list) = list[1] /\ list[1] = s[1]
    BY <1>2, <1>4, <1>5, <2>1, EmptySeq, AppendProperties
  <2> QED BY <1>2, <2>1, <2>2, InRange
<1> HIDE DEF u, s, list
<1>7. /\ l \in Seq(Conns) /\ IsInjective(l) /\ Len(l) <= MaxDevices /\ Len(l) \in Nat \ {0}
      /\ Range(l) = Range(list) \ (IF over THEN {Head(list)} ELSE {})
  <2>1. CASE over
    <3>1. /\ Tail(list) \in Seq(Conns) /\ IsInjective(Tail(list))
          /\ Range(Tail(list)) = Range(list) \ {Head(list)}
          /\ Len(Tail(list)) = Len(list) - 1
      BY <1>4, <1>5, TailList
    <3> QED BY <1>2, <1>4, <2>1, <3>1
  <2>2. CASE ~over
    BY <1>2, <1>4, <2>2
  <2> QED BY <2>1, <2>2
<1>8. l # <<>>
  BY <1>7, EmptySeq
<1>9. Range(s) \ Range(l) = IF over THEN {Head(list)} ELSE {}
  BY <1>3, <1>4, <1>6, <1>7
<1> HIDE DEF l, over
<1>10. CloseAll(Range(s) \ Range(l))
  BY <1>1, <1>9
<1>11. Changed(u, (IF l = <<>> THEN 0 ELSE 1) - (IF s = <<>> THEN 0 ELSE 1))
  <2>1. (IF s = <<>> THEN 1 ELSE 0) = (IF l = <<>> THEN 0 ELSE 1) - (IF s = <<>> THEN 0 ELSE 1)
    BY <1>8
  <2> QED BY <1>1, <2>1
<1>12. Range(l) \subseteq Range(s) \cup {c} /\ Range(list) \ {c} \subseteq Range(s)
  BY <1>4, <1>7
<1>13. /\ \A d \in Range(l) : Owner[d] = u /\ sock'[d] # "none"
       /\ \A d \in Range(l) \ Range(s) : sock[d] = "none"
  BY <1>1, <1>2, <1>3, <1>12 DEF u, PumpInv
<1>14. \A d \in Conns : d \notin Range(l) => (sock[d] = "none" <=> sock'[d] = "none")
  <2>1. c \in Range(l)
    BY <1>3, <1>4, <1>6, <1>7
  <2> QED BY <1>1, <2>1 DEF PumpInv
<1>15. sock \in [Conns -> {"none", "open", "broken", "closed"}]
  BY DEF PumpInv
<1>16. s = clients[u]
  BY DEF s
<1> HIDE DEF MapInv
<1> QED BY <1>1, <1>2, <1>7, <1>10, <1>11, <1>13, <1>14, <1>15, <1>16, ListChange

(* Disconnect keeps them: nobody of the user is left, and the offline hook runs
   only if somebody was there. *)
LEMMA DisconnectKeeps ==
  ASSUME MapInv, PumpInv, NEW u \in Users, Disconnect(u)
  PROVE  MapInv'
<1> DEFINE l == <<>>
<1>1. /\ clients' = [clients EXCEPT ![u] = l] /\ CloseAll(Range(clients[u]))
      /\ Changed(u, IF clients[u] = l THEN 0 ELSE -1) /\ sock' = sock
  BY DEF Disconnect, pumps
<1>2. l = <<>> /\ l \in Seq(Conns) /\ Len(l) = 0
  BY EmptySeq
<1> HIDE DEF l
<1>3. IsInjective(l) /\ Range(l) = {}
  BY <1>2, EmptyList
<1>4. Len(l) <= MaxDevices /\ Range(clients[u]) \ Range(l) = Range(clients[u])
  <2>1. Len(l) = 0 /\ MaxDevices \in Nat
    BY <1>2, HubAssumption
  <2> QED BY <1>3, <2>1
<1>5. Changed(u, (IF l = <<>> THEN 0 ELSE 1) - (IF clients[u] = <<>> THEN 0 ELSE 1))
  <2>1. (IF clients[u] = l THEN 0 ELSE -1)
          = (IF l = <<>> THEN 0 ELSE 1) - (IF clients[u] = <<>> THEN 0 ELSE 1)
    BY <1>2
  <2> QED BY <1>1, <2>1
<1>6. CloseAll(Range(clients[u]) \ Range(l))
  BY <1>1, <1>4
<1> QED BY <1>1, <1>2, <1>3, <1>4, <1>5, <1>6, ListChange DEF PumpInv

-----------------------------------------------------------------------------
(* The hub starts without connections. *)
LEMMA HubInit == Init => MapInv /\ PumpInv
<1> SUFFICES ASSUME Init PROVE MapInv /\ PumpInv
  OBVIOUS
<1> DEFINE l == <<>>
<1>1. l \in Seq(Conns) /\ Len(l) = 0 /\ l = <<>>
  BY EmptySeq
<1>2. \A u \in Users : clients[u] = l
  BY DEF Init
<1>3. clients \in [Users -> Seq(Conns)]
  BY <1>1 DEF Init
<1> HIDE DEF l
<1>4. IsInjective(l) /\ Range(l) = {} /\ Len(l) <= MaxDevices
  <2>1. Len(l) = 0 /\ MaxDevices \in Nat
    BY <1>1, HubAssumption
  <2>2. IsInjective(l) /\ Range(l) = {}
    BY <1>1, EmptyList
  <2> QED BY <2>1, <2>2
<1>5. \A u \in Users : /\ Len(clients[u]) <= MaxDevices
                        /\ IsInjective(clients[u])
                        /\ \A c \in Range(clients[u]) : Owner[c] = u /\ sock[c] # "none"
  BY <1>2, <1>4
<1>6. HooksMatch
  BY <1>1, <1>2 DEF Init, HooksMatch
<1>7. /\ \A c \in Conns : sock[c] = "none" /\ closes[c] = 0 /\ goodbyes[c] = 0
      /\ closes \in [Conns -> Nat] /\ goodbyes \in [Conns -> Nat] /\ told \in [Users -> Int]
  BY DEF Init
<1>8. PumpInv
  BY HubAssumption DEF Init, PumpInv
<1> QED BY <1>3, <1>5, <1>6, <1>7, <1>8 DEF MapInv, NoPanic, OneGoodbye

(* What a sender puts into the Send channels still fits. *)
LEMMA PutFits ==
  ASSUME PumpInv, NEW cs, Put(cs)
  PROVE  waiting' \in [Conns -> 0..SendBuffer] /\ events' \in 0..MaxEvents
BY HubAssumption DEF PumpInv, Put, Full

(* Every step of the hub, a sender or a pump keeps both parts. *)
LEMMA HubNext == MapInv /\ PumpInv /\ [Next]_vars => MapInv' /\ PumpInv'
<1> SUFFICES ASSUME MapInv, PumpInv, [Next]_vars PROVE MapInv' /\ PumpInv'
  OBVIOUS
<1> USE DEF pumps
<1>1. ASSUME NEW c \in Conns, Register(c) PROVE MapInv' /\ PumpInv'
  <2>1. PumpInv'
    BY <1>1 DEF Register, PumpInv
  <2> QED BY <1>1, <2>1, RegisterKeeps
<1>2. ASSUME NEW cs \in SUBSET Conns, SendTo(cs) PROVE MapInv' /\ PumpInv'
  <2>1. waiting' \in [Conns -> 0..SendBuffer] /\ events' \in 0..MaxEvents
    BY <1>2, PutFits DEF SendTo
  <2>2. PumpInv'
    BY <1>2, <2>1 DEF SendTo, PumpInv
  <2> QED BY <1>2, <2>2, MapStays DEF SendTo
<1>3. ASSUME NEW c \in Conns, SendToConn(c) PROVE MapInv' /\ PumpInv'
  BY <1>2, <1>3 DEF SendToConn
<1>4. ASSUME NEW c \in Conns, RemoveSlow(c) PROVE MapInv' /\ PumpInv'
  <2>1. PumpInv'
    BY <1>4 DEF RemoveSlow, PumpInv
  <2> QED BY <1>4, <2>1, RemoveKeeps DEF RemoveSlow
<1>5. ASSUME NEW c \in Conns, SocketBreaks(c) PROVE MapInv' /\ PumpInv'
  <2>1. PumpInv' /\ \A d \in Conns : sock[d] = "none" <=> sock'[d] = "none"
    BY <1>5 DEF SocketBreaks, PumpInv
  <2> QED BY <1>5, <2>1, MapStays DEF SocketBreaks
<1>6. ASSUME NEW c \in Conns, ReadPump(c) PROVE MapInv' /\ PumpInv'
  <2>1. CASE ReadFails(c)
    <3>1. PumpInv'
      BY <2>1 DEF ReadFails, PumpInv
    <3> QED BY <2>1, <3>1, MapStays DEF ReadFails
  <2>2. CASE Unregister(c)
    <3>1. PumpInv' /\ \A d \in Conns : sock[d] = "none" <=> sock'[d] = "none"
      BY <2>2 DEF Unregister, PumpInv
    <3> QED BY <2>2, <3>1, RemoveKeeps DEF Unregister
  <2> QED BY <1>6, <2>1, <2>2 DEF ReadPump
<1>7. ASSUME NEW c \in Conns, WritePump(c) PROVE MapInv' /\ PumpInv'
  <2>1. CASE Write(c)
    <3>1. PumpInv'
      BY <2>1, HubAssumption DEF Write, PumpInv
    <3> QED BY <2>1, <3>1, MapStays DEF Write
  <2>2. CASE writer[c] = "writes" /\ WriterEnds(c)
    <3>1. PumpInv' /\ \A d \in Conns : sock[d] = "none" <=> sock'[d] = "none"
      BY <2>2 DEF WriterEnds, PumpInv
    <3> QED BY <2>2, <3>1, MapStays DEF WriterEnds
  <2> QED BY <1>7, <2>1, <2>2 DEF WritePump, WriteFails, SendIsClosed
<1>8. ASSUME NEW u \in Users, Disconnect(u) PROVE MapInv' /\ PumpInv'
  <2>1. PumpInv'
    BY <1>8 DEF Disconnect, PumpInv
  <2> QED BY <1>8, <2>1, DisconnectKeeps
<1>9. ASSUME NEW us \in SUBSET Users, WriteToUsers(us) PROVE MapInv' /\ PumpInv'
  BY <1>2, <1>9 DEF WriteToUsers
<1>10. ASSUME NEW c \in Conns, WriteToUserExcept(Owner[c], c) PROVE MapInv' /\ PumpInv'
  <2>1. waiting' \in [Conns -> 0..SendBuffer] /\ events' \in 0..MaxEvents
    BY <1>10, PutFits DEF WriteToUserExcept
  <2>2. PumpInv'
    BY <1>10, <2>1 DEF WriteToUserExcept, PumpInv
  <2> QED BY <1>10, <2>2, MapStays DEF WriteToUserExcept
<1>11. ASSUME UNCHANGED vars PROVE MapInv' /\ PumpInv'
  <2>1. PumpInv' /\ UNCHANGED hub /\ sock' = sock
    BY <1>11 DEF vars, PumpInv
  <2> QED BY <2>1, MapStays
<1> QED BY <1>1, <1>3, <1>4, <1>5, <1>6, <1>7, <1>8, <1>9, <1>10, <1>11 DEF Next

(* HubInv for any hub: no Send channel is closed twice or written to after it was
   closed, no user has more connections than MaxDevices, and each connection gets
   one farewell (hub.go: Run, remove, Disconnect, send). *)
THEOREM HubInvHolds == Spec => []HubInv
<1>1. MapInv /\ PumpInv => HubInv
  BY Parts
<1> QED BY <1>1, HubInit, HubNext, PTL DEF Spec

(* Whoever removes a user's last connection, and in whatever order, the presence
   hooks have told of the user as online exactly if the map has a connection
   (hub.go: Run's changed, remove, Disconnect). *)
THEOREM HooksMatchHolds == Spec => []HooksMatch
<1>1. MapInv /\ PumpInv => HooksMatch
  BY Parts
<1> QED BY <1>1, HubInit, HubNext, PTL DEF Spec
=============================================================================
