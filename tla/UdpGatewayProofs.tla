-------------------------- MODULE UdpGatewayProofs --------------------------
(***************************************************************************)
(* Proofs about UdpGateway: for all packets, connection ids, gateway       *)
(* connections and batch sizes, a session in the table is one that the     *)
(* expiry will find.                                                       *)
(*                                                                         *)
(* The table and the ordered set are changed by different steps, of        *)
(* different goroutines.  What makes the invariant inductive is Sessions:  *)
(* a session is in the table under the id of its own packets only, it      *)
(* never comes back once it has left, and a handler that is about to take  *)
(* its session out of the ordered set has seen it leave the table.         *)
(***************************************************************************)
EXTENDS UdpGateway, SequenceTheorems, NaturalsInduction, WellFoundedInduction, TLAPS

Labels == {"new", "update", "start", "write", "dns", "close", "remove", "delete", "forget",
           "open", "attach", "done"}

(* The types of the variables; the aged entries are entries of the ordered *)
(* set.                                                                    *)
Types ==
  /\ table \in [ConID -> Packet \cup {None}]
  /\ idSet \in Seq(Packet) /\ aged \in 0 .. Len(idSet)
  /\ pc \in [Packet -> Labels]
  /\ ses \in [Packet -> Packet \cup {None}]
  /\ stream \in [Packet -> Packet \cup {None}]
  /\ copier \in [Packet -> {"off", "top", "read"}]
  /\ stopping \in {"no", "range", "yes"} /\ panicked \in BOOLEAN

Sessions ==
  /\ \A c \in ConID : table[c] # None => Con[table[c]] = c /\ pc[table[c]] # "new"
  /\ \A p \in Packet :
       /\ pc[p] \notin {"new", "done"} => ses[p] # None
       /\ ses[p] # None => Con[ses[p]] = Con[p] /\ pc[ses[p]] # "new"
       /\ pc[p] = "forget" => table[Con[p]] # ses[p]

(* The inductive invariant.                                                *)
IInv == Types /\ Sessions /\ TableTracked

-----------------------------------------------------------------------------
(* The least element of a set of natural numbers.                          *)
LEMMA MinIn == ASSUME NEW S \in SUBSET Nat, S # {} PROVE Min(S) \in S
<1> DEFINE R == {p \in Nat \X Nat : p[1] < p[2]}
<1>1. OpToRel(<, Nat) = R
  BY Zenon DEF OpToRel
<1>2. \E x \in S : \A y \in S : ~ <<y, x>> \in OpToRel(<, Nat)
  BY NatLessThanWellFounded, WFMin, Zenon
<1>3. PICK x \in S : \A y \in S : ~ <<y, x>> \in R
  BY <1>1, <1>2, Zenon
<1>4. ASSUME NEW y \in S PROVE x <= y
  <2>1. ~ <<y, x>> \in R
    BY <1>3
  <2>2. <<y, x>> \in Nat \X Nat
    OBVIOUS
  <2>3. ~(y < x)
    BY <2>1, <2>2
  <2> QED
    BY <2>3
<1> QED
  BY <1>4 DEF Min

(* RemoveFirst takes out one entry of u and keeps all others in order.     *)
LEMMA RemoveOne ==
  ASSUME NEW s \in Seq(Packet), NEW u, \E i \in 1 .. Len(s) : s[i] = u
  PROVE  \E k \in 1 .. Len(s) :
           /\ s[k] = u
           /\ RemoveFirst(s, u) = SubSeq(s, 1, k - 1) \o SubSeq(s, k + 1, Len(s))
<1> DEFINE I == {i \in 1 .. Len(s) : s[i] = u}
<1>1. I \in SUBSET Nat /\ I # {}
  BY LenProperties
<1>2. Min(I) \in I
  BY <1>1, MinIn
<1>3. RemoveFirst(s, u) = RemoveAt(s, Min(I))
  BY <1>1 DEF RemoveFirst, SelectInSeq
<1> QED
  BY <1>2, <1>3 DEF RemoveAt

(* Entries of a concatenation.                                             *)
LEMMA ConcatEntries ==
  ASSUME NEW a \in Seq(Packet), NEW b \in Seq(Packet)
  PROVE  /\ a \o b \in Seq(Packet) /\ Len(a \o b) = Len(a) + Len(b)
         /\ \A i \in 1 .. Len(a) : \E j \in 1 .. Len(a \o b) : (a \o b)[j] = a[i]
         /\ \A i \in 1 .. Len(b) : \E j \in 1 .. Len(a \o b) : (a \o b)[j] = b[i]
<1>1. Len(a) \in Nat /\ Len(b) \in Nat
  BY LenProperties
<1>2. /\ a \o b \in Seq(Packet) /\ Len(a \o b) = Len(a) + Len(b)
      /\ \A i \in 1 .. Len(a) + Len(b) :
           (a \o b)[i] = IF i <= Len(a) THEN a[i] ELSE b[i - Len(a)]
  BY ConcatProperties
<1>3. ASSUME NEW i \in 1 .. Len(a)
      PROVE  \E j \in 1 .. Len(a \o b) : (a \o b)[j] = a[i]
  <2>1. i \in 1 .. Len(a) + Len(b) /\ i <= Len(a)
    BY <1>1
  <2> QED
    BY <1>2, <2>1
<1>4. ASSUME NEW i \in 1 .. Len(b)
      PROVE  \E j \in 1 .. Len(a \o b) : (a \o b)[j] = b[i]
  <2>1. PICK j \in 1 .. Len(a) + Len(b) : j = i + Len(a)
    BY <1>1
  <2>2. ~(j <= Len(a)) /\ j - Len(a) = i
    BY <1>1, <2>1
  <2> QED
    BY <1>2, <2>2
<1> QED
  BY <1>2, <1>3, <1>4

(* The entries of a sequence but the one at k are those before it and      *)
(* those after it.                                                         *)
LEMMA Split ==
  ASSUME NEW s \in Seq(Packet), NEW n \in Nat, n = Len(s), NEW k \in 1 .. n
  PROVE  /\ SubSeq(s, 1, k - 1) \in Seq(Packet) /\ Len(SubSeq(s, 1, k - 1)) = k - 1
         /\ SubSeq(s, k + 1, n) \in Seq(Packet) /\ Len(SubSeq(s, k + 1, n)) = n - k
         /\ \A i \in 1 .. k - 1 : SubSeq(s, 1, k - 1)[i] = s[i]
         /\ \A i \in k + 1 .. n : SubSeq(s, k + 1, n)[i - k] = s[i]
<1>1. /\ SubSeq(s, 1, k - 1) \in Seq(Packet) /\ Len(SubSeq(s, 1, k - 1)) = k - 1
      /\ \A i \in 1 .. k - 1 : SubSeq(s, 1, k - 1)[i] = s[i]
  BY SubSeqProperties
<1>2. /\ SubSeq(s, k + 1, n) \in Seq(Packet) /\ Len(SubSeq(s, k + 1, n)) = n - k
      /\ \A i \in 1 .. n - k : SubSeq(s, k + 1, n)[i] = s[k + i]
  BY SubSeqProperties
<1>3. ASSUME NEW i \in k + 1 .. n PROVE SubSeq(s, k + 1, n)[i - k] = s[i]
  <2>1. i - k \in 1 .. n - k /\ k + (i - k) = i
    OBVIOUS
  <2> QED
    BY <1>2, <2>1
<1> QED
  BY <1>1, <1>2, <1>3

(* What is left when the entry at k is taken out.                          *)
LEMMA RemovedAt ==
  ASSUME NEW s \in Seq(Packet), NEW k \in 1 .. Len(s)
  PROVE  LET t == SubSeq(s, 1, k - 1) \o SubSeq(s, k + 1, Len(s))
         IN  /\ t \in Seq(Packet) /\ Len(t) = Len(s) - 1
             /\ \A i \in 1 .. Len(s) : i # k => \E j \in 1 .. Len(t) : t[j] = s[i]
<1>1. PICK n \in Nat : n = Len(s)
  BY LenProperties
<1>2. k \in 1 .. n
  BY <1>1
<1> DEFINE a == SubSeq(s, 1, k - 1)
           b == SubSeq(s, k + 1, n)
<1>3. /\ a \in Seq(Packet) /\ Len(a) = k - 1
      /\ b \in Seq(Packet) /\ Len(b) = n - k
      /\ \A i \in 1 .. k - 1 : a[i] = s[i]
      /\ \A i \in k + 1 .. n : b[i - k] = s[i]
  BY <1>1, <1>2, Split
<1> HIDE DEF a, b
<1>4. /\ a \o b \in Seq(Packet) /\ Len(a \o b) = Len(a) + Len(b)
      /\ \A i \in 1 .. Len(a) : \E j \in 1 .. Len(a \o b) : (a \o b)[j] = a[i]
      /\ \A i \in 1 .. Len(b) : \E j \in 1 .. Len(a \o b) : (a \o b)[j] = b[i]
  BY <1>3, ConcatEntries
<1>5. Len(a) + Len(b) = n - 1
  BY <1>2, <1>3
<1>6. ASSUME NEW i \in 1 .. n, i # k
      PROVE  \E j \in 1 .. Len(a \o b) : (a \o b)[j] = s[i]
  <2>1. i \in 1 .. k - 1 \/ i \in k + 1 .. n
    BY <1>2, <1>6
  <2>2. CASE i \in 1 .. k - 1
    BY <1>3, <1>4, <2>2
  <2>3. CASE i \in k + 1 .. n
    <3>1. i - k \in 1 .. Len(b)
      BY <1>2, <1>3, <2>3
    <3>2. b[i - k] = s[i]
      BY <1>3, <2>3
    <3> QED
      BY <1>4, <3>1, <3>2
  <2> QED
    BY <2>1, <2>2, <2>3
<1>7. /\ a \o b \in Seq(Packet) /\ Len(a \o b) = n - 1
      /\ \A i \in 1 .. n : i # k => \E j \in 1 .. Len(a \o b) : (a \o b)[j] = s[i]
  BY <1>4, <1>5, <1>6
<1> QED
  BY <1>1, <1>7, Zenon DEF a, b

(* The entries of a sequence.                                              *)
Entries(s) == {s[i] : i \in 1 .. Len(s)}

(* updateUdpSession loses no entry but that of u.                          *)
LEMMA RemovesOnly ==
  ASSUME NEW s \in Seq(Packet), NEW u
  PROVE  /\ RemoveFirst(s, u) \in Seq(Packet)
         /\ Entries(s) \ {u} \subseteq Entries(RemoveFirst(s, u))
         /\ u \notin Entries(s) => Len(RemoveFirst(s, u)) = Len(s)
         /\ u \in Entries(s) => Len(RemoveFirst(s, u)) = Len(s) - 1
<1>1. CASE u \in Entries(s)
  <2>1. PICK k \in 1 .. Len(s) :
          /\ s[k] = u
          /\ RemoveFirst(s, u) = SubSeq(s, 1, k - 1) \o SubSeq(s, k + 1, Len(s))
    BY <1>1, RemoveOne DEF Entries
  <2>2. /\ RemoveFirst(s, u) \in Seq(Packet) /\ Len(RemoveFirst(s, u)) = Len(s) - 1
        /\ \A i \in 1 .. Len(s) :
             i # k => \E j \in 1 .. Len(RemoveFirst(s, u)) : RemoveFirst(s, u)[j] = s[i]
    <3> DEFINE t == SubSeq(s, 1, k - 1) \o SubSeq(s, k + 1, Len(s))
    <3>1. /\ t \in Seq(Packet) /\ Len(t) = Len(s) - 1
          /\ \A i \in 1 .. Len(s) : i # k => \E j \in 1 .. Len(t) : t[j] = s[i]
      BY RemovedAt
    <3>2. RemoveFirst(s, u) = t
      BY <2>1
    <3> HIDE DEF t
    <3> QED
      BY <3>1, <3>2
  <2>3. ASSUME NEW x \in Entries(s) \ {u} PROVE x \in Entries(RemoveFirst(s, u))
    <3>1. PICK i \in 1 .. Len(s) : s[i] = x /\ i # k
      BY <2>1 DEF Entries
    <3> QED
      BY <2>2, <3>1 DEF Entries
  <2> QED
    BY <1>1, <2>2, <2>3
<1>2. CASE u \notin Entries(s)
  <2>1. RemoveFirst(s, u) = s
    BY <1>2 DEF RemoveFirst, Entries
  <2> QED
    BY <1>2, <2>1
<1> QED
  BY <1>1, <1>2
(* The tick loses no entry but those that are due.                         *)
LEMMA Drops ==
  ASSUME NEW s \in Seq(Packet), NEW d \in 0 .. Len(s)
  PROVE  LET t == SubSeq(s, d + 1, Len(s))
         IN  /\ t \in Seq(Packet) /\ Len(t) = Len(s) - d
             /\ \A i \in d + 1 .. Len(s) : s[i] \in Entries(t)
<1>1. PICK n \in Nat : n = Len(s)
  BY LenProperties
<1>2. d \in 0 .. n
  BY <1>1
<1>3. /\ SubSeq(s, d + 1, n) \in Seq(Packet) /\ Len(SubSeq(s, d + 1, n)) = n - d
      /\ \A i \in 1 .. n - d : SubSeq(s, d + 1, n)[i] = s[d + i]
  BY <1>1, <1>2, SubSeqProperties
<1> DEFINE t == SubSeq(s, d + 1, n)
<1> HIDE DEF t
<1>4. t \in Seq(Packet) /\ Len(t) = n - d /\ \A i \in 1 .. n - d : t[i] = s[d + i]
  BY <1>3 DEF t
<1>5. ASSUME NEW i \in d + 1 .. n PROVE s[i] \in Entries(t)
  <2>1. i - d \in 1 .. n - d /\ d + (i - d) = i
    BY <1>2
  <2>2. t[i - d] = s[i]
    BY <1>4, <2>1
  <2> QED
    BY <1>4, <2>1, <2>2 DEF Entries
<1>6. /\ t \in Seq(Packet) /\ Len(t) = n - d
      /\ \A i \in d + 1 .. n : s[i] \in Entries(t)
  BY <1>4, <1>5
<1> QED
  BY <1>1, <1>6, Zenon DEF t

(* Append keeps the entries and adds one.                                  *)
LEMMA Appends ==
  ASSUME NEW s \in Seq(Packet), NEW u \in Packet
  PROVE  /\ Append(s, u) \in Seq(Packet) /\ Len(Append(s, u)) = Len(s) + 1
         /\ Entries(s) \cup {u} \subseteq Entries(Append(s, u))
<1>1. PICK n \in Nat : n = Len(s)
  BY LenProperties
<1> DEFINE t == Append(s, u)
<1>2. t \in Seq(Packet) /\ Len(t) = n + 1 /\ (\A i \in 1 .. n : t[i] = s[i]) /\ t[n + 1] = u
  BY <1>1, AppendProperties
<1> HIDE DEF t
<1>3. Entries(s) \subseteq Entries(t)
  BY <1>1, <1>2 DEF Entries
<1>4. u \in Entries(t)
  <2>1. n + 1 \in 1 .. Len(t)
    BY <1>2
  <2> QED
    BY <1>2, <2>1 DEF Entries
<1> QED
  BY <1>1, <1>2, <1>3, <1>4 DEF t

(* The count of aged entries stays one of entries when that of u goes.     *)
LEMMA AgedLeft ==
  ASSUME NEW s \in Seq(Packet), NEW u, NEW g \in 0 .. Len(s)
  PROVE  (IF \E i \in 1 .. g : s[i] = u THEN g - 1 ELSE g) \in 0 .. Len(RemoveFirst(s, u))
<1>1. PICK n \in Nat : n = Len(s)
  BY LenProperties
<1>2. g \in 0 .. n
  BY <1>1
<1> DEFINE m == Len(RemoveFirst(s, u))
<1>3. (u \notin Entries(s) => m = n) /\ (u \in Entries(s) => m = n - 1)
  BY <1>1, RemovesOnly
<1> HIDE DEF m
<1>4. CASE \E i \in 1 .. g : s[i] = u
  <2>1. PICK i \in 1 .. g : s[i] = u
    BY <1>4
  <2>2. i \in 1 .. n /\ g >= 1
    BY <1>2
  <2>3. m = n - 1
    BY <1>1, <1>3, <2>1, <2>2 DEF Entries
  <2>4. g - 1 \in 0 .. m
    BY <1>2, <2>2, <2>3
  <2> QED
    BY <1>4, <2>4 DEF m
<1>5. CASE ~ \E i \in 1 .. g : s[i] = u
  <2>1. CASE u \in Entries(s)
    <3>1. PICK i \in 1 .. n : s[i] = u
      BY <1>1, <2>1 DEF Entries
    <3>2. i \notin 1 .. g
      BY <1>5, <3>1
    <3>3. g \in 0 .. m
      BY <1>2, <1>3, <2>1, <3>1, <3>2
    <3> QED
      BY <1>5, <3>3 DEF m
  <2>2. CASE u \notin Entries(s)
    <3>1. g \in 0 .. m
      BY <1>2, <1>3, <2>2
    <3> QED
      BY <1>5, <3>1 DEF m
  <2> QED
    BY <2>1, <2>2
<1> QED
  BY <1>4, <1>5

(* What the expiry finds are the entries of the ordered set.               *)
LEMMA TrackedEntries == ASSUME idSet \in Seq(Packet) PROVE Tracked = Entries(idSet)
  BY LenProperties DEF Tracked, Entries
-----------------------------------------------------------------------------
(* A state without sessions, that of the start and that after a panic.     *)
LEMMA NoSessions ==
  ASSUME table = [c \in ConID |-> None], idSet = <<>>, aged = 0,
         pc \in [Packet -> {"new", "done"}], ses = [p \in Packet |-> None],
         stream = [u \in Packet |-> None], copier = [p \in Packet |-> "off"],
         stopping \in {"no", "yes"}, panicked \in BOOLEAN
  PROVE  IInv
<1>1. idSet \in Seq(Packet) /\ Len(idSet) = 0
  BY EmptySeq
<1>2. Types
  BY <1>1, SMT DEF Types, Labels
<1>3. Sessions
  BY DEF Sessions
<1>4. TableTracked
  BY DEF TableTracked
<1> QED
  BY <1>2, <1>3, <1>4 DEF IInv

(* The program starts in the invariant.                                    *)
LEMMA InitIInv == Init => IInv
  BY NoSessions DEF Init

(* A panic ends in the invariant.                                          *)
LEMMA PanicIInv == Panic => IInv'
<1>1. SUFFICES ASSUME Panic PROVE IInv'
  OBVIOUS
<1>2. idSet' \in Seq(Packet) /\ Len(idSet') = 0
  BY <1>1, EmptySeq DEF Panic
<1>3. Types'
  BY <1>1, <1>2, SMT DEF Types, Labels, Panic
<1>4. Sessions'
  BY <1>1 DEF Sessions, Panic
<1>5. TableTracked'
  BY <1>1 DEF TableTracked, Panic
<1> QED
  BY <1>3, <1>4, <1>5 DEF IInv

(* Steps that leave table, ordered set and handlers alone.                 *)
LEMMA IdleStep ==
  ASSUME IInv, UNCHANGED <<table, idSet, ses, pc>>
  PROVE  Sessions' /\ TableTracked'
  BY DEF IInv, Sessions, TableTracked, Tracked
(* What a tick takes out are entries of the ordered set.                   *)
LEMMA DueEntries ==
  ASSUME Types
  PROVE  Due \in 0 .. aged /\ Due \in 0 .. Len(idSet) /\ aged \in Int /\ Len(idSet) \in Nat
<1>1. PICK n \in Nat : n = Len(idSet)
  BY LenProperties DEF Types
<1>2. aged \in 0 .. n
  BY <1>1 DEF Types
<1>3. ExpireBatch \in Nat
  BY GatewayAssumption
<1>4. Due \in 0 .. aged /\ Due \in 0 .. n /\ aged \in Int
  BY <1>2, <1>3 DEF Due
<1> QED
  BY <1>1, <1>4

(* The streams after closeStream have their type.                          *)
LEMMA CloseType ==
  ASSUME Types, NEW U, CloseStreams(U)
  PROVE  stream' \in [Packet -> Packet \cup {None}]
  BY DEF Types, CloseStreams

(* The program counters after a step of p have their type.                 *)
LEMMA GotoType ==
  ASSUME Types, NEW p \in Packet, NEW l \in Labels, Goto(p, l)
  PROVE  pc' \in [Packet -> Labels]
  BY DEF Types, Goto

(* Forgetting u keeps the ordered set and its aged part typed.             *)
LEMMA ForgetType ==
  ASSUME Types, NEW u, Forget(u)
  PROVE  idSet' \in Seq(Packet) /\ aged' \in 0 .. Len(idSet')
<1>1. idSet \in Seq(Packet) /\ aged \in 0 .. Len(idSet)
  BY DEF Types
<1>2. idSet' \in Seq(Packet)
  BY <1>1, RemovesOnly DEF Forget
<1>3. aged' \in 0 .. Len(idSet')
  BY <1>1, AgedLeft DEF Forget
<1> QED
  BY <1>2, <1>3

(* So does moving u to its end.                                            *)
LEMMA RefreshType ==
  ASSUME Types, NEW u \in Packet, Refresh(u)
  PROVE  idSet' \in Seq(Packet) /\ aged' \in 0 .. Len(idSet')
<1>1. idSet \in Seq(Packet) /\ aged \in 0 .. Len(idSet)
  BY DEF Types
<1> DEFINE t == RemoveFirst(idSet, u)
<1>2. t \in Seq(Packet)
  BY <1>1, RemovesOnly
<1>3. aged' \in 0 .. Len(t)
  BY <1>1, AgedLeft DEF Refresh
<1>4. idSet' = Append(t, u)
  BY DEF Refresh
<1> HIDE DEF t
<1>5. idSet' \in Seq(Packet) /\ Len(idSet') = Len(t) + 1 /\ Len(t) \in Nat
  BY <1>2, <1>4, Appends, LenProperties
<1> QED
  BY <1>3, <1>5

(* Every step keeps the types.                                             *)
LEMMA TypesStep ==
  ASSUME IInv, Next
  PROVE  Types'
<1>1. Types /\ Sessions
  BY DEF IInv
<1>2. Panic => Types'
  BY PanicIInv DEF IInv
<1>3. ASSUME NEW p \in Packet, GetUDPSession(p) PROVE Types'
  <2>1. Con[p] \in ConID /\ table[Con[p]] \in Packet \cup {None}
    BY <1>1, GatewayAssumption DEF Types
  <2>2. table' \in [ConID -> Packet \cup {None}] /\ ses' \in [Packet -> Packet \cup {None}]
    BY <1>1, <1>3, <2>1 DEF Types, GetUDPSession
  <2>3. pc' \in [Packet -> Labels]
    BY <1>1, <1>3, GotoType DEF GetUDPSession, Labels
  <2> QED
    BY <1>1, <1>3, <2>2, <2>3 DEF Types, GetUDPSession
<1>4. ASSUME NEW p \in Packet, UpdateUdpSession(p) PROVE Types'
  <2>1. ses[p] \in Packet
    BY <1>1, <1>4 DEF Types, Sessions, UpdateUdpSession
  <2>2. idSet' \in Seq(Packet) /\ aged' \in 0 .. Len(idSet')
    BY <1>1, <1>4, <2>1, RefreshType DEF UpdateUdpSession
  <2>3. pc' \in [Packet -> Labels]
    BY <1>1, <1>4, GotoType DEF UpdateUdpSession, Labels
  <2> QED
    BY <1>1, <1>4, <2>2, <2>3 DEF Types, UpdateUdpSession
<1>5. ASSUME NEW p \in Packet, ForgetSession(p) PROVE Types'
  <2>1. idSet' \in Seq(Packet) /\ aged' \in 0 .. Len(idSet')
    BY <1>1, <1>5, ForgetType DEF ForgetSession
  <2>2. pc' \in [Packet -> Labels]
    BY <1>1, <1>5, GotoType DEF ForgetSession, Labels
  <2> QED
    BY <1>1, <1>5, <2>1, <2>2 DEF Types, ForgetSession
<1>6. ASSUME NEW p \in Packet, HandlePacket(p) \/ WriteStream(p) \/ QueryRaw(p) \/ OpenStream(p)
      PROVE  Types'
  <2>1. CASE HandlePacket(p)
    <3>1. pc' \in [Packet -> Labels]
      BY <1>1, <2>1, GotoType DEF HandlePacket, Labels
    <3> QED
      BY <1>1, <2>1, <3>1 DEF Types, HandlePacket
  <2>2. CASE WriteStream(p)
    <3>1. CASE Panic
      BY <1>2, <3>1
    <3>2. CASE /\ Goto(p, "done")
               /\ UNCHANGED <<table, idSet, aged, ses, stream, copier, stopping, panicked>>
      <4>1. pc' \in [Packet -> Labels]
        BY <1>1, <3>2, GotoType DEF Labels
      <4> QED
        BY <1>1, <3>2, <4>1 DEF Types
    <3> QED
      BY <2>2, <3>1, <3>2 DEF WriteStream
  <2>3. CASE QueryRaw(p)
    <3>1. pc' \in [Packet -> Labels]
      BY <1>1, <2>3, GotoType DEF QueryRaw, Labels
    <3> QED
      BY <1>1, <2>3, <3>1 DEF Types, QueryRaw
  <2>4. CASE OpenStream(p)
    <3>1. CASE Panic
      BY <1>2, <3>1
    <3>2. CASE /\ Goto(p, "done") \/ Goto(p, "attach")
               /\ UNCHANGED <<table, idSet, aged, ses, stream, copier, stopping, panicked>>
      <4>1. pc' \in [Packet -> Labels]
        BY <1>1, <3>2, GotoType DEF Labels
      <4> QED
        BY <1>1, <3>2, <4>1 DEF Types
    <3> QED
      BY <2>4, <3>1, <3>2 DEF OpenStream
  <2> QED
    BY <1>6, <2>1, <2>2, <2>3, <2>4
<1>7. ASSUME NEW p \in Packet, CloseOwn(p) \/ RemoveUdpSession(p) \/ DeleteEntry(p) \/ Attach(p)
      PROVE  Types'
  <2>1. CASE CloseOwn(p)
    <3>1. pc' \in [Packet -> Labels] /\ stream' \in [Packet -> Packet \cup {None}]
      BY <1>1, <2>1, GotoType, CloseType DEF CloseOwn, Labels
    <3> QED
      BY <1>1, <2>1, <3>1 DEF Types, CloseOwn
  <2>2. CASE RemoveUdpSession(p)
    <3>1. pc' \in [Packet -> Labels]
      BY <1>1, <2>2, GotoType DEF RemoveUdpSession, Labels
    <3>2. stream' \in [Packet -> Packet \cup {None}]
      <4>1. CASE UNCHANGED stream
        BY <1>1, <4>1 DEF Types
      <4>2. CASE CloseStreams({table[Con[p]]})
        BY <1>1, <4>2, CloseType
      <4> QED
        BY <2>2, <4>1, <4>2 DEF RemoveUdpSession
    <3> QED
      BY <1>1, <2>2, <3>1, <3>2 DEF Types, RemoveUdpSession
  <2>3. CASE DeleteEntry(p)
    <3>1. pc' \in [Packet -> Labels]
      BY <1>1, <2>3, GotoType DEF DeleteEntry, Labels
    <3>2. table' \in [ConID -> Packet \cup {None}]
      BY <1>1, <2>3 DEF Types, DeleteEntry
    <3> QED
      BY <1>1, <2>3, <3>1, <3>2 DEF Types, DeleteEntry
  <2>4. CASE Attach(p)
    <3>1. pc' \in [Packet -> Labels]
      BY <1>1, <2>4, GotoType DEF Attach, Labels
    <3>2. /\ stream' \in [Packet -> Packet \cup {None}]
          /\ copier' \in [Packet -> {"off", "top", "read"}]
      BY <1>1, <2>4 DEF Types, Attach
    <3> QED
      BY <1>1, <2>4, <3>1, <3>2 DEF Types, Attach
  <2> QED
    BY <1>7, <2>1, <2>2, <2>3, <2>4
<1>8. ASSUME NEW p \in Packet, CopierLoad(p) \/ CopierRead(p) PROVE Types'
  <2>1. CASE Panic
    BY <1>2, <2>1
  <2>2. CASE /\ copier' \in [Packet -> {"off", "top", "read"}]
             /\ UNCHANGED <<table, idSet, aged, pc, ses, stream, stopping, panicked>>
    BY <1>1, <2>2 DEF Types
  <2>3. copier \in [Packet -> {"off", "top", "read"}]
    BY <1>1 DEF Types
  <2> QED
    BY <1>8, <2>1, <2>2, <2>3 DEF CopierLoad, CopierRead
<1>9. CASE Age
  <2>1. PICK n \in Nat : n = Len(idSet)
    BY <1>1, LenProperties DEF Types
  <2>2. aged \in 0 .. n
    BY <1>1, <2>1 DEF Types
  <2>3. aged' \in 0 .. n
    BY <1>9, <2>1, <2>2 DEF Age
  <2> QED
    BY <1>1, <1>9, <2>1, <2>3 DEF Types, Age
<1>10. CASE Expire
  <2>1. idSet \in Seq(Packet) /\ aged \in 0 .. Len(idSet)
    BY <1>1 DEF Types
  <2>2. Due \in 0 .. aged /\ Due \in 0 .. Len(idSet) /\ aged \in Int /\ Len(idSet) \in Nat
    BY <1>1, DueEntries
  <2>3. idSet' \in Seq(Packet) /\ Len(idSet') = Len(idSet) - Due
    BY <1>10, <2>1, <2>2, Drops DEF Expire
  <2>4. aged' \in 0 .. Len(idSet')
    BY <1>10, <2>1, <2>2, <2>3 DEF Expire
  <2>5. table' \in [ConID -> Packet \cup {None}]
    BY <1>1, <1>10 DEF Types, Expire
  <2>6. stream' \in [Packet -> Packet \cup {None}]
    BY <1>1, <1>10, CloseType DEF Expire
  <2> QED
    BY <1>1, <1>10, <2>3, <2>4, <2>5, <2>6 DEF Types, Expire
<1>11. CASE CloseAll
  <2>1. stream' \in [Packet -> Packet \cup {None}]
    BY <1>1, <1>11, CloseType DEF CloseAll
  <2> QED
    BY <1>1, <1>11, <2>1 DEF Types, CloseAll
<1>12. CASE ResetTable
  BY <1>1, <1>12 DEF Types, ResetTable
<1> QED
  BY <1>2, <1>3, <1>4, <1>5, <1>6, <1>7, <1>8, <1>9, <1>10, <1>11, <1>12
     DEF Next, Handle, CloseRace, ExpireRace
(* A packet that finds no session makes one of its own, which no handler   *)
(* has had before, and is about to stamp it.                               *)
LEMMA GetStep ==
  ASSUME IInv, NEW p \in Packet, GetUDPSession(p)
  PROVE  Sessions' /\ TableTracked'
<1>1. Types /\ Sessions /\ TableTracked
  BY DEF IInv
<1>2. PICK u \in Packet :
        /\ u = IF table[Con[p]] = None THEN p ELSE table[Con[p]]
        /\ table' = [table EXCEPT ![Con[p]] = u] /\ ses' = [ses EXCEPT ![p] = u]
  BY <1>1, GatewayAssumption DEF Types, GetUDPSession
<1>3. Con[p] \in ConID /\ pc[p] = "new" /\ pc' = [pc EXCEPT ![p] = "update"]
  BY GatewayAssumption DEF GetUDPSession, Goto
<1>4. /\ \A c \in ConID : table'[c] = IF c = Con[p] THEN u ELSE table[c]
      /\ \A q \in Packet : /\ pc'[q] = IF q = p THEN "update" ELSE pc[q]
                           /\ ses'[q] = IF q = p THEN u ELSE ses[q]
  BY <1>1, <1>2, <1>3 DEF Types
<1>5. Con[u] = Con[p] /\ pc'[u] # "new"
  BY <1>1, <1>2, <1>3, <1>4 DEF Sessions
<1>6. ASSUME NEW c \in ConID, table'[c] # None
      PROVE  Con[table'[c]] = c /\ pc'[table'[c]] # "new"
  <2>1. CASE c = Con[p]
    BY <1>4, <1>5, <2>1
  <2>2. CASE c # Con[p]
    <3>1. table'[c] = table[c] /\ table[c] \in Packet
      BY <1>1, <1>4, <1>6, <2>2 DEF Types
    <3>2. Con[table[c]] = c /\ pc[table[c]] # "new"
      BY <1>1, <1>6, <3>1 DEF Sessions
    <3> QED
      BY <1>4, <3>1, <3>2
  <2> QED
    BY <2>1, <2>2
<1>7. ASSUME NEW q \in Packet
      PROVE  /\ pc'[q] \notin {"new", "done"} => ses'[q] # None
             /\ ses'[q] # None => Con[ses'[q]] = Con[q] /\ pc'[ses'[q]] # "new"
             /\ pc'[q] = "forget" => table'[Con[q]] # ses'[q]
  <2>1. CASE q = p
    <3>1. u # None
      BY GatewayAssumption
    <3> QED
      BY <1>4, <1>5, <2>1, <3>1
  <2>2. CASE q # p
    <3>1. pc'[q] = pc[q] /\ ses'[q] = ses[q] /\ ses[q] \in Packet \cup {None}
      BY <1>1, <1>4, <2>2 DEF Types
    <3>2. /\ pc[q] \notin {"new", "done"} => ses[q] # None
          /\ ses[q] # None => Con[ses[q]] = Con[q] /\ pc[ses[q]] # "new"
          /\ pc[q] = "forget" => table[Con[q]] # ses[q]
      BY <1>1 DEF Sessions
    <3>3. ses[q] # None => pc'[ses[q]] # "new"
      BY <1>4, <3>1, <3>2
    <3>4. pc[q] = "forget" => table'[Con[q]] # ses[q]
      <4>1. Con[q] \in ConID
        BY GatewayAssumption
      <4>2. CASE Con[q] = Con[p] /\ table[Con[p]] = None
        <5>1. table'[Con[q]] = p
          BY <1>2, <1>4, <4>1, <4>2
        <5> QED
          BY <1>3, <3>2, <5>1
      <4>3. CASE ~(Con[q] = Con[p] /\ table[Con[p]] = None)
        <5>1. table'[Con[q]] = table[Con[q]]
          BY <1>2, <1>4, <4>1, <4>3
        <5> QED
          BY <3>2, <5>1
      <4> QED
        BY <4>2, <4>3
    <3> QED
      BY <3>1, <3>2, <3>3, <3>4
  <2> QED
    BY <2>1, <2>2
<1>8. ASSUME NEW c \in ConID, table'[c] # None
      PROVE  \/ table'[c] \in Tracked'
             \/ \E q \in Packet : pc'[q] = "update" /\ ses'[q] = table'[c]
  <2>1. CASE c = Con[p]
    BY <1>4, <2>1
  <2>2. CASE c # Con[p]
    <3>1. table'[c] = table[c] /\ Tracked' = Tracked
      BY <1>4, <2>2 DEF GetUDPSession, Tracked
    <3>2. CASE table[c] \in Tracked
      BY <3>1, <3>2
    <3>3. CASE table[c] \notin Tracked
      <4>1. PICK q \in Packet : pc[q] = "update" /\ ses[q] = table[c]
        BY <1>1, <1>8, <3>1, <3>3 DEF TableTracked
      <4>2. q # p
        BY <1>3, <4>1
      <4> QED
        BY <1>4, <3>1, <4>1, <4>2
    <3> QED
      BY <3>2, <3>3
  <2> QED
    BY <2>1, <2>2
<1> QED
  BY <1>6, <1>7, <1>8 DEF Sessions, TableTracked

(* A handler that leaves the session alone or takes it out of the table.   *)
LEMMA SessionsKept ==
  ASSUME IInv, UNCHANGED ses, NEW p \in Packet, NEW l \in Labels \ {"new", "update"},
         pc[p] \notin {"new", "done"},
         pc' = [pc EXCEPT ![p] = l],
         \A c \in ConID : table'[c] \in {None, table[c]},
         l = "forget" => table'[Con[p]] = None
  PROVE  Sessions'
<1>1. Types /\ Sessions
  BY DEF IInv
<1>2. \A q \in Packet : pc'[q] = IF q = p THEN l ELSE pc[q]
  BY <1>1 DEF Types
<1>3. \A q \in Packet : pc'[q] = "new" <=> pc[q] = "new"
  BY <1>2
<1>4. ASSUME NEW c \in ConID, table'[c] # None
      PROVE  Con[table'[c]] = c /\ pc'[table'[c]] # "new"
  <2>1. table'[c] = table[c] /\ table[c] \in Packet
    BY <1>1, <1>4 DEF Types
  <2>2. Con[table[c]] = c /\ pc[table[c]] # "new"
    BY <1>1, <1>4, <2>1 DEF Sessions
  <2> QED
    BY <1>3, <2>1, <2>2
<1>5. ASSUME NEW q \in Packet
      PROVE  /\ pc'[q] \notin {"new", "done"} => ses'[q] # None
             /\ ses'[q] # None => Con[ses'[q]] = Con[q] /\ pc'[ses'[q]] # "new"
             /\ pc'[q] = "forget" => table'[Con[q]] # ses'[q]
  <2>0. Con[q] \in ConID
    BY GatewayAssumption
  <2>1. pc'[q] \notin {"new", "done"} => ses[q] # None
    BY <1>1, <1>2 DEF Sessions
  <2>2. ses[q] # None => Con[ses[q]] = Con[q] /\ pc'[ses[q]] # "new"
    <3>1. ses[q] \in Packet \cup {None}
      BY <1>1 DEF Types
    <3> QED
      BY <1>1, <1>3, <3>1 DEF Sessions
  <2>3. pc'[q] = "forget" => table'[Con[q]] # ses[q]
    BY <1>1, <1>2, <2>0, <2>1 DEF Sessions
  <2> QED
    BY <2>1, <2>2, <2>3
<1> QED
  BY <1>4, <1>5 DEF Sessions

(* Steps of handlers and closers that touch neither the table nor the      *)
(* ordered set, and end before the session is forgotten unless the table   *)
(* has none for the id.                                                    *)
LEMMA QuietStep ==
  ASSUME IInv, UNCHANGED <<table, idSet, ses>>,
         NEW p \in Packet, NEW l \in Labels \ {"new", "update"},
         pc[p] \notin {"new", "done", "update"}, Goto(p, l),
         l = "forget" => table[Con[p]] = None
  PROVE  Sessions' /\ TableTracked'
<1>1. Types /\ TableTracked
  BY DEF IInv
<1>2. pc' = [pc EXCEPT ![p] = l]
  BY DEF Goto
<1>3. Sessions'
  BY <1>2, SessionsKept
<1>4. \A q \in Packet : pc[q] = "update" => pc'[q] = "update"
  BY <1>1, <1>2 DEF Types
<1>5. TableTracked'
  BY <1>1, <1>4 DEF TableTracked, Tracked
<1> QED
  BY <1>3, <1>5

(* Steps that only take sessions out of the table.                         *)
LEMMA SessionsDropped ==
  ASSUME IInv, UNCHANGED <<ses, pc>>, \A c \in ConID : table'[c] \in {None, table[c]}
  PROVE  Sessions'
<1>1. Types /\ Sessions
  BY DEF IInv
<1>2. ASSUME NEW c \in ConID, table'[c] # None
      PROVE  Con[table'[c]] = c /\ pc'[table'[c]] # "new"
  BY <1>1, <1>2 DEF Sessions
<1>3. ASSUME NEW q \in Packet
      PROVE  pc'[q] = "forget" => table'[Con[q]] # ses'[q]
  BY <1>1, GatewayAssumption DEF Sessions
<1> QED
  BY <1>1, <1>2, <1>3 DEF Sessions

(* The reader's stamp gives its session an entry and keeps all others.     *)
LEMMA UpdateStep ==
  ASSUME IInv, NEW p \in Packet, UpdateUdpSession(p)
  PROVE  Sessions' /\ TableTracked'
<1>1. Types /\ Sessions /\ TableTracked
  BY DEF IInv
<1>2. pc[p] = "update" /\ pc' = [pc EXCEPT ![p] = "start"]
  BY DEF UpdateUdpSession, Goto
<1>3. ses[p] \in Packet /\ idSet \in Seq(Packet) /\ UNCHANGED <<table, ses>>
  BY <1>1, <1>2 DEF Types, Sessions, UpdateUdpSession
<1>4. Sessions'
  BY <1>2, <1>3, SessionsKept DEF Labels
<1>5. Entries(idSet) \cup {ses[p]} \subseteq Entries(idSet') /\ idSet' \in Seq(Packet)
  <2> DEFINE t == RemoveFirst(idSet, ses[p])
  <2>1. t \in Seq(Packet) /\ Entries(idSet) \ {ses[p]} \subseteq Entries(t)
    BY <1>3, RemovesOnly
  <2>2. idSet' = Append(t, ses[p])
    BY DEF UpdateUdpSession, Refresh
  <2> HIDE DEF t
  <2>3. idSet' \in Seq(Packet) /\ Entries(t) \cup {ses[p]} \subseteq Entries(idSet')
    BY <1>3, <2>1, <2>2, Appends
  <2> QED
    BY <2>1, <2>3
<1>6. Tracked = Entries(idSet)
  BY <1>3, TrackedEntries
<1>7. Tracked' = Entries(idSet')
  BY <1>5, LenProperties DEF Tracked, Entries
<1>8. ASSUME NEW c \in ConID, table'[c] # None
      PROVE  \/ table'[c] \in Tracked'
             \/ \E q \in Packet : pc'[q] = "update" /\ ses'[q] = table'[c]
  <2>1. CASE table[c] \in Tracked \/ table[c] = ses[p]
    BY <1>3, <1>5, <1>6, <1>7, <2>1
  <2>2. CASE table[c] \notin Tracked /\ table[c] # ses[p]
    <3>1. PICK q \in Packet : pc[q] = "update" /\ ses[q] = table[c]
      BY <1>1, <1>3, <1>8, <2>2 DEF TableTracked
    <3>2. pc'[q] = "update"
      BY <1>1, <1>2, <2>2, <3>1 DEF Types
    <3> QED
      BY <1>3, <3>1, <3>2
  <2> QED
    BY <2>1, <2>2
<1> QED
  BY <1>4, <1>8 DEF TableTracked

(* A handler forgets a session that has left the table.                    *)
LEMMA ForgetStep ==
  ASSUME IInv, NEW p \in Packet, ForgetSession(p)
  PROVE  Sessions' /\ TableTracked'
<1>1. Types /\ Sessions /\ TableTracked
  BY DEF IInv
<1>2. pc[p] = "forget" /\ pc' = [pc EXCEPT ![p] = "done"]
  BY DEF ForgetSession, Goto
<1>3. idSet \in Seq(Packet) /\ UNCHANGED <<table, ses>>
  BY <1>1 DEF Types, ForgetSession
<1>4. Sessions'
  BY <1>2, <1>3, SessionsKept DEF Labels
<1>5. Entries(idSet) \ {ses[p]} \subseteq Entries(idSet') /\ idSet' \in Seq(Packet)
  BY <1>3, RemovesOnly DEF ForgetSession, Forget
<1>6. Tracked = Entries(idSet)
  BY <1>3, TrackedEntries
<1>7. Tracked' = Entries(idSet')
  BY <1>5, LenProperties DEF Tracked, Entries
<1>8. ASSUME NEW c \in ConID, table'[c] # None
      PROVE  \/ table'[c] \in Tracked'
             \/ \E q \in Packet : pc'[q] = "update" /\ ses'[q] = table'[c]
  <2>1. table[c] # ses[p]
    <3>1. ASSUME table[c] = ses[p] PROVE FALSE
      <4>1. Con[table[c]] = c /\ Con[ses[p]] = Con[p]
        BY <1>1, <1>3, <1>8, <3>1 DEF Sessions
      <4>2. table[Con[p]] = ses[p]
        BY <3>1, <4>1
      <4> QED
        BY <1>1, <1>2, <4>2 DEF Sessions
    <3> QED
      BY <3>1
  <2>2. CASE table[c] \in Tracked
    BY <1>3, <1>5, <1>6, <1>7, <2>1, <2>2
  <2>3. CASE table[c] \notin Tracked
    <3>1. PICK q \in Packet : pc[q] = "update" /\ ses[q] = table[c]
      BY <1>1, <1>3, <1>8, <2>3 DEF TableTracked
    <3>2. pc'[q] = "update"
      BY <1>1, <1>2, <3>1 DEF Types
    <3> QED
      BY <1>3, <3>1, <3>2
  <2> QED
    BY <2>2, <2>3
<1> QED
  BY <1>4, <1>8 DEF TableTracked

(* A session that leaves the table needs no entry.                         *)
LEMMA DeleteStep ==
  ASSUME IInv, NEW p \in Packet, DeleteEntry(p)
  PROVE  Sessions' /\ TableTracked'
<1>1. Types /\ Sessions /\ TableTracked
  BY DEF IInv
<1>2. pc[p] = "delete" /\ pc' = [pc EXCEPT ![p] = "forget"] /\ UNCHANGED <<idSet, ses>>
  BY DEF DeleteEntry, Goto
<1>3. \A c \in ConID : table'[c] = IF c = Con[p] THEN None ELSE table[c]
  BY <1>1 DEF Types, DeleteEntry
<1>4. Con[p] \in ConID
  BY GatewayAssumption
<1>5. Sessions'
  BY <1>2, <1>3, <1>4, SessionsKept DEF Labels
<1>6. \A q \in Packet : pc[q] = "update" => pc'[q] = "update"
  BY <1>1, <1>2 DEF Types
<1>7. TableTracked'
  BY <1>1, <1>2, <1>3, <1>6 DEF TableTracked, Tracked
<1> QED
  BY <1>5, <1>7

(* A tick forgets no session that it leaves in the table: the entry of a   *)
(* session has the id under which the table has it.                        *)
LEMMA ExpireStep ==
  ASSUME IInv, Expire
  PROVE  Sessions' /\ TableTracked'
<1>1. Types /\ Sessions /\ TableTracked
  BY DEF IInv
<1> DEFINE ids == {Con[u] : u \in Expired}
<1>2. \A c \in ConID : table'[c] = IF c \in ids THEN None ELSE table[c]
  BY DEF Expire
<1>3. idSet' = SubSeq(idSet, Due + 1, Len(idSet)) /\ UNCHANGED <<pc, ses>>
  BY DEF Expire
<1>4. Sessions'
  BY <1>2, <1>3, SessionsDropped
<1>5. Due \in 0 .. Len(idSet) /\ Len(idSet) \in Nat /\ idSet \in Seq(Packet)
  BY <1>1, DueEntries DEF Types
<1>6. idSet' \in Seq(Packet) /\ \A i \in Due + 1 .. Len(idSet) : idSet[i] \in Entries(idSet')
  BY <1>3, <1>5, Drops
<1>7. Tracked = Entries(idSet)
  BY <1>5, TrackedEntries
<1>8. Tracked' = Entries(idSet')
  BY <1>6, LenProperties DEF Tracked, Entries
<1>9. ASSUME NEW c \in ConID, table'[c] # None
      PROVE  \/ table'[c] \in Tracked'
             \/ \E q \in Packet : pc'[q] = "update" /\ ses'[q] = table'[c]
  <2>1. c \notin ids /\ table'[c] = table[c]
    BY <1>2, <1>9
  <2>2. CASE table[c] \in Tracked
    <3>1. PICK i \in 1 .. Len(idSet) : idSet[i] = table[c]
      BY <1>7, <2>2 DEF Entries
    <3>2. Con[table[c]] = c
      BY <1>1, <1>9, <2>1 DEF Sessions
    <3>3. i \notin 1 .. Due
      BY <2>1, <3>1, <3>2 DEF Expired
    <3>4. i \in Due + 1 .. Len(idSet)
      BY <1>5, <3>3
    <3> QED
      BY <1>6, <1>8, <2>1, <3>1, <3>4
  <2>3. CASE table[c] \notin Tracked
    BY <1>1, <1>3, <1>9, <2>1, <2>3 DEF TableTracked
  <2> QED
    BY <2>2, <2>3
<1> QED
  BY <1>4, <1>9 DEF TableTracked

(* closeAllUDPSession empties the table.                                   *)
LEMMA ResetStep ==
  ASSUME IInv, ResetTable
  PROVE  Sessions' /\ TableTracked'
<1>1. UNCHANGED <<ses, pc>> /\ \A c \in ConID : table'[c] = None
  BY DEF ResetTable
<1>2. Sessions'
  BY <1>1, SessionsDropped
<1>3. TableTracked'
  BY <1>1 DEF TableTracked
<1> QED
  BY <1>2, <1>3

(* Every step keeps the rest of the invariant.                             *)
LEMMA TrackedStep ==
  ASSUME IInv, Next
  PROVE  Sessions' /\ TableTracked'
<1>1. Panic => Sessions' /\ TableTracked'
  BY PanicIInv DEF IInv
<1>2. ASSUME NEW p \in Packet, HandlePacket(p) \/ QueryRaw(p)
      PROVE  Sessions' /\ TableTracked'
  <2>1. CASE HandlePacket(p)
    <3>1. PICK l \in {"write", "dns", "open", "done"} : Goto(p, l)
      BY <2>1 DEF HandlePacket
    <3>2. l \in Labels \ {"new", "update"} /\ l # "forget"
      BY DEF Labels
    <3>3. pc[p] = "start" /\ UNCHANGED <<table, idSet, ses>>
      BY <2>1 DEF HandlePacket
    <3> QED
      BY <3>1, <3>2, <3>3, QuietStep
  <2>2. CASE QueryRaw(p)
    <3>1. "close" \in Labels \ {"new", "update"}
      BY DEF Labels
    <3> QED
      BY <2>2, <3>1, QuietStep DEF QueryRaw
  <2> QED
    BY <1>2, <2>1, <2>2
<1>3. ASSUME NEW p \in Packet, WriteStream(p) \/ OpenStream(p)
      PROVE  Sessions' /\ TableTracked'
  <2>1. CASE Panic
    BY <1>1, <2>1
  <2>2. CASE ~Panic
    <3>1. PICK l \in {"attach", "done"} : Goto(p, l)
      BY <1>3, <2>2 DEF WriteStream, OpenStream
    <3>2. l \in Labels \ {"new", "update"} /\ l # "forget"
      BY DEF Labels
    <3>3. pc[p] \in {"write", "open"} /\ UNCHANGED <<table, idSet, ses>>
      BY <1>3, <2>2 DEF WriteStream, OpenStream
    <3> QED
      BY <3>1, <3>2, <3>3, QuietStep
  <2> QED
    BY <2>1, <2>2
<1>4. ASSUME NEW p \in Packet, CloseOwn(p) \/ RemoveUdpSession(p) \/ Attach(p)
      PROVE  Sessions' /\ TableTracked'
  <2>1. PICK l \in {"remove", "forget", "delete", "write"} :
          Goto(p, l) /\ (l = "forget" => table[Con[p]] = None)
    BY <1>4 DEF CloseOwn, RemoveUdpSession, Attach
  <2>2. l \in Labels \ {"new", "update"}
    BY DEF Labels
  <2>3. pc[p] \in {"close", "remove", "attach"} /\ UNCHANGED <<table, idSet, ses>>
    BY <1>4 DEF CloseOwn, RemoveUdpSession, Attach
  <2> QED
    BY <2>1, <2>2, <2>3, QuietStep
<1>5. ASSUME NEW p \in Packet, CopierLoad(p) \/ CopierRead(p)
      PROVE  Sessions' /\ TableTracked'
  <2>1. Panic \/ UNCHANGED <<table, idSet, ses, pc>>
    BY <1>5 DEF CopierLoad, CopierRead
  <2> QED
    BY <1>1, <2>1, IdleStep
<1>6. CASE Age \/ CloseAll
  <2>1. UNCHANGED <<table, idSet, ses, pc>>
    BY <1>6 DEF Age, CloseAll
  <2> QED
    BY <2>1, IdleStep
<1>7. CASE \E p \in Packet : \/ GetUDPSession(p) \/ UpdateUdpSession(p)
                            \/ ForgetSession(p) \/ DeleteEntry(p)
  BY <1>7, GetStep, UpdateStep, ForgetStep, DeleteStep
<1>8. CASE Expire \/ ResetTable
  BY <1>8, ExpireStep, ResetStep
<1> QED
  BY <1>1, <1>2, <1>3, <1>4, <1>5, <1>6, <1>7, <1>8
     DEF Next, Handle, CloseRace, ExpireRace

(* The invariant holds in every state of the gateway.                      *)
THEOREM Invariance == Spec => []IInv
<1>1. Init => IInv
  BY InitIInv
<1>2. IInv /\ [Next]_vars => IInv'
  <2>1. ASSUME IInv, Next PROVE IInv'
    BY <2>1, TypesStep, TrackedStep DEF IInv
  <2>2. ASSUME IInv, UNCHANGED vars PROVE IInv'
    <3>1. Types'
      BY <2>2 DEF IInv, Types, vars
    <3>2. Sessions' /\ TableTracked'
      BY <2>2, IdleStep DEF vars
    <3> QED
      BY <3>1, <3>2 DEF IInv
  <2> QED
    BY <2>1, <2>2
<1> QED
  BY <1>1, <1>2, PTL DEF Spec

(* The variables keep their types, and the aged entries of the ordered set *)
(* are entries of it, however readers, handlers and ticks interleave.      *)
THEOREM TypeCorrect == Spec => []Types
<1>1. IInv => Types
  BY DEF IInv
<1> QED
  BY <1>1, Invariance, PTL

(* A session of udpSessionTable is in udpSessionIdSet, or its reader is    *)
(* about to put it there: no order of closes, ticks and resets leaves one  *)
(* in the table that expireUdpSessions would never find.                   *)
THEOREM ExpiryFindsAll == Spec => []TableTracked
<1>1. IInv => TableTracked
  BY DEF IInv
<1> QED
  BY <1>1, Invariance, PTL
=============================================================================
