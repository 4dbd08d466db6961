-------------------------- MODULE MuxChannelProofs --------------------------
(***************************************************************************)
(* Theorems about the client's mux channel, for any number of holders,     *)
(* callers and sessions, with and without heartbeats: type correctness,    *)
(* the round robin over the holders, the accounting of sessions, the close *)
(* of drained sessions only, and the removal of an unused channel.         *)
(***************************************************************************)
EXTENDS MuxChannel, FiniteSetTheorems, TLAPS

HolderType == [cur : Session \cup {None}, retired : SUBSET Session,
               expired : BOOLEAN, beating : BOOLEAN]

BeatType == [pc : {"none", "start", "begin", "exit", "wait", "ping", "close", "reinit"},
             of : Holder, sess : Session \cup {None}]

SessionTypes ==
  /\ holder \in [Holder -> HolderType]
  /\ made \in 0 .. MaxSession
  /\ st \in [Session -> {"none", "up", "down", "closed"}]
  /\ hb \in [Session -> BeatType]
  /\ orphan \subseteq 1 .. made

CallTypes ==
  /\ cursor \in 0 .. N
  /\ pc \in [Caller -> {"idle", "try", "close", "store", "using", "failed"}]
  /\ idx \in [Caller -> 0 .. N]
  /\ tries \in [Caller -> 0 .. N]
  /\ tried \in [Caller -> SUBSET Holder]
  /\ on \in [Caller -> Session \cup {None}]

TableTypes ==
  /\ origin \in {"configured", "adhoc"}
  /\ place \in {"table", "replaced", "expired", "stopped"}
  /\ lock \in Caller \cup {None, "expiry"}
  /\ exp \in [pc : {"wait", "check", "retire", "sweep", "count", "close", "panic"},
              at : Holder]

Types == SessionTypes /\ CallTypes /\ TableTypes

(***************************************************************************)
(* The walk of getMuxStream: the holders that failed are the last tries[c] *)
(* ones before the holder at hand, round the end of the list.              *)
(***************************************************************************)
Before(c) == {j \in Holder : \/ At(c) - tries[c] <= j /\ j < At(c)
                             \/ At(c) - tries[c] + N <= j}

Walks(c) ==
  /\ tried[c] = Before(c)
  /\ pc[c] \in {"close", "store"} => idx[c] \in Holder
  /\ pc[c] \in {"try", "close", "store"} => tries[c] < N
  /\ pc[c] = "failed" => tries[c] = N
  /\ pc[c] \in {"idle", "using"} => tries[c] = 0

Walk == \A c \in Caller : Walks(c)

(* The initial state has the types, and no call walks.                     *)
LEMMA InitTypes == Init => Types /\ Walk
<1> SUFFICES ASSUME Init PROVE Types /\ Walk
  OBVIOUS
<1>1. N \in Nat \ {0} /\ MaxSession \in Nat /\ N <= MaxSession /\ 0 \in Holder
  BY ChannelAssumption DEF Holder
<1>2. SessionTypes
  <2>1. \A i \in Holder : i + 1 \in Session
    BY <1>1 DEF Holder, Session
  <2>2. \A s \in Session : s <= N => s - 1 \in Holder
    BY <1>1 DEF Holder, Session
  <2> QED BY <1>1, <2>1, <2>2 DEF Init, SessionTypes, HolderType, BeatType
<1>3. CallTypes
  BY <1>1 DEF Init, CallTypes
<1>4. TableTypes
  BY <1>1, ChannelAssumption DEF Init, TableTypes
<1>5. Walk
  BY <1>1 DEF Init, Walk, Walks, Before, At, Holder
<1> QED BY <1>2, <1>3, <1>4, <1>5 DEF Types

(* check retires an expired session: the holder owns what it owned before. *)
LEMMA CheckFacts ==
  ASSUME NEW r \in HolderType
  PROVE  /\ Check(r) \in HolderType
         /\ r.retired \subseteq Check(r).retired
         /\ \A s \in Session : (s = Check(r).cur \/ s \in Check(r).retired)
                                 <=> (s = r.cur \/ s \in r.retired)
         /\ r.cur \notin r.retired => Check(r).cur \notin Check(r).retired
         /\ Check(r).cur # None => Check(r) = r
         /\ r.cur = None => Check(r) = r
<1>1. None \notin Session
  BY ChannelAssumption DEF Session
<1>2. CASE r.cur # None /\ r.expired
  <2> DEFINE q == [r EXCEPT !.retired = @ \cup {r.cur}, !.cur = None]
  <2>1. Check(r) = q
    BY <1>2 DEF Check
  <2>2. q \in HolderType /\ q.cur = None /\ q.retired = r.retired \cup {r.cur}
    BY <1>2 DEF HolderType
  <2> QED BY <1>1, <1>2, <2>1, <2>2 DEF HolderType
<1>3. CASE ~(r.cur # None /\ r.expired)
  <2>1. Check(r) = r
    BY <1>3 DEF Check
  <2> QED BY <2>1
<1> QED BY <1>2, <1>3

(* init keeps the holder, or gives it the session it has made.             *)
LEMMA InitFacts ==
  ASSUME NEW r \in HolderType, made \in 0 .. MaxSession, NEW o \in InitOutcomes(r)
  PROVE  /\ o.holder \in HolderType /\ o.ok \in BOOLEAN
         /\ o.holder.retired = r.retired
         /\ \/ o.new = None /\ o.holder = r
            \/ /\ o.new = made + 1 /\ o.new \in Session /\ o.new \in 1 .. MaxSession
               /\ r.cur = None
               /\ \/ ~o.ok /\ o.holder = r
                  \/ o.ok /\ o.holder.cur = o.new
<1> DEFINE q == [r EXCEPT !.cur = made + 1, !.expired = FALSE]
<1>1. CASE o = [holder |-> r, new |-> None, ok |-> TRUE]
  BY <1>1
<1>2. CASE o = [holder |-> r, new |-> None, ok |-> FALSE]
  BY <1>2
<1>3. CASE r.cur = None /\ made + 1 \in Session /\ o = [holder |-> r, new |-> made + 1, ok |-> FALSE]
  BY <1>3 DEF Session
<1>4. CASE r.cur = None /\ made + 1 \in Session /\ o = [holder |-> q, new |-> made + 1, ok |-> TRUE]
  <2>1. q \in HolderType /\ q.cur = made + 1 /\ q.retired = r.retired
    BY <1>4 DEF HolderType
  <2> QED BY <1>4, <2>1 DEF Session
<1> QED BY <1>1, <1>2, <1>3, <1>4 DEF InitOutcomes
-----------------------------------------------------------------------------
(* The walk over the holders *)

(* A caller whose local variables do not change walks as before.           *)
LEMMA WalkFrame ==
  ASSUME NEW c \in Caller, Walks(c),
         pc'[c] = pc[c], idx'[c] = idx[c], tries'[c] = tries[c], tried'[c] = tried[c]
  PROVE  Walks(c)'
<1>1. At(c)' = At(c)
  BY DEF At
<1>2. Before(c)' = Before(c)
  BY <1>1 DEF Before
<1> QED BY <1>2 DEF Walks

(* The holder a call is at is a holder of the channel.                     *)
LEMMA AtIsHolder ==
  ASSUME CallTypes, NEW c \in Caller
  PROVE  At(c) \in Holder
  BY ChannelAssumption DEF CallTypes, At, Holder

(* A call that has tried holder i has tried the ones up to it.             *)
LEMMA TryNextWalks ==
  ASSUME CallTypes, Walk, NEW c \in Caller, pc[c] \in {"try", "close"},
         At(c) \in Holder, TryNext(c, At(c)), UNCHANGED <<cursor, on>>
  PROVE  CallTypes' /\ Walk'
<1> DEFINE i == At(c)
           t == tries[c]
<1>1. /\ N \in Nat \ {0} /\ i \in 0 .. N - 1 /\ t \in Nat /\ t < N
      /\ tried[c] = Before(c)
  BY ChannelAssumption DEF CallTypes, Walk, Walks, Holder
<1>2. /\ tries'[c] = t + 1 /\ idx'[c] = i + 1 /\ tried'[c] = tried[c] \cup {i}
      /\ pc'[c] = IF t + 1 < N THEN "try" ELSE "failed"
  BY DEF TryNext, CallTypes
<1>3. CallTypes'
  <2>1. t + 1 \in 0 .. N /\ i + 1 \in 0 .. N
    BY <1>1
  <2> QED BY <1>1, <2>1 DEF CallTypes, TryNext
<1>4. tried'[c] = Before(c)'
  <2>1. At(c)' = IF i + 1 >= N THEN 0 ELSE i + 1
    BY <1>2 DEF At
  <2>2. tried'[c] = {j \in Holder : (i - t <= j /\ j < i) \/ i - t + N <= j} \cup {i}
    BY <1>1, <1>2 DEF Before
  <2>3. Before(c)' = {j \in Holder : \/ At(c)' - (t + 1) <= j /\ j < At(c)'
                                     \/ At(c)' - (t + 1) + N <= j}
    BY <1>2 DEF Before
  <2>4. CASE i + 1 >= N
    <3>1. At(c)' = 0 /\ i = N - 1
      BY <1>1, <2>1, <2>4
    <3>2. ASSUME NEW j \in 0 .. N - 1
          PROVE  ((i - t <= j /\ j < i) \/ i - t + N <= j \/ j = i)
                   <=> ((0 - (t + 1) <= j /\ j < 0) \/ 0 - (t + 1) + N <= j)
      BY <1>1, <3>1
    <3> QED BY <1>1, <2>2, <2>3, <3>1, <3>2 DEF Holder
  <2>5. CASE ~(i + 1 >= N)
    <3>1. At(c)' = i + 1
      BY <1>1, <2>1, <2>5
    <3>2. ASSUME NEW j \in 0 .. N - 1
          PROVE  ((i - t <= j /\ j < i) \/ i - t + N <= j \/ j = i)
                   <=> (((i + 1) - (t + 1) <= j /\ j < i + 1) \/ (i + 1) - (t + 1) + N <= j)
      BY <1>1
    <3> QED BY <1>1, <2>2, <2>3, <3>1, <3>2 DEF Holder
  <2> QED BY <2>4, <2>5
<1>5. Walks(c)'
  BY <1>1, <1>2, <1>4 DEF Walks
<1>6. ASSUME NEW d \in Caller, d # c PROVE Walks(d)'
  <2>1. pc'[d] = pc[d] /\ idx'[d] = idx[d] /\ tries'[d] = tries[d] /\ tried'[d] = tried[d]
    BY <1>6 DEF TryNext, CallTypes
  <2>2. Walks(d)
    BY DEF Walk, Walks
  <2> QED BY <2>1, <2>2, WalkFrame
<1> QED BY <1>3, <1>5, <1>6 DEF Walk, Walks

(* Every step of a caller keeps the types of its variables and its walk.   *)
LEMMA CallWalk ==
  ASSUME SessionTypes, CallTypes, Walk, NEW c \in Caller,
         \/ GetMuxStream(c) \/ GetNewStream(c) \/ CloseAfterShutdown(c)
         \/ StoreCursor(c) \/ CloseStream(c) \/ GiveUp(c)
  PROVE  CallTypes' /\ Walk'
<1> USE DEF CallerGoto
<1>0. N \in Nat \ {0} /\ At(c) \in Holder /\ Walks(c)
  BY ChannelAssumption, AtIsHolder DEF Walk, Walks
<1>1. ASSUME \A d \in Caller : d # c =>
               pc'[d] = pc[d] /\ idx'[d] = idx[d] /\ tries'[d] = tries[d] /\ tried'[d] = tried[d],
             Walks(c)'
      PROVE  Walk'
  <2>1. ASSUME NEW d \in Caller, d # c PROVE Walks(d)'
    BY <1>1, <2>1, WalkFrame DEF Walk, Walks
  <2> QED BY <1>1, <2>1 DEF Walk, Walks
<1>2. CASE GetMuxStream(c)
  <2>1. CallTypes' /\ tries'[c] = 0 /\ tried'[c] = tried[c] /\ tried[c] = {} /\ pc'[c] = "try"
    <3>1. tries[c] = 0 /\ tried[c] = Before(c)
      BY <1>0, <1>2 DEF GetMuxStream, Walks
    <3>2. Before(c) = {}
      BY <1>0, <3>1 DEF Before, Holder
    <3> QED BY <1>0, <1>2, <3>1, <3>2 DEF GetMuxStream, CallTypes
  <2>2. At(c)' \in 0 .. N - 1
    BY <1>0, <2>1 DEF At, CallTypes
  <2>3. Before(c)' = {}
    BY <1>0, <2>1, <2>2 DEF Before, Holder
  <2>4. Walks(c)'
    BY <1>0, <2>1, <2>3 DEF Walks
  <2> QED BY <1>1, <1>2, <2>1, <2>4 DEF GetMuxStream, CallTypes
<1>3. CASE GetNewStream(c)
  <2> DEFINE i == At(c)
  <2>1. CASE TryNext(c, i) /\ UNCHANGED on
    BY <1>0, <1>3, <2>1, TryNextWalks DEF GetNewStream
  <2>2. CASE ~(TryNext(c, i) /\ UNCHANGED on)
    <3>1. PICK o \in InitOutcomes(Check(holder[i])) :
            \/ /\ CallerGoto(c, "try", "store") /\ on' = [on EXCEPT ![c] = o.holder.cur]
               /\ o.holder.cur # None
               /\ idx' = [idx EXCEPT ![c] = i] /\ UNCHANGED <<tries, tried>>
            \/ /\ CallerGoto(c, "try", "close")
               /\ idx' = [idx EXCEPT ![c] = i] /\ UNCHANGED <<on, tries, tried>>
      BY <1>3, <2>2 DEF GetNewStream
    <3>2. holder[i] \in HolderType
      BY <1>0 DEF SessionTypes
    <3>3. o.holder.cur \in Session \cup {None}
      <4>1. Check(holder[i]) \in HolderType
        BY <3>2, CheckFacts
      <4>2. o.holder \in HolderType
        BY <4>1, InitFacts DEF SessionTypes
      <4> QED BY <4>2 DEF HolderType
    <3>4. CallTypes'
      BY <1>0, <1>3, <3>1, <3>3 DEF GetNewStream, CallTypes, Holder
    <3>5. idx'[c] = i /\ tries'[c] = tries[c] /\ tried'[c] = tried[c] /\ pc[c] = "try" /\ pc'[c] \in {"store", "close"}
      BY <3>1 DEF CallTypes
    <3>6. At(c)' = i
      BY <1>0, <3>5 DEF At, Holder
    <3>7. Before(c)' = Before(c)
      BY <3>5, <3>6 DEF Before
    <3>8. Walks(c)'
      BY <1>0, <3>5, <3>7 DEF Walks
    <3> QED BY <1>1, <3>1, <3>4, <3>8 DEF CallTypes
  <2> QED BY <2>1, <2>2
<1>4. CASE CloseAfterShutdown(c)
  <2>1. idx[c] \in Holder /\ pc[c] = "close"
    BY <1>0, <1>4 DEF CloseAfterShutdown, Walks
  <2>2. At(c) = idx[c]
    BY <1>0, <2>1 DEF At, Holder
  <2> QED BY <1>0, <1>4, <2>1, <2>2, TryNextWalks DEF CloseAfterShutdown
<1>5. CASE StoreCursor(c) \/ GiveUp(c)
  <2>1. idx[c] + 1 \in 0 .. N \/ GiveUp(c)
    BY <1>0, <1>5 DEF StoreCursor, Walks, Holder
  <2>2. CallTypes' /\ tries'[c] = 0 /\ tried'[c] = {} /\ idx'[c] = 0 /\ pc'[c] \in {"idle", "using"}
    BY <1>0, <1>5, <2>1 DEF StoreCursor, GiveUp, Return, CallTypes
  <2>3. Before(c)' = {}
    BY <1>0, <2>2 DEF Before, Holder, At
  <2>4. Walks(c)'
    BY <1>0, <2>2, <2>3 DEF Walks
  <2> QED BY <1>1, <1>5, <2>2, <2>4 DEF StoreCursor, GiveUp, Return, CallTypes
<1>6. CASE CloseStream(c)
  <2>1. CallTypes' /\ pc[c] = "using" /\ pc'[c] = "idle" /\ UNCHANGED <<idx, tries, tried>>
    BY <1>6 DEF CloseStream, CallTypes
  <2>2. Walks(c)'
    BY <1>0, <2>1 DEF Walks, Before, At
  <2> QED BY <1>1, <1>6, <2>1, <2>2 DEF CloseStream, CallTypes
<1> QED BY <1>2, <1>3, <1>4, <1>5, <1>6
-----------------------------------------------------------------------------
(* The accounting of sessions *)

Owned(i) == {s \in Session : Owns(i, s)}

(***************************************************************************)
(* A session has at most one owner, is not both current and retired, and   *)
(* is made and authenticated.  Without this a stale close could close a    *)
(* session that somebody still holds.                                      *)
(***************************************************************************)
Apart ==
  /\ \A i, j \in Holder : i # j => Owned(i) \cap Owned(j) = {}
  /\ \A i \in Holder : holder[i].cur \notin holder[i].retired
  /\ \A i \in Holder : Owned(i) \subseteq (1 .. made) \ orphan

(***************************************************************************)
(* What every step does to the sessions: one holder gives up the sessions  *)
(* in gone, which are closed, and may get a new one.                       *)
(***************************************************************************)
Handover(i, new, ok, gone) ==
  /\ \A j \in Holder \ {i} : Owned(j)' = Owned(j)
                             /\ holder'[j].cur = holder[j].cur
                             /\ holder'[j].retired = holder[j].retired
  /\ Owned(i)' = (Owned(i) \ gone) \cup (IF ok /\ new # None THEN {new} ELSE {})
  /\ holder'[i].cur \notin holder'[i].retired
  /\ gone \subseteq Owned(i)
  /\ new = None \/ (new = made + 1 /\ new \in Session)
  /\ \A s \in Session : st'[s] = IF s = new THEN "up" ELSE IF s \in gone THEN "closed" ELSE st[s]
  /\ made' = IF new = None THEN made ELSE new
  /\ orphan' = IF new # None /\ ~ok THEN orphan \cup {new} ELSE orphan

(* A handover keeps the sessions apart and accounted for.                  *)
LEMMA HandoverAccounts ==
  ASSUME SessionTypes, Apart, SessionsAccounted,
         NEW i \in Holder, NEW new, NEW ok \in BOOLEAN, NEW gone, Handover(i, new, ok, gone),
         place = "stopped" => place' = "stopped"
  PROVE  Apart' /\ SessionsAccounted'
<1>1. /\ made \in Nat /\ None \notin Session /\ orphan \subseteq 1 .. made
      /\ \A j \in Holder : Owned(j) \subseteq Session /\ Owned(j) \subseteq 1 .. made
  BY ChannelAssumption DEF SessionTypes, Apart, Session, Owned
<1>2. made + 1 \notin 1 .. made /\ 1 .. (made + 1) = (1 .. made) \cup {made + 1}
  BY <1>1
<1>3. 1 .. made' = (1 .. made) \cup (IF new = None THEN {} ELSE {new})
  BY <1>1, <1>2 DEF Handover
<1>4. new # None => /\ new \notin 1 .. made /\ new \notin orphan
                    /\ \A j \in Holder : new \notin Owned(j)
  BY <1>1, <1>2 DEF Handover
<1>5. 1 .. made' \subseteq Session
  <2>1. 1 .. made \subseteq Session
    BY ChannelAssumption DEF SessionTypes, Session
  <2> QED BY <1>3, <2>1 DEF Handover
<1>6. Apart'
  <2>1. \A j, k \in Holder : j # k => Owned(j)' \cap Owned(k)' = {}
    BY <1>4 DEF Handover, Apart
  <2>2. \A j \in Holder : holder'[j].cur \notin holder'[j].retired
    BY DEF Handover, Apart
  <2>3. \A j \in Holder : Owned(j)' \subseteq (1 .. made') \ orphan'
    BY <1>3, <1>4 DEF Handover, Apart
  <2> QED BY <2>1, <2>2, <2>3 DEF Apart
<1>7. SessionsAccounted'
  <2> SUFFICES ASSUME NEW s \in (1 .. made') \ orphan'
               PROVE  /\ ~(\E j \in Holder : s \in Owned(j)') => st'[s] = "closed"
                      /\ (\E j \in Holder : s \in Owned(j)') /\ st'[s] = "closed"
                            => place' = "stopped"
    <3>1. \A s \in 1 .. made' : \A j \in Holder : s \in Owned(j)' <=> Owns(j, s)'
      BY <1>5 DEF Owned
    <3> QED BY <3>1 DEF SessionsAccounted
  <2>1. s \in Session
    BY <1>5
  <2>2. CASE s = new
    <3>1. ok /\ s \in Owned(i)' /\ st'[s] = "up"
      BY <1>1, <2>1, <2>2 DEF Handover
    <3> QED BY <3>1
  <2>3. CASE s # new
    <3>1. s \in (1 .. made) \ orphan
      BY <1>3, <2>3 DEF Handover
    <3>2. /\ ~(\E j \in Holder : s \in Owned(j)) => st[s] = "closed"
          /\ (\E j \in Holder : s \in Owned(j)) /\ st[s] = "closed" => place = "stopped"
      BY <2>1, <3>1 DEF SessionsAccounted, Owned
    <3>3. CASE s \in gone
      <4>1. st'[s] = "closed" /\ s \in Owned(i) /\ s \notin Owned(i)'
        BY <2>1, <2>3, <3>3 DEF Handover
      <4>2. \A j \in Holder : s \notin Owned(j)'
        BY <4>1 DEF Handover, Apart
      <4> QED BY <4>1, <4>2
    <3>4. CASE s \notin gone
      <4>1. st'[s] = st[s] /\ \A j \in Holder : s \in Owned(j)' <=> s \in Owned(j)
        BY <2>1, <2>3, <3>4 DEF Handover
      <4> QED BY <3>2, <4>1
    <3> QED BY <3>3, <3>4
  <2> QED BY <2>2, <2>3
<1> QED BY <1>6, <1>7
(* A step that gives holder i the state r.                                 *)
LEMMA SetHolder ==
  ASSUME SessionTypes, NEW i \in Holder, NEW r \in HolderType,
         holder' = [holder EXCEPT ![i] = r]
  PROVE  /\ holder' \in [Holder -> HolderType]
         /\ holder'[i] = r
         /\ \A j \in Holder \ {i} : Owned(j)' = Owned(j) /\ holder'[j] = holder[j]
         /\ Owned(i)' = {s \in Session : s = r.cur \/ s \in r.retired}
<1>1. /\ holder' \in [Holder -> HolderType] /\ holder'[i] = r
      /\ \A j \in Holder \ {i} : holder'[j] = holder[j]
  BY DEF SessionTypes
<1>2. ASSUME NEW j \in Holder \ {i} PROVE Owned(j)' = Owned(j)
  BY <1>1 DEF Owned, Owns
<1>3. Owned(i)' = {s \in Session : s = r.cur \/ s \in r.retired}
  BY <1>1 DEF Owned, Owns
<1> QED BY <1>1, <1>2, <1>3

(* The states of the sessions after init and tryCloseRetiredSessions.      *)
LEMMA SessionsFacts ==
  ASSUME SessionTypes, NEW new, NEW closing, st' = Sessions(new, closing)
  PROVE  /\ st' \in [Session -> {"none", "up", "down", "closed"}]
         /\ \A s \in Session : st'[s] = IF s = new THEN "up"
                                        ELSE IF s \in closing THEN "closed" ELSE st[s]
  BY DEF SessionTypes, Sessions

(* The heartbeat goroutine that init starts.                               *)
LEMMA SpawnType ==
  ASSUME NEW b \in [Session -> BeatType], NEW i \in Holder, NEW o,
         o.new \in Session \cup {None}
  PROVE  Spawn(b, i, o) \in [Session -> BeatType]
  BY DEF Spawn, BeatType

(* The sessions made and the ones left open after a failed authentication. *)
LEMMA MadeTypes ==
  ASSUME SessionTypes, NEW o, Made(o),
         o.new = None \/ (o.new = made + 1 /\ o.new \in Session)
  PROVE  made' \in 0 .. MaxSession /\ orphan' \subseteq 1 .. made'
<1>1. made \in Nat /\ orphan \subseteq 1 .. made /\ None \notin Session
  BY ChannelAssumption DEF SessionTypes, Session
<1>2. CASE o.new = None
  BY <1>2 DEF Made, SessionTypes
<1>3. CASE o.new = made + 1 /\ o.new \in Session /\ o.new # None
  <2>1. made' = made + 1 /\ made' \in 0 .. MaxSession
    BY <1>3, ChannelAssumption DEF Made, Session
  <2>2. 1 .. made' = (1 .. made) \cup {made + 1}
    BY <1>1, <2>1
  <2> QED BY <1>1, <1>3, <2>1, <2>2 DEF Made
<1> QED BY <1>1, <1>2, <1>3

(* A step that leaves the sessions to their holders and as they are.       *)
LEMMA HandoverNothing ==
  ASSUME Apart, NEW i \in Holder, UNCHANGED <<st, made, orphan>>,
         \A j \in Holder : /\ holder'[j].cur = holder[j].cur
                           /\ holder'[j].retired = holder[j].retired
  PROVE  Handover(i, None, FALSE, {})
<1>1. \A j \in Holder : Owned(j)' = Owned(j)
  BY DEF Owned, Owns
<1>2. None \notin Session
  BY ChannelAssumption DEF Session
<1> QED BY <1>1, <1>2 DEF Handover, Apart

(* check, under the lock in getNewStream and heartbeat and without it in   *)
(* the expiry task: the holder keeps what it owns.                         *)
LEMMA HandoverCheck ==
  ASSUME SessionTypes, Apart, NEW i \in Holder, UNCHANGED <<st, made, orphan>>,
         holder' = [holder EXCEPT ![i] = Check(holder[i])]
  PROVE  Handover(i, None, FALSE, {}) /\ holder' \in [Holder -> HolderType]
<1>1. holder[i] \in HolderType /\ holder[i].cur \notin holder[i].retired
  BY DEF SessionTypes, Apart
<1> DEFINE q == Check(holder[i])
<1>2. /\ q \in HolderType /\ q.cur \notin q.retired
      /\ \A s \in Session : (s = q.cur \/ s \in q.retired)
                              <=> (s = holder[i].cur \/ s \in holder[i].retired)
  BY <1>1, CheckFacts
<1> HIDE DEF q
<1>3. /\ holder' \in [Holder -> HolderType] /\ holder'[i] = q
      /\ \A j \in Holder \ {i} : Owned(j)' = Owned(j) /\ holder'[j] = holder[j]
      /\ Owned(i)' = {s \in Session : s = q.cur \/ s \in q.retired}
  <2>1. holder' = [holder EXCEPT ![i] = q]
    BY DEF q
  <2> QED BY <1>2, <2>1, SetHolder
<1>4. Owned(i)' = Owned(i)
  BY <1>2, <1>3 DEF Owned, Owns
<1>5. None \notin Session
  BY ChannelAssumption DEF Session
<1> QED BY <1>2, <1>3, <1>4, <1>5 DEF Handover

(* close of a holder gives up and closes the current session.              *)
LEMMA HandoverClose ==
  ASSUME SessionTypes, Apart, NEW i \in Holder, CloseHolder(i), UNCHANGED <<made, orphan>>
  PROVE  /\ Handover(i, None, FALSE, {holder[i].cur} \cap Session)
         /\ holder' \in [Holder -> HolderType] /\ st' \in [Session -> {"none", "up", "down", "closed"}]
         /\ holder'[i].cur = None /\ holder'[i].retired = holder[i].retired
<1> DEFINE r == [holder[i] EXCEPT !.cur = None]
<1>1. /\ holder[i] \in HolderType /\ holder[i].cur \notin holder[i].retired
      /\ None \notin Session
  BY ChannelAssumption DEF SessionTypes, Apart, Session
<1>2. r \in HolderType /\ r.cur = None /\ r.retired = holder[i].retired
  BY <1>1 DEF HolderType
<1>3. holder' = [holder EXCEPT ![i] = r]
  BY <1>1 DEF CloseHolder, SessionTypes
<1> HIDE DEF r
<1>4. /\ holder' \in [Holder -> HolderType] /\ holder'[i] = r
      /\ \A j \in Holder \ {i} : Owned(j)' = Owned(j) /\ holder'[j] = holder[j]
      /\ Owned(i)' = {s \in Session : s = r.cur \/ s \in r.retired}
  BY <1>2, <1>3, SetHolder
<1>5. /\ st' \in [Session -> {"none", "up", "down", "closed"}]
      /\ \A s \in Session : st'[s] = IF s \in {holder[i].cur} \cap Session THEN "closed" ELSE st[s]
  BY <1>1, SessionsFacts DEF CloseHolder
<1>6. r.cur \notin r.retired
  BY <1>1, <1>2 DEF HolderType
<1>7. Owned(i)' = Owned(i) \ ({holder[i].cur} \cap Session)
  BY <1>1, <1>2, <1>4 DEF Owned, Owns
<1>8. {holder[i].cur} \cap Session \subseteq Owned(i)
  BY DEF Owned, Owns
<1> QED BY <1>1, <1>2, <1>4, <1>5, <1>6, <1>7, <1>8 DEF Handover

(* tryCloseRetiredSessions gives up and closes drained sessions.           *)
LEMMA HandoverSweep ==
  ASSUME SessionTypes, Apart, NEW i \in Holder, UNCHANGED <<made, orphan>>,
         holder' = [holder EXCEPT ![i] = [holder[i] EXCEPT !.retired = @ \ Drained(holder[i])]],
         st' = Sessions(None, Drained(holder[i]))
  PROVE  /\ Handover(i, None, FALSE, Drained(holder[i]))
         /\ holder' \in [Holder -> HolderType] /\ st' \in [Session -> {"none", "up", "down", "closed"}]
         /\ holder'[i].cur = holder[i].cur
         /\ holder'[i].retired = holder[i].retired \ Drained(holder[i])
<1> DEFINE gone == Drained(holder[i])
           r == [holder[i] EXCEPT !.retired = @ \ gone]
<1>1. /\ holder[i] \in HolderType /\ holder[i].cur \notin holder[i].retired
      /\ None \notin Session
      /\ gone \subseteq holder[i].retired /\ gone \subseteq Session
  BY ChannelAssumption DEF SessionTypes, Apart, Session, Drained, HolderType
<1> HIDE DEF gone
<1>2. r \in HolderType /\ r.cur = holder[i].cur /\ r.retired = holder[i].retired \ gone
  BY <1>1 DEF HolderType
<1>3. holder' = [holder EXCEPT ![i] = r]
  BY DEF gone
<1> HIDE DEF r
<1>4. /\ holder' \in [Holder -> HolderType] /\ holder'[i] = r
      /\ \A j \in Holder \ {i} : Owned(j)' = Owned(j) /\ holder'[j] = holder[j]
      /\ Owned(i)' = {s \in Session : s = r.cur \/ s \in r.retired}
  BY <1>2, <1>3, SetHolder
<1>5. /\ st' \in [Session -> {"none", "up", "down", "closed"}]
      /\ \A s \in Session : st'[s] = IF s \in gone THEN "closed" ELSE st[s]
  BY <1>1, SessionsFacts DEF gone
<1>6. Owned(i)' = Owned(i) \ gone
  BY <1>1, <1>2, <1>4 DEF Owned, Owns
<1>7. gone \subseteq Owned(i)
  BY <1>1 DEF Owned, Owns
<1> QED BY <1>1, <1>2, <1>4, <1>5, <1>6, <1>7 DEF Handover, gone
(* A session that tryCloseRetiredSessions takes for drained has no stream. *)
LEMMA DrainedIsUnused ==
  ASSUME NEW r, NEW s \in Drained(r)
  PROVE  Streams(s) = {}
<1>1. IsFiniteSet(Streams(s))
  BY ChannelAssumption, FS_Subset DEF Streams
<1>2. Cardinality(Streams(s)) \in Nat /\ Cardinality(Streams(s)) <= 0
  BY <1>1, FS_CardinalityType DEF Drained, NumStreams
<1> QED BY <1>1, <1>2, FS_EmptySet

(* What a retired session must be when a step takes it from its holder.    *)
DropsDrained ==
  \A i \in Holder : \A s \in holder[i].retired :
    s \notin holder'[i].retired => Streams(s) = {}

(* getNewStream hands over the drained sessions, and a new one if it made  *)
(* one.                                                                    *)
LEMMA HandoverNewStream ==
  ASSUME SessionTypes, Apart, NEW c \in Caller, NEW i \in Holder, i = At(c), GetNewStream(c)
  PROVE  /\ SessionTypes' /\ DropsDrained
         /\ \E new, gone : \E ok \in BOOLEAN : Handover(i, new, ok, gone)
<1> DEFINE q == Check(holder[i])
<1>1. PICK o \in InitOutcomes(q) :
        /\ holder' = [holder EXCEPT ![i] = [o.holder EXCEPT !.retired = @ \ Drained(o.holder)]]
        /\ st' = Sessions(o.new, Drained(o.holder))
        /\ hb' = Spawn(hb, i, o)
        /\ Made(o)
  BY DEF GetNewStream
<1>2. /\ holder[i] \in HolderType /\ holder[i].cur \notin holder[i].retired
      /\ None \notin Session /\ made \in 0 .. MaxSession /\ made + 1 \notin 1 .. made
      /\ holder[i].retired \subseteq Owned(i) /\ Owned(i) \subseteq 1 .. made
  BY ChannelAssumption DEF SessionTypes, Apart, Session, Owned, Owns, HolderType
<1>3. /\ q \in HolderType /\ q.cur \notin q.retired /\ holder[i].retired \subseteq q.retired
      /\ \A s \in Session : (s = q.cur \/ s \in q.retired) <=> s \in Owned(i)
  BY <1>2, CheckFacts DEF Owned, Owns
<1> HIDE DEF q
<1>4. /\ o.holder \in HolderType /\ o.ok \in BOOLEAN
      /\ o.holder.retired = q.retired
      /\ \/ o.new = None /\ o.holder = q
         \/ /\ o.new = made + 1 /\ o.new \in Session
            /\ q.cur = None
            /\ \/ ~o.ok /\ o.holder = q
               \/ o.ok /\ o.holder.cur = o.new
  BY <1>2, <1>3, InitFacts
<1> DEFINE gone == Drained(o.holder)
           r == [o.holder EXCEPT !.retired = @ \ gone]
<1>5. gone \subseteq q.retired /\ gone \subseteq Session /\ gone \subseteq Owned(i)
  BY <1>3, <1>4 DEF Drained, HolderType
<1>6. r \in HolderType /\ r.cur = o.holder.cur /\ r.retired = q.retired \ gone
  BY <1>4 DEF HolderType
<1>7. holder' = [holder EXCEPT ![i] = r] /\ st' = Sessions(o.new, gone)
  BY <1>1
<1> HIDE DEF r
<1>8. /\ holder' \in [Holder -> HolderType] /\ holder'[i] = r
      /\ \A j \in Holder \ {i} : Owned(j)' = Owned(j) /\ holder'[j] = holder[j]
      /\ Owned(i)' = {s \in Session : s = r.cur \/ s \in r.retired}
  BY <1>6, <1>7, SetHolder
<1>9. DropsDrained
  <2>1. \A s \in gone : Streams(s) = {}
    BY DrainedIsUnused
  <2> QED BY <1>3, <1>6, <1>8, <2>1 DEF DropsDrained
<1> HIDE DEF gone
<1>10. /\ st' \in [Session -> {"none", "up", "down", "closed"}]
       /\ \A s \in Session : st'[s] = IF s = o.new THEN "up"
                                      ELSE IF s \in gone THEN "closed" ELSE st[s]
  BY <1>7, SessionsFacts
<1>11. SessionTypes'
  <2>1. hb' \in [Session -> BeatType]
    BY <1>1, <1>4, SpawnType DEF SessionTypes
  <2>2. made' \in 0 .. MaxSession /\ orphan' \subseteq 1 .. made'
    BY <1>1, <1>4, MadeTypes
  <2> QED BY <1>8, <1>10, <2>1, <2>2 DEF SessionTypes
<1>12. Owned(i)' = (Owned(i) \ gone) \cup (IF o.ok /\ o.new # None THEN {o.new} ELSE {})
  <2>1. Owned(i) \subseteq Session
    BY DEF Owned
  <2>2. CASE o.holder = q /\ ~(o.ok /\ o.new # None)
    BY <1>2, <1>3, <1>5, <1>6, <1>8, <2>1, <2>2
  <2>3. CASE o.new = made + 1 /\ o.new \in Session /\ q.cur = None /\ o.ok /\ o.holder.cur = o.new
    <3>1. o.new # None /\ \A s \in Session : s \in q.retired <=> s \in Owned(i)
      BY <1>2, <1>3, <2>3
    <3> QED BY <1>5, <1>6, <1>8, <2>1, <2>3, <3>1
  <2> QED BY <1>4, <2>2, <2>3
<1>13. r.cur \notin r.retired
  <2>1. CASE o.holder = q
    BY <1>3, <1>6, <2>1
  <2>2. CASE o.holder.cur = made + 1
    BY <1>2, <1>3, <1>6, <2>2 DEF HolderType
  <2> QED BY <1>4, <2>1, <2>2
<1>14. Handover(i, o.new, o.ok, gone)
  BY <1>1, <1>4, <1>5, <1>8, <1>10, <1>12, <1>13 DEF Handover, Made
<1> QED BY <1>4, <1>9, <1>11, <1>14
(* A heartbeat that reconnects may give its holder a new session.          *)
LEMMA HandoverReinit ==
  ASSUME SessionTypes, Apart, NEW t \in Session, NEW i \in Holder, i = hb[t].of,
         HeartbeatReinit(t)
  PROVE  /\ SessionTypes' /\ DropsDrained
         /\ \E new : \E ok \in BOOLEAN : Handover(i, new, ok, {})
<1> DEFINE q == holder[i]
<1>1. PICK o \in InitOutcomes(q) :
        /\ holder' = [holder EXCEPT ![i] = o.holder]
        /\ st' = Sessions(o.new, {})
        /\ hb' = Spawn([hb EXCEPT ![t].pc = "wait"], i, o)
        /\ Made(o)
  BY DEF HeartbeatReinit
<1>2. /\ q \in HolderType /\ q.cur \notin q.retired
      /\ None \notin Session /\ made \in 0 .. MaxSession /\ made + 1 \notin 1 .. made
      /\ q.retired \subseteq Owned(i) /\ Owned(i) \subseteq 1 .. made
      /\ Owned(i) = {s \in Session : s = q.cur \/ s \in q.retired}
  BY ChannelAssumption DEF SessionTypes, Apart, Session, Owned, Owns, HolderType
<1> HIDE DEF q
<1>3. /\ o.holder \in HolderType /\ o.ok \in BOOLEAN
      /\ o.holder.retired = q.retired
      /\ \/ o.new = None /\ o.holder = q
         \/ /\ o.new = made + 1 /\ o.new \in Session
            /\ q.cur = None
            /\ \/ ~o.ok /\ o.holder = q
               \/ o.ok /\ o.holder.cur = o.new
  BY <1>2, InitFacts
<1>4. /\ holder' \in [Holder -> HolderType] /\ holder'[i] = o.holder
      /\ \A j \in Holder \ {i} : Owned(j)' = Owned(j) /\ holder'[j] = holder[j]
      /\ Owned(i)' = {s \in Session : s = o.holder.cur \/ s \in o.holder.retired}
  BY <1>1, <1>3, SetHolder
<1>5. /\ st' \in [Session -> {"none", "up", "down", "closed"}]
      /\ \A s \in Session : st'[s] = IF s = o.new THEN "up" ELSE st[s]
  BY <1>1, SessionsFacts
<1>6. SessionTypes'
  <2>1. [hb EXCEPT ![t].pc = "wait"] \in [Session -> BeatType]
    BY DEF SessionTypes, BeatType
  <2>2. hb' \in [Session -> BeatType]
    BY <1>1, <1>3, <2>1, SpawnType
  <2>3. made' \in 0 .. MaxSession /\ orphan' \subseteq 1 .. made'
    BY <1>1, <1>3, MadeTypes
  <2> QED BY <1>4, <1>5, <2>2, <2>3 DEF SessionTypes
<1>7. DropsDrained
  BY <1>3, <1>4 DEF DropsDrained, q
<1>8. Owned(i)' = Owned(i) \cup (IF o.ok /\ o.new # None THEN {o.new} ELSE {})
  <2>1. CASE o.holder = q /\ ~(o.ok /\ o.new # None)
    BY <1>2, <1>4, <2>1
  <2>2. CASE o.new = made + 1 /\ o.new \in Session /\ q.cur = None /\ o.ok /\ o.holder.cur = o.new
    BY <1>2, <1>3, <1>4, <2>2
  <2> QED BY <1>3, <2>1, <2>2
<1>9. o.holder.cur \notin o.holder.retired
  BY <1>2, <1>3
<1>10. Handover(i, o.new, o.ok, {})
  BY <1>1, <1>3, <1>4, <1>5, <1>8, <1>9 DEF Handover, Made
<1> QED BY <1>3, <1>6, <1>7, <1>10

(* Steps that change the state of sessions and nothing else about them:    *)
(* a connection that breaks, and StopLocalChannels.                        *)
LEMMA AccountFrame ==
  ASSUME Apart, SessionsAccounted, UNCHANGED <<holder, made, orphan>>, SessionTypes,
         \A s \in Session : st[s] = "closed" => st'[s] = "closed",
         \/ place' = place /\ \A s \in Session : st'[s] = "closed" => st[s] = "closed"
         \/ place' = "stopped"
  PROVE  Apart' /\ SessionsAccounted'
<1>1. \A i \in Holder : Owned(i)' = Owned(i) /\ \A s : Owns(i, s)' <=> Owns(i, s)
  BY DEF Owned, Owns
<1>2. Apart'
  BY <1>1 DEF Apart
<1>3. 1 .. made \subseteq Session
  BY ChannelAssumption DEF SessionTypes, Session
<1> QED BY <1>1, <1>2, <1>3 DEF SessionsAccounted

(* Steps of callers.                                                       *)
LEMMA CallerSessions ==
  ASSUME Types, Walk, Apart, SessionsAccounted, NEW c \in Caller,
         \/ GetMuxStream(c) \/ GetNewStream(c) \/ CloseAfterShutdown(c)
         \/ StoreCursor(c) \/ CloseStream(c) \/ GiveUp(c)
  PROVE  SessionTypes' /\ Apart' /\ SessionsAccounted' /\ DropsDrained
<1> USE DEF Types, tableVars
<1>1. CASE GetMuxStream(c) \/ StoreCursor(c) \/ CloseStream(c) \/ GiveUp(c)
  <2>1. UNCHANGED <<holder, made, st, hb, orphan>> /\ (place = "stopped" => place' = "stopped")
    BY <1>1 DEF GetMuxStream, StoreCursor, CloseStream, GiveUp
  <2>2. SessionTypes' /\ DropsDrained
    BY <2>1 DEF SessionTypes, DropsDrained
  <2>3. 0 \in Holder
    BY ChannelAssumption DEF Holder
  <2> QED BY <2>1, <2>2, <2>3, HandoverNothing, HandoverAccounts
<1>2. CASE GetNewStream(c)
  <2>1. PICK i \in Holder : i = At(c)
    BY AtIsHolder
  <2>2. /\ SessionTypes' /\ DropsDrained
        /\ \E new, gone : \E ok \in BOOLEAN : Handover(i, new, ok, gone)
    BY <1>2, <2>1, HandoverNewStream
  <2>3. place' = place
    BY <1>2 DEF GetNewStream
  <2> QED BY <2>2, <2>3, HandoverAccounts
<1>3. CASE CloseAfterShutdown(c)
  <2>1. PICK i \in Holder : i = idx[c]
    BY <1>3 DEF CloseAfterShutdown, Walk, Walks
  <2>2. CloseHolder(i) /\ UNCHANGED <<made, orphan, hb, place>>
    BY <1>3, <2>1 DEF CloseAfterShutdown
  <2>3. /\ Handover(i, None, FALSE, {holder[i].cur} \cap Session)
        /\ holder' \in [Holder -> HolderType] /\ st' \in [Session -> {"none", "up", "down", "closed"}]
        /\ holder'[i].retired = holder[i].retired
    BY <2>2, HandoverClose
  <2>4. SessionTypes' /\ DropsDrained
    BY <2>2, <2>3 DEF SessionTypes, DropsDrained, Handover
  <2> QED BY <2>2, <2>3, <2>4, HandoverAccounts
<1> QED BY <1>1, <1>2, <1>3
(* Steps of heartbeats.                                                    *)
LEMMA BeatSessions ==
  ASSUME Types, Apart, SessionsAccounted, NEW t \in Session, Beat(t)
  PROVE  SessionTypes' /\ Apart' /\ SessionsAccounted' /\ DropsDrained
<1> USE DEF Types, tableVars, HBUnchanged, HBGoto
<1>1. PICK i \in Holder : i = hb[t].of
  BY DEF SessionTypes, BeatType
<1>2. hb[t] \in BeatType /\ holder[i] \in HolderType
  BY DEF SessionTypes
<1>3. ASSUME hb' \in [Session -> BeatType], UNCHANGED <<st, made, orphan, place>>,
             holder' \in [Holder -> HolderType],
             \A j \in Holder : /\ holder'[j].cur = holder[j].cur
                               /\ holder'[j].retired = holder[j].retired
      PROVE  SessionTypes' /\ Apart' /\ SessionsAccounted' /\ DropsDrained
  <2>1. SessionTypes' /\ DropsDrained
    BY <1>3 DEF SessionTypes, DropsDrained
  <2> QED BY <1>3, <2>1, HandoverNothing, HandoverAccounts
<1>4. CASE HeartbeatStart(t)
  <2>1. hb' \in [Session -> BeatType]
    BY <1>4 DEF HeartbeatStart, SessionTypes, BeatType
  <2> QED BY <1>3, <1>4, <2>1 DEF HeartbeatStart, SessionTypes
<1>5. CASE HeartbeatBegin(t)
  <2>1. hb' \in [Session -> BeatType]
    BY <1>5 DEF HeartbeatBegin, SessionTypes, BeatType
  <2>2. /\ holder' \in [Holder -> HolderType]
        /\ \A j \in Holder : /\ holder'[j].cur = holder[j].cur
                             /\ holder'[j].retired = holder[j].retired
    <3>1. holder' = [holder EXCEPT ![i] = [holder[i] EXCEPT !.beating = TRUE]]
      BY <1>1, <1>5 DEF HeartbeatBegin, SessionTypes
    <3>2. /\ [holder[i] EXCEPT !.beating = TRUE] \in HolderType
          /\ [holder[i] EXCEPT !.beating = TRUE].cur = holder[i].cur
          /\ [holder[i] EXCEPT !.beating = TRUE].retired = holder[i].retired
      BY <1>2 DEF HolderType
    <3> QED BY <3>1, <3>2 DEF SessionTypes
  <2> QED BY <1>3, <1>5, <2>1, <2>2 DEF HeartbeatBegin
<1>6. CASE HeartbeatTick(t)
  <2>1. Check(holder[i]) \in HolderType /\ holder[i].retired \subseteq Check(holder[i]).retired
    BY <1>2, CheckFacts
  <2>2. hb' \in [Session -> BeatType]
    BY <1>1, <1>6, <2>1 DEF HeartbeatTick, SessionTypes, BeatType, HolderType
  <2>3. /\ holder' = [holder EXCEPT ![i] = Check(holder[i])]
        /\ UNCHANGED <<st, made, orphan, place>>
    BY <1>1, <1>6 DEF HeartbeatTick
  <2>4. Handover(i, None, FALSE, {}) /\ holder' \in [Holder -> HolderType]
    BY <2>3, HandoverCheck
  <2>5. SessionTypes' /\ DropsDrained
    BY <2>1, <2>2, <2>3, <2>4 DEF SessionTypes, DropsDrained
  <2> QED BY <2>3, <2>4, <2>5, HandoverAccounts
<1>7. CASE HeartbeatPing(t)
  <2>1. hb' \in [Session -> BeatType]
    <3>1. PICK l \in {"wait", "close"} : hb' = [hb EXCEPT ![t].pc = l, ![t].sess = None]
      BY <1>7 DEF HeartbeatPing
    <3> QED BY <3>1 DEF SessionTypes, BeatType
  <2> QED BY <1>3, <1>7, <2>1 DEF HeartbeatPing, SessionTypes
<1>8. CASE HeartbeatClose(t)
  <2>1. hb' \in [Session -> BeatType]
    BY <1>8 DEF HeartbeatClose, SessionTypes, BeatType
  <2>2. CloseHolder(i) /\ UNCHANGED <<made, orphan, place>>
    BY <1>1, <1>8 DEF HeartbeatClose
  <2>3. /\ Handover(i, None, FALSE, {holder[i].cur} \cap Session)
        /\ holder' \in [Holder -> HolderType] /\ st' \in [Session -> {"none", "up", "down", "closed"}]
        /\ holder'[i].retired = holder[i].retired
    BY <2>2, HandoverClose
  <2>4. SessionTypes' /\ DropsDrained
    BY <2>1, <2>2, <2>3 DEF SessionTypes, DropsDrained, Handover
  <2> QED BY <2>2, <2>3, <2>4, HandoverAccounts
<1>9. CASE HeartbeatReinit(t)
  <2>1. /\ SessionTypes' /\ DropsDrained
        /\ \E new : \E ok \in BOOLEAN : Handover(i, new, ok, {})
    BY <1>1, <1>9, HandoverReinit
  <2>2. place' = place
    BY <1>9 DEF HeartbeatReinit
  <2> QED BY <2>1, <2>2, HandoverAccounts
<1> QED BY <1>4, <1>5, <1>6, <1>7, <1>8, <1>9 DEF Beat

(* The statistics dump, expiry of sessions and breaking connections.       *)
LEMMA EnvironmentSessions ==
  ASSUME Types, Apart, SessionsAccounted,
         \/ \E i \in Holder : DumpStat(i) \/ Expire(i)
         \/ \E s \in Session : SessionDown(s)
         \/ StopLocalChannels
  PROVE  SessionTypes' /\ Apart' /\ SessionsAccounted' /\ DropsDrained
<1> USE DEF Types, tableVars
<1>1. ASSUME NEW i \in Holder, DumpStat(i)
      PROVE  SessionTypes' /\ Apart' /\ SessionsAccounted' /\ DropsDrained
  <2>1. /\ holder' = [holder EXCEPT ![i] = [holder[i] EXCEPT !.retired = @ \ Drained(holder[i])]]
        /\ st' = Sessions(None, Drained(holder[i]))
        /\ UNCHANGED <<made, orphan, hb, place>>
    BY <1>1 DEF DumpStat, SessionTypes
  <2>2. /\ Handover(i, None, FALSE, Drained(holder[i]))
        /\ holder' \in [Holder -> HolderType] /\ st' \in [Session -> {"none", "up", "down", "closed"}]
        /\ holder'[i].retired = holder[i].retired \ Drained(holder[i])
    BY <2>1, HandoverSweep
  <2>3. SessionTypes'
    BY <2>1, <2>2 DEF SessionTypes
  <2>4. DropsDrained
    BY <2>2, DrainedIsUnused DEF DropsDrained, Handover
  <2> QED BY <2>1, <2>2, <2>3, <2>4, HandoverAccounts
<1>2. ASSUME NEW i \in Holder, Expire(i)
      PROVE  SessionTypes' /\ Apart' /\ SessionsAccounted' /\ DropsDrained
  <2>1. /\ holder' \in [Holder -> HolderType]
        /\ \A j \in Holder : /\ holder'[j].cur = holder[j].cur
                             /\ holder'[j].retired = holder[j].retired
    BY <1>2 DEF Expire, SessionTypes, HolderType
  <2>2. UNCHANGED <<made, st, hb, orphan, place>>
    BY <1>2 DEF Expire
  <2>3. SessionTypes' /\ DropsDrained
    BY <2>1, <2>2 DEF SessionTypes, DropsDrained
  <2> QED BY <2>1, <2>2, <2>3, HandoverNothing, HandoverAccounts
<1>3. ASSUME NEW s \in Session, SessionDown(s)
      PROVE  SessionTypes' /\ Apart' /\ SessionsAccounted' /\ DropsDrained
  <2>1. /\ UNCHANGED <<holder, made, orphan, hb, place>>
        /\ \A u \in Session : st'[u] = "closed" <=> st[u] = "closed"
        /\ st' \in [Session -> {"none", "up", "down", "closed"}]
    BY <1>3 DEF SessionDown, SessionTypes
  <2>2. SessionTypes' /\ DropsDrained
    BY <2>1 DEF SessionTypes, DropsDrained
  <2> QED BY <2>1, <2>2, AccountFrame
<1>4. CASE StopLocalChannels
  <2>1. UNCHANGED <<holder, made, orphan, hb>> /\ place' = "stopped"
    BY <1>4 DEF StopLocalChannels, ExpUnchanged
  <2>2. /\ st' \in [Session -> {"none", "up", "down", "closed"}]
        /\ \A u \in Session : st[u] = "closed" => st'[u] = "closed"
    <3>1. None \notin Session
      BY ChannelAssumption DEF Session
    <3> QED BY <1>4, <3>1, SessionsFacts DEF StopLocalChannels
  <2>3. SessionTypes' /\ DropsDrained
    BY <2>1, <2>2 DEF SessionTypes, DropsDrained
  <2> QED BY <2>1, <2>2, <2>3, AccountFrame
<1> QED BY <1>1, <1>2, <1>3, <1>4

(* Steps of the expiry task.                                               *)
LEMMA ExpirySessions ==
  ASSUME Types, Apart, SessionsAccounted, Expiry
  PROVE  SessionTypes' /\ Apart' /\ SessionsAccounted' /\ DropsDrained
<1> USE DEF Types, tableVars, ExpUnchanged
<1>1. PICK i \in Holder : i = exp.at
  BY DEF TableTypes
<1>2. holder[i] \in HolderType
  BY DEF SessionTypes
<1>3. CASE ExpireTick \/ ExpireCheck \/ ExpireCount
  <2>1. UNCHANGED <<holder, st, made, orphan, hb, place>>
    BY <1>3 DEF ExpireTick, ExpireCheck, ExpireCount
  <2>2. SessionTypes' /\ DropsDrained
    BY <2>1 DEF SessionTypes, DropsDrained
  <2> QED BY <2>1, <2>2, HandoverNothing, HandoverAccounts
<1>4. CASE ExpireRetire
  <2>1. UNCHANGED <<st, made, orphan, hb, place>>
    BY <1>4 DEF ExpireRetire
  <2>2. CASE holder[i].cur = None
    <3>1. holder' = holder
      BY <1>1, <1>4, <2>2 DEF ExpireRetire
    <3>2. SessionTypes' /\ DropsDrained
      BY <2>1, <3>1 DEF SessionTypes, DropsDrained
    <3> QED BY <2>1, <3>1, <3>2, HandoverNothing, HandoverAccounts
  <2>3. CASE holder[i].cur # None
    <3> DEFINE q == holder[i]
               r == [q EXCEPT !.retired = @ \cup {q.cur}, !.cur = None]
    <3>1. r \in HolderType /\ r.cur = None /\ r.retired = q.retired \cup {q.cur}
      BY <1>2, <2>3 DEF HolderType
    <3>2. holder' = [holder EXCEPT ![i] = r]
      BY <1>1, <1>4, <2>3 DEF ExpireRetire
    <3> HIDE DEF r
    <3>3. /\ holder' \in [Holder -> HolderType] /\ holder'[i] = r
          /\ \A j \in Holder \ {i} : Owned(j)' = Owned(j) /\ holder'[j] = holder[j]
          /\ Owned(i)' = {s \in Session : s = r.cur \/ s \in r.retired}
      BY <3>1, <3>2, SetHolder
    <3>4. None \notin Session /\ q.cur \in Session
      BY <1>2, <2>3, ChannelAssumption DEF Session, HolderType
    <3>5. Owned(i)' = Owned(i)
      BY <3>1, <3>3, <3>4 DEF Owned, Owns
    <3>6. r.cur \notin r.retired
      BY <1>2, <3>1, <3>4 DEF HolderType
    <3>7. Handover(i, None, FALSE, {})
      BY <2>1, <3>3, <3>4, <3>5, <3>6 DEF Handover
    <3>8. SessionTypes' /\ DropsDrained
      BY <2>1, <3>1, <3>3 DEF SessionTypes, DropsDrained
    <3> QED BY <2>1, <3>7, <3>8, HandoverAccounts
  <2> QED BY <2>2, <2>3
<1>5. CASE ExpireSweep
  <2>1. /\ holder' = [holder EXCEPT ![i] = [holder[i] EXCEPT !.retired = @ \ Drained(holder[i])]]
        /\ st' = Sessions(None, Drained(holder[i]))
        /\ UNCHANGED <<made, orphan, hb, place>>
    BY <1>1, <1>5 DEF ExpireSweep
  <2>2. /\ Handover(i, None, FALSE, Drained(holder[i]))
        /\ holder' \in [Holder -> HolderType] /\ st' \in [Session -> {"none", "up", "down", "closed"}]
        /\ holder'[i].retired = holder[i].retired \ Drained(holder[i])
    BY <2>1, HandoverSweep
  <2>3. SessionTypes'
    BY <2>1, <2>2 DEF SessionTypes
  <2>4. DropsDrained
    BY <2>2, DrainedIsUnused DEF DropsDrained, Handover
  <2> QED BY <2>1, <2>2, <2>3, <2>4, HandoverAccounts
<1>6. CASE ExpireClose
  <2>1. CloseHolder(i) /\ UNCHANGED <<made, orphan, hb>> /\ (place = "stopped" => place' = "stopped")
    BY <1>1, <1>6 DEF ExpireClose
  <2>2. /\ Handover(i, None, FALSE, {holder[i].cur} \cap Session)
        /\ holder' \in [Holder -> HolderType] /\ st' \in [Session -> {"none", "up", "down", "closed"}]
        /\ holder'[i].retired = holder[i].retired
    BY <2>1, HandoverClose
  <2>3. SessionTypes' /\ DropsDrained
    BY <2>1, <2>2 DEF SessionTypes, DropsDrained, Handover
  <2> QED BY <2>1, <2>2, <2>3, HandoverAccounts
<1> QED BY <1>3, <1>4, <1>5, <1>6 DEF Expiry
-----------------------------------------------------------------------------
(* The invariants and what follows from them *)

(* Every step keeps the types of the table's variables.                    *)
LEMMA TableStep ==
  ASSUME Types, Step
  PROVE  TableTypes'
<1> USE DEF Types, TableTypes, tableVars
<1>1. ASSUME NEW c \in Caller,
             \/ GetMuxStream(c) \/ GetNewStream(c) \/ CloseAfterShutdown(c)
             \/ StoreCursor(c) \/ CloseStream(c) \/ GiveUp(c)
      PROVE  TableTypes'
  BY <1>1 DEF GetMuxStream, GetNewStream, CloseAfterShutdown, StoreCursor,
              CloseStream, GiveUp, Unlock
<1>2. ASSUME NEW s \in Session, Beat(s) \/ SessionDown(s)
      PROVE  TableTypes'
  BY <1>2 DEF Beat, HeartbeatStart, HeartbeatBegin, HeartbeatTick, HeartbeatPing,
              HeartbeatClose, HeartbeatReinit, HBUnchanged, SessionDown
<1>3. ASSUME NEW i \in Holder, DumpStat(i) \/ Expire(i)
      PROVE  TableTypes'
  BY <1>3 DEF DumpStat, Expire
<1>4. CASE ExpireTick
  BY <1>4, ChannelAssumption DEF ExpireTick, ExpUnchanged, Holder
<1>5. CASE ExpireCheck
  BY <1>5 DEF ExpireCheck, ExpUnchanged, ExpGoto
<1>6. CASE ExpireRetire
  BY <1>6 DEF ExpireRetire, ExpUnchanged, ExpGoto
<1>7. CASE ExpireSweep
  BY <1>7 DEF ExpireSweep, ExpUnchanged, ExpGoto, ExpireKeep
<1>8. CASE ExpireCount
  BY <1>8 DEF ExpireCount, ExpUnchanged, ExpGoto, ExpireKeep
<1>9. CASE ExpireClose
  <2>1. exp' \in [pc : {"wait", "check"}, at : Holder]
    BY <1>9, ChannelAssumption DEF ExpireClose, Holder
  <2> QED BY <1>9, <2>1 DEF ExpireClose, ExpUnchanged
<1>10. CASE StopLocalChannels
  BY <1>10 DEF StopLocalChannels, ExpUnchanged
<1> QED BY <1>1, <1>2, <1>3, <1>4, <1>5, <1>6, <1>7, <1>8, <1>9, <1>10 DEF Step, Beat, Expiry

(* Only callers touch the variables of getMuxStream.                       *)
LEMMA OthersLeaveCalls ==
  ASSUME \/ \E s \in Session : Beat(s) \/ SessionDown(s)
         \/ \E i \in Holder : DumpStat(i) \/ Expire(i)
         \/ Expiry \/ StopLocalChannels
  PROVE  UNCHANGED callVars
  BY DEF Beat, HeartbeatStart, HeartbeatBegin, HeartbeatTick, HeartbeatPing,
         HeartbeatClose, HeartbeatReinit, HBUnchanged, SessionDown, DumpStat, Expire,
         Expiry, ExpireTick, ExpireCheck, ExpireRetire, ExpireSweep, ExpireCount,
         ExpireClose, StopLocalChannels, ExpUnchanged

IInv == Types /\ Walk /\ Apart /\ SessionsAccounted

(* The initial state satisfies the invariant.                              *)
LEMMA InitIInv == Init => IInv
<1> SUFFICES ASSUME Init PROVE IInv
  OBVIOUS
<1>1. /\ N \in Nat \ {0} /\ MaxSession \in Nat /\ N <= MaxSession /\ None \notin Nat
  BY ChannelAssumption
<1>2. /\ \A i \in Holder : holder[i].cur = i + 1 /\ holder[i].retired = {}
      /\ made = N /\ orphan = {}
      /\ \A s \in Session : s <= N => st[s] = "up"
  BY DEF Init
<1>3. \A i \in Holder : i \in Int /\ i + 1 \in 1 .. N /\ i + 1 \in Session /\ Owned(i) = {i + 1}
  BY <1>1, <1>2 DEF Owned, Owns, Holder, Session
<1>4. Apart
  BY <1>1, <1>2, <1>3 DEF Apart
<1>5. ASSUME NEW s \in 1 .. N PROVE s \in Session /\ s - 1 \in Holder /\ Owns(s - 1, s)
  BY <1>1, <1>2 DEF Holder, Session, Owns
<1>6. SessionsAccounted
  BY <1>2, <1>5 DEF SessionsAccounted
<1> QED BY <1>4, <1>6, InitTypes DEF IInv

(* Every step keeps the invariant, and takes only drained sessions from    *)
(* the retired ones of a holder.                                           *)
LEMMA StepIInv ==
  ASSUME IInv, [Next]_vars
  PROVE  IInv' /\ DropsDrained
<1>1. CASE UNCHANGED vars
  <2>1. Types' /\ DropsDrained
    BY <1>1 DEF IInv, Types, SessionTypes, CallTypes, TableTypes, vars, tableVars, DropsDrained
  <2>2. Walk'
    BY <1>1 DEF IInv, Walk, Walks, Before, At, vars
  <2>3. Apart' /\ SessionsAccounted'
    BY <1>1, AccountFrame DEF IInv, Types, vars, tableVars
  <2> QED BY <2>1, <2>2, <2>3 DEF IInv
<1>2. CASE Step
  <2>1. SessionTypes' /\ Apart' /\ SessionsAccounted' /\ DropsDrained
    BY <1>2, CallerSessions, BeatSessions, EnvironmentSessions, ExpirySessions DEF IInv, Step, Beat
  <2>2. CallTypes' /\ Walk'
    <3>1. CASE UNCHANGED callVars
      BY <3>1 DEF IInv, Types, CallTypes, Walk, Walks, Before, At, callVars
    <3>2. ASSUME NEW c \in Caller,
                 \/ GetMuxStream(c) \/ GetNewStream(c) \/ CloseAfterShutdown(c)
                 \/ StoreCursor(c) \/ CloseStream(c) \/ GiveUp(c)
          PROVE  CallTypes' /\ Walk'
      BY <3>2, CallWalk DEF IInv, Types
    <3> QED BY <1>2, <3>1, <3>2, OthersLeaveCalls DEF Step, Beat
  <2>3. TableTypes'
    BY <1>2, TableStep DEF IInv
  <2> QED BY <2>1, <2>2, <2>3 DEF IInv, Types
<1> QED BY <1>1, <1>2 DEF Next

(* The invariant holds in every reachable state.                           *)
THEOREM Invariance == Spec => []IInv
<1>1. IInv /\ [Next]_vars => IInv'
  BY StepIInv
<1> QED BY InitIInv, <1>1, PTL DEF Spec

(* Type correctness of the channel, its holders, calls and heartbeats.     *)
THEOREM TypeCorrect == Spec => []Types
<1>1. IInv => Types
  BY DEF IInv
<1> QED BY Invariance, <1>1, PTL

(* A call that fails has asked every holder, from wherever it started.     *)
THEOREM AsksEveryHolder == Spec => []FailsAfterAll
<1>1. IInv => FailsAfterAll
  <2> SUFFICES ASSUME IInv, NEW c \in Caller, pc[c] = "failed" PROVE tried[c] = Holder
    BY DEF FailsAfterAll
  <2>1. tried[c] = Before(c) /\ tries[c] = N /\ At(c) \in Holder /\ N \in Nat
    BY AtIsHolder, ChannelAssumption DEF IInv, Types, Walk, Walks
  <2> QED BY <2>1 DEF Before, Holder
<1> QED BY Invariance, <1>1, PTL

(* No authenticated session is lost while open, or held once closed, but   *)
(* for StopLocalChannels.                                                  *)
THEOREM NoSessionLost == Spec => []SessionsAccounted
<1>1. IInv => SessionsAccounted
  BY DEF IInv
<1> QED BY Invariance, <1>1, PTL

(* A retired session leaves its holder only when it has no stream.         *)
THEOREM ClosesDrained == Spec => DrainedBeforeClose
<1>1. IInv /\ [Next]_vars =>
        [\A i \in Holder : \A s \in holder[i].retired :
           s \notin holder'[i].retired => Streams(s) = {}]_vars
  BY StepIInv DEF DropsDrained
<1> QED BY Invariance, <1>1, PTL DEF Spec, DrainedBeforeClose
-----------------------------------------------------------------------------
(* The removal of an ad hoc channel *)

InCall == {"try", "close", "store", "failed"}

(***************************************************************************)
(* A call on an ad hoc channel holds localChannelMutex, and so does the    *)
(* expiry task while it looks at the holders; heartbeats of an ad hoc      *)
(* channel do not reconnect.  Streams are on authenticated sessions.       *)
(***************************************************************************)
CallsLock    == origin = "adhoc" => \A c \in Caller : pc[c] \in InCall => lock = c
NoReconnect  == origin = "adhoc" => \A s \in Session : hb[s].pc # "reinit"
SweepLocks   == exp.pc # "wait" => origin = "adhoc" /\ lock = "expiry"
RemovedIdle  == place = "expired" => /\ exp.pc = "wait" /\ origin = "adhoc"
                                     /\ \A c \in Caller : pc[c] \notin InCall
StreamsMade  == \A c \in Caller : pc[c] \in {"store", "using"} => on[c] \in (1 .. made) \ orphan

Locks == CallsLock /\ NoReconnect /\ SweepLocks /\ RemovedIdle

(***************************************************************************)
(* What the expiry task has established: the holders behind it have no     *)
(* current session and no stream on a retired one; at the holder at hand   *)
(* the count is of a session without retired ones beside it, and close     *)
(* finds no stream.                                                        *)
(***************************************************************************)
Clean(i) == holder[i].cur = None /\ \A s \in holder[i].retired : Streams(s) = {}

Swept == IF place = "expired" THEN Holder
         ELSE IF exp.pc = "wait" THEN {} ELSE 0 .. exp.at - 1

SweptClean == \A i \in Swept : Clean(i)
CountAlone == exp.pc = "count" => holder[exp.at].cur = None \/ holder[exp.at].retired = {}
CloseUnused == exp.pc = "close" => \A s \in Owned(exp.at) : Streams(s) = {}

Removal == SweptClean /\ CountAlone /\ CloseUnused

(* The initial state has no call, and the expiry task waits.               *)
LEMMA InitRemoval == Init => Locks /\ StreamsMade /\ Removal
  BY ChannelAssumption DEF Init, Locks, CallsLock, NoReconnect, SweepLocks, RemovedIdle, InCall,
     StreamsMade, Removal, SweptClean, CountAlone, CloseUnused, Swept

(* Steps of callers keep the locking.                                      *)
LEMMA CallerLocks ==
  ASSUME Types, Locks, NEW c \in Caller,
         \/ GetMuxStream(c) \/ GetNewStream(c) \/ CloseAfterShutdown(c)
         \/ StoreCursor(c) \/ CloseStream(c) \/ GiveUp(c)
  PROVE  CallsLock' /\ SweepLocks' /\ RemovedIdle'
<1> USE DEF Locks, CallsLock, SweepLocks, RemovedIdle, InCall, Types, CallTypes, TableTypes,
            tableVars, CallerGoto
<1>1. CASE GetMuxStream(c)
  BY <1>1, ChannelAssumption DEF GetMuxStream
<1>2. CASE GetNewStream(c)
  <2>1. /\ UNCHANGED tableVars /\ pc[c] = "try"
        /\ \E l \in {"store", "close", "try", "failed"} : pc' = [pc EXCEPT ![c] = l]
    BY <1>2 DEF GetNewStream, TryNext
  <2> QED BY <2>1
<1>3. CASE CloseAfterShutdown(c)
  <2>1. /\ UNCHANGED tableVars /\ pc[c] = "close"
        /\ \E l \in {"try", "failed"} : pc' = [pc EXCEPT ![c] = l]
    BY <1>3 DEF CloseAfterShutdown, TryNext
  <2> QED BY <2>1
<1>4. CASE StoreCursor(c)
  BY <1>4, ChannelAssumption DEF StoreCursor, Unlock
<1>5. CASE CloseStream(c)
  BY <1>5 DEF CloseStream
<1>6. CASE GiveUp(c)
  BY <1>6, ChannelAssumption DEF GiveUp, Unlock
<1> QED BY <1>1, <1>2, <1>3, <1>4, <1>5, <1>6

(* Steps of the expiry task keep the locking.                              *)
LEMMA ExpiryLocks ==
  ASSUME Types, Locks, Expiry
  PROVE  CallsLock' /\ SweepLocks' /\ RemovedIdle'
<1> USE ChannelAssumption DEF Locks, CallsLock, SweepLocks, RemovedIdle, InCall, Types, TableTypes,
            ExpUnchanged, ExpGoto, callVars
<1>1. CASE ExpireTick
  BY <1>1 DEF ExpireTick
<1>2. CASE ExpireCheck
  BY <1>2 DEF ExpireCheck
<1>3. CASE ExpireRetire
  BY <1>3 DEF ExpireRetire
<1>4. CASE ExpireSweep
  BY <1>4 DEF ExpireSweep, ExpireKeep
<1>5. CASE ExpireCount
  BY <1>5 DEF ExpireCount, ExpireKeep
<1>6. CASE ExpireClose
  BY <1>6 DEF ExpireClose
<1> QED BY <1>1, <1>2, <1>3, <1>4, <1>5, <1>6 DEF Expiry

(* Heartbeats of an ad hoc channel do not come to reconnect.               *)
LEMMA BeatNoReconnect ==
  ASSUME Types, NoReconnect, Step
  PROVE  NoReconnect'
<1> SUFFICES ASSUME origin = "adhoc", origin' = "adhoc" PROVE \A s \in Session : hb'[s].pc # "reinit"
  <2>1. origin' = origin
    BY DEF Step, GetMuxStream, GetNewStream, CloseAfterShutdown, StoreCursor, CloseStream,
       GiveUp, HeartbeatStart, HeartbeatBegin, HeartbeatTick, HeartbeatPing,
       HeartbeatClose, HeartbeatReinit, HBUnchanged, SessionDown, DumpStat, Expire,
       Expiry, ExpireTick, ExpireCheck, ExpireRetire, ExpireSweep, ExpireCount,
       ExpireClose, StopLocalChannels, ExpUnchanged, tableVars
  <2> QED BY <2>1 DEF NoReconnect
<1>1. /\ \A s \in Session : hb[s].pc # "reinit"
      /\ hb \in [Session -> BeatType]
  BY DEF NoReconnect, Types, SessionTypes
<1>2. ASSUME NEW b \in [Session -> BeatType], NEW i, NEW o, hb' = Spawn(b, i, o),
             \A s \in Session : b[s].pc # "reinit"
      PROVE  \A s \in Session : hb'[s].pc # "reinit"
  BY <1>2 DEF Spawn
<1>3. CASE UNCHANGED hb
  BY <1>1, <1>3
<1>4. ASSUME NEW c \in Caller, GetNewStream(c) PROVE \A s \in Session : hb'[s].pc # "reinit"
  BY <1>1, <1>2, <1>4 DEF GetNewStream
<1>5. ASSUME NEW t \in Session, Beat(t) PROVE \A s \in Session : hb'[s].pc # "reinit"
  <2>1. ~HeartbeatReinit(t)
    BY <1>1 DEF HeartbeatReinit
  <2>2. CASE HeartbeatStart(t) \/ HeartbeatBegin(t) \/ HeartbeatClose(t)
    BY <1>1, <2>2 DEF HeartbeatStart, HeartbeatBegin, HeartbeatClose, HBGoto, BeatType
  <2>3. CASE HeartbeatTick(t)
    BY <1>1, <2>3 DEF HeartbeatTick, BeatType
  <2>4. CASE HeartbeatPing(t)
    <3>1. PICK l \in {"wait", "close"} : hb' = [hb EXCEPT ![t].pc = l, ![t].sess = None]
      BY <2>4 DEF HeartbeatPing
    <3> QED BY <1>1, <3>1 DEF BeatType
  <2> QED BY <1>5, <2>1, <2>2, <2>3, <2>4 DEF Beat
<1> QED BY <1>3, <1>4, <1>5 DEF Step, Beat, GetMuxStream, CloseAfterShutdown, StoreCursor, CloseStream,
       GiveUp, SessionDown, DumpStat, Expire, Expiry, ExpireTick, ExpireCheck, ExpireRetire,
       ExpireSweep, ExpireCount, ExpireClose, StopLocalChannels, ExpUnchanged, callVars
(* The locking holds after every step.                                     *)
LEMMA StepLocks ==
  ASSUME Types, Locks, Step
  PROVE  Locks'
<1>1. NoReconnect'
  BY BeatNoReconnect DEF Locks
<1>2. ASSUME NEW c \in Caller,
             \/ GetMuxStream(c) \/ GetNewStream(c) \/ CloseAfterShutdown(c)
             \/ StoreCursor(c) \/ CloseStream(c) \/ GiveUp(c)
      PROVE  CallsLock' /\ SweepLocks' /\ RemovedIdle'
  BY <1>2, CallerLocks
<1>3. ASSUME Expiry PROVE CallsLock' /\ SweepLocks' /\ RemovedIdle'
  BY <1>3, ExpiryLocks
<1>4. ASSUME UNCHANGED <<pc, tableVars>> PROVE CallsLock' /\ SweepLocks' /\ RemovedIdle'
  BY <1>4 DEF Locks, CallsLock, SweepLocks, RemovedIdle, tableVars
<1>5. ASSUME StopLocalChannels PROVE CallsLock' /\ SweepLocks' /\ RemovedIdle'
  BY <1>5 DEF StopLocalChannels, ExpUnchanged, callVars, Locks, CallsLock, SweepLocks, RemovedIdle
<1>6. ASSUME \/ \E s \in Session : Beat(s) \/ SessionDown(s)
             \/ \E i \in Holder : DumpStat(i) \/ Expire(i)
      PROVE  UNCHANGED <<pc, tableVars>>
  BY <1>6 DEF Beat, HeartbeatStart, HeartbeatBegin, HeartbeatTick, HeartbeatPing,
         HeartbeatClose, HeartbeatReinit, HBUnchanged, SessionDown, DumpStat, Expire, callVars
<1>7. CallsLock' /\ SweepLocks' /\ RemovedIdle'
  BY <1>2, <1>3, <1>4, <1>5, <1>6 DEF Step, Beat
<1> QED BY <1>1, <1>7 DEF Locks

(* Authenticated sessions stay authenticated.                              *)
LEMMA AuthenticatedStays ==
  ASSUME Types, Step
  PROVE  (1 .. made) \ orphan \subseteq (1 .. made') \ orphan'
<1>1. made \in Nat
  BY ChannelAssumption DEF Types, SessionTypes
<1>2. ASSUME NEW r, NEW o \in InitOutcomes(r), Made(o)
      PROVE  (1 .. made) \ orphan \subseteq (1 .. made') \ orphan'
  <2>1. o.new = None \/ o.new = made + 1
    BY DEF InitOutcomes
  <2>2. CASE o.new = None
    BY <1>2, <2>2 DEF Made
  <2>3. CASE o.new # None
    <3>1. made' = made + 1 /\ orphan' \subseteq orphan \cup {made + 1}
      BY <1>2, <2>1, <2>3 DEF Made
    <3> QED BY <1>1, <3>1
  <2> QED BY <2>2, <2>3
<1>3. ASSUME NEW c \in Caller, GetNewStream(c)
      PROVE  (1 .. made) \ orphan \subseteq (1 .. made') \ orphan'
  BY <1>2, <1>3 DEF GetNewStream
<1>4. ASSUME NEW s \in Session, HeartbeatReinit(s)
      PROVE  (1 .. made) \ orphan \subseteq (1 .. made') \ orphan'
  BY <1>2, <1>4 DEF HeartbeatReinit
<1>5. CASE UNCHANGED <<made, orphan>>
  BY <1>5
<1> QED BY <1>3, <1>4, <1>5 DEF Step, GetMuxStream, CloseAfterShutdown, StoreCursor, CloseStream,
       GiveUp, HeartbeatStart, HeartbeatBegin, HeartbeatTick, HeartbeatPing,
       HeartbeatClose, HBUnchanged, SessionDown, DumpStat, Expire, Expiry, ExpireTick,
       ExpireCheck, ExpireRetire, ExpireSweep, ExpireCount, ExpireClose,
       StopLocalChannels, ExpUnchanged

(* A stream is on an authenticated session.                                *)
LEMMA StepStreamsMade ==
  ASSUME IInv, IInv', StreamsMade, Step
  PROVE  StreamsMade'
<1> USE DEF IInv, Types, CallTypes
<1>1. (1 .. made) \ orphan \subseteq (1 .. made') \ orphan'
  BY AuthenticatedStays
<1>2. CASE UNCHANGED callVars
  BY <1>1, <1>2 DEF callVars, StreamsMade
<1>3. ASSUME NEW c \in Caller, GetNewStream(c) PROVE StreamsMade'
  <2>1. PICK i \in Holder : i = At(c)
    BY AtIsHolder
  <2>2. PICK o \in InitOutcomes(Check(holder[i])) :
          /\ holder' = [holder EXCEPT ![i] = [o.holder EXCEPT !.retired = @ \ Drained(o.holder)]]
          /\ \/ o.holder.cur # None /\ on' = [on EXCEPT ![c] = o.holder.cur]
             \/ /\ UNCHANGED on
                /\ \E l \in {"close", "try", "failed"} : pc' = [pc EXCEPT ![c] = l]
          /\ \E l \in {"store", "close", "try", "failed"} : pc' = [pc EXCEPT ![c] = l]
    BY <1>3, <2>1 DEF GetNewStream, TryNext, CallerGoto
  <2>3. CASE o.holder.cur # None /\ on' = [on EXCEPT ![c] = o.holder.cur]
    <3>1. holder[i] \in HolderType /\ holder \in [Holder -> HolderType] /\ made \in 0 .. MaxSession
      BY DEF SessionTypes
    <3>2. o.holder \in HolderType
      BY <3>1, CheckFacts, InitFacts
    <3>3. holder'[i].cur = o.holder.cur /\ o.holder.cur \in Session
      BY <2>2, <2>3, <3>1, <3>2 DEF HolderType
    <3>4. o.holder.cur \in Owned(i)'
      BY <3>3 DEF Owned, Owns
    <3>5. o.holder.cur \in (1 .. made') \ orphan'
      BY <3>4 DEF Apart
    <3> QED BY <1>1, <2>2, <2>3, <3>5 DEF StreamsMade
  <2>4. CASE UNCHANGED on /\ \E l \in {"close", "try", "failed"} : pc' = [pc EXCEPT ![c] = l]
    BY <1>1, <2>4 DEF StreamsMade
  <2> QED BY <2>2, <2>3, <2>4
<1>4. ASSUME NEW c \in Caller,
             \/ GetMuxStream(c) \/ CloseAfterShutdown(c)
             \/ StoreCursor(c) \/ CloseStream(c) \/ GiveUp(c)
      PROVE  StreamsMade'
  <2>1. /\ \A d \in Caller : on'[d] = on[d] \/ pc'[d] = "idle"
        /\ \A d \in Caller : pc'[d] \in {"store", "using"} => pc[d] \in {"store", "using"}
    BY <1>4 DEF GetMuxStream, CloseAfterShutdown, StoreCursor, CloseStream, GiveUp, CallerGoto, TryNext
  <2> QED BY <1>1, <2>1 DEF StreamsMade
<1> QED BY <1>2, <1>3, <1>4, OthersLeaveCalls DEF Step, Beat

(***************************************************************************)
(* While the expiry task has the channel, or once it has removed it, a     *)
(* holder never gets a current session, a session is retired only when it  *)
(* was current, and no stream is opened.                                   *)
(***************************************************************************)
Guarded == exp.pc # "wait" \/ place = "expired"

Shrinks(i) ==
  /\ holder'[i].cur \in {None, holder[i].cur}
  /\ \A s \in holder'[i].retired : s \in holder[i].retired \/ (s = holder[i].cur /\ s # None)
  /\ holder'[i].cur # None => holder'[i].retired \subseteq holder[i].retired

(* A guarded step of a caller closes a stream.                             *)
LEMMA GuardedCaller ==
  ASSUME Types, Locks, Guarded, NEW c \in Caller,
         \/ GetMuxStream(c) \/ GetNewStream(c) \/ CloseAfterShutdown(c)
         \/ StoreCursor(c) \/ CloseStream(c) \/ GiveUp(c)
  PROVE  CloseStream(c)
<1>1. origin = "adhoc" /\ pc[c] \notin InCall
  BY ChannelAssumption DEF Guarded, Locks, SweepLocks, RemovedIdle, CallsLock
<1>2. ~GetMuxStream(c)
  BY <1>1, ChannelAssumption DEF Guarded, Locks, SweepLocks, RemovedIdle, GetMuxStream
<1> QED BY <1>1, <1>2 DEF InCall, GetNewStream, CloseAfterShutdown, StoreCursor, GiveUp, CallerGoto

(* A guarded step opens no stream.                                         *)
LEMMA GuardedStreams ==
  ASSUME Types, Locks, Guarded, Step
  PROVE  \A s : Streams(s)' \subseteq Streams(s)
<1>1. CASE UNCHANGED callVars
  BY <1>1 DEF callVars, Streams
<1>2. ASSUME NEW c \in Caller, CloseStream(c) PROVE \A s : Streams(s)' \subseteq Streams(s)
  BY <1>2 DEF CloseStream, CallerGoto, Streams, Types, CallTypes
<1> QED BY <1>1, <1>2, GuardedCaller, OthersLeaveCalls DEF Step, Beat

(* A guarded step only takes sessions from a holder, or retires its        *)
(* current one.                                                            *)
LEMMA GuardedShrinks ==
  ASSUME Types, Locks, Guarded, Step, NEW i \in Holder
  PROVE  Shrinks(i)
<1> USE DEF Types, SessionTypes
<1>1. holder[i] \in HolderType /\ None \notin Session /\ holder[i].retired \subseteq Session
  BY ChannelAssumption DEF HolderType, Session
<1>2. ASSUME holder'[i].cur \in {None, holder[i].cur}, holder'[i].retired \subseteq holder[i].retired
      PROVE  Shrinks(i)
  BY <1>2 DEF Shrinks
<1>3. CASE UNCHANGED holder
  BY <1>2, <1>3
<1>4. ASSUME NEW c \in Caller,
             \/ GetMuxStream(c) \/ GetNewStream(c) \/ CloseAfterShutdown(c)
             \/ StoreCursor(c) \/ CloseStream(c) \/ GiveUp(c)
      PROVE  Shrinks(i)
  BY <1>3, <1>4, GuardedCaller DEF CloseStream
<1>5. ASSUME NEW j \in Holder, CloseHolder(j) PROVE Shrinks(i)
  BY <1>1, <1>2, <1>5 DEF CloseHolder, HolderType
<1>6. ASSUME NEW t \in Session, Beat(t) PROVE Shrinks(i)
  <2>1. PICK j \in Holder : j = hb[t].of
    BY DEF BeatType
  <2>2. ~HeartbeatReinit(t)
    BY DEF HeartbeatReinit, Guarded, Locks, NoReconnect, SweepLocks, RemovedIdle
  <2>3. CASE HeartbeatStart(t) \/ HeartbeatPing(t)
    BY <1>3, <2>3 DEF HeartbeatStart, HeartbeatPing
  <2>4. CASE HeartbeatBegin(t)
    BY <1>1, <1>2, <2>1, <2>4 DEF HeartbeatBegin, HolderType
  <2>5. CASE HeartbeatClose(t)
    BY <1>5, <2>1, <2>5 DEF HeartbeatClose
  <2>6. CASE HeartbeatTick(t)
    <3>1. holder' = [holder EXCEPT ![j] = Check(holder[j])]
      BY <2>1, <2>6 DEF HeartbeatTick
    <3>2. CASE i # j
      BY <1>2, <3>1, <3>2
    <3>3. CASE i = j /\ ~(holder[i].cur # None /\ holder[i].expired)
      BY <1>2, <3>1, <3>3 DEF Check
    <3>4. CASE i = j /\ holder[i].cur # None /\ holder[i].expired
      <4>1. holder'[i] = [holder[i] EXCEPT !.retired = @ \cup {holder[i].cur}, !.cur = None]
        BY <3>1, <3>4 DEF Check
      <4>2. holder'[i].cur = None /\ holder'[i].retired = holder[i].retired \cup {holder[i].cur}
        BY <1>1, <4>1 DEF HolderType
      <4> QED BY <3>4, <4>2 DEF Shrinks
    <3> QED BY <3>2, <3>3, <3>4
  <2> QED BY <1>6, <2>2, <2>3, <2>4, <2>5, <2>6 DEF Beat
<1>7. ASSUME NEW s \in Session, SessionDown(s) PROVE Shrinks(i)
  BY <1>3, <1>7 DEF SessionDown
<1>8. ASSUME NEW j \in Holder, DumpStat(j) \/ Expire(j) PROVE Shrinks(i)
  BY <1>1, <1>2, <1>8 DEF DumpStat, Expire, HolderType
<1>9. CASE Expiry
  <2>1. PICK j \in Holder : j = exp.at
    BY DEF TableTypes
  <2>2. CASE ExpireTick \/ ExpireCheck \/ ExpireCount
    BY <1>3, <2>2 DEF ExpireTick, ExpireCheck, ExpireCount
  <2>3. CASE ExpireRetire
    <3>1. CASE holder[j].cur = None \/ i # j
      BY <1>2, <2>1, <2>3, <3>1 DEF ExpireRetire
    <3>2. CASE i = j /\ holder[i].cur # None
      <4>1. holder'[i] = [holder[i] EXCEPT !.retired = @ \cup {holder[i].cur}, !.cur = None]
        BY <2>1, <2>3, <3>2 DEF ExpireRetire
      <4>2. holder'[i].cur = None /\ holder'[i].retired = holder[i].retired \cup {holder[i].cur}
        BY <1>1, <4>1 DEF HolderType
      <4> QED BY <3>2, <4>2 DEF Shrinks
    <3> QED BY <3>1, <3>2
  <2>4. CASE ExpireSweep
    <3>1. holder' = [holder EXCEPT ![j] = [holder[j] EXCEPT !.retired = @ \ Drained(holder[j])]]
      BY <2>1, <2>4 DEF ExpireSweep
    <3> QED BY <1>1, <1>2, <3>1 DEF HolderType
  <2>5. CASE ExpireClose
    BY <1>5, <2>1, <2>5 DEF ExpireClose
  <2> QED BY <1>9, <2>2, <2>3, <2>4, <2>5 DEF Expiry
<1>10. CASE StopLocalChannels
  BY <1>3, <1>10 DEF StopLocalChannels
<1> QED BY <1>4, <1>6, <1>7, <1>8, <1>9, <1>10 DEF Step, Beat
(* What the expiry task has established stays, and each of its steps adds  *)
(* its part.                                                               *)
LEMMA StepRemoval ==
  ASSUME IInv, Locks, Removal, Step
  PROVE  Removal'
<1> USE DEF IInv, Types
<1>1. CASE ~Guarded
  <2>1. exp.pc = "wait" /\ place # "expired"
    BY <1>1 DEF Guarded
  <2>2. CASE ExpireTick
    <3>1. exp' = [pc |-> "check", at |-> 0] /\ place' = "table"
      BY <2>2 DEF ExpireTick
    <3> QED BY <3>1 DEF Removal, SweptClean, CountAlone, CloseUnused, Swept
  <2>3. CASE ~ExpireTick
    <3>1. UNCHANGED exp /\ place' # "expired"
      BY <2>1, <2>3 DEF Step, GetMuxStream, GetNewStream, CloseAfterShutdown, StoreCursor,
         CloseStream, GiveUp, HeartbeatStart, HeartbeatBegin, HeartbeatTick, HeartbeatPing,
         HeartbeatClose, HeartbeatReinit, HBUnchanged, SessionDown, DumpStat, Expire,
         Expiry, ExpireCheck, ExpireRetire, ExpireSweep, ExpireCount, ExpireClose,
         StopLocalChannels, tableVars
    <3> QED BY <2>1, <3>1 DEF Removal, SweptClean, CountAlone, CloseUnused, Swept
  <2> QED BY <2>2, <2>3
<1>2. CASE Guarded
  <2>1. \A s : Streams(s)' \subseteq Streams(s)
    BY <1>2, GuardedStreams
  <2>2. \A i \in Holder : Shrinks(i)
    BY <1>2, GuardedShrinks
  <2>3. ASSUME NEW i \in Holder, Clean(i) PROVE Clean(i)'
    <3>1. Shrinks(i)
      BY <2>2
    <3> QED BY <2>1, <2>3, <3>1 DEF Clean, Shrinks
  <2>4. ASSUME NEW i \in Holder, \A s \in Owned(i) : Streams(s) = {}
        PROVE  \A s \in Owned(i)' : Streams(s)' = {}
    <3>1. Shrinks(i) /\ None \notin Session
      BY <2>2, ChannelAssumption DEF Session
    <3>2. Owned(i)' \subseteq Owned(i)
      BY <3>1 DEF Owned, Owns, Shrinks
    <3> QED BY <2>1, <2>4, <3>2
  <2>5. Swept \subseteq Holder /\ exp.at \in Holder
    <3>1. exp.at \in Holder
      BY DEF TableTypes
    <3> QED BY <3>1, ChannelAssumption DEF Swept, Holder
  <2>6. PICK k \in Holder : k = exp.at
    BY <2>5
  <2>7. CASE UNCHANGED exp /\ (place' = "expired" => place = "expired")
    <3>1. Swept' \subseteq Swept
      BY <2>7 DEF Swept, Locks, RemovedIdle
    <3>2. SweptClean'
      BY <2>3, <2>5, <3>1 DEF Removal, SweptClean
    <3>3. CountAlone'
      <4> SUFFICES ASSUME exp.pc = "count" PROVE holder'[k].cur = None \/ holder'[k].retired = {}
        BY <2>6, <2>7 DEF CountAlone
      <4>1. holder[k].cur = None \/ holder[k].retired = {}
        BY <2>6 DEF Removal, CountAlone
      <4> QED BY <2>2, <4>1 DEF Shrinks
    <3>4. CloseUnused'
      <4> SUFFICES ASSUME exp.pc = "close" PROVE \A s \in Owned(k)' : Streams(s)' = {}
        BY <2>6, <2>7 DEF CloseUnused
      <4>1. \A s \in Owned(k) : Streams(s) = {}
        BY <2>6 DEF Removal, CloseUnused
      <4> QED BY <2>4, <4>1
    <3> QED BY <3>2, <3>3, <3>4 DEF Removal
  <2>8. ASSUME UNCHANGED place, exp'.at = k, exp'.pc # "wait", exp.pc # "wait"
        PROVE  SweptClean'
    <3>1. Swept' \subseteq Swept
      BY <2>6, <2>8 DEF Swept
    <3> QED BY <2>3, <2>5, <3>1 DEF Removal, SweptClean
  <2>9. ASSUME UNCHANGED place, exp'.pc = "wait", exp.pc # "wait"
        PROVE  Removal'
    <3>1. place # "expired"
      BY <2>9 DEF Locks, RemovedIdle
    <3> QED BY <2>9, <3>1 DEF Removal, SweptClean, CountAlone, CloseUnused, Swept
  <2>10. CASE ExpireTick
    BY <1>2, <2>10 DEF ExpireTick, Guarded
  <2>11. CASE ExpireCheck
    <3>1. UNCHANGED place /\ exp'.at = k /\ exp'.pc \in {"retire", "sweep"} /\ exp.pc = "check"
      BY <2>6, <2>11 DEF ExpireCheck, ExpGoto, TableTypes
    <3> QED BY <2>8, <3>1 DEF Removal, CountAlone, CloseUnused
  <2>12. CASE ExpireRetire
    <3>1. UNCHANGED place /\ exp'.at = k /\ exp'.pc \in {"panic", "sweep"} /\ exp.pc = "retire"
      BY <2>6, <2>12 DEF ExpireRetire, ExpGoto, TableTypes
    <3> QED BY <2>8, <3>1 DEF Removal, CountAlone, CloseUnused
  <2>13. CASE ExpireSweep
    <3> DEFINE r == [holder[k] EXCEPT !.retired = @ \ Drained(holder[k])]
    <3>1. UNCHANGED place /\ exp.pc = "sweep" /\ holder' = [holder EXCEPT ![k] = r]
      BY <2>6, <2>13 DEF ExpireSweep
    <3>2. holder'[k] = r /\ holder[k] \in HolderType
      BY <3>1 DEF SessionTypes
    <3>3. CASE Kept(r)
      <4>1. exp'.pc = "wait"
        BY <2>6, <2>13, <3>3 DEF ExpireSweep, ExpireKeep, ExpGoto, TableTypes
      <4> QED BY <2>9, <3>1, <4>1
    <3>4. CASE ~Kept(r)
      <4>1. /\ exp'.at = k
            /\ exp'.pc = IF r.cur # None THEN "count" ELSE "close"
        BY <2>6, <2>13, <3>4 DEF ExpireSweep, ExpGoto, TableTypes
      <4>2. holder'[k].retired = {} /\ None \notin Session
        BY <3>2, <3>4, ChannelAssumption DEF Kept, Session
      <4>3. CountAlone'
        BY <4>1, <4>2 DEF CountAlone
      <4>4. CloseUnused'
        <5> SUFFICES ASSUME r.cur = None PROVE Owned(k)' = {}
          BY <4>1 DEF CloseUnused
        <5> QED BY <3>2, <4>2 DEF Owned, Owns
      <4> QED BY <2>8, <3>1, <4>1, <4>3, <4>4 DEF Removal
    <3> QED BY <3>3, <3>4
  <2>14. CASE ExpireCount
    <3>1. UNCHANGED <<place, holder, callVars>> /\ exp.pc = "count"
      BY <2>14 DEF ExpireCount, ExpUnchanged
    <3>2. CASE exp'.pc = "wait"
      BY <2>9, <3>1, <3>2
    <3>3. CASE exp'.pc = "panic" /\ exp'.at = k
      BY <2>8, <3>1, <3>3 DEF Removal, CountAlone, CloseUnused
    <3>4. CASE /\ exp'.pc = "close" /\ exp'.at = k
               /\ holder[k].cur # None /\ ~(NumStreams(holder[k].cur) > 0)
      <4>1. holder[k].retired = {}
        BY <2>6, <3>1, <3>4 DEF Removal, CountAlone
      <4>2. Streams(holder[k].cur) = {}
        <5>1. IsFiniteSet(Streams(holder[k].cur))
          BY ChannelAssumption, FS_Subset DEF Streams
        <5>2. Cardinality(Streams(holder[k].cur)) \in Nat /\ ~(Cardinality(Streams(holder[k].cur)) > 0)
          BY <3>4, <5>1, FS_CardinalityType DEF NumStreams
        <5> QED BY <5>1, <5>2, FS_EmptySet
      <4>3. \A s \in Owned(k) : Streams(s) = {}
        BY <4>1, <4>2 DEF Owned, Owns
      <4>4. CloseUnused'
        BY <2>4, <3>4, <4>3 DEF CloseUnused
      <4> QED BY <2>8, <3>1, <3>4, <4>4 DEF Removal, CountAlone
    <3> QED BY <2>6, <2>14, <3>2, <3>3, <3>4 DEF ExpireCount, ExpireKeep, ExpGoto, TableTypes
  <2>15. CASE ExpireClose
    <3>1. exp.pc = "close" /\ CloseHolder(k) /\ place # "expired"
      BY <2>6, <2>15 DEF ExpireClose, Locks, RemovedIdle
    <3>2. \A s \in Owned(k)' : Streams(s)' = {}
      BY <2>4, <2>6, <3>1 DEF Removal, CloseUnused
    <3>3. holder'[k].cur = None /\ holder' \in [Holder -> HolderType]
      BY <3>1, HandoverClose, <2>15 DEF ExpireClose, ExpUnchanged
    <3>4. Clean(k)'
      <4>1. holder'[k].retired \subseteq Owned(k)'
        BY <3>3 DEF Owned, Owns, HolderType
      <4> QED BY <3>2, <3>3, <4>1 DEF Clean
    <3>5. \A i \in 0 .. k - 1 : i \in Swept
      BY <2>6, <3>1 DEF Swept
    <3>6. ASSUME NEW i \in 0 .. k PROVE i \in Holder /\ Clean(i)'
      <4>1. i = k \/ i \in 0 .. k - 1
        BY <2>6, ChannelAssumption DEF Holder
      <4> QED BY <2>3, <2>5, <3>4, <3>5, <4>1 DEF Removal, SweptClean
    <3>7. CASE k + 1 < N
      <4>1. exp' = [pc |-> "check", at |-> k + 1] /\ UNCHANGED place
        BY <2>6, <2>15, <3>7 DEF ExpireClose
      <4>2. Swept' = 0 .. (k + 1) - 1 /\ 0 .. (k + 1) - 1 = 0 .. k
        BY <3>1, <4>1, ChannelAssumption DEF Swept, Holder
      <4> QED BY <3>6, <4>1, <4>2 DEF Removal, SweptClean, CountAlone, CloseUnused
    <3>8. CASE ~(k + 1 < N)
      <4>1. exp' = [pc |-> "wait", at |-> 0]
        BY <2>6, <2>15, <3>8 DEF ExpireClose
      <4>2. Holder = 0 .. k
        BY <3>8, ChannelAssumption DEF Holder
      <4> QED BY <3>6, <4>1, <4>2 DEF Removal, SweptClean, CountAlone, CloseUnused, Swept
    <3> QED BY <3>7, <3>8
  <2>16. CASE ~Expiry
    <3>1. UNCHANGED exp /\ (place' = "expired" => place = "expired")
      BY <2>16 DEF Step, GetMuxStream, GetNewStream, CloseAfterShutdown, StoreCursor,
         CloseStream, GiveUp, HeartbeatStart, HeartbeatBegin, HeartbeatTick, HeartbeatPing,
         HeartbeatClose, HeartbeatReinit, HBUnchanged, SessionDown, DumpStat, Expire,
         StopLocalChannels, tableVars
    <3> QED BY <2>7, <3>1
  <2> QED BY <2>10, <2>11, <2>12, <2>13, <2>14, <2>15, <2>16 DEF Expiry
<1> QED BY <1>1, <1>2

RInv == IInv /\ Locks /\ StreamsMade /\ Removal

(* The locking, and what the expiry task has established, always hold.     *)
THEOREM RemovalInvariance == Spec => []RInv
<1>1. RInv /\ [Next]_vars => RInv'
  <2> SUFFICES ASSUME RInv, [Next]_vars PROVE RInv'
    OBVIOUS
  <2>1. IInv'
    BY StepIInv DEF RInv
  <2>2. CASE UNCHANGED vars
    <3>1. \A s : Streams(s)' = Streams(s)
      BY <2>2 DEF Streams, vars
    <3>2. \A i \in Holder : Owned(i)' = Owned(i)
      BY <2>2 DEF Owned, Owns, vars
    <3>3. exp.at \in Holder
      BY DEF RInv, IInv, Types, TableTypes
    <3>4. Removal'
      BY <2>2, <3>1, <3>2, <3>3 DEF RInv, vars, tableVars, Removal, SweptClean, CountAlone,
         CloseUnused, Swept, Clean
    <3> QED BY <2>1, <2>2, <3>4 DEF RInv, vars, tableVars, Locks, CallsLock, NoReconnect,
         SweepLocks, RemovedIdle, StreamsMade
  <2>3. CASE Step
    BY <2>1, <2>3, StepLocks, StepStreamsMade, StepRemoval DEF RInv, IInv
  <2> QED BY <2>2, <2>3 DEF Next
<1>2. Init => RInv
  BY InitIInv, InitRemoval DEF RInv
<1> QED BY <1>1, <1>2, PTL DEF Spec

(* An ad hoc channel that the expiry task has removed has no current       *)
(* session and no stream on an open one.                                   *)
THEOREM RemovesUnused == Spec => []RemovedIsUnused
<1>1. RInv => RemovedIsUnused
  <2> SUFFICES ASSUME RInv, place = "expired" PROVE RemovedIsUnused
    BY DEF RemovedIsUnused
  <2>1. \A i \in Holder : Clean(i)
    BY DEF RInv, Removal, SweptClean, Swept
  <2>2. ASSUME NEW s \in Session, st[s] # "closed", Streams(s) # {} PROVE FALSE
    <3>1. PICK c \in Caller : on[c] = s /\ pc[c] \in {"store", "using"}
      BY <2>2 DEF Streams
    <3>2. s \in (1 .. made) \ orphan
      BY <3>1 DEF RInv, StreamsMade
    <3>3. PICK i \in Holder : Owns(i, s)
      BY <2>2, <3>2 DEF RInv, IInv, SessionsAccounted
    <3>4. s # None
      BY ChannelAssumption DEF Session
    <3> QED BY <2>1, <2>2, <3>3, <3>4 DEF Clean, Owns
  <2> QED BY <2>1, <2>2 DEF RemovedIsUnused, Clean
<1> QED BY RemovalInvariance, <1>1, PTL
=============================================================================
