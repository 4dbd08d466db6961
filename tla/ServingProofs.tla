--------------------------- MODULE ServingProofs ---------------------------
(***************************************************************************)
(* What serves the connections at both ends: a mux session of the server   *)
(* (ServerSession), the loops that the client starts and stops             *)
(* (LocalServers), and a connection of its proxy (LocalProxy).  They share *)
(* no state; each has its own specification and its own invariant.         *)
(***************************************************************************)
EXTENDS ServerSession, LocalServers, LocalProxy, FiniteSetTheorems, SequenceTheorems, TLAPS

-----------------------------------------------------------------------------
(***************************************************************************)
(* A served session.                                                       *)
(*                                                                         *)
(* A session at rest is listed because a context that is neither listed    *)
(* nor marked closed has a handler that will list it: the one that takes   *)
(* the counter to zero.  That needs the counter to be exact, and needs     *)
(* ctx.closed to be set before a closer deletes the context from the list. *)
(***************************************************************************)

\* The closers mark the context before they do anything else.
ClosersMark ==
  /\ main \in {"closeConn", "delete", "done"} => closed
  /\ reaper \in {"closeConn", "delete"} => closed

\* A closed context whose session is up is about to close it.
ClosedGoesDown == closed /\ open => main = "closeConn" \/ reaper = "closeConn"

\* The handlers that come to list the session if they are the last.
Listing == {"delete", "work", "dec", "check", "store"}

UnlistedIsBusy ==
  main = "accept" /\ ~closed /\ ~listed => \E s \in Stream : h[s] \in Listing

SessionInv == /\ TypeOK
        /\ CounterExact
        /\ ClosersMark
        /\ ClosedGoesDown
        /\ UnlistedIsBusy

-----------------------------------------------------------------------------
(* The counter *)

(* The streams that are counted are finitely many.                         *)
LEMMA CountedFinite == IsFiniteSet(Counted) /\ Cardinality(Counted) \in Nat
<1>1. IsFiniteSet(Counted)
  BY StreamAssumption, FS_Subset DEF Counted
<1> QED
  BY <1>1, FS_CardinalityType

\* A step that moves no handler past an AddInt32 leaves the count alone.
LEMMA CountKept ==
  ASSUME CounterExact, streamCouter' = streamCouter,
         \A s \in Stream : h'[s] \in {"delete", "work", "dec"}
                             <=> h[s] \in {"delete", "work", "dec"}
  PROVE  CounterExact'
<1>1. Counted' = Counted
  BY DEF Counted
<1> QED
  BY <1>1 DEF CounterExact

-----------------------------------------------------------------------------
(* The inductive invariant *)

\* Initially nothing runs.
LEMMA SessionInitially == Init => SessionInv
<1> SUFFICES ASSUME Init PROVE SessionInv
  OBVIOUS
<1>1. TypeOK
  BY DEF Init, TypeOK, ReaperPCs, MainPCs, HandlerPCs
<1>2. CounterExact
  <2>1. Counted = {}
    BY DEF Init, Counted
  <2> QED
    BY <2>1, FS_EmptySet DEF Init, CounterExact
<1>3. ClosersMark /\ ClosedGoesDown /\ UnlistedIsBusy
  BY DEF Init, ClosersMark, ClosedGoesDown, UnlistedIsBusy
<1> QED
  BY <1>1, <1>2, <1>3 DEF SessionInv

(***************************************************************************)
(* The steps of ServProxyMuxSession.  LoadCounter skips the list only when *)
(* a handler is being counted.                                             *)
(***************************************************************************)
LEMMA MainSteps ==
  ASSUME SessionInv,
         \/ ServProxyMuxSession \/ AuthOK \/ AuthFails \/ LoadCounter
         \/ StoreEmpty \/ AcceptFails \/ MainClose
         \/ \E s \in Stream : AcceptStream(s)
  PROVE  SessionInv'
<1>1. TypeOK
  BY DEF SessionInv
<1>2. TypeOK'
  BY <1>1 DEF TypeOK, ServProxyMuxSession, AuthOK, AuthFails, LoadCounter,
      StoreEmpty, AcceptFails, MainClose, AcceptStream, MainGoto, HGoto, ctxVars,
      MainPCs, HandlerPCs, CloseSteps
<1>3. CounterExact'
  BY <1>1, CountKept
  DEF SessionInv, TypeOK, ServProxyMuxSession, AuthOK, AuthFails, LoadCounter,
      StoreEmpty, AcceptFails, MainClose, AcceptStream, HGoto, ctxVars
<1>4. ClosersMark' /\ ClosedGoesDown'
  <2>1. CASE AuthFails
    <3>1. /\ main \in {"auth", "exchange"} /\ main' = "close" /\ reaper' = reaper
          /\ closed' = closed /\ open' \in {open, FALSE}
      BY <2>1 DEF AuthFails, MainGoto
    <3>2. open' => open
      BY <3>1, Zenon
    <3> QED
      BY <3>1, <3>2 DEF SessionInv, ClosersMark, ClosedGoesDown
  <2>2. CASE MainClose
    BY <2>2 DEF SessionInv, ClosersMark, ClosedGoesDown, MainClose, MainGoto
  <2>3. CASE ~AuthFails /\ ~MainClose
    <3>1. /\ main' \in {"auth", "exchange", "load", "store", "accept", "close"}
          /\ main # "closeConn" /\ reaper' = reaper
          /\ closed' = closed /\ open' = open
      BY <2>3 DEF ServProxyMuxSession, AuthOK, LoadCounter, StoreEmpty,
          AcceptFails, AcceptStream, MainGoto, ctxVars
    <3> QED
      BY <3>1 DEF SessionInv, ClosersMark, ClosedGoesDown
  <2> QED
    BY <2>1, <2>2, <2>3
<1>5. UnlistedIsBusy'
  <2>1. CASE LoadCounter
    <3>1. streamCouter # 0 => \E s \in Stream : h[s] \in Listing
      BY FS_EmptySet DEF SessionInv, CounterExact, Counted, Listing
    <3> QED
      BY <2>1, <3>1 DEF LoadCounter, ctxVars, UnlistedIsBusy
  <2>2. CASE ~LoadCounter
    BY <2>2
    DEF ServProxyMuxSession, AuthOK, AuthFails, StoreEmpty, AcceptFails,
        MainClose, AcceptStream, MainGoto, UnlistedIsBusy
  <2> QED
    BY <2>1, <2>2
<1> QED
  BY <1>2, <1>3, <1>4, <1>5 DEF SessionInv

(***************************************************************************)
(* The steps of the reaper, of the clock, of the client and of main().     *)
(***************************************************************************)
LEMMA ReaperSteps ==
  ASSUME SessionInv,
         \/ ReaperStart \/ SetDefaultMuxConfig \/ ReaperPick \/ ReaperClose
         \/ IdleTimePasses \/ Drop \/ UNCHANGED vars
  PROVE  SessionInv'
<1>1. TypeOK
  BY DEF SessionInv
<1>2. TypeOK'
  BY <1>1 DEF TypeOK, ReaperStart, SetDefaultMuxConfig, ReaperPick, ReaperClose,
      IdleTimePasses, Drop, vars, ctxVars, ReaperPCs, CloseSteps
<1>3. CounterExact'
  BY CountKept
  DEF SessionInv, ReaperStart, SetDefaultMuxConfig, ReaperPick, ReaperClose,
      IdleTimePasses, Drop, vars, ctxVars
<1>4. ClosersMark' /\ ClosedGoesDown'
  BY DEF SessionInv, ClosersMark, ClosedGoesDown, ReaperStart, SetDefaultMuxConfig,
         ReaperPick, ReaperClose, IdleTimePasses, Drop, vars, ctxVars
<1>5. UnlistedIsBusy'
  BY DEF SessionInv, ClosersMark, UnlistedIsBusy, ReaperStart, SetDefaultMuxConfig,
         ReaperPick, ReaperClose, IdleTimePasses, Drop, vars, ctxVars
<1> QED
  BY <1>2, <1>3, <1>4, <1>5 DEF SessionInv

(***************************************************************************)
(* The steps of a handler.  One that takes the counter down without taking *)
(* it to zero leaves another handler that is being counted.                *)
(***************************************************************************)
LEMMA HandlerSteps ==
  ASSUME NEW s \in Stream, SessionInv,
         \/ HandlerAdd(s) \/ HandlerDelete(s) \/ HandlerWork(s)
         \/ HandlerDec(s) \/ HandlerCheck(s) \/ HandlerStore(s)
  PROVE  SessionInv'
<1>1. TypeOK
  BY DEF SessionInv
<1>2. \A r \in Stream : r # s => h'[r] = h[r]
  BY <1>1 DEF TypeOK, HandlerAdd, HandlerDelete, HandlerWork, HandlerDec,
      HandlerCheck, HandlerStore, HGoto
<1>3. ClosersMark' /\ ClosedGoesDown'
  BY DEF SessionInv, ClosersMark, ClosedGoesDown, HandlerAdd, HandlerDelete,
         HandlerWork, HandlerDec, HandlerCheck, HandlerStore, ctxVars
<1>4. CASE HandlerAdd(s)
  <2>1. h[s] = "add" /\ h'[s] = "delete" /\ streamCouter' = streamCouter + 1
    BY <1>1, <1>4 DEF TypeOK, HandlerAdd, HGoto
  <2>2. Counted' = Counted \cup {s} /\ s \notin Counted
    BY <1>2, <2>1 DEF Counted
  <2>3. CounterExact'
    BY <2>1, <2>2, CountedFinite, FS_AddElement DEF SessionInv, CounterExact
  <2>4. TypeOK'
    BY <1>1, <1>4 DEF TypeOK, HandlerAdd, HGoto, HandlerPCs
  <2>5. UnlistedIsBusy'
    BY <2>1 DEF UnlistedIsBusy, Listing
  <2> QED
    BY <1>3, <2>3, <2>4, <2>5 DEF SessionInv
<1>5. CASE HandlerDec(s)
  <2>1. /\ h[s] = "dec" /\ h'[s] = IF streamCouter = 1 THEN "check" ELSE "done"
        /\ streamCouter' = streamCouter - 1
    BY <1>1, <1>5 DEF TypeOK, HandlerDec, HGoto
  <2>2. Counted' = Counted \ {s} /\ s \in Counted
    BY <1>2, <2>1 DEF Counted
  <2>3. CounterExact'
    BY <2>1, <2>2, CountedFinite, FS_RemoveElement DEF SessionInv, CounterExact
  <2>4. streamCouter # 0
    BY <2>2, CountedFinite, FS_EmptySet DEF SessionInv, CounterExact
  <2>5. TypeOK'
    BY <1>1, <1>5, <2>4 DEF TypeOK, HandlerDec, HGoto, HandlerPCs
  <2>6. streamCouter # 1 => Counted' # {}
    <3>1. streamCouter # 1 => streamCouter' # 0
      BY <1>1, <2>1, <2>4 DEF TypeOK
    <3>2. streamCouter' = Cardinality(Counted')
      BY <2>3 DEF CounterExact
    <3> QED
      BY <3>1, <3>2, FS_EmptySet
  <2>7. UnlistedIsBusy'
    <3>1. streamCouter # 1 => \E r \in Stream : h'[r] \in Listing
      BY <2>6 DEF Counted, Listing
    <3> QED
      BY <2>1, <3>1 DEF UnlistedIsBusy, Listing
  <2> QED
    BY <1>3, <2>3, <2>5, <2>7 DEF SessionInv
<1>6. CASE HandlerDelete(s) \/ HandlerWork(s) \/ HandlerCheck(s) \/ HandlerStore(s)
  <2>1. TypeOK'
    BY <1>1, <1>6 DEF TypeOK, HandlerDelete, HandlerWork, HandlerCheck,
        HandlerStore, HGoto, ctxVars, HandlerPCs
  <2>2. CounterExact'
    BY <1>1, <1>6, CountKept DEF SessionInv, TypeOK, HandlerDelete, HandlerWork,
        HandlerCheck, HandlerStore, HGoto, ctxVars
  <2>3. UnlistedIsBusy'
    <3>1. CASE HandlerDelete(s)
      BY <1>1, <3>1 DEF TypeOK, HandlerDelete, HGoto, UnlistedIsBusy, Listing
    <3>2. CASE HandlerWork(s)
      <4>1. (h[s] = "work" /\ h'[s] = "dec") \/ h[s] = "p2p"
        BY <1>1, <3>2 DEF TypeOK, HandlerWork, HGoto
      <4> QED
        BY <1>2, <3>2, <4>1
        DEF SessionInv, HandlerWork, ctxVars, UnlistedIsBusy, Listing
    <3>3. CASE HandlerCheck(s)
      BY <1>1, <3>3 DEF TypeOK, HandlerCheck, HGoto, ctxVars, UnlistedIsBusy,
                        Listing
    <3>4. CASE HandlerStore(s)
      BY <3>4 DEF HandlerStore, UnlistedIsBusy
    <3> QED
      BY <1>6, <3>1, <3>2, <3>3, <3>4
  <2> QED
    BY <1>3, <2>1, <2>2, <2>3 DEF SessionInv
<1> QED
  BY <1>4, <1>5, <1>6

\* Every step keeps the invariant.
LEMMA SessionSteps == SessionInv /\ [Next]_vars => SessionInv'
BY MainSteps, ReaperSteps, HandlerSteps DEF Next

-----------------------------------------------------------------------------
(* The theorems *)

(***************************************************************************)
(* The inductive invariant holds in every reachable state.                 *)
(***************************************************************************)
THEOREM SessionInvariance == Spec => []SessionInv
BY SessionInitially, SessionSteps, PTL DEF Spec

(***************************************************************************)
(* Type correctness: the program counters of the three kinds of goroutine  *)
(* stay in their ranges and streamCouter is never negative.                *)
(***************************************************************************)
THEOREM SessionTypes == Spec => []TypeOK
<1>1. SessionInv => TypeOK
  BY DEF SessionInv
<1> QED
  BY <1>1, SessionInvariance, PTL

(***************************************************************************)
(* streamCouter counts the streams being proxied: it is never negative and *)
(* no interleaving of AddInt32 calls loses one.                            *)
(***************************************************************************)
THEOREM CounterIsExact == Spec => []CounterExact
<1>1. SessionInv => CounterExact
  BY DEF SessionInv
<1> QED
  BY <1>1, SessionInvariance, PTL

(***************************************************************************)
(* A session that waits for a stream with no handler at work is known to   *)
(* the reaper, whatever the order of the stores to and the deletions from  *)
(* emptySessions.                                                          *)
(***************************************************************************)
THEOREM IdleIsKnown == Spec => []RestingIsListed
<1>1. SessionInv => RestingIsListed
  BY DEF SessionInv, UnlistedIsBusy, Listing, RestingIsListed
<1> QED
  BY <1>1, SessionInvariance, PTL

(***************************************************************************)
(* A closed context that nobody is closing any more has its mux session    *)
(* down.                                                                   *)
(***************************************************************************)
THEOREM NoHalfClosed == Spec => []ClosedIsDown
<1>1. SessionInv => ClosedIsDown
  BY DEF SessionInv, ClosedGoesDown, ClosedIsDown, CloseSteps
<1> QED
  BY <1>1, SessionInvariance, PTL

-----------------------------------------------------------------------------
(***************************************************************************)
(* The servers of the client.                                              *)
(*                                                                         *)
(* t.close closes the stream that the session has by then.  That it is the *)
(* reader's own needs that nobody attached another one, and so that a      *)
(* single UDP loop opens a stream only for a session without one.          *)
(***************************************************************************)

\* Where a UDP loop is with the datagram it has read.
Opening == {"handle", "open", "connect", "attach"}
Closing == {"close", "delete"}

UdpType == [pc : {"none", "socket", "test", "recv", "end"} \cup Opening \cup Closing,
            t : Packets \cup {Nil}, s : Packets \cup {Nil}]
ReaderType == [pc : {"none", "read", "close", "delete", "done"}, t : Packets \cup {Nil}]

\* The types of the accept loops, and of the UDP loops with their sessions.
AcceptTypes ==
  /\ phase \in {"stopped", "started", "exited"} /\ running \in BOOLEAN
  /\ lis \in [Starts -> {"none", "open", "closed"}]
  /\ loop \in [Starts -> {"none", "test", "accept", "end"}]
UdpTypes ==
  /\ gen \in 0 .. MaxStart /\ arrived \in 0 .. MaxPacket
  /\ udp \in [Starts -> UdpType]
  /\ table \in [Flow -> Packets \cup {Nil}]
  /\ flow \in [Packets -> Flow \cup {Nil}]
  /\ stream \in [Packets -> Packets \cup {Nil}]
  /\ status \in [Packets -> {"none", "open", "ended", "closed"}]
  /\ reader \in [Packets -> ReaderType]

\* A loop that was not started does nothing; one that has read a datagram has
\* its session, and the stream it opens is nobody else's.
OwnDatagrams ==
  \A g \in Starts :
    /\ udp[g].pc # "none" => g <= gen
    /\ udp[g].pc \in Opening \cup Closing => udp[g].t \in Packets
    /\ udp[g].pc \in Opening =>
         /\ udp[g].s \in Packets /\ udp[g].s <= arrived /\ reader[udp[g].s].pc = "none"
         /\ \A q \in Starts : q # g /\ udp[q].pc \in Opening => udp[q].s # udp[g].s

\* A single loop opens a stream only for a session without one.
OneStream ==
  gen <= 1 => \A g \in Starts :
    udp[g].pc \in {"open", "connect", "attach"} => stream[udp[g].t] = Nil

\* The stream of a reader is its session's until a second loop attaches
\* another, and is closed when the reader has closed its session.
Readers ==
  \A s \in Packets : reader[s].pc # "none" =>
    /\ s <= arrived /\ reader[s].t \in Packets
    /\ reader[s].pc \in {"read", "close"} => gen > 1 \/ stream[reader[s].t] = s
    /\ reader[s].pc \in {"delete", "done"} =>
         status[s] = "closed" \/ (gen > 1 /\ stream[reader[s].t] # s)

ServersInv == AcceptTypes /\ UdpTypes /\ OwnDatagrams /\ OneStream /\ Readers

\* Before the first Start no loop runs and no datagram has come.
LEMMA ServersInitially == ServersInit => ServersInv
BY ServersAssumption DEF ServersInit, ServersInv, AcceptTypes, UdpTypes, OwnDatagrams, OneStream,
  Readers, UdpType, ReaderType, Opening, Closing

\* What a step of a UDP loop changes of udp.
LEMMA UdpMoves ==
  ASSUME UdpTypes, NEW g \in Starts,
         NEW l \in {"none", "socket", "test", "recv", "end"} \cup Opening \cup Closing
  PROVE  /\ UdpGoto(g, l) =>
              /\ udp' \in [Starts -> UdpType]
              /\ udp'[g].pc = l /\ udp'[g].t = udp[g].t /\ udp'[g].s = udp[g].s
              /\ \A q \in Starts : q # g => udp'[q] = udp[q]
         /\ UdpNext(g) =>
              /\ udp' \in [Starts -> UdpType] /\ udp'[g].pc = "test"
              /\ \A q \in Starts : q # g => udp'[q] = udp[q]
<1>1. \A u \in UdpType : [u EXCEPT !.pc = l] \in UdpType
  BY DEF UdpType
<1>2. \A u \in UdpType : /\ [u EXCEPT !.pc = l].pc = l
                         /\ [u EXCEPT !.pc = l].t = u.t /\ [u EXCEPT !.pc = l].s = u.s
  BY DEF UdpType
<1>3. [pc |-> "test", t |-> Nil, s |-> Nil] \in UdpType
  BY DEF UdpType
<1>4. CASE UdpGoto(g, l)
  <2>1. udp' = [udp EXCEPT ![g] = [udp[g] EXCEPT !.pc = l]]
    BY <1>4 DEF UdpTypes, UdpGoto
  <2>2. udp[g] \in UdpType
    BY DEF UdpTypes
  <2>3. udp' \in [Starts -> UdpType] /\ \A q \in Starts : q # g => udp'[q] = udp[q]
    BY <1>1, <2>1, <2>2 DEF UdpTypes
  <2>4. udp'[g] = [udp[g] EXCEPT !.pc = l]
    BY <2>1 DEF UdpTypes
  <2>5. udp'[g].pc = l /\ udp'[g].t = udp[g].t /\ udp'[g].s = udp[g].s
    BY <1>2, <2>2, <2>4
  <2>6. udp'[g].pc # "test" => ~UdpNext(g)
    BY DEF UdpNext, UdpTypes
  <2>7. UdpNext(g) => udp'[g].pc = "test"
    BY <2>6
  <2> QED BY <2>3, <2>5, <2>7
<1>5. CASE UdpNext(g)
  <2>1. /\ udp' \in [Starts -> UdpType] /\ udp'[g].pc = "test"
        /\ \A q \in Starts : q # g => udp'[q] = udp[q]
    BY <1>3, <1>5 DEF UdpTypes, UdpNext
  <2> QED BY <1>4, <2>1
<1> QED BY <1>4, <1>5

\* What a step of a reader changes.
LEMMA ReaderMoves ==
  ASSUME UdpTypes, NEW s \in Packets, NEW l \in {"none", "read", "close", "delete", "done"},
         ReaderGoto(s, l)
  PROVE  /\ reader' \in [Packets -> ReaderType]
         /\ reader'[s].pc = l /\ reader'[s].t = reader[s].t
         /\ \A q \in Packets : q # s => reader'[q] = reader[q]
<1>1. \A u \in ReaderType : /\ [u EXCEPT !.pc = l] \in ReaderType
                            /\ [u EXCEPT !.pc = l].pc = l /\ [u EXCEPT !.pc = l].t = u.t
  BY DEF ReaderType
<1> QED
  BY <1>1 DEF UdpTypes, ReaderGoto

\* Closing the stream of a session closes no other, and opens none.
LEMMA CloseEffect ==
  ASSUME UdpTypes, NEW t \in Packets
  PROVE  /\ CloseStream(t) \in [Packets -> {"none", "open", "ended", "closed"}]
         /\ \A s \in Packets : CloseStream(t)[s] = IF s = stream[t] THEN "closed" ELSE status[s]
BY ServersAssumption DEF UdpTypes, CloseStream, Packets

\* Start adds a loop, Stop ends streams and leaves the loops alone.
LEMMA StartStops ==
  ASSUME ServersInv, Start \/ Stop PROVE ServersInv'
<1> USE ServersAssumption DEF ServersInv
<1>1. CASE Start
  <2>1. gen \in 0 .. MaxStart /\ gen + 1 \in Starts /\ gen' = gen + 1
    BY <1>1 DEF Start, UdpTypes, Starts
  <2>2. UNCHANGED <<arrived, table, flow, stream, status, reader>>
    BY <1>1 DEF Start
  <2>3. AcceptTypes'
    BY <1>1, <2>1 DEF Start, AcceptTypes
  <2>4. udp' = udp \/ UdpGoto(gen + 1, "socket")
    BY <1>1 DEF Start, UdpGoto
  <2>5. /\ udp' \in [Starts -> UdpType]
        /\ \A q \in Starts : udp'[q] = udp[q] \/ (udp'[q].pc = "socket" /\ q = gen + 1)
    BY <2>1, <2>4, UdpMoves DEF UdpTypes
  <2>6. UdpTypes'
    BY <2>1, <2>2, <2>5 DEF UdpTypes, Starts
  <2>7. gen' \in 0 .. MaxStart /\ \A q \in Starts : (q <= gen => q <= gen') /\ q \in Int
    BY <2>1 DEF Starts
  <2>8. OwnDatagrams'
    BY <2>1, <2>2, <2>5, <2>7 DEF OwnDatagrams, Opening, Closing
  <2>9. OneStream'
    <3>1. gen' <= 1 => gen <= 1
      BY <2>1
    <3> QED BY <2>2, <2>5, <3>1 DEF OneStream
  <2>10. Readers'
    <3>1. gen > 1 => gen' > 1
      BY <2>1
    <3> QED BY <2>2, <3>1 DEF Readers
  <2> QED BY <2>3, <2>6, <2>8, <2>9, <2>10
<1>2. CASE Stop
  <2>1. UNCHANGED <<gen, udp, arrived, table, flow, stream, reader>>
    BY <1>2 DEF Stop
  <2>2. AcceptTypes'
    BY <1>2 DEF Stop, AcceptTypes
  <2>3. /\ status' \in [Packets -> {"none", "open", "ended", "closed"}]
        /\ \A s \in Packets : status[s] = "closed" => status'[s] = "closed"
    BY <1>2 DEF Stop, UdpTypes
  <2>4. UdpTypes'
    BY <2>1, <2>3 DEF UdpTypes
  <2>5. OwnDatagrams' /\ OneStream'
    BY <2>1 DEF OwnDatagrams, OneStream
  <2>6. Readers'
    BY <2>1, <2>3 DEF Readers
  <2> QED BY <2>2, <2>4, <2>5, <2>6
<1> QED BY <1>1, <1>2

\* The accept loop of a proxy shares nothing with the UDP sessions.
LEMMA AcceptSteps ==
  ASSUME ServersInv, NEW g \in Starts, AcceptTCP(g) \/ TestRunning(g) PROVE ServersInv'
<1>1. UNCHANGED <<gen, udpVars>> /\ AcceptTypes'
  BY DEF ServersInv, AcceptTypes, AcceptTCP, TestRunning
<1>2. UNCHANGED <<gen, udp, arrived, table, flow, stream, status, reader>>
  BY <1>1 DEF udpVars
<1> QED
  BY <1>1, <1>2 DEF ServersInv, UdpTypes, OwnDatagrams, OneStream, Readers

\* A step of a UDP loop that neither opens, attaches nor closes a stream.
LEMMA UdpQuiet ==
  ASSUME ServersInv, NEW g \in Starts,
         NEW l \in {"none", "socket", "test", "recv", "end"} \cup Closing,
         UdpGoto(g, l) \/ UdpNext(g), udp[g].pc # "none",
         l \in Closing => udp[g].pc \in Opening \cup Closing,
         UNCHANGED <<tcpVars, arrived, flow, stream, status, reader>>,
         table' \in [Flow -> Packets \cup {Nil}]
  PROVE  ServersInv'
<1> USE DEF ServersInv
<1>1. /\ udp' \in [Starts -> UdpType] /\ udp'[g].pc \in {l, "test"}
      /\ udp'[g].pc = l => udp'[g].t = udp[g].t \/ l = "test"
      /\ \A q \in Starts : q # g => udp'[q] = udp[q]
  BY UdpMoves
<1>2. UNCHANGED <<phase, running, gen, lis, loop>>
  BY DEF tcpVars
<1>3. AcceptTypes' /\ UdpTypes'
  BY <1>1, <1>2 DEF AcceptTypes, UdpTypes
<1>4. OwnDatagrams'
  BY <1>1, <1>2 DEF OwnDatagrams, Opening, Closing
<1>5. OneStream'
  BY <1>1, <1>2 DEF OneStream, Closing
<1>6. Readers'
  BY <1>2 DEF Readers
<1> QED BY <1>3, <1>4, <1>5, <1>6

\* The steps of a UDP loop but for the datagram.  Attach is the one that
\* OneStream is for: with one loop, the session had no stream before.
LEMMA UdpSteps ==
  ASSUME ServersInv, NEW g \in Starts, UdpLoop(g) \/ RecvFails(g) PROVE ServersInv'
<1> USE DEF ServersInv
<1>t. table \in [Flow -> Packets \cup {Nil}]
  BY DEF UdpTypes
<1>1. CASE Bind(g) \/ TestUdp(g) \/ RecvFails(g)
  <2>1. /\ UNCHANGED <<tcpVars, arrived, table, flow, stream, status, reader>>
        /\ udp[g].pc # "none"
        /\ UdpGoto(g, "test") \/ UdpGoto(g, "end") \/ UdpGoto(g, "recv")
    BY <1>1 DEF Bind, TestUdp, RecvFails
  <2>2. "test" \notin Closing /\ "end" \notin Closing /\ "recv" \notin Closing
    BY DEF Closing
  <2> QED BY <2>1, <2>2, <1>t, UdpQuiet
<1>2. CASE Handle(g)
  <2>1. /\ UNCHANGED <<tcpVars, arrived, table, flow, stream, status, reader>>
        /\ udp[g].pc = "handle"
        /\ \/ UdpNext(g) \/ UdpGoto(g, "close")
           \/ stream[udp[g].t] = Nil /\ UdpGoto(g, "open")
    BY <1>2 DEF Handle
  <2>2. CASE UdpNext(g) \/ UdpGoto(g, "close")
    <3>1. "close" \in Closing /\ "handle" \in Opening \cup Closing
      BY DEF Closing, Opening
    <3> QED BY <2>1, <2>2, <3>1, <1>t, UdpQuiet
  <2>3. CASE stream[udp[g].t] = Nil /\ UdpGoto(g, "open")
    <3>1. /\ udp' \in [Starts -> UdpType] /\ udp'[g].pc = "open"
          /\ udp'[g].t = udp[g].t /\ udp'[g].s = udp[g].s
          /\ \A q \in Starts : q # g => udp'[q] = udp[q]
      BY <2>3, UdpMoves DEF Opening
    <3>2. UNCHANGED <<phase, running, gen, lis, loop>>
      BY <2>1 DEF tcpVars
    <3>3. AcceptTypes' /\ UdpTypes'
      BY <2>1, <3>1, <3>2 DEF AcceptTypes, UdpTypes
    <3>4. OwnDatagrams'
      BY <2>1, <3>1, <3>2 DEF OwnDatagrams, Opening, Closing
    <3>5. OneStream'
      BY <2>1, <2>3, <3>1, <3>2 DEF OneStream
    <3>6. Readers'
      BY <2>1, <3>2 DEF Readers
    <3> QED BY <3>3, <3>4, <3>5, <3>6
  <2> QED BY <2>1, <2>2, <2>3
<1>3. CASE UdpMuxStream(g)
  <2>1. CASE UdpGoto(g, "close") /\ UNCHANGED status
    <3>1. "close" \in Closing /\ "open" \in Opening \cup Closing
      BY DEF Closing, Opening
    <3>2. udp[g].pc = "open" /\ UNCHANGED <<tcpVars, arrived, table, flow, stream, reader>>
      BY <1>3 DEF UdpMuxStream
    <3> QED BY <2>1, <3>1, <3>2, <1>t, UdpQuiet
  <2>2. CASE UdpGoto(g, "connect") /\ status' = [status EXCEPT ![udp[g].s] = "open"]
    <3>1. udp[g].pc = "open" /\ UNCHANGED <<tcpVars, arrived, table, flow, stream, reader>>
      BY <1>3 DEF UdpMuxStream
    <3>2. /\ udp' \in [Starts -> UdpType] /\ udp'[g].pc = "connect"
          /\ udp'[g].t = udp[g].t /\ udp'[g].s = udp[g].s
          /\ \A q \in Starts : q # g => udp'[q] = udp[q]
      BY <2>2, UdpMoves DEF Opening
    <3>3. UNCHANGED <<phase, running, gen, lis, loop>>
      BY <3>1 DEF tcpVars
    <3>4. /\ status' \in [Packets -> {"none", "open", "ended", "closed"}]
          /\ \A s \in Packets : s # udp[g].s => status'[s] = status[s]
      BY <2>2 DEF UdpTypes
    <3>5. reader[udp[g].s].pc = "none"
      BY <3>1 DEF OwnDatagrams, Opening
    <3>6. AcceptTypes' /\ UdpTypes'
      BY <3>1, <3>2, <3>3, <3>4 DEF AcceptTypes, UdpTypes
    <3>7. OwnDatagrams'
      BY <3>1, <3>2, <3>3 DEF OwnDatagrams, Opening, Closing
    <3>8. OneStream'
      BY <3>1, <3>2, <3>3 DEF OneStream
    <3>9. Readers'
      BY <3>1, <3>3, <3>4, <3>5 DEF Readers
    <3> QED BY <3>6, <3>7, <3>8, <3>9
  <2> QED BY <1>3, <2>1, <2>2 DEF UdpMuxStream
<1>4. CASE Connect(g)
  <2>1. /\ UNCHANGED <<tcpVars, arrived, table, flow, stream, status, reader>>
        /\ udp[g].pc = "connect" /\ (UdpGoto(g, "close") \/ UdpGoto(g, "attach"))
    BY <1>4 DEF Connect
  <2>2. CASE UdpGoto(g, "close")
    <3>1. "close" \in Closing /\ "connect" \in Opening \cup Closing
      BY DEF Closing, Opening
    <3> QED BY <2>1, <2>2, <3>1, <1>t, UdpQuiet
  <2>3. CASE UdpGoto(g, "attach")
    <3>1. /\ udp' \in [Starts -> UdpType] /\ udp'[g].pc = "attach"
          /\ udp'[g].t = udp[g].t /\ udp'[g].s = udp[g].s
          /\ \A q \in Starts : q # g => udp'[q] = udp[q]
      BY <2>3, UdpMoves DEF Opening
    <3>2. UNCHANGED <<phase, running, gen, lis, loop>>
      BY <2>1 DEF tcpVars
    <3>3. AcceptTypes' /\ UdpTypes'
      BY <2>1, <3>1, <3>2 DEF AcceptTypes, UdpTypes
    <3>4. OwnDatagrams'
      BY <2>1, <3>1, <3>2 DEF OwnDatagrams, Opening, Closing
    <3>5. OneStream'
      BY <2>1, <3>1, <3>2 DEF OneStream
    <3>6. Readers'
      BY <2>1, <3>2 DEF Readers
    <3> QED BY <3>3, <3>4, <3>5, <3>6
  <2> QED BY <2>1, <2>2, <2>3
<1>5. CASE Attach(g)
  <2> DEFINE t == udp[g].t
             s == udp[g].s
  <2>1. /\ t \in Packets /\ s \in Packets /\ s <= arrived /\ reader[s].pc = "none"
        /\ \A q \in Starts : q # g /\ udp[q].pc \in Opening => udp[q].s # s
        /\ g <= gen
    BY <1>5 DEF Attach, OwnDatagrams, Opening
  <2>2. gen <= 1 => stream[t] = Nil /\ \A q \in Starts : q # g => udp[q].pc = "none"
    <3>1. gen <= 1 => stream[t] = Nil
      BY <1>5 DEF Attach, OneStream
    <3>2. ASSUME gen <= 1, NEW q \in Starts, q # g PROVE udp[q].pc = "none"
      <4>1. q \in Nat \ {0} /\ g \in Nat \ {0} /\ gen \in Nat
        BY ServersAssumption DEF UdpTypes, Starts
      <4>2. ~(q <= gen)
        BY <2>1, <3>2, <4>1
      <4> QED BY <4>2 DEF OwnDatagrams
    <3> QED BY <3>1, <3>2
  <2>3. /\ \A k \in Packets : stream'[k] = IF k = t THEN s ELSE stream[k]
        /\ stream' \in [Packets -> Packets \cup {Nil}]
    BY <1>5, <2>1 DEF Attach, UdpTypes
  <2>4. /\ \A k \in Packets : k # s => reader'[k] = reader[k]
        /\ reader'[s].pc = "read" /\ reader'[s].t = t
        /\ reader' \in [Packets -> ReaderType]
    <3>1. [pc |-> "read", t |-> t] \in ReaderType
      BY <2>1 DEF ReaderType
    <3> QED BY <1>5, <2>1, <3>1 DEF Attach, UdpTypes
  <2>5. UNCHANGED <<phase, running, gen, lis, loop, arrived, table, flow, status>>
    BY <1>5 DEF Attach, tcpVars
  <2>6. /\ udp' \in [Starts -> UdpType] /\ udp'[g].pc = "test"
        /\ \A q \in Starts : q # g => udp'[q] = udp[q]
    BY <1>5, UdpMoves DEF Attach
  <2> HIDE DEF t, s
  <2>7. AcceptTypes' /\ UdpTypes'
    BY <2>3, <2>4, <2>5, <2>6 DEF AcceptTypes, UdpTypes
  <2>8. OwnDatagrams'
    BY <2>1, <2>4, <2>5, <2>6 DEF OwnDatagrams, Opening, Closing
  <2>9. OneStream'
    BY <2>2, <2>5, <2>6 DEF OneStream
  <2>10. Readers'
    <3> SUFFICES ASSUME NEW k \in Packets, reader'[k].pc # "none"
                 PROVE  (/\ k <= arrived /\ reader[k].t \in Packets
                         /\ reader[k].pc \in {"read", "close"} => gen > 1 \/ stream[reader[k].t] = k
                         /\ reader[k].pc \in {"delete", "done"} =>
                              status[k] = "closed" \/ (gen > 1 /\ stream[reader[k].t] # k))'
      BY DEF Readers
    <3>1. CASE k = s
      BY <2>1, <2>3, <2>4, <2>5, <3>1
    <3>2. CASE k # s
      <4>1. reader'[k] = reader[k] /\ reader[k].t \in Packets
        BY <2>4, <3>2 DEF Readers
      <4>2. stream'[reader[k].t] = IF reader[k].t = t THEN s ELSE stream[reader[k].t]
        BY <2>3, <4>1
      <4>3. gen \in Int /\ (gen > 1 \/ gen <= 1) /\ k # Nil
        BY ServersAssumption DEF UdpTypes, Packets
      <4> QED BY <2>2, <2>5, <3>2, <4>1, <4>2, <4>3 DEF Readers
    <3> QED BY <3>1, <3>2
  <2> QED BY <2>7, <2>8, <2>9, <2>10
<1>6. CASE CloseSession(g)
  <2>1. /\ udp[g].pc = "close" /\ status' = CloseStream(udp[g].t) /\ UdpGoto(g, "delete")
        /\ UNCHANGED <<arrived, table, flow, stream, reader>>
        /\ UNCHANGED <<phase, running, gen, lis, loop>>
    BY <1>6 DEF CloseSession, tcpVars
  <2>2. udp[g].t \in Packets
    BY <2>1 DEF OwnDatagrams, Closing
  <2>3. /\ status' \in [Packets -> {"none", "open", "ended", "closed"}]
        /\ \A s \in Packets : status[s] = "closed" => status'[s] = "closed"
    BY <2>1, <2>2, CloseEffect
  <2>4. /\ udp' \in [Starts -> UdpType] /\ udp'[g].pc = "delete" /\ udp'[g].t = udp[g].t
        /\ \A q \in Starts : q # g => udp'[q] = udp[q]
    BY <2>1, UdpMoves DEF Closing
  <2>5. AcceptTypes' /\ UdpTypes'
    BY <2>1, <2>3, <2>4 DEF AcceptTypes, UdpTypes
  <2>6. OwnDatagrams'
    BY <2>1, <2>2, <2>4 DEF OwnDatagrams, Opening, Closing
  <2>7. OneStream'
    BY <2>1, <2>4 DEF OneStream
  <2>8. Readers'
    BY <2>1, <2>3 DEF Readers
  <2> QED BY <2>5, <2>6, <2>7, <2>8
<1>7. CASE DeleteSession(g)
  <2>1. /\ table' = Delete(udp[g].t) /\ UdpNext(g) /\ udp[g].pc = "delete"
        /\ UNCHANGED <<tcpVars, arrived, flow, stream, status, reader>>
    BY <1>7 DEF DeleteSession
  <2>2. table' \in [Flow -> Packets \cup {Nil}]
    BY <2>1, <1>t DEF Delete
  <2>3. "test" \notin Closing
    BY DEF Closing
  <2> QED BY <2>1, <2>2, <2>3, UdpQuiet
<1> QED BY <1>1, <1>2, <1>3, <1>4, <1>5, <1>6, <1>7 DEF UdpLoop

\* A datagram: getTUDPSession finds or makes the session, and the stream it
\* may open has a name that nobody used.
LEMMA RecvStep ==
  ASSUME ServersInv, NEW g \in Starts, NEW k \in Flow, Recv(g, k) PROVE ServersInv'
<1> USE DEF ServersInv
<1> DEFINE p == arrived + 1
           t == IF table[k] = Nil THEN p ELSE table[k]
<1>1. p \in Packets /\ arrived \in Nat /\ t \in Packets
  BY ServersAssumption DEF Recv, UdpTypes
<1>2. /\ arrived' = p /\ udp[g].pc = "recv"
      /\ table' \in [Flow -> Packets \cup {Nil}] /\ flow' \in [Packets -> Flow \cup {Nil}]
      /\ UNCHANGED <<stream, status, reader, phase, running, gen, lis, loop>>
  BY <1>1 DEF Recv, UdpTypes, tcpVars
<1>3. /\ udp' \in [Starts -> UdpType] /\ udp'[g] = [pc |-> "handle", t |-> t, s |-> p]
      /\ \A q \in Starts : q # g => udp'[q] = udp[q]
  <2>1. [pc |-> "handle", t |-> t, s |-> p] \in UdpType
    BY <1>1 DEF UdpType, Opening
  <2> QED BY <2>1 DEF Recv, UdpTypes
<1>4. udp'[g].pc = "handle" /\ udp'[g].t = t /\ udp'[g].s = p
  BY <1>3
<1>5. /\ p \in 0 .. MaxPacket
      /\ \A s \in Packets : s <= arrived => s <= p /\ s # p
  BY <1>1 DEF Packets
<1> HIDE DEF p, t
<1>6. AcceptTypes' /\ UdpTypes'
  BY <1>2, <1>3, <1>5 DEF AcceptTypes, UdpTypes
<1>7. OwnDatagrams'
  <2>1. reader[p].pc = "none"
    BY <1>1, <1>5 DEF Readers
  <2>2. g <= gen
    BY <1>2 DEF OwnDatagrams
  <2>3. p <= p
    BY <1>1 DEF Packets
  <2>4. \A q \in Starts : q # g /\ udp[q].pc \in Opening =>
          udp[q].s \in Packets /\ udp[q].s <= p /\ udp[q].s # p
    BY <1>5 DEF OwnDatagrams
  <2> SUFFICES ASSUME NEW q \in Starts
               PROVE (/\ udp[q].pc # "none" => q <= gen
                      /\ udp[q].pc \in Opening \cup Closing => udp[q].t \in Packets
                      /\ udp[q].pc \in Opening =>
                           /\ udp[q].s \in Packets /\ udp[q].s <= arrived
                           /\ reader[udp[q].s].pc = "none"
                           /\ \A r \in Starts : r # q /\ udp[r].pc \in Opening => udp[r].s # udp[q].s)'
    BY DEF OwnDatagrams
  <2>5. CASE q = g
    BY <1>1, <1>2, <1>3, <1>4, <2>1, <2>2, <2>3, <2>4, <2>5
  <2>6. CASE q # g
    BY <1>2, <1>3, <1>4, <2>4, <2>6 DEF OwnDatagrams
  <2> QED BY <2>5, <2>6
<1>8. OneStream'
  BY <1>2, <1>3, <1>4 DEF OneStream
<1>9. Readers'
  BY <1>2, <1>5 DEF Readers
<1> QED BY <1>6, <1>7, <1>8, <1>9

\* The goroutine that reads a stream, and the end of a stream.
LEMMA ReaderSteps ==
  ASSUME ServersInv, NEW s \in Packets, Reader(s) \/ StreamEnds(s) PROVE ServersInv'
<1> USE DEF ServersInv
<1>1. UNCHANGED <<phase, running, gen, lis, loop, udp, arrived, flow, stream>>
  BY DEF Reader, ReadEnds, ReaderCloses, ReaderDeletes, StreamEnds, tcpVars
<1>2. AcceptTypes' /\ OneStream'
  BY <1>1 DEF AcceptTypes, OneStream
<1>3. CASE ReadEnds(s)
  <2>1. reader[s].pc = "read" /\ ReaderGoto(s, "close") /\ UNCHANGED <<table, status>>
    BY <1>3 DEF ReadEnds
  <2>2. /\ reader' \in [Packets -> ReaderType]
        /\ reader'[s].pc = "close" /\ reader'[s].t = reader[s].t
        /\ \A q \in Packets : q # s => reader'[q] = reader[q]
    BY <2>1, ReaderMoves
  <2>3. UdpTypes' /\ OwnDatagrams'
    BY <1>1, <2>1, <2>2 DEF UdpTypes, OwnDatagrams
  <2>4. Readers'
    BY <1>1, <2>1, <2>2 DEF Readers
  <2> QED BY <1>2, <2>3, <2>4
<1>4. CASE ReaderCloses(s)
  <2>1. /\ reader[s].pc = "close" /\ ReaderGoto(s, "delete") /\ UNCHANGED table
        /\ status' = CloseStream(reader[s].t)
    BY <1>4 DEF ReaderCloses
  <2>2. /\ reader' \in [Packets -> ReaderType]
        /\ reader'[s].pc = "delete" /\ reader'[s].t = reader[s].t
        /\ \A q \in Packets : q # s => reader'[q] = reader[q]
    BY <2>1, ReaderMoves
  <2>3. reader[s].t \in Packets
    BY <2>1 DEF Readers
  <2>4. /\ status' \in [Packets -> {"none", "open", "ended", "closed"}]
        /\ \A q \in Packets : status[q] = "closed" \/ q = stream[reader[s].t] => status'[q] = "closed"
    BY <2>1, <2>3, CloseEffect
  <2>5. UdpTypes' /\ OwnDatagrams'
    BY <1>1, <2>1, <2>2, <2>4 DEF UdpTypes, OwnDatagrams
  <2>6. Readers'
    BY <1>1, <2>1, <2>2, <2>3, <2>4 DEF Readers
  <2> QED BY <1>2, <2>5, <2>6
<1>5. CASE ReaderDeletes(s)
  <2>1. /\ reader[s].pc = "delete" /\ ReaderGoto(s, "done") /\ UNCHANGED status
        /\ table' \in [Flow -> Packets \cup {Nil}]
    BY <1>5 DEF ReaderDeletes, Delete, UdpTypes
  <2>2. /\ reader' \in [Packets -> ReaderType]
        /\ reader'[s].pc = "done" /\ reader'[s].t = reader[s].t
        /\ \A q \in Packets : q # s => reader'[q] = reader[q]
    BY <2>1, ReaderMoves
  <2>3. UdpTypes' /\ OwnDatagrams'
    BY <1>1, <2>1, <2>2 DEF UdpTypes, OwnDatagrams
  <2>4. Readers'
    BY <1>1, <2>1, <2>2 DEF Readers
  <2> QED BY <1>2, <2>3, <2>4
<1>6. CASE StreamEnds(s)
  <2>1. /\ UNCHANGED <<table, reader>>
        /\ status' \in [Packets -> {"none", "open", "ended", "closed"}]
        /\ \A q \in Packets : status[q] = "closed" => status'[q] = "closed"
    BY <1>6 DEF StreamEnds, UdpTypes
  <2>2. UdpTypes' /\ OwnDatagrams'
    BY <1>1, <2>1 DEF UdpTypes, OwnDatagrams
  <2>3. Readers'
    BY <1>1, <2>1 DEF Readers
  <2> QED BY <1>2, <2>2, <2>3
<1> QED BY <1>3, <1>4, <1>5, <1>6 DEF Reader

\* The loops of any number of Starts keep the invariant.
THEOREM ServersInvariance == ServersSpec => []ServersInv
<1>1. ServersInv /\ [ServersNext]_serversVars => ServersInv'
  <2> SUFFICES ASSUME ServersInv, [ServersNext]_serversVars PROVE ServersInv'
    OBVIOUS
  <2>1. CASE UNCHANGED serversVars
    BY <2>1 DEF ServersInv, AcceptTypes, UdpTypes, OwnDatagrams, OneStream, Readers,
      serversVars, tcpVars, udpVars
  <2>2. CASE ServersNext
    BY <2>2, StartStops, AcceptSteps, UdpSteps, RecvStep, ReaderSteps DEF ServersNext, ServersStep
  <2> QED BY <2>1, <2>2
<1> QED BY <1>1, ServersInitially, PTL DEF ServersSpec

\* The goroutine that reads the stream of a transparent UDP session leaves
\* that stream closed, for any number of Starts, flows and datagrams, unless
\* the loops of two Starts opened a stream each for one session.
THEOREM ReadersClose == ServersSpec => []ReaderLeavesNothing
<1>1. ServersInv => ReaderLeavesNothing
  BY DEF ServersInv, Readers, ReaderLeavesNothing
<1> QED BY <1>1, ServersInvariance, PTL

-----------------------------------------------------------------------------
(***************************************************************************)
(* A connection of the proxy.                                              *)
(*                                                                         *)
(* The number c of tokens that were read from the connection says where in *)
(* the client's script the handler is; the stages relate it to the control *)
(* state, to the remembered request and to what the first stream got.      *)
(***************************************************************************)

\* How many tokens of a script come before the payload.
HandshakeLen ==
  IF kind = "user5" THEN IF pass > pass % 256 THEN 4 ELSE 3
  ELSE IF kind \in {"gss5", "socks4", "bind4", "connect"} THEN 1
  ELSE IF kind \in {"http", "tls", "tproxy", "forward"} THEN 0
  ELSE 2

\* The payload of a script follows its handshake and is numbered from one;
\* the message that ends a handshake is its last.
Shape(sc, len) ==
  /\ len \in 0 .. Len(sc)
  /\ \A i \in 1 .. Len(sc) :
       /\ i <= len => sc[i].t \notin {"data", "req", "tls"}
       /\ i > len => sc[i].t \in {"data", "req", "tls"} /\ sc[i].x = i - len
       /\ sc[i].t \in {"cmd", "v4", "connect"} => i = len

\* The script of the program's own client with a user name and a password.
LEMMA UserScript ==
  ASSUME kind = "user5", pass \in Nat PROVE Shape(Script, HandshakeLen) /\ Len(Script) \in Nat
<1> DEFINE g == Tok("greet", None, {"none", "pw"}, 0)
           a == Tok("auth", None, pass % 256, 1)
           j == Tok("junk", None, 0, 1)
           k == Tok("cmd", Name, "connect", 2)
           d(i) == Data(i, 3)
           S == {g, a, j, k, d(1), d(2)}
           u == <<g>> \o PassTokens(pass)
           w == <<k, d(1), d(2)>>
<1>1. Script = u \o w
  BY DEF Script, Socks5ProxyConnect
<1>2. <<g>> \in Seq(S) /\ <<a>> \in Seq(S) /\ <<j>> \in Seq(S)
  OBVIOUS
<1>w. w \in Seq(S) /\ Len(w) = 3 /\ w[1] = k /\ w[2] = d(1) /\ w[3] = d(2)
  OBVIOUS
<1>3. CASE pass > pass % 256
  <2>1. PassTokens(pass) = <<a>> \o <<j>> /\ HandshakeLen = 4
    BY <1>3 DEF PassTokens, HandshakeLen
  <2> HIDE DEF S, g, a, j, k, d
  <2>2. /\ PassTokens(pass) \in Seq(S) /\ Len(PassTokens(pass)) = 2
        /\ PassTokens(pass)[1] = a /\ PassTokens(pass)[2] = j
    BY <1>2, <2>1, ConcatProperties
  <2>3. u \in Seq(S) /\ Len(u) = 3 /\ u[1] = g /\ u[2] = a /\ u[3] = j
    <3>1. /\ u \in Seq(S) /\ Len(u) = 1 + 2
          /\ \A i \in 1 .. 1 + 2 : u[i] = IF i <= 1 THEN <<g>>[i] ELSE PassTokens(pass)[i - 1]
      <4>1. /\ u \in Seq(S) /\ Len(u) = Len(<<g>>) + Len(PassTokens(pass))
            /\ \A i \in 1 .. Len(<<g>>) + Len(PassTokens(pass)) :
                 u[i] = IF i <= Len(<<g>>) THEN <<g>>[i] ELSE PassTokens(pass)[i - Len(<<g>>)]
        BY <1>2, <2>2, ConcatProperties
      <4>2. Len(<<g>>) = 1
        OBVIOUS
      <4> QED BY <2>2, <4>1, <4>2
    <3> QED BY <2>2, <3>1
  <2> HIDE DEF u, w
  <2>4. /\ Len(Script) = 6 /\ Script[1] = g /\ Script[2] = a /\ Script[3] = j
        /\ Script[4] = k /\ Script[5] = d(1) /\ Script[6] = d(2)
    <3>1. Len(Script) = 3 + 3 /\ \A i \in 1 .. 3 + 3 : Script[i] = IF i <= 3 THEN u[i] ELSE w[i - 3]
      <4>1. /\ Len(Script) = Len(u) + Len(w)
            /\ \A i \in 1 .. Len(u) + Len(w) : Script[i] = IF i <= Len(u) THEN u[i] ELSE w[i - Len(u)]
        BY <1>1, <1>w, <2>3, ConcatProperties
      <4> QED BY <1>w, <2>3, <4>1
    <3>2. /\ Len(Script) = 6 /\ Script[1] = u[1] /\ Script[2] = u[2] /\ Script[3] = u[3]
          /\ Script[4] = w[1] /\ Script[5] = w[2] /\ Script[6] = w[3]
      BY <3>1
    <3> QED BY <1>w, <2>3, <3>2
  <2>5. \A i \in 1 .. 6 : i = 1 \/ i = 2 \/ i = 3 \/ i = 4 \/ i = 5 \/ i = 6
    OBVIOUS
  <2> QED BY <2>1, <2>4, <2>5 DEF Shape, Tok, Data, g, a, j, k, d
<1>4. CASE ~(pass > pass % 256)
  <2>1. PassTokens(pass) = <<a>> /\ HandshakeLen = 3
    <3>1. <<a>> \o <<>> = <<a>>
      BY <1>2, ConcatEmptySeq
    <3> QED BY <1>4, <3>1 DEF PassTokens, HandshakeLen
  <2> HIDE DEF S, g, a, j, k, d
  <2>2. u \in Seq(S) /\ Len(u) = 2 /\ u[1] = g /\ u[2] = a
    BY <1>2, <2>1, ConcatProperties
  <2> HIDE DEF u, w
  <2>3. /\ Len(Script) = 5 /\ Script[1] = g /\ Script[2] = a
        /\ Script[3] = k /\ Script[4] = d(1) /\ Script[5] = d(2)
    <3>1. Len(Script) = 2 + 3 /\ \A i \in 1 .. 2 + 3 : Script[i] = IF i <= 2 THEN u[i] ELSE w[i - 2]
      <4>1. /\ Len(Script) = Len(u) + Len(w)
            /\ \A i \in 1 .. Len(u) + Len(w) : Script[i] = IF i <= Len(u) THEN u[i] ELSE w[i - Len(u)]
        BY <1>1, <1>w, <2>2, ConcatProperties
      <4> QED BY <1>w, <2>2, <4>1
    <3>2. /\ Len(Script) = 5 /\ Script[1] = u[1] /\ Script[2] = u[2]
          /\ Script[3] = w[1] /\ Script[4] = w[2] /\ Script[5] = w[3]
      BY <3>1
    <3> QED BY <1>w, <2>2, <3>2
  <2>4. \A i \in 1 .. 5 : i = 1 \/ i = 2 \/ i = 3 \/ i = 4 \/ i = 5
    OBVIOUS
  <2> QED BY <2>1, <2>3, <2>4 DEF Shape, Tok, Data, g, a, j, k, d
<1> QED BY <1>3, <1>4

\* Every client's script has the shape.
LEMMA ScriptShape ==
  ASSUME kind \in Kinds, pass \in Nat
  PROVE  Shape(Script, HandshakeLen) /\ Len(Script) \in Nat
<1> USE DEF Shape, HandshakeLen, Tok, Data, Req
<1>1. CASE kind = "user5"
  BY <1>1, UserScript
<1>2. CASE kind \in {"socks5", "addr5", "udpgw5"}
  <2>1. PICK a : Script = <<Tok("greet", None, {"none"}, 0), Tok("cmd", a, "connect", 1),
                            Data(1, 2), Data(2, 2)>>
    BY <1>2 DEF Script, Socks5ProxyConnect
  <2> QED BY <1>2, <2>1
<1>3. CASE kind = "eager5"
  BY <1>3 DEF Script
<1>4. CASE kind = "early5"
  BY <1>4 DEF Script
<1>5. CASE kind = "bind5"
  BY <1>5 DEF Script
<1>13. CASE kind = "gss5"
  BY <1>13 DEF Script
<1>11. CASE kind = "bind4"
  BY <1>11 DEF Script
<1>12. CASE kind = "forward"
  BY <1>12 DEF Script
<1>6. CASE kind = "socks4"
  BY <1>6 DEF Script
<1>7. CASE kind = "web5"
  BY <1>7 DEF Script
<1>8. CASE kind = "http"
  BY <1>8 DEF Script
<1>9. CASE kind = "connect"
  BY <1>9 DEF Script
<1>10. CASE kind \in {"tls", "tproxy"}
  BY <1>10 DEF Script
<1> QED
  BY <1>1, <1>2, <1>3, <1>4, <1>5, <1>6, <1>7, <1>8, <1>9, <1>10,
    <1>11, <1>12, <1>13, SocksAssumption
-----------------------------------------------------------------------------

Tokens == {Script[i] : i \in 1 .. Len(Script)}

ClientTypes == kind \in Kinds /\ pass \in Nat /\ sent \in 0 .. Len(Script)
ProxyTypes ==
  /\ n \in 0 .. MaxPass /\ DOMAIN up = Passes
  /\ up[1] \in Seq(Nat) /\ \A j \in 1 .. Len(up[1]) : up[1][j] = j

\* The proxy has read c tokens; what the reader holds and, as long as the
\* connection is not closed, what is on its way, are the next ones.
Wire(c) ==
  /\ c + Len(buf) <= sent
  /\ buf \in Seq(Tokens) /\ net \in Seq(Tokens)
  /\ \A i \in 1 .. Len(buf) : buf[i] = Script[c + i]
  /\ ~lclosed => /\ c + Len(buf) + Len(net) = sent
                 /\ \A i \in 1 .. Len(net) : net[i] = Script[c + Len(buf) + i]

\* A handshake that ends well has read the handshake and nothing else; one
\* that does not begin has read nothing.
Shaking(c) ==
  /\ pc = "accept" => hs = "no" /\ c = 0
  /\ hs \in {"peek", "greet", "auth", "cmd", "v4", "ok"} => pc = "socks"
  /\ hs = "peek" \/ (hs = "notsocks" /\ pc = "socks") => c = 0
  /\ hs = "v4" => buf # <<>> /\ buf[1].t = "v4"
  /\ hs = "ok" => buf = <<>> /\ c = HandshakeLen

\* A stream is opened when the handshake has been read, and of the payload
\* nothing but the request that is remembered.
Ready(c) ==
  \/ ireq = NoReq /\ flags # {} /\ c = HandshakeLen
  \/ ireq # NoReq /\ ireq.x = 1 /\ c = HandshakeLen + 1

Detecting(c) ==
  /\ pc \in {"accept", "socks", "sniff", "peek"} => n = 0 /\ ireq = NoReq
  /\ pc \in {"accept", "socks"} => flags = {} /\ host = None
  /\ pc \in {"sniff", "peek"} => IF flags = {} THEN c = 0 /\ host = None ELSE c = HandshakeLen
  /\ n = 0 => up[1] = <<>>
  /\ n = 0 /\ pc = "start" /\ host # None => Ready(c)

\* The first stream has got what was read of the payload, except the request
\* that is about to be written.
Copying(c) ==
  /\ pc \in {"connect", "copy", "hread", "hwrite"} => n # 0
  /\ n = 1 =>
       /\ pc = "connect" => Ready(c) /\ up[1] = <<>>
       /\ pc \in {"copy", "hread"} => c = HandshakeLen + Len(up[1])
       /\ pc = "hwrite" => /\ preq # NoReq /\ preq.x = Len(up[1]) + 1
                           /\ c = HandshakeLen + Len(up[1]) + 1

Stage(c) == Wire(c) /\ Shaking(c) /\ Detecting(c) /\ Copying(c)

ProxyInv == ClientTypes /\ ProxyTypes /\ \E c \in 0 .. sent : Stage(c)

\* What a step does to the first stream: nothing, or the next token.
Writes ==
  \/ up'[1] = up[1]
  \/ /\ up'[1] = Append(up[1], Len(up[1]) + 1)
     /\ HandshakeLen + Len(up[1]) + 1 <= sent /\ UNCHANGED <<kind, pass, sent>>
-----------------------------------------------------------------------------

\* What a client sends does not change while it is connected.
LEMMA ScriptFixed ==
  ASSUME UNCHANGED <<kind, pass>>
  PROVE  Script' = Script /\ HandshakeLen' = HandshakeLen /\ Tokens' = Tokens
<1>1. Script' = Script
  BY DEF Script, Socks5ProxyConnect
<1> QED BY <1>1 DEF HandshakeLen, Tokens

\* What the next token in the reader is, by how many were read before it.
LEMMA NextToken ==
  ASSUME ClientTypes, NEW c \in 0 .. sent, Wire(c), buf # <<>>
  PROVE  /\ c + 1 \in 0 .. sent /\ Head(buf) = Script[c + 1] /\ Head(buf) = buf[1]
         /\ HandshakeLen \in Nat
         /\ Head(buf).t \in {"data", "req", "tls"} <=> c >= HandshakeLen
         /\ c >= HandshakeLen => Head(buf).x = c + 1 - HandshakeLen
         /\ Head(buf).t \in {"cmd", "v4", "connect"} => c + 1 = HandshakeLen
<1>1. Shape(Script, HandshakeLen) /\ Len(Script) \in Nat
  BY ScriptShape DEF ClientTypes
<1>2. Len(buf) \in Nat \ {0} /\ Head(buf) = buf[1] /\ c \in Nat /\ sent \in Nat /\ sent <= Len(Script)
  BY <1>1 DEF Wire, ClientTypes
<1>3. c + 1 \in 0 .. sent /\ c + 1 \in 1 .. Len(Script)
  BY <1>2 DEF Wire
<1>4. Head(buf) = Script[c + 1]
  BY <1>2 DEF Wire
<1>5. HandshakeLen \in Nat
  BY <1>1 DEF Shape
<1>6. /\ c + 1 <= HandshakeLen => Script[c + 1].t \notin {"data", "req", "tls"}
      /\ c + 1 > HandshakeLen => /\ Script[c + 1].t \in {"data", "req", "tls"}
                                 /\ Script[c + 1].x = c + 1 - HandshakeLen
      /\ Script[c + 1].t \in {"cmd", "v4", "connect"} => c + 1 = HandshakeLen
  BY <1>1, <1>3 DEF Shape
<1>7. c >= HandshakeLen <=> c + 1 > HandshakeLen
  BY <1>2, <1>5
<1>8. c + 1 > HandshakeLen \/ c + 1 <= HandshakeLen
  BY <1>2, <1>5
<1> QED BY <1>2, <1>3, <1>4, <1>5, <1>6, <1>7, <1>8

\* A token is read.
LEMMA WireRead ==
  ASSUME ClientTypes, NEW c \in 0 .. sent, Wire(c), buf # <<>>, buf' = Tail(buf),
         UNCHANGED <<kind, pass, sent, net>>, lclosed' = lclosed
  PROVE  Wire(c + 1)'
<1>1. Tokens' = Tokens /\ Script' = Script /\ sent' = sent /\ sent \in Nat
  BY ScriptFixed, ScriptShape DEF ClientTypes
<1>2. /\ Tail(buf) \in Seq(Tokens) /\ Len(Tail(buf)) = Len(buf) - 1 /\ Len(buf) \in Nat \ {0}
      /\ \A i \in 1 .. Len(Tail(buf)) : Tail(buf)[i] = buf[i + 1]
  BY HeadTailProperties DEF Wire
<1>3. c \in Nat /\ Len(net) \in Nat
  BY DEF Wire
<1>4. (c + 1) + Len(Tail(buf)) = c + Len(buf)
  BY <1>2, <1>3
<1>5. \A i \in 1 .. Len(Tail(buf)) : i + 1 \in 1 .. Len(buf) /\ c + (i + 1) = (c + 1) + i
  BY <1>2, <1>3
<1>6. \A i \in 1 .. Len(buf') : buf'[i] = Script[(c + 1) + i]
  BY <1>2, <1>5 DEF Wire
<1> QED BY <1>1, <1>2, <1>4, <1>6 DEF Wire

\* Nothing is read.
LEMMA WireKept ==
  ASSUME NEW c, Wire(c), UNCHANGED <<kind, pass, sent, net, buf>>, lclosed => lclosed'
  PROVE  Wire(c)'
<1>1. Tokens' = Tokens /\ Script' = Script /\ sent' = sent
  BY ScriptFixed
<1> QED BY <1>1 DEF Wire

\* The client sends its next token, which arrives unless the end is closed.
LEMMA WireSend ==
  ASSUME ClientTypes, NEW c \in 0 .. sent, Wire(c), ClientSend PROVE Wire(c)' /\ ClientTypes'
<1>1. /\ Tokens' = Tokens /\ Script' = Script /\ sent' = sent + 1 /\ sent \in Nat
      /\ Len(Script) \in Nat /\ sent + 1 \in 1 .. Len(Script)
      /\ UNCHANGED <<kind, pass, buf, lclosed>>
  BY ScriptFixed, ScriptShape DEF ClientSend, ClientTypes
<1>2. ClientTypes'
  BY <1>1 DEF ClientTypes
<1>3. c \in Nat /\ Len(net) \in Nat /\ Len(buf) \in Nat
  BY <1>1 DEF Wire
<1>4. CASE lclosed
  <2>1. net' = net
    BY <1>4 DEF ClientSend
  <2>2. c + Len(buf) <= sent + 1
    BY <1>1, <1>3 DEF Wire
  <2> QED BY <1>1, <1>2, <1>4, <2>1, <2>2 DEF Wire
<1>5. CASE ~lclosed
  <2>1. Script[sent + 1] \in Tokens /\ net' = Append(net, Script[sent + 1]) /\ net \in Seq(Tokens)
    BY <1>1, <1>5 DEF ClientSend, Tokens, Wire
  <2>2. /\ net' \in Seq(Tokens) /\ Len(net') = Len(net) + 1
        /\ \A i \in 1 .. Len(net) : net'[i] = net[i]
        /\ net'[Len(net) + 1] = Script[sent + 1]
    BY <2>1, AppendProperties
  <2>3. c + Len(buf) + Len(net) = sent
    BY <1>5 DEF Wire
  <2>4. /\ c + Len(buf) <= sent + 1 /\ c + Len(buf) + Len(net') = sent + 1
        /\ c + Len(buf) + (Len(net) + 1) = sent + 1
    BY <1>1, <1>3, <2>2, <2>3
  <2>5. \A i \in 1 .. Len(net') : i \in 1 .. Len(net) \/ i = Len(net) + 1
    BY <1>3, <2>2
  <2>6. \A i \in 1 .. Len(net') : net'[i] = Script[c + Len(buf) + i]
    BY <1>5, <2>2, <2>4, <2>5 DEF Wire
  <2> QED BY <1>1, <1>2, <1>5, <2>2, <2>4, <2>6 DEF Wire
<1> QED BY <1>4, <1>5

\* The bufio.Reader takes any part of what has arrived.
LEMMA WireFill ==
  ASSUME ClientTypes, NEW c \in 0 .. sent, Wire(c), Fill PROVE Wire(c)'
<1>1. /\ Tokens' = Tokens /\ Script' = Script /\ sent' = sent /\ sent \in Nat
      /\ buf = <<>> /\ ~lclosed /\ lclosed' = lclosed
  BY ScriptFixed, ScriptShape DEF Fill, clientVars, ClientTypes
<1>2. PICK k \in DOMAIN net : buf' = SubSeq(net, 1, k) /\ net' = SubSeq(net, k + 1, Len(net))
  BY DEF Fill
<1>3. /\ net \in Seq(Tokens) /\ Len(net) \in Nat /\ k \in 1 .. Len(net) /\ c \in Nat
      /\ Len(buf) = 0 /\ c + Len(net) = sent
      /\ \A i \in 1 .. Len(net) : net[i] = Script[c + i]
  <2>1. net \in Seq(Tokens) /\ Len(net) \in Nat /\ Len(buf) = 0 /\ c \in Nat
    BY <1>1, <1>2 DEF Wire
  <2>2. c + Len(buf) + Len(net) = sent /\ c + Len(buf) = c
    BY <1>1, <2>1 DEF Wire
  <2> QED BY <1>1, <1>2, <2>1, <2>2 DEF Wire
<1>4. /\ buf' \in Seq(Tokens) /\ Len(buf') = k
      /\ \A i \in 1 .. k : buf'[i] = net[i]
  <2>1. \A i \in 1 .. k : net[i] \in Tokens /\ 1 + i - 1 = i
    BY <1>3
  <2>2. (IF 1 <= k THEN k - 1 + 1 ELSE 0) = k /\ k - 1 + 1 = k
    BY <1>3
  <2> QED BY <1>2, <1>3, <2>1, <2>2, SubSeqProperties
<1>5. /\ net' \in Seq(Tokens) /\ Len(net') = Len(net) - k
      /\ \A i \in 1 .. Len(net) - k : net'[i] = net[k + i]
  <2>1. \A i \in (k + 1) .. Len(net) : net[i] \in Tokens
    BY <1>3
  <2>2. /\ (IF k + 1 <= Len(net) THEN Len(net) - (k + 1) + 1 ELSE 0) = Len(net) - k
        /\ Len(net) - (k + 1) + 1 = Len(net) - k
        /\ \A i \in 1 .. Len(net) - k : (k + 1) + i - 1 = k + i
    <3>1. PICK m \in Nat : m = Len(net)
      BY <1>3
    <3>2. k \in Nat /\ k <= m
      BY <1>3, <3>1
    <3>3. /\ (IF k + 1 <= m THEN m - (k + 1) + 1 ELSE 0) = m - k
          /\ m - (k + 1) + 1 = m - k
      BY <3>2
    <3>4. \A i \in 1 .. m - k : (k + 1) + i - 1 = k + i
      BY <3>2
    <3> QED BY <3>1, <3>3, <3>4
  <2>3. /\ net' \in Seq(Tokens)
        /\ Len(net') = IF k + 1 <= Len(net) THEN Len(net) - (k + 1) + 1 ELSE 0
        /\ \A i \in 1 .. Len(net) - (k + 1) + 1 : net'[i] = net[(k + 1) + i - 1]
    BY <1>2, <1>3, <2>1, SubSeqProperties
  <2> QED BY <2>2, <2>3
<1>6. c + Len(buf') <= sent /\ c + Len(buf') + Len(net') = sent
  BY <1>1, <1>3, <1>4, <1>5
<1>7. \A i \in 1 .. Len(buf') : i \in 1 .. Len(net) /\ buf'[i] = Script[c + i]
  BY <1>3, <1>4
<1>8. \A i \in 1 .. Len(net') : net'[i] = Script[c + Len(buf') + i]
  <2>1. \A i \in 1 .. Len(net') : k + i \in 1 .. Len(net) /\ c + Len(buf') + i = c + (k + i)
    BY <1>3, <1>4, <1>5
  <2> QED BY <1>3, <1>5, <2>1
<1> QED BY <1>1, <1>4, <1>5, <1>6, <1>7, <1>8 DEF Wire
-----------------------------------------------------------------------------

Shakes == {"peek", "greet", "auth", "cmd", "v4", "ok"}

\* A connection that is not yet accepted has read and written nothing.
LEMMA ProxyInitially == ProxyInit => ProxyInv
<1> SUFFICES ASSUME ProxyInit PROVE ProxyInv
  OBVIOUS
<1>1. kind \in Kinds /\ pass \in Nat /\ sent = 0
  BY SocksAssumption DEF ProxyInit, SocksInit
<1>2. ClientTypes
  BY <1>1, ScriptShape DEF ClientTypes
<1>3. ProxyTypes
  BY ProxyAssumption DEF ProxyTypes, ProxyInit, Passes
<1>4. Wire(0)
  BY <1>1 DEF Wire, ProxyInit, SocksInit
<1>5. Shaking(0) /\ Detecting(0) /\ Copying(0)
  BY ProxyAssumption DEF Shaking, Detecting, Copying, ProxyInit, SocksInit, Passes
<1> QED BY <1>1, <1>2, <1>3, <1>4, <1>5 DEF ProxyInv, Stage

\* The types of the client, and the numbers of its script, unchanged.
LEMMA ClientFixed ==
  ASSUME ClientTypes, UNCHANGED <<kind, pass, sent>>
  PROVE  ClientTypes' /\ HandshakeLen' = HandshakeLen
BY ScriptFixed DEF ClientTypes

\* A step that changes nothing that the invariant speaks of.
LEMMA QuietProxyStep ==
  ASSUME ClientTypes, ProxyTypes, NEW c \in 0 .. sent, Stage(c),
         UNCHANGED <<kind, pass, sent, net, buf, hs, pc, host, flags, ireq, preq, n, up>>,
         lclosed => lclosed'
  PROVE  ProxyInv' /\ Writes
<1>1. Wire(c)'
  BY WireKept DEF Stage
<1>2. ClientTypes' /\ HandshakeLen' = HandshakeLen
  BY ClientFixed
<1>3. ProxyTypes'
  BY DEF ProxyTypes, Passes
<1>4. Shaking(c)' /\ Detecting(c)' /\ Copying(c)'
  BY <1>2 DEF Stage, Shaking, Detecting, Copying, Ready, NoReq
<1> QED BY <1>1, <1>2, <1>3, <1>4 DEF ProxyInv, Stage, Writes

\* A step that ends the handler or its copying.
LEMMA LeaveStep ==
  ASSUME ClientTypes, ProxyTypes, NEW c \in 0 .. sent, Stage(c), NEW d \in 0 .. sent, Wire(d)',
         UNCHANGED <<kind, pass, sent, hs, n, up>>, hs \notin Shakes,
         pc' \in {"done", "dropped", "udpgw", "upend", "wait"}
  PROVE  ProxyInv' /\ Writes
<1>1. ClientTypes' /\ HandshakeLen' = HandshakeLen
  BY ClientFixed
<1>2. ProxyTypes'
  BY DEF ProxyTypes, Passes
<1>3. Shaking(d)' /\ Detecting(d)' /\ Copying(d)'
  BY DEF Stage, Shaking, Detecting, Copying, Shakes
<1> QED BY <1>1, <1>2, <1>3 DEF ProxyInv, Stage, Writes

\* The deferred calls of serveProxyConn end it.
LEMMA ReturnStep ==
  ASSUME ClientTypes, ProxyTypes, NEW c \in 0 .. sent, Stage(c), Return,
         UNCHANGED <<clientVars, net, buf, hsVars, n, up>>, pc # "socks" \/ hs = "fail"
  PROVE  ProxyInv' /\ Writes
<1>1. /\ UNCHANGED <<kind, pass, sent, net, buf, hs, n, up>> /\ lclosed'
      /\ pc' \in {"done", "dropped", "udpgw", "upend", "wait"} /\ hs \notin Shakes
  BY DEF Return, Goto, clientVars, hsVars, Stage, Shaking, Shakes
<1>2. Wire(c)'
  BY <1>1, WireKept DEF Stage
<1> QED BY <1>1, <1>2, LeaveStep

\* The client and the filling of the reader do not touch the handler.
LEMMA ClientStep ==
  ASSUME ClientTypes, ProxyTypes, NEW c \in 0 .. sent, Stage(c), Client \/ Fill, Others
  PROVE  ProxyInv' /\ Writes
<1>1. UNCHANGED <<pc, host, flags, ireq, preq, n, up>>
  BY DEF Others, serveVars
<1>2. CASE ClientRefused \/ ClientClose
  <2>1. UNCHANGED <<kind, pass, sent, net, buf, hs, lclosed>>
    BY <1>2 DEF ClientRefused, ClientClose
  <2> QED BY <1>1, <2>1, QuietProxyStep
<1>3. CASE ClientSend
  <2>1. UNCHANGED <<kind, pass, buf, hs>> /\ sent' = sent + 1 /\ sent \in Nat
    BY <1>3, ScriptShape DEF ClientSend, ClientTypes
  <2>2. Wire(c)' /\ ClientTypes'
    BY <1>3, WireSend DEF Stage
  <2>3. HandshakeLen' = HandshakeLen /\ ProxyTypes'
    BY <1>1, <2>1, ScriptFixed DEF ProxyTypes, Passes
  <2>4. Shaking(c)' /\ Detecting(c)' /\ Copying(c)'
    BY <1>1, <2>1, <2>3 DEF Stage, Shaking, Detecting, Copying, Ready, NoReq
  <2>5. c \in 0 .. sent'
    BY <2>1
  <2> QED BY <1>1, <2>2, <2>3, <2>4, <2>5 DEF ProxyInv, Stage, Writes
<1>4. CASE Fill
  <2>1. UNCHANGED <<kind, pass, sent, hs>> /\ hs # "ok" /\ buf = <<>>
    BY <1>4 DEF Fill, clientVars
  <2>2. Wire(c)' /\ ClientTypes' /\ HandshakeLen' = HandshakeLen /\ ProxyTypes'
    BY <1>1, <1>4, <2>1, WireFill, ClientFixed DEF Stage, ProxyTypes, Passes
  <2>3. Shaking(c)' /\ Detecting(c)' /\ Copying(c)'
    BY <1>1, <2>1, <2>2 DEF Stage, Shaking, Detecting, Copying, Ready, NoReq
  <2> QED BY <1>1, <2>1, <2>2, <2>3 DEF ProxyInv, Stage, Writes
<1> QED BY <1>2, <1>3, <1>4 DEF Client

\* A step of the handshake, which does not touch the rest of the handler.
LEMMA ShakeStep ==
  ASSUME ClientTypes, ProxyTypes, NEW c \in 0 .. sent, Stage(c), Others, hs \in Shakes,
         NEW d \in 0 .. sent, UNCHANGED <<kind, pass, sent>>,
         Wire(d)', Shaking(d)'
  PROVE  ProxyInv' /\ Writes
<1>1. UNCHANGED <<pc, host, flags, ireq, preq, n, up>> /\ pc = "socks"
  BY DEF Others, serveVars, Stage, Shaking, Shakes
<1>2. ClientTypes' /\ HandshakeLen' = HandshakeLen /\ ProxyTypes'
  BY <1>1, ClientFixed DEF ProxyTypes, Passes
<1>3. Detecting(d)' /\ Copying(d)'
  BY <1>1 DEF Stage, Detecting, Copying, NoReq
<1> QED BY <1>1, <1>2, <1>3 DEF ProxyInv, Stage, Writes

\* Each step of the SOCKS handshake reads one message; the one that ends it
\* well reads the last, and what is left in the reader makes it fail.
LEMMA HandshakeStep ==
  ASSUME ClientTypes, ProxyTypes, NEW c \in 0 .. sent, Stage(c), Handshake, Others
  PROVE  ProxyInv' /\ Writes
<1>1. UNCHANGED <<kind, pass, sent, net, lclosed, pc>> /\ hs \in Shakes /\ pc = "socks"
  BY DEF Handshake, PeekVersion, socks5NegotiateAuth, socks5AuthRFC1929, socks5ReadCommand,
    readSocks4aConnect, HandshakeEOF, Step, clientVars, Others, serveVars, Stage, Shaking, Shakes
<1>2. HandshakeLen' = HandshakeLen
  BY <1>1, ClientFixed
<1>3. CASE PeekVersion
  <2>1. /\ hs = "peek" /\ buf # <<>> /\ buf' = buf /\ hs' \in {"greet", "v4", "notsocks"}
        /\ hs' = "v4" => Head(buf).t = "v4"
    BY <1>3 DEF PeekVersion, Avail
  <2>2. Wire(c)' /\ c = 0 /\ Head(buf) = buf[1]
    BY <1>1, <2>1, WireKept, NextToken DEF Stage, Shaking
  <2>3. Shaking(c)'
    BY <1>1, <2>1, <2>2 DEF Shaking
  <2> QED BY <1>1, <2>2, <2>3, ShakeStep
<1>4. CASE HandshakeEOF
  <2>1. /\ hs' = IF hs = "peek" THEN "notsocks" ELSE "fail"
        /\ buf' = buf
    BY <1>4 DEF HandshakeEOF
  <2>2. Wire(c)'
    BY <1>1, <2>1, WireKept DEF Stage
  <2>3. Shaking(c)'
    BY <1>1, <2>1 DEF Stage, Shaking
  <2> QED BY <1>1, <2>2, <2>3, ShakeStep
<1>5. ASSUME buf # <<>>, buf' = Tail(buf),
             hs' \in {"auth", "cmd", "fail"} \/ (hs' = "ok" /\ Tail(buf) = <<>> /\ c + 1 = HandshakeLen)
      PROVE  ProxyInv' /\ Writes
  <2>1. Wire(c + 1)' /\ c + 1 \in 0 .. sent
    BY <1>1, <1>5, WireRead, NextToken DEF Stage
  <2>2. Shaking(c + 1)'
    BY <1>1, <1>2, <1>5 DEF Shaking
  <2> QED BY <1>1, <2>1, <2>2, ShakeStep
<1>6. CASE socks5NegotiateAuth \/ socks5AuthRFC1929
  <2>1. buf # <<>> /\ buf' = Tail(buf) /\ hs' \in {"auth", "cmd", "fail"}
    BY <1>6 DEF socks5NegotiateAuth, socks5AuthRFC1929, Step, Avail
  <2> QED BY <1>5, <2>1
<1>7. CASE socks5ReadCommand
  <2>1. /\ buf # <<>> /\ buf' = Tail(buf)
        /\ hs' = "fail" \/ (hs' = "ok" /\ Tail(buf) = <<>> /\ Head(buf).t = "cmd")
    BY <1>7 DEF socks5ReadCommand, Step, Avail, Leftover
  <2>2. Head(buf).t = "cmd" => c + 1 = HandshakeLen
    BY <2>1, NextToken DEF Stage
  <2> QED BY <1>5, <2>1, <2>2
<1>8. CASE readSocks4aConnect
  <2>1. /\ buf # <<>> /\ buf' = Tail(buf) /\ hs = "v4"
        /\ hs' = "fail" \/ (hs' = "ok" /\ Tail(buf) = <<>>)
    BY <1>8 DEF readSocks4aConnect, Step, Avail, Leftover
  <2>2. Head(buf).t = "v4"
    BY <2>1, NextToken DEF Stage, Shaking
  <2>3. c + 1 = HandshakeLen
    BY <2>1, <2>2, NextToken DEF Stage
  <2> QED BY <1>5, <2>1, <2>3
<1> QED BY <1>3, <1>4, <1>6, <1>7, <1>8 DEF Handshake
-----------------------------------------------------------------------------

\* A step that writes nothing, and what has to be shown of it.
LEMMA SilentStep ==
  ASSUME ClientTypes, ProxyTypes, UNCHANGED <<kind, pass, sent, up>>, n' \in 0 .. MaxPass,
         NEW d \in 0 .. sent, Wire(d)', Shaking(d)', Detecting(d)', Copying(d)'
  PROVE  ProxyInv' /\ Writes
<1>1. ClientTypes'
  BY ClientFixed
<1>2. ProxyTypes'
  BY DEF ProxyTypes, Passes
<1> QED BY <1>1, <1>2 DEF ProxyInv, Stage, Writes

\* The accept loop hands the connection to serveProxyConn.
LEMMA AcceptStep ==
  ASSUME ClientTypes, ProxyTypes, NEW c \in 0 .. sent, Stage(c), Accept \/ AcceptNoAddr
  PROVE  ProxyInv' /\ Writes
<1>1. /\ UNCHANGED <<kind, pass, sent, net, buf, n, up, ireq, preq>>
      /\ lclosed => lclosed'
      /\ pc = "accept" /\ hs = "no" /\ c = 0 /\ n = 0 /\ ireq = NoReq /\ flags = {} /\ host = None
  BY DEF Accept, AcceptNoAddr, clientVars, reqVars, Stage, Shaking, Detecting
<1>2. Wire(c)' /\ HandshakeLen' = HandshakeLen /\ n' \in 0 .. MaxPass
  BY <1>1, WireKept, ClientFixed DEF Stage, ProxyTypes
<1>3. CASE AcceptNoAddr
  <2>1. UNCHANGED hs /\ hs \notin Shakes /\ pc' = "dropped"
    BY <1>1, <1>3 DEF AcceptNoAddr, hsVars, Shakes, Goto
  <2> QED BY <1>1, <1>2, <2>1, LeaveStep
<1>4. CASE Accept
  <2>1. up'[1] = <<>> /\ ireq' = NoReq /\ NoReq' = NoReq
    BY <1>1 DEF Stage, Detecting, NoReq
  <2>2. CASE kind \in {"tproxy", "forward"}
    <3>1. pc' = "sniff" /\ flags' # {} /\ hs' = "no" /\ HandshakeLen = 0
      BY <1>1, <1>4, <2>2 DEF Accept, Goto, HandshakeLen
    <3>2. Shaking(c)' /\ Detecting(c)' /\ Copying(c)'
      BY <1>1, <1>2, <2>1, <3>1 DEF Shaking, Detecting, Copying
    <3> QED BY <1>1, <1>2, <3>2, SilentStep
  <2>3. CASE kind \notin {"tproxy", "forward"}
    <3>1. pc' = "socks" /\ flags' = {} /\ host' = None /\ hs' = "peek"
      BY <1>1, <1>4, <2>3 DEF Accept, Goto
    <3>2. Shaking(c)' /\ Detecting(c)' /\ Copying(c)'
      BY <1>1, <1>2, <2>1, <3>1 DEF Shaking, Detecting, Copying
    <3> QED BY <1>1, <1>2, <3>2, SilentStep
  <2> QED BY <2>2, <2>3
<1> QED BY <1>3, <1>4

\* The handshake is granted, or was none; either way no payload was read.
LEMMA SocksOverStep ==
  ASSUME ClientTypes, ProxyTypes, NEW c \in 0 .. sent, Stage(c), SocksGranted \/ NotSocks
  PROVE  ProxyInv' /\ Writes
<1>1. /\ UNCHANGED <<kind, pass, sent, net, n, up, ireq, preq, lclosed>>
      /\ pc = "socks" /\ n = 0 /\ ireq = NoReq /\ flags = {} /\ host = None
  BY DEF SocksGranted, NotSocks, socksVars, clientVars, reqVars, Stage, Detecting
<1>2. HandshakeLen' = HandshakeLen /\ n' \in 0 .. MaxPass
  BY <1>1, ClientFixed DEF ProxyTypes
<1>3. up'[1] = <<>> /\ ireq' = NoReq /\ NoReq' = NoReq
  BY <1>1 DEF Stage, Detecting, NoReq
<1>4. CASE SocksGranted
  <2>1. /\ hs' = "granted" /\ buf' = buf /\ flags' # {} /\ pc' \in {"udpgw", "sniff"}
        /\ c = HandshakeLen
    BY <1>4 DEF SocksGranted, Goto, Stage, Shaking
  <2>2. Wire(c)'
    BY <1>1, <2>1, WireKept DEF Stage
  <2>3. Shaking(c)' /\ Detecting(c)' /\ Copying(c)'
    BY <1>1, <1>2, <1>3, <2>1 DEF Shaking, Detecting, Copying
  <2> QED BY <1>1, <1>2, <2>2, <2>3, SilentStep
<1>5. CASE NotSocks
  <2>1. /\ UNCHANGED <<hs, buf, flags, host>> /\ pc' = "sniff" /\ hs = "notsocks" /\ c = 0
    BY <1>1, <1>5 DEF NotSocks, Goto, Stage, Shaking, socksVars
  <2>2. Wire(c)'
    BY <1>1, <2>1, WireKept DEF Stage
  <2>3. Shaking(c)' /\ Detecting(c)' /\ Copying(c)'
    BY <1>1, <1>2, <1>3, <2>1 DEF Shaking, Detecting, Copying
  <2> QED BY <1>1, <1>2, <2>2, <2>3, SilentStep
<1> QED BY <1>4, <1>5

\* The sniffing of a server name only peeks.
LEMMA SniffStep ==
  ASSUME ClientTypes, ProxyTypes, NEW c \in 0 .. sent, Stage(c), Sniff
  PROVE  ProxyInv' /\ Writes
<1>1. /\ UNCHANGED <<kind, pass, sent, net, buf, lclosed, hs, n, up, ireq, preq, flags>>
      /\ pc = "sniff" /\ n = 0 /\ ireq = NoReq
      /\ IF flags = {} THEN c = 0 /\ host = None ELSE c = HandshakeLen
  BY DEF Sniff, socksVars, clientVars, reqVars, Stage, Detecting
<1>2. Wire(c)' /\ HandshakeLen' = HandshakeLen /\ n' \in 0 .. MaxPass
  BY <1>1, WireKept, ClientFixed DEF Stage, ProxyTypes
<1>3. up'[1] = <<>> /\ ireq' = NoReq /\ NoReq' = NoReq
  BY <1>1 DEF Stage, Detecting, NoReq
<1>4. (pc' = "start" /\ flags # {}) \/ (pc' = "peek" /\ host' = host)
  BY <1>1 DEF Sniff, TrySniffDomain, Goto
<1>5. Shaking(c)'
  BY <1>1, <1>4 DEF Stage, Shaking
<1>6. Detecting(c)' /\ Copying(c)'
  BY <1>1, <1>2, <1>3, <1>4 DEF Detecting, Copying, Ready
<1> QED BY <1>1, <1>2, <1>5, <1>6, SilentStep

\* The first HTTP request is read and remembered; a CONNECT is the last of the
\* handshake.
LEMMA PeekRequestStep ==
  ASSUME ClientTypes, ProxyTypes, NEW c \in 0 .. sent, Stage(c), PeekRequest
  PROVE  ProxyInv' /\ Writes
<1>1. /\ UNCHANGED <<kind, pass, sent, net, lclosed, hs, n, up>> /\ buf' = Tail(buf)
      /\ pc = "peek" /\ pc' = "start" /\ n = 0 /\ ireq = NoReq
      /\ IF flags = {} THEN c = 0 /\ host = None ELSE c = HandshakeLen
  BY DEF PeekRequest, Goto, clientVars, hsVars, Stage, Detecting
<1>2. buf # <<>> /\ Head(buf).t \in {"req", "connect"}
  BY DEF PeekRequest, First, Avail
<1>3. Wire(c + 1)' /\ c + 1 \in 0 .. sent
  BY <1>1, <1>2, WireRead, NextToken DEF Stage
<1>4. HandshakeLen' = HandshakeLen /\ n' \in 0 .. MaxPass
  BY <1>1, ClientFixed DEF ProxyTypes
<1>5. up'[1] = <<>> /\ NoReq' = NoReq
  BY <1>1 DEF Stage, Detecting, NoReq
<1>6. Ready(c + 1)'
  <2>1. CASE Head(buf).t = "connect"
    <3>1. c + 1 = HandshakeLen /\ HandshakeLen \in Nat
      BY <1>2, <2>1, NextToken DEF Stage
    <3>2. flags = {}
      BY <1>1, <3>1
    <3>3. flags' # {} /\ ireq' = NoReq
      BY <1>1, <2>1, <3>2 DEF PeekRequest
    <3> QED BY <1>4, <1>5, <3>1, <3>3 DEF Ready
  <2>2. CASE Head(buf).t = "req"
    <3>1. c >= HandshakeLen /\ HandshakeLen \in Nat /\ Head(buf).x = c + 1 - HandshakeLen
      BY <1>2, <2>2, NextToken DEF Stage
    <3>2. c = HandshakeLen /\ Head(buf).x = 1
      BY <1>1, <3>1
    <3>3. ireq' = [h |-> Head(buf).h, x |-> Head(buf).x]
      BY <2>2 DEF PeekRequest
    <3>4. ireq'.x = 1 /\ ireq' # NoReq
      BY <3>2, <3>3 DEF NoReq
    <3> QED BY <1>4, <1>5, <3>2, <3>4 DEF Ready
  <2> QED BY <1>2, <2>1, <2>2
<1>7. Shaking(c + 1)'
  BY <1>1 DEF Stage, Shaking
<1>8. Detecting(c + 1)' /\ Copying(c + 1)'
  BY <1>1, <1>5, <1>6 DEF Detecting, Copying
<1> QED BY <1>1, <1>3, <1>4, <1>7, <1>8, SilentStep

\* Without a request the connection goes on as it is, or ends.
LEMMA PeekOtherStep ==
  ASSUME ClientTypes, ProxyTypes, NEW c \in 0 .. sent, Stage(c), PeekOther
  PROVE  ProxyInv' /\ Writes
<1>0. pc = "peek" /\ UNCHANGED <<clientVars, net, buf, hsVars, n, up, ireq, flags, host>>
  BY DEF PeekOther, reqVars
<1>1. CASE Return
  BY <1>0, <1>1, ReturnStep
<1>2. CASE pc' = "start" /\ lclosed' = lclosed
  <2>1. /\ UNCHANGED <<kind, pass, sent, net, buf, hs, n, up, ireq, flags, host>> /\ n = 0 /\ ireq = NoReq
        /\ IF flags = {} THEN host = None ELSE c = HandshakeLen
    BY <1>0 DEF clientVars, hsVars, Stage, Detecting
  <2>2. Wire(c)' /\ HandshakeLen' = HandshakeLen /\ n' \in 0 .. MaxPass
    BY <1>2, <2>1, WireKept, ClientFixed DEF Stage, ProxyTypes
  <2>3. up'[1] = <<>> /\ NoReq' = NoReq
    BY <2>1 DEF Stage, Detecting, NoReq
  <2>4. Shaking(c)'
    BY <1>0, <1>2, <2>1 DEF Stage, Shaking
  <2>5. Detecting(c)' /\ Copying(c)'
    BY <1>2, <2>1, <2>2, <2>3 DEF Detecting, Copying, Ready
  <2> QED BY <2>1, <2>2, <2>4, <2>5, SilentStep
<1> QED BY <1>1, <1>2 DEF PeekOther, Goto, Stay

\* A pass through START opens a stream that has got nothing.
LEMMA StreamStep ==
  ASSUME ClientTypes, ProxyTypes, NEW c \in 0 .. sent, Stage(c), GetMuxStream
  PROVE  ProxyInv' /\ Writes
<1>1. /\ UNCHANGED <<kind, pass, sent, net, buf, lclosed, hs, up, ireq, preq, flags, host>>
      /\ pc = "start" /\ pc' = "connect" /\ host # None /\ n' = n + 1 /\ n < MaxPass
  BY DEF GetMuxStream, Goto, socksVars, clientVars, reqVars
<1>2. Wire(c)' /\ HandshakeLen' = HandshakeLen
  BY <1>1, WireKept, ClientFixed DEF Stage
<1>3. n \in Nat /\ n' \in 0 .. MaxPass /\ n' # 0 /\ (n' = 1 => n = 0)
  BY <1>1, ProxyAssumption DEF ProxyTypes
<1>4. n' = 1 => Ready(c)' /\ up'[1] = <<>>
  <2>1. n' = 1 => Ready(c) /\ up[1] = <<>>
    BY <1>1, <1>3 DEF Stage, Detecting
  <2> QED BY <1>1, <1>2, <2>1 DEF Ready, NoReq
<1>5. Shaking(c)'
  BY <1>1 DEF Stage, Shaking
<1>6. Detecting(c)' /\ Copying(c)'
  BY <1>1, <1>3, <1>4 DEF Detecting, Copying
<1> QED BY <1>1, <1>2, <1>3, <1>5, <1>6, SilentStep

\* The tunnel starts with nothing read, the HTTP loop with its first request.
LEMMA ConnectedStep ==
  ASSUME ClientTypes, ProxyTypes, NEW c \in 0 .. sent, Stage(c), Connected
  PROVE  ProxyInv' /\ Writes
<1>1. /\ UNCHANGED <<kind, pass, sent, net, buf, lclosed, hs, up, flags, host, n>>
      /\ pc = "connect" /\ n # 0 /\ n \in 0 .. MaxPass
  BY DEF Connected, socksVars, clientVars, Stage, Copying, ProxyTypes
<1>2. Wire(c)' /\ HandshakeLen' = HandshakeLen
  BY <1>1, WireKept, ClientFixed DEF Stage
<1>3. n = 1 => Ready(c) /\ up[1] = <<>>
  BY <1>1 DEF Stage, Copying
<1>4. CASE Raw
  <2>1. pc' = "copy" /\ ireq = NoReq
    BY <1>4 DEF Connected, Raw, Goto
  <2>2. n = 1 => c = HandshakeLen /\ Len(up[1]) = 0 /\ HandshakeLen \in Nat
    BY <1>3, <2>1, ScriptShape DEF Ready, ClientTypes, Shape
  <2>3. n = 1 => c = HandshakeLen + Len(up[1])
    BY <2>2
  <2>4. Shaking(c)' /\ Detecting(c)' /\ Copying(c)'
    BY <1>1, <1>2, <2>1, <2>3 DEF Stage, Shaking, Detecting, Copying
  <2> QED BY <1>1, <1>2, <2>4, SilentStep
<1>5. CASE ~Raw
  <2>1. pc' = "hwrite" /\ preq' = ireq
    BY <1>5 DEF Connected, Goto
  <2>2. n = 1 => /\ ireq # NoReq /\ ireq.x = 1 /\ c = HandshakeLen + 1
                 /\ Len(up[1]) = 0 /\ HandshakeLen \in Nat
    BY <1>3, <1>5, ScriptShape DEF Ready, Raw, ClientTypes, Shape
  <2>3. n = 1 => ireq # NoReq /\ ireq.x = Len(up[1]) + 1 /\ c = HandshakeLen + Len(up[1]) + 1
    BY <2>2
  <2>4. Shaking(c)' /\ Detecting(c)' /\ Copying(c)'
    BY <1>1, <1>2, <2>1, <2>3 DEF Stage, Shaking, Detecting, Copying, NoReq
  <2> QED BY <1>1, <1>2, <2>4, SilentStep
<1> QED BY <1>4, <1>5
-----------------------------------------------------------------------------

\* A write to the current stream; v is the next number when it is the first.
LEMMA UpWrite ==
  ASSUME ProxyTypes, n # 0, UNCHANGED n, NEW v, up' = [up EXCEPT ![n] = Append(@, v)],
         n = 1 => v = Len(up[1]) + 1
  PROVE  /\ ProxyTypes' /\ Len(up[1]) \in Nat
         /\ n = 1 => up'[1] = Append(up[1], Len(up[1]) + 1) /\ Len(up'[1]) = Len(up[1]) + 1
         /\ n # 1 => up'[1] = up[1]
<1>1. n \in Passes /\ 1 \in Passes /\ DOMAIN up' = Passes /\ Passes' = Passes
  BY ProxyAssumption DEF ProxyTypes, Passes
<1>2. CASE n # 1
  <2>1. up'[1] = up[1]
    BY <1>1, <1>2 DEF ProxyTypes
  <2> QED BY <1>1, <1>2, <2>1 DEF ProxyTypes
<1>3. CASE n = 1
  <2>1. up'[1] = Append(up[1], Len(up[1]) + 1)
    BY <1>1, <1>3 DEF ProxyTypes
  <2>2. up[1] \in Seq(Nat) /\ Len(up[1]) \in Nat /\ Len(up[1]) + 1 \in Nat
    BY DEF ProxyTypes
  <2>3. /\ up'[1] \in Seq(Nat) /\ Len(up'[1]) = Len(up[1]) + 1
        /\ up'[1][Len(up[1]) + 1] = Len(up[1]) + 1
        /\ \A j \in 1 .. Len(up[1]) : up'[1][j] = up[1][j]
    BY <2>1, <2>2, AppendProperties
  <2>4. \A j \in 1 .. Len(up'[1]) : j \in 1 .. Len(up[1]) \/ j = Len(up[1]) + 1
    BY <2>2, <2>3
  <2>5. \A j \in 1 .. Len(up'[1]) : up'[1][j] = j
    BY <2>3, <2>4 DEF ProxyTypes
  <2> QED BY <1>1, <1>3, <2>1, <2>2, <2>3, <2>5 DEF ProxyTypes
<1> QED BY <1>2, <1>3

\* The tunnel writes what it reads.
LEMMA CopyUpStep ==
  ASSUME ClientTypes, ProxyTypes, NEW c \in 0 .. sent, Stage(c), CopyUp
  PROVE  ProxyInv' /\ Writes
<1>1. /\ UNCHANGED <<kind, pass, sent, net, lclosed, hs, host, flags, ireq, preq, n>>
      /\ buf' = Tail(buf) /\ pc = "copy" /\ n # 0 /\ buf # <<>> /\ hs \notin Shakes
  BY DEF CopyUp, Avail, clientVars, hsVars, Stage, Shaking, Copying, Shakes
<1>2. Wire(c + 1)' /\ c + 1 \in 0 .. sent
  BY <1>1, WireRead, NextToken DEF Stage
<1>3. CASE st[n] # "open"
  <2>1. pc' = "upend" /\ up' = up
    BY <1>3 DEF CopyUp, Goto
  <2> QED BY <1>1, <1>2, <2>1, LeaveStep
<1>4. CASE st[n] = "open"
  <2>1. pc' = "copy" /\ up' = [up EXCEPT ![n] = Append(@, Head(buf).x)]
    BY <1>1, <1>4 DEF CopyUp
  <2>2. n = 1 => c = HandshakeLen + Len(up[1])
    BY <1>1 DEF Stage, Copying
  <2>3. /\ HandshakeLen \in Nat /\ Len(up[1]) \in Nat
        /\ c >= HandshakeLen => Head(buf).x = c + 1 - HandshakeLen
    BY <1>1, NextToken DEF Stage, ProxyTypes
  <2>4. n = 1 => Head(buf).x = Len(up[1]) + 1
    BY <2>2, <2>3
  <2>5. /\ ProxyTypes'
        /\ n = 1 => up'[1] = Append(up[1], Len(up[1]) + 1) /\ Len(up'[1]) = Len(up[1]) + 1
        /\ n # 1 => up'[1] = up[1]
    BY <1>1, <2>1, <2>4, UpWrite
  <2>6. ClientTypes' /\ HandshakeLen' = HandshakeLen
    BY <1>1, ClientFixed
  <2>7. n = 1 => c + 1 = HandshakeLen + Len(up[1]) + 1 /\ c + 1 = HandshakeLen + Len(up'[1])
    <3>1. n = 1 => c + 1 = HandshakeLen + Len(up[1]) + 1
      BY <2>2, <2>3
    <3>2. HandshakeLen + (Len(up[1]) + 1) = HandshakeLen + Len(up[1]) + 1
      BY <2>3
    <3> QED BY <2>5, <3>1, <3>2
  <2>8. Writes
    BY <1>1, <1>2, <2>5, <2>7 DEF Writes
  <2>9. Shaking(c + 1)' /\ Detecting(c + 1)' /\ Copying(c + 1)'
    BY <1>1, <2>1, <2>6, <2>7 DEF Shaking, Shakes, Detecting, Copying
  <2> QED BY <1>1, <1>2, <2>5, <2>6, <2>8, <2>9 DEF ProxyInv, Stage
<1> QED BY <1>3, <1>4

\* The HTTP loop writes the request it has read.
LEMMA WriteRequestStep ==
  ASSUME ClientTypes, ProxyTypes, NEW c \in 0 .. sent, Stage(c), WriteRequest
  PROVE  ProxyInv' /\ Writes
<1>1. /\ UNCHANGED <<clientVars, net, buf, hsVars, n, ireq, preq, flags, host>>
      /\ pc = "hwrite" /\ n # 0 /\ hs \notin Shakes
  BY DEF WriteRequest, reqVars, Stage, Shaking, Copying, Shakes
<1>2. UNCHANGED <<kind, pass, sent, net, buf, hs, n>>
  BY <1>1 DEF clientVars, hsVars
<1>3. CASE Return /\ up' = up
  BY <1>1, <1>3, ReturnStep
<1>4. ASSUME pc' = "hread", lclosed' = lclosed PROVE Wire(c)' /\ HandshakeLen' = HandshakeLen
  BY <1>2, <1>4, WireKept, ClientFixed DEF Stage
<1>5. CASE pc' = "hread" /\ lclosed' = lclosed /\ up' = up /\ preq = NoReq
  <2>1. n # 1
    BY <1>1, <1>5 DEF Stage, Copying
  <2>2. Shaking(c)' /\ Detecting(c)' /\ Copying(c)'
    BY <1>1, <1>2, <1>5, <2>1 DEF Shaking, Shakes, Detecting, Copying
  <2> QED BY <1>2, <1>4, <1>5, <2>2, SilentStep DEF ProxyTypes
<1>6. CASE /\ pc' = "hread" /\ lclosed' = lclosed
           /\ up' = [up EXCEPT ![n] = Append(@, preq.x)]
  <2>1. n = 1 => preq.x = Len(up[1]) + 1 /\ c = HandshakeLen + Len(up[1]) + 1
    BY <1>1 DEF Stage, Copying
  <2>2. /\ ProxyTypes' /\ Len(up[1]) \in Nat
        /\ n = 1 => up'[1] = Append(up[1], Len(up[1]) + 1) /\ Len(up'[1]) = Len(up[1]) + 1
        /\ n # 1 => up'[1] = up[1]
    BY <1>1, <1>6, <2>1, UpWrite
  <2>3. ClientTypes' /\ HandshakeLen \in Nat /\ HandshakeLen' = HandshakeLen
    BY <1>2, ClientFixed, ScriptShape DEF ClientTypes, Shape
  <2>4. n = 1 => c = HandshakeLen + Len(up'[1])
    BY <2>1, <2>2, <2>3
  <2>5. Writes
    <3>1. n = 1 => HandshakeLen + Len(up[1]) + 1 <= sent
      BY <2>1
    <3> QED BY <1>2, <2>2, <3>1 DEF Writes
  <2>6. Shaking(c)' /\ Detecting(c)' /\ Copying(c)'
    BY <1>1, <1>2, <1>6, <2>3, <2>4 DEF Shaking, Shakes, Detecting, Copying
  <2> QED BY <1>2, <1>4, <1>6, <2>2, <2>3, <2>5, <2>6 DEF ProxyInv, Stage
<1> QED BY <1>3, <1>5, <1>6 DEF WriteRequest, Goto, Stay

\* The HTTP loop reads a request, or leaves the stream for another host.
LEMMA ReadRequestStep ==
  ASSUME ClientTypes, ProxyTypes, NEW c \in 0 .. sent, Stage(c), ReadRequest
  PROVE  ProxyInv' /\ Writes
<1>1. /\ UNCHANGED <<kind, pass, sent, net, lclosed, hs, host, flags, ireq, n, up>>
      /\ buf' = Tail(buf) /\ pc = "hread" /\ n # 0 /\ hs \notin Shakes
  BY DEF ReadRequest, clientVars, hsVars, Stage, Shaking, Copying, Shakes
<1>2. buf # <<>>
  BY DEF ReadRequest, First, Avail
<1>3. Wire(c + 1)' /\ c + 1 \in 0 .. sent
  BY <1>1, <1>2, WireRead, NextToken DEF Stage
<1>4. HandshakeLen' = HandshakeLen /\ n' \in 0 .. MaxPass
  BY <1>1, ClientFixed DEF ProxyTypes
<1>5. CASE pc' = "start"
  <2>1. Shaking(c + 1)' /\ Detecting(c + 1)' /\ Copying(c + 1)'
    BY <1>1, <1>5 DEF Shaking, Shakes, Detecting, Copying
  <2> QED BY <1>1, <1>3, <1>4, <2>1, SilentStep
<1>6. CASE pc' = "hwrite" /\ preq' = [h |-> Head(buf).h, x |-> Head(buf).x]
  <2>1. n = 1 => c = HandshakeLen + Len(up[1])
    BY <1>1 DEF Stage, Copying
  <2>2. /\ HandshakeLen \in Nat /\ Len(up[1]) \in Nat
        /\ c >= HandshakeLen => Head(buf).x = c + 1 - HandshakeLen
    BY <1>2, NextToken DEF Stage, ProxyTypes
  <2>3. n = 1 => Head(buf).x = Len(up[1]) + 1 /\ c + 1 = HandshakeLen + Len(up[1]) + 1
    BY <2>1, <2>2
  <2>4. n = 1 => preq'.x = Len(up[1]) + 1 /\ preq'.x # 0
    BY <1>6, <2>2, <2>3
  <2>5. n = 1 => preq' # NoReq' /\ preq'.x = Len(up[1]) + 1
    BY <2>4 DEF NoReq
  <2>6. Shaking(c + 1)' /\ Detecting(c + 1)' /\ Copying(c + 1)'
    BY <1>1, <1>4, <1>6, <2>3, <2>5 DEF Shaking, Shakes, Detecting, Copying
  <2> QED BY <1>1, <1>3, <1>4, <2>6, SilentStep
<1> QED BY <1>5, <1>6 DEF ReadRequest, Goto

\* The steps after which nothing more is written to the stream.
LEMMA EndSteps ==
  ASSUME ClientTypes, ProxyTypes, NEW c \in 0 .. sent, Stage(c),
         \/ SocksFailed \/ UdpGatewayEnds \/ StartFails \/ ConnectFails \/ CopyUpEnds \/ Idle
         \/ CloseWriter \/ TunnelEnds \/ ReadRequestFails
  PROVE  ProxyInv' /\ Writes
<1>1. CASE \/ SocksFailed \/ UdpGatewayEnds \/ StartFails \/ ConnectFails
           \/ TunnelEnds \/ ReadRequestFails \/ (Idle /\ pc = "hread")
  <2>1. Return /\ UNCHANGED <<clientVars, net, buf, hsVars, n, up>> /\ (pc # "socks" \/ hs = "fail")
    BY <1>1 DEF SocksFailed, UdpGatewayEnds, StartFails, ConnectFails, TunnelEnds,
      ReadRequestFails, Idle
  <2> QED BY <2>1, ReturnStep
<1>2. CASE CopyUpEnds \/ CloseWriter \/ (Idle /\ pc = "copy")
  <2>1. /\ UNCHANGED <<kind, pass, sent, net, buf, hs, n, up, lclosed>>
        /\ pc' \in {"upend", "wait"} /\ pc # "socks"
    BY <1>2 DEF CopyUpEnds, CloseWriter, Idle, Goto, Stay, socksVars, clientVars, hsVars
  <2>2. Wire(c)' /\ hs \notin Shakes
    BY <2>1, WireKept DEF Stage, Shaking, Shakes
  <2> QED BY <2>1, <2>2, LeaveStep
<1> QED BY <1>1, <1>2 DEF Idle

\* The copier, the other end, stopLocalServers and the garbage collector.
LEMMA OtherSteps ==
  ASSUME ClientTypes, ProxyTypes, NEW c \in 0 .. sent, Stage(c),
         \/ CollectFile \/ StopBegin \/ StopEnd
         \/ \E i \in Passes : CopierEnds(i) \/ RemoteEnds(i) \/ StopClose(i)
  PROVE  ProxyInv' /\ Writes
<1>1. /\ UNCHANGED <<kind, pass, sent, net, buf, hs, pc, host, flags, ireq, preq, n, up>>
      /\ lclosed => lclosed'
  BY DEF CollectFile, StopBegin, StopEnd, CopierEnds, RemoteEnds, StopClose,
    socksVars, clientVars, serveVars, reqVars, hsVars
<1> QED BY <1>1, QuietProxyStep

\* Every step keeps the invariant and writes at most the next token.
LEMMA ProxyStep == ProxyInv /\ [ProxyNext]_proxyVars => ProxyInv' /\ Writes
<1> SUFFICES ASSUME ProxyInv, [ProxyNext]_proxyVars PROVE ProxyInv' /\ Writes
  OBVIOUS
<1>1. PICK c \in 0 .. sent : Stage(c)
  BY DEF ProxyInv
<1>2. ClientTypes /\ ProxyTypes
  BY DEF ProxyInv
<1>3. CASE UNCHANGED proxyVars
  <2>1. /\ UNCHANGED <<kind, pass, sent, net, buf, hs, pc, host, flags, ireq, preq, n, up>>
        /\ lclosed => lclosed'
    BY <1>3 DEF proxyVars, socksVars, clientVars, serveVars
  <2> QED BY <1>1, <1>2, <2>1, QuietProxyStep
<1>4. CASE ProxyNext
  BY <1>1, <1>2, <1>4, AcceptStep, SocksOverStep, SniffStep, PeekRequestStep, PeekOtherStep,
    StreamStep, ConnectedStep, CopyUpStep, WriteRequestStep, ReadRequestStep, EndSteps,
    OtherSteps, ClientStep, HandshakeStep DEF ProxyNext, Serve
<1> QED BY <1>3, <1>4

\* Every reachable state of a connection is in a stage.
THEOREM ProxyInvariance == ProxySpec => []ProxyInv
<1>1. ProxyInit => ProxyInv
  BY ProxyInitially
<1>2. ProxyInv /\ [ProxyNext]_proxyVars => ProxyInv'
  BY ProxyStep
<1> QED BY <1>1, <1>2, PTL DEF ProxySpec
-----------------------------------------------------------------------------
\* What the client has sent of its payload.
LEMMA PayloadSize ==
  ClientTypes =>
    /\ HandshakeLen \in Nat /\ sent \in Nat
    /\ Cardinality(Payload) = IF sent > HandshakeLen THEN sent - HandshakeLen ELSE 0
<1> HAVE ClientTypes
<1>1. Shape(Script, HandshakeLen) /\ Len(Script) \in Nat
  BY ScriptShape DEF ClientTypes
<1>2. HandshakeLen \in Nat /\ sent \in Nat /\ sent <= Len(Script)
  BY <1>1 DEF Shape, ClientTypes
<1>3. \A i \in 1 .. sent : /\ i \in 1 .. Len(Script) /\ (i > HandshakeLen \/ i <= HandshakeLen)
  BY <1>1, <1>2
<1>4. \A i \in 1 .. sent : Script[i].t \in {"data", "req", "tls"} <=> i > HandshakeLen
  BY <1>1, <1>3 DEF Shape
<1>5. \A i : i \in Payload <=> i \in 1 .. sent /\ i > HandshakeLen
  BY <1>4 DEF Payload
<1>6. Payload = HandshakeLen + 1 .. sent
  <2>1. \A i : i \in HandshakeLen + 1 .. sent <=> i \in 1 .. sent /\ i > HandshakeLen
    BY <1>2
  <2> QED BY <1>5, <2>1
<1>7. Cardinality(Payload) = IF HandshakeLen + 1 > sent THEN 0 ELSE sent - (HandshakeLen + 1) + 1
  BY <1>2, <1>6, FS_Interval
<1>8. (IF HandshakeLen + 1 > sent THEN 0 ELSE sent - (HandshakeLen + 1) + 1)
        = (IF sent > HandshakeLen THEN sent - HandshakeLen ELSE 0)
  BY <1>2
<1> QED BY <1>2, <1>7, <1>8

\* Only the client changes what was sent, and then no stream gets anything.
LEMMA SendOrNot ==
  ASSUME [ProxyNext]_proxyVars
  PROVE  \/ UNCHANGED <<kind, pass, sent>>
         \/ UNCHANGED <<kind, pass, up>> /\ sent' = sent + 1
<1>1. CASE UNCHANGED proxyVars
  BY <1>1 DEF proxyVars, socksVars, clientVars
<1>2. CASE Client /\ Others
  BY <1>2 DEF Client, ClientSend, ClientRefused, ClientClose, Others, serveVars
<1>3. CASE (Fill /\ Others) \/ (Handshake /\ Others)
  BY <1>3 DEF Fill, Handshake, PeekVersion, socks5NegotiateAuth, socks5AuthRFC1929,
    socks5ReadCommand, readSocks4aConnect, HandshakeEOF, Step, clientVars
<1>4. CASE Serve
  BY <1>4 DEF Serve, Accept, SocksGranted, SocksFailed, NotSocks, UdpGatewayEnds, Sniff,
    PeekRequest, PeekOther, GetMuxStream, ConnectFails, Connected, CopyUp, CopyUpEnds,
    CloseWriter, TunnelEnds, WriteRequest, ReadRequest, ReadRequestFails, socksVars, clientVars
<1>5. CASE AcceptNoAddr \/ CollectFile \/ StartFails \/ Idle \/ StopBegin \/ StopEnd
  BY <1>5 DEF AcceptNoAddr, CollectFile, StartFails, Idle, StopBegin, StopEnd, socksVars, clientVars
<1>6. CASE \E i \in Passes : CopierEnds(i) \/ RemoteEnds(i) \/ StopClose(i)
  BY <1>6 DEF CopierEnds, RemoteEnds, StopClose, socksVars, clientVars
<1> QED BY <1>1, <1>2, <1>3, <1>4, <1>5, <1>6 DEF ProxyNext

\* The last number that the first stream got is how many it got.
LEMMA LatestIsLength == ASSUME ProxyTypes PROVE P!Latest = Len(up[1]) /\ Len(up[1]) \in Nat
<1>1. up[1] \in Seq(Nat) /\ Len(up[1]) \in Nat
  BY DEF ProxyTypes
<1>2. CASE up[1] = <<>>
  BY <1>1, <1>2 DEF P!Latest
<1>3. CASE up[1] # <<>>
  <2>1. Len(up[1]) \in 1 .. Len(up[1])
    BY <1>1, <1>3
  <2> QED BY <1>1, <1>3, <2>1 DEF P!Latest, ProxyTypes
<1> QED BY <1>2, <1>3

\* A step of the connection is a step of the pipe or leaves it alone.
LEMMA PipeStep ==
  ProxyInv /\ ProxyInv' /\ [ProxyNext]_proxyVars /\ Writes => [P!Next]_(P!vars)
<1> SUFFICES ASSUME ProxyInv, ProxyInv', [ProxyNext]_proxyVars, Writes PROVE [P!Next]_(P!vars)
  OBVIOUS
<1> DEFINE size == Cardinality(Payload)
<1>1. /\ ClientTypes /\ ClientTypes' /\ ProxyTypes
  BY DEF ProxyInv
<1>2. /\ HandshakeLen \in Nat /\ sent \in Nat
      /\ size = IF sent > HandshakeLen THEN sent - HandshakeLen ELSE 0
      /\ HandshakeLen' \in Nat /\ sent' \in Nat
      /\ size' = IF sent' > HandshakeLen' THEN sent' - HandshakeLen' ELSE 0
  <2>1. (ClientTypes =>
           /\ HandshakeLen \in Nat /\ sent \in Nat
           /\ Cardinality(Payload) = IF sent > HandshakeLen THEN sent - HandshakeLen ELSE 0)'
    BY PayloadSize, PTL
  <2> QED BY <1>1, <2>1, PayloadSize
<1> HIDE DEF size
<1>3. CASE UNCHANGED <<kind, pass, up>> /\ sent' = sent + 1
  <2>1. HandshakeLen' = HandshakeLen
    BY <1>3, ScriptFixed
  <2>2. size' = size \/ size' = size + 1
    BY <1>2, <1>3, <2>1
  <2> QED BY <1>3, <2>2 DEF P!Next, P!Put, P!vars, size
<1>4. CASE UNCHANGED <<kind, pass, sent>>
  <2>1. HandshakeLen' = HandshakeLen /\ size' = size
    BY <1>2, <1>4, ScriptFixed
  <2>2. CASE up'[1] = up[1]
    BY <2>1, <2>2 DEF P!vars, size
  <2>3. CASE /\ up'[1] = Append(up[1], Len(up[1]) + 1)
             /\ HandshakeLen + Len(up[1]) + 1 <= sent
    <3>1. P!Latest = Len(up[1]) /\ Len(up[1]) \in Nat
      BY <1>1, LatestIsLength
    <3>2. Len(up[1]) + 1 <= size /\ Len(up[1]) + 1 \in Len(up[1]) + 1 .. Len(up[1]) + 1
      BY <1>2, <2>3, <3>1
    <3>3. P!Take
      BY <2>1, <2>3, <3>1, <3>2 DEF P!Take, size
    <3> QED BY <3>3 DEF P!Next
  <2> QED BY <2>2, <2>3 DEF Writes
<1> QED BY <1>3, <1>4, SendOrNot

\* The first stream of a connection implements Pipe: of what the client sends,
\* the handshake, the peeks and the change of readers take exactly the
\* handshake, and the rest reaches the stream in order and without a gap, for
\* the sixteen kinds of client, passwords of any length and however TCP cuts
\* what is sent.
THEOREM FirstStreamIsPipe == ProxySpec => UpstreamIsPipe
<1>1. ProxyInit => P!Init
  <2> SUFFICES ASSUME ProxyInit PROVE P!Init
    OBVIOUS
  <2>1. ClientTypes /\ sent = 0 /\ up[1] = <<>>
    BY ProxyInitially, ProxyAssumption DEF ProxyInv, ProxyInit, SocksInit, Passes
  <2>2. Cardinality(Payload) = 0
    BY <2>1, PayloadSize
  <2> QED BY <2>1, <2>2 DEF P!Init
<1>2. ProxyInv /\ [ProxyNext]_proxyVars => [P!Next]_(P!vars)
  BY ProxyStep, PipeStep
<1> QED BY <1>1, <1>2, ProxyInvariance, PTL DEF ProxySpec, UpstreamIsPipe, P!Spec
=============================================================================
