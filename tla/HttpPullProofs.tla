--------------------------- MODULE HttpPullProofs ---------------------------
(***************************************************************************)
(* Proofs about the download half of the HTTP transport, for any number of *)
(* pulls, messages and breaks: type correctness; Write never uses the      *)
(* response of a handler that has returned while nobody closes the         *)
(* connection; and the two ends implement Pipe.                            *)
(***************************************************************************)
EXTENDS HttpPull, SequenceTheorems, TLAPS

(* Write holds a message while it waits for sendLock, and running is       *)
(* cleared only by a Close.                                                *)
LockHasMessage == sw = "lock" => next <= MaxMsg
OpenIsRunning  == closer = "no" => running

IInv == TypeOK /\ LockHasMessage /\ OpenIsRunning /\ WriterIsServed

(* The initial state satisfies the invariant.                              *)
LEMMA InitIInv == Init => IInv
  BY PullAssumption DEF Init, IInv, TypeOK, LockHasMessage, OpenIsRunning, WriterIsServed

(* Steps of the server's Write.                                            *)
LEMMA WriteStep ==
  ASSUME IInv, WriteTest \/ WriteWait \/ Write \/ WriteFails
  PROVE  IInv'
<1> USE PullAssumption DEF IInv, TypeOK, LockHasMessage, OpenIsRunning, WriterIsServed, clientVars
<1>1. CASE WriteTest
  BY <1>1 DEF WriteTest
<1>2. CASE WriteWait
  BY <1>2 DEF WriteWait
<1>3. CASE Write
  BY <1>3 DEF Write, Listening
<1>4. CASE WriteFails
  BY <1>4 DEF WriteFails
<1> QED BY <1>1, <1>2, <1>3, <1>4

(* Steps of pull handlers: the writer is the handler that set itself, or   *)
(* none once a handler that could be it returns.                           *)
LEMMA HandlerStep ==
  ASSUME IInv, NEW h \in Handler,
         HTTPInvoke(h) \/ SetWriter(h) \/ CheckRunning(h) \/ Timeout(h) \/ CloseWrite(h)
  PROVE  IInv'
<1> USE PullAssumption DEF IInv, TypeOK, LockHasMessage, OpenIsRunning, WriterIsServed,
                           clientVars, Move, Reached
<1>1. CASE HTTPInvoke(h)
  BY <1>1 DEF HTTPInvoke
<1>2. CASE SetWriter(h)
  BY <1>2 DEF SetWriter
<1>3. CASE CheckRunning(h)
  BY <1>3 DEF CheckRunning, Refuse
<1>4. CASE Timeout(h)
  BY <1>4 DEF Timeout
<1>5. CASE CloseWrite(h)
  BY <1>5 DEF CloseWrite
<1> QED BY <1>1, <1>2, <1>3, <1>4, <1>5

(* Steps of Close on the server.                                           *)
LEMMA CloseStep ==
  ASSUME IInv, CloseBegin \/ CloseNotify \/ CloseFlag \/ CloseRemove
  PROVE  IInv'
<1> USE PullAssumption DEF IInv, TypeOK, LockHasMessage, OpenIsRunning, WriterIsServed, clientVars
<1>1. CASE CloseBegin
  BY <1>1 DEF CloseBegin, Reached
<1>2. CASE CloseNotify
  BY <1>2 DEF CloseNotify, Move, Refuse
<1>3. CASE CloseFlag
  BY <1>3 DEF CloseFlag
<1>4. CASE CloseRemove
  BY <1>4 DEF CloseRemove
<1> QED BY <1>1, <1>2, <1>3, <1>4

(* Steps of the client and of the network.                                 *)
LEMMA ClientStep ==
  ASSUME IInv,
         \/ \E h \in Handler : Pull(h) \/ Break(h) \/ Gone(h)
         \/ PullOK \/ PullRefused \/ Read \/ ReadEnd \/ Close
  PROVE  IInv'
<1> USE PullAssumption DEF IInv, TypeOK, LockHasMessage, OpenIsRunning, WriterIsServed,
                           clientVars, servVars
<1>1. ASSUME NEW h \in Handler, Pull(h) PROVE IInv'
  BY <1>1 DEF Pull
<1>2. ASSUME NEW h \in Handler, Break(h) PROVE IInv'
  BY <1>2 DEF Break
<1>3. ASSUME NEW h \in Handler, Gone(h) PROVE IInv'
  BY <1>3 DEF Gone
<1>4. CASE PullOK
  BY <1>4 DEF PullOK
<1>5. CASE PullRefused
  BY <1>5 DEF PullRefused
<1>6. CASE Read
  <2>1. /\ recvReader \in Handler
        /\ resp[recvReader] \in Seq(1 .. MaxMsg) /\ resp[recvReader] # <<>>
    BY <1>6 DEF Read
  <2>2. /\ Head(resp[recvReader]) \in 1 .. MaxMsg
        /\ Tail(resp[recvReader]) \in Seq(1 .. MaxMsg)
    BY <2>1
  <2>3. got' \in Seq(1 .. MaxMsg)
    BY <1>6, <2>2 DEF Read
  <2>4. resp' \in [Handler -> Seq(1 .. MaxMsg)]
    BY <1>6, <2>1, <2>2 DEF Read
  <2> QED BY <1>6, <2>3, <2>4 DEF Read
<1>7. CASE ReadEnd
  BY <1>7 DEF ReadEnd
<1>8. CASE Close
  BY <1>8 DEF Close
<1> QED BY <1>1, <1>2, <1>3, <1>4, <1>5, <1>6, <1>7, <1>8

(* The invariant holds in every reachable state.                           *)
THEOREM Invariance == Spec => []IInv
<1>1. IInv /\ [Next]_vars => IInv'
  <2> SUFFICES ASSUME IInv, [Next]_vars PROVE IInv'
    OBVIOUS
  <2>1. CASE UNCHANGED vars
    BY <2>1 DEF vars, servVars, clientVars, IInv, TypeOK, LockHasMessage,
                OpenIsRunning, WriterIsServed
  <2>2. CASE Next
    BY <2>2, WriteStep, HandlerStep, CloseStep, ClientStep DEF Next
  <2> QED BY <2>1, <2>2
<1> QED BY InitIInv, <1>1, PTL DEF Spec

(* Type correctness of both ends, and one response at a time for Read.     *)
THEOREM TypeCorrect == Spec => []TypeOK
<1>1. IInv => TypeOK
  BY DEF IInv
<1> QED BY Invariance, <1>1, PTL

(* While nobody closes the connection, Write only uses the response of a   *)
(* pull whose handler has not returned.                                    *)
THEOREM WriterHasHandler == Spec => []WriterIsServed
<1>1. IInv => WriterIsServed
  BY DEF IInv
<1> QED BY Invariance, <1>1, PTL
-----------------------------------------------------------------------------
(***************************************************************************)
(* The download half implements the pipe.  The messages under way are the  *)
(* ones in the response of the current pull, the one pull waits for or     *)
(* Read reads.  Every other response is empty (IdleIsEmpty), whether it    *)
(* has not begun (EarlyIsEmpty) or was refused (RefusedIsOver).  Unless a  *)
(* pull has broken, no handler but the one of the current pull is alive    *)
(* (LiveIsCurrent), so that Write cannot reach another response.           *)
(***************************************************************************)
Latest == P!Latest
Current == Handler \cap {pulling, recvReader}
Lossy == broken > 0 \/ closer # "no"

OpenIsListed == closer = "no" => inTable
IdleIsEmpty == \A h \in Handler : h \notin Current => resp[h] = <<>>
EarlyIsEmpty ==
  \A h \in Handler : /\ hpc[h] \in {"none", "sent", "set"} => resp[h] = <<>>
                     /\ hpc[h] = "none" => h \notin Current
RefusedIsOver ==
  \A h \in refused : hpc[h] = "out" /\ resp[h] = <<>> /\ closer # "no"
LiveIsCurrent ==
  broken = 0 => \A h \in Handler : hpc[h] \notin {"none", "out"} => h \in Current

CurrentPull == OpenIsListed /\ IdleIsEmpty /\ EarlyIsEmpty /\ RefusedIsOver /\ LiveIsCurrent

(* What is under way is newer than what was read and older than what Write *)
(* holds, and in order; while nothing is lost, it is exactly what is       *)
(* missing between the two.                                                *)
InOrder ==
  /\ Latest < next
  /\ \A h \in Handler : \A i \in 1 .. Len(resp[h]) :
       /\ Latest < resp[h][i] /\ resp[h][i] < next
       /\ \A j \in 1 .. i - 1 : resp[h][j] < resp[h][i]
NoneMissing ==
  ~Lossy =>
    /\ \A h \in Handler : \A i \in 1 .. Len(resp[h]) : resp[h][i] = Latest + i
    /\ \A h \in Current : next = Latest + Len(resp[h]) + 1
    /\ Current = {} => next = Latest + 1

UnderWay == InOrder /\ NoneMissing

(* The newest message read is a number.                                    *)
LEMMA LatestType == ASSUME TypeOK PROVE Latest \in Nat
<1>1. CASE got = <<>>
  BY <1>1 DEF Latest, P!Latest
<1>2. CASE got # <<>>
  <2>1. got \in Seq(1 .. MaxMsg) /\ Len(got) \in 1 .. Len(got)
    BY <1>2 DEF TypeOK
  <2>2. got[Len(got)] \in 1 .. MaxMsg
    BY <2>1, ElementOfSeq, PullAssumption
  <2> QED BY <1>2, <2>2, PullAssumption DEF Latest, P!Latest
<1> QED BY <1>1, <1>2

(* The initial state has nothing under way.                                *)
LEMMA InitUnderWay == Init => CurrentPull /\ UnderWay
  BY PullAssumption DEF Init, CurrentPull, OpenIsListed, IdleIsEmpty, EarlyIsEmpty,
     RefusedIsOver, LiveIsCurrent, Current, UnderWay, InOrder, NoneMissing, Latest,
     P!Latest, Lossy
(* Steps that leave the messages and the pulls alone, or only end the      *)
(* possibility of losing none, keep what is under way.                     *)
LEMMA UnderWayFrame ==
  ASSUME UnderWay, UNCHANGED <<next, resp, got, pulling, recvReader>>,
         Lossy => Lossy'
  PROVE  UnderWay'
  BY DEF UnderWay, InOrder, NoneMissing, Latest, P!Latest, Current

(* Write appends the next message to the response of the current pull.     *)
LEMMA WriteUnderWay ==
  ASSUME IInv, CurrentPull, UnderWay, WriteTest \/ WriteWait \/ Write \/ WriteFails
  PROVE  CurrentPull' /\ UnderWay'
<1> USE DEF CurrentPull, OpenIsListed, IdleIsEmpty, EarlyIsEmpty, RefusedIsOver,
            LiveIsCurrent, Current, clientVars
<1>1. CASE WriteTest
  BY <1>1, UnderWayFrame DEF WriteTest, Lossy
<1>2. CASE WriteWait
  BY <1>2, UnderWayFrame DEF WriteWait, Lossy
<1>3. CASE WriteFails
  BY <1>3, UnderWayFrame DEF WriteFails, Lossy
<1>4. CASE Write
  <2> DEFINE w == writer
  <2>1. /\ w \in Handler /\ next \in Nat /\ next' = next + 1 /\ next \in 1 .. MaxMsg
        /\ resp \in [Handler -> Seq(1 .. MaxMsg)]
        /\ UNCHANGED <<got, pulling, recvReader, broken, closer, hpc, refused, inTable>>
    BY <1>4, PullAssumption DEF Write, IInv, TypeOK, LockHasMessage
  <2>2. Latest \in Nat /\ Latest' = Latest
    BY <2>1, LatestType DEF IInv, Latest, P!Latest
  <2>3. CASE Listening(w)
    <3>1. w \in Current /\ hpc[w] \in {"check", "select", "timeout"}
      BY <2>1, <2>3 DEF Listening
    <3>2. /\ resp' = [resp EXCEPT ![w] = Append(resp[w], next)]
          /\ \A h \in Handler : h # w => resp'[h] = resp[h]
          /\ resp'[w] = Append(resp[w], next)
      BY <1>4, <2>1, <2>3 DEF Write
    <3>3. CurrentPull'
      BY <2>1, <3>1, <3>2 DEF IInv, TypeOK
    <3>4. /\ Len(resp[w]) \in Nat /\ Len(resp'[w]) = Len(resp[w]) + 1
          /\ \A i \in 1 .. Len(resp[w]) : resp'[w][i] = resp[w][i]
          /\ resp'[w][Len(resp[w]) + 1] = next
      BY <2>1, <3>2
    <3>5. \A h \in Handler : \A i \in 1 .. Len(resp[h]) : resp[h][i] \in Nat
      BY <2>1, ElementOfSeq, PullAssumption
    <3>6. InOrder'
      <4>1. \A i \in 1 .. Len(resp'[w]) :
              /\ Latest < resp'[w][i] /\ resp'[w][i] < next'
              /\ \A j \in 1 .. i - 1 : resp'[w][j] < resp'[w][i]
        <5> SUFFICES ASSUME NEW i \in 1 .. Len(resp'[w])
                     PROVE  /\ Latest < resp'[w][i] /\ resp'[w][i] < next'
                            /\ \A j \in 1 .. i - 1 : resp'[w][j] < resp'[w][i]
          OBVIOUS
        <5>1. CASE i \in 1 .. Len(resp[w])
          <6>1. /\ Latest < resp[w][i] /\ resp[w][i] < next
                /\ \A j \in 1 .. i - 1 : resp[w][j] < resp[w][i]
            BY <2>1, <5>1 DEF UnderWay, InOrder
          <6>2. \A j \in 1 .. i - 1 : j \in 1 .. Len(resp[w])
            BY <3>4, <5>1
          <6> QED BY <2>1, <3>4, <3>5, <5>1, <6>1, <6>2
        <5>2. CASE i = Len(resp[w]) + 1
          <6>1. \A j \in 1 .. i - 1 : j \in 1 .. Len(resp[w])
            BY <3>4, <5>2
          <6>2. \A j \in 1 .. Len(resp[w]) : resp[w][j] < next
            BY <2>1 DEF UnderWay, InOrder
          <6> QED BY <2>1, <2>2, <3>4, <5>2, <6>1, <6>2 DEF UnderWay, InOrder
        <5> QED BY <3>4, <5>1, <5>2
      <4>2. ASSUME NEW h \in Handler, h # w, NEW i \in 1 .. Len(resp'[h])
            PROVE  /\ Latest < resp'[h][i] /\ resp'[h][i] < next'
                   /\ \A j \in 1 .. i - 1 : resp'[h][j] < resp'[h][i]
        BY <4>2, <2>1, <3>2, <3>5 DEF UnderWay, InOrder
      <4> QED BY <2>1, <2>2, <4>1, <4>2 DEF UnderWay, InOrder
    <3>7. NoneMissing'
      <4> SUFFICES ASSUME ~Lossy PROVE NoneMissing'
        BY <2>1 DEF NoneMissing, Lossy
      <4>1. next = Latest + Len(resp[w]) + 1
        BY <3>1 DEF UnderWay, NoneMissing
      <4>2. \A i \in 1 .. Len(resp'[w]) : resp'[w][i] = Latest + i
        <5> SUFFICES ASSUME NEW i \in 1 .. Len(resp'[w]) PROVE resp'[w][i] = Latest + i
          OBVIOUS
        <5>1. CASE i \in 1 .. Len(resp[w])
          BY <2>1, <3>4, <5>1 DEF UnderWay, NoneMissing
        <5>2. CASE i = Len(resp[w]) + 1
          BY <2>2, <3>4, <4>1, <5>2
        <5> QED BY <3>4, <5>1, <5>2
      <4>3. \A h \in Handler : h # w => \A i \in 1 .. Len(resp'[h]) : resp'[h][i] = Latest + i
        BY <3>2 DEF UnderWay, NoneMissing
      <4>4. Current = {w}
        BY <3>1, PullAssumption DEF IInv, TypeOK
      <4>5. next' = Latest + Len(resp'[w]) + 1
        BY <2>1, <2>2, <3>4, <4>1
      <4> QED BY <2>1, <2>2, <4>2, <4>3, <4>4, <4>5 DEF NoneMissing
    <3> QED BY <3>3, <3>6, <3>7 DEF UnderWay
  <2>4. CASE ~Listening(w)
    <3>1. resp' = resp
      BY <1>4, <2>4 DEF Write
    <3>2. Lossy
      BY <1>4, <2>1, <2>4 DEF Write, Listening, IInv, TypeOK, WriterIsServed, Lossy
    <3>3. CurrentPull'
      BY <2>1, <3>1
    <3>4. InOrder'
      <4>1. \A h \in Handler : \A i \in 1 .. Len(resp[h]) : resp[h][i] \in Nat
        BY <2>1, ElementOfSeq, PullAssumption
      <4> QED BY <2>1, <2>2, <3>1, <4>1 DEF UnderWay, InOrder
    <3> QED BY <2>1, <3>2, <3>3, <3>4 DEF UnderWay, NoneMissing, Lossy
  <2> QED BY <2>3, <2>4
<1> QED BY <1>1, <1>2, <1>3, <1>4
(* Handlers move between calls; one that refuses has written nothing.      *)
LEMMA HandlerUnderWay ==
  ASSUME IInv, CurrentPull, UnderWay, NEW h \in Handler,
         HTTPInvoke(h) \/ SetWriter(h) \/ CheckRunning(h) \/ Timeout(h) \/ CloseWrite(h)
  PROVE  CurrentPull' /\ UnderWay'
<1> USE DEF CurrentPull, OpenIsListed, IdleIsEmpty, EarlyIsEmpty, RefusedIsOver,
            LiveIsCurrent, Current, clientVars, Move, IInv, TypeOK, OpenIsRunning
<1>1. CASE HTTPInvoke(h)
  <2>1. UnderWay'
    BY <1>1, UnderWayFrame DEF HTTPInvoke, Lossy
  <2>2. CASE inTable
    BY <1>1, <2>1, <2>2 DEF HTTPInvoke
  <2>3. CASE ~inTable
    BY <1>1, <2>1, <2>3 DEF HTTPInvoke
  <2> QED BY <2>2, <2>3
<1>2. CASE SetWriter(h)
  BY <1>2, UnderWayFrame DEF SetWriter, Lossy, Reached
<1>3. CASE CheckRunning(h)
  BY <1>3, UnderWayFrame DEF CheckRunning, Refuse, Lossy
<1>4. CASE Timeout(h)
  BY <1>4, UnderWayFrame DEF Timeout, Lossy
<1>5. CASE CloseWrite(h)
  BY <1>5, UnderWayFrame DEF CloseWrite, Lossy, Reached
<1> QED BY <1>1, <1>2, <1>3, <1>4, <1>5

(* Close ends handlers and breaks the pipe off.                            *)
LEMMA CloseUnderWay ==
  ASSUME IInv, CurrentPull, UnderWay, CloseBegin \/ CloseNotify \/ CloseFlag \/ CloseRemove
  PROVE  CurrentPull' /\ UnderWay'
<1> USE DEF CurrentPull, OpenIsListed, IdleIsEmpty, EarlyIsEmpty, RefusedIsOver,
            LiveIsCurrent, Current, clientVars, IInv, TypeOK
<1>1. CASE CloseBegin
  BY <1>1, UnderWayFrame DEF CloseBegin, Lossy, Reached
<1>2. CASE CloseNotify
  BY <1>2, UnderWayFrame DEF CloseNotify, Move, Refuse, Lossy
<1>3. CASE CloseFlag
  BY <1>3, UnderWayFrame DEF CloseFlag, Lossy
<1>4. CASE CloseRemove
  BY <1>4, UnderWayFrame DEF CloseRemove, Lossy
<1> QED BY <1>1, <1>2, <1>3, <1>4

(* What Read takes out is newer than what it took before, older than what  *)
(* Write holds, and the very next message while nothing is lost.           *)
LEMMA ReadTakesNext ==
  ASSUME IInv, UnderWay, Read
  PROVE  LET m == Head(resp[recvReader])
         IN  /\ recvReader \in Handler /\ resp[recvReader] # <<>>
             /\ m \in Nat /\ Latest < m /\ m < next
             /\ ~Lossy => m = Latest + 1
             /\ got' = Append(got, m) /\ Latest' = m
<1> DEFINE m == Head(resp[recvReader])
<1>1. /\ recvReader \in Handler /\ resp[recvReader] # <<>>
      /\ resp[recvReader] \in Seq(1 .. MaxMsg) /\ got \in Seq(1 .. MaxMsg)
      /\ got' = Append(got, m)
  BY DEF IInv, TypeOK, Read
<1>2. m = resp[recvReader][1] /\ 1 \in 1 .. Len(resp[recvReader]) /\ m \in 1 .. MaxMsg
  <2>1. Len(resp[recvReader]) \in Nat \ {0}
    BY <1>1, EmptySeq
  <2>2. m \in 1 .. MaxMsg
    BY <1>1, HeadTailProperties
  <2> QED BY <1>1, <2>1, <2>2
<1>3. got' # <<>> /\ got'[Len(got')] = m
  BY <1>1, <1>2, AppendProperties
<1>4. Latest' = m
  BY <1>3 DEF Latest, P!Latest
<1>5. Latest < m /\ m < next /\ (~Lossy => m = Latest + 1)
  BY <1>1, <1>2, LatestType DEF UnderWay, InOrder, NoneMissing, IInv
<1> QED BY <1>1, <1>2, <1>4, <1>5, PullAssumption

(* Steps of the client and of the network.                                 *)
LEMMA ClientUnderWay ==
  ASSUME IInv, CurrentPull, UnderWay,
         \/ \E h \in Handler : Pull(h) \/ Break(h) \/ Gone(h)
         \/ PullOK \/ PullRefused \/ Read \/ ReadEnd \/ Close
  PROVE  CurrentPull' /\ UnderWay'
<1> USE DEF CurrentPull, OpenIsListed, IdleIsEmpty, EarlyIsEmpty, RefusedIsOver,
            LiveIsCurrent, Current, clientVars, servVars
<1>1. ASSUME NEW h \in Handler, Pull(h) PROVE CurrentPull' /\ UnderWay'
  <2>1. CurrentPull'
    BY <1>1, PullAssumption DEF Pull, IInv, TypeOK
  <2>2. /\ Current = {} /\ Current' = {h} /\ Len(resp[h]) = 0
        /\ UNCHANGED <<next, resp, got, broken, closer>>
    BY <1>1, PullAssumption DEF Pull
  <2> QED BY <2>1, <2>2, LatestType DEF UnderWay, InOrder, NoneMissing, Latest, P!Latest, Lossy, IInv
<1>2. ASSUME NEW h \in Handler, Break(h) PROVE CurrentPull' /\ UnderWay'
  <2>1. CurrentPull'
    BY <1>2, PullAssumption DEF Break, IInv, TypeOK
  <2>2. /\ \A g \in Handler : resp'[g] = IF g = h THEN <<>> ELSE resp[g]
        /\ Lossy' /\ UNCHANGED <<next, got>>
    BY <1>2 DEF Break, IInv, TypeOK, Lossy
  <2> QED BY <2>1, <2>2 DEF UnderWay, InOrder, NoneMissing, Latest, P!Latest
<1>3. ASSUME NEW h \in Handler, Gone(h) PROVE CurrentPull' /\ UnderWay'
  <2>1. resp' = resp
    BY <1>3 DEF Gone, IInv, TypeOK
  <2>2. CurrentPull'
    BY <1>3, <2>1 DEF Gone, IInv, TypeOK
  <2> QED BY <1>3, <2>1, <2>2, UnderWayFrame DEF Gone, Lossy
<1>4. CASE PullOK
  <2>1. CurrentPull' /\ Current' = Current
    BY <1>4, PullAssumption DEF PullOK, IInv, TypeOK
  <2>2. UNCHANGED <<next, resp, got, broken, closer>>
    BY <1>4 DEF PullOK
  <2> QED BY <2>1, <2>2 DEF UnderWay, InOrder, NoneMissing, Latest, P!Latest, Lossy
<1>5. CASE PullRefused
  <2>1. Lossy' /\ UNCHANGED <<next, resp, got>>
    BY <1>5 DEF PullRefused, Lossy
  <2>2. CurrentPull'
    BY <1>5 DEF PullRefused, IInv, TypeOK
  <2> QED BY <2>1, <2>2 DEF UnderWay, InOrder, NoneMissing, Latest, P!Latest
<1>6. CASE Read
  <2> DEFINE r == recvReader
             m == Head(resp[r])
  <2>1. /\ r \in Handler /\ resp[r] # <<>> /\ resp[r] \in Seq(1 .. MaxMsg)
        /\ m \in Nat /\ Latest \in Nat /\ Latest < m /\ m < next
        /\ ~Lossy => m = Latest + 1
        /\ Latest' = m
    BY <1>6, ReadTakesNext, LatestType DEF IInv, TypeOK
  <2>2. /\ UNCHANGED <<next, pulling, recvReader, broken, closer, hpc, refused, inTable>>
        /\ \A h \in Handler : resp'[h] = IF h = r THEN Tail(resp[r]) ELSE resp[h]
    BY <1>6 DEF Read, IInv, TypeOK
  <2>3. /\ Len(resp[r]) \in Nat \ {0} /\ Len(resp'[r]) = Len(resp[r]) - 1
        /\ \A i \in 1 .. Len(resp'[r]) : resp'[r][i] = resp[r][i + 1]
        /\ m = resp[r][1]
    <3>1. resp'[r] = Tail(resp[r])
      BY <2>1, <2>2
    <3>2. Len(resp[r]) \in Nat \ {0} /\ m = resp[r][1]
      BY <2>1
    <3>3. /\ Len(Tail(resp[r])) = Len(resp[r]) - 1
          /\ \A i \in 1 .. Len(Tail(resp[r])) : Tail(resp[r])[i] = resp[r][i + 1]
      BY <2>1, HeadTailProperties
    <3> QED BY <3>1, <3>2, <3>3
  <2>4. Current = {r} /\ \A h \in Handler : h # r => resp[h] = <<>> /\ resp'[h] = <<>>
    <3>1. r \in Handler /\ pulling = None /\ None \notin Handler
      BY <2>1, PullAssumption DEF IInv, TypeOK
    <3>2. Current = {r}
      BY <3>1
    <3>3. \A h \in Handler : h # r => resp[h] = <<>>
      BY <3>2
    <3> QED BY <2>2, <3>2, <3>3
  <2>5. CurrentPull'
    BY <2>1, <2>2, <2>4 DEF IInv, TypeOK
  <2>6. \A h \in Handler : h # r => Len(resp'[h]) = 0
    BY <2>4
  <2>7. InOrder'
    <3>1. \A i \in 1 .. Len(resp'[r]) :
            /\ m < resp'[r][i] /\ resp'[r][i] < next
            /\ \A j \in 1 .. i - 1 : resp'[r][j] < resp'[r][i]
      <4> SUFFICES ASSUME NEW i \in 1 .. Len(resp'[r])
                   PROVE  /\ m < resp'[r][i] /\ resp'[r][i] < next
                          /\ \A j \in 1 .. i - 1 : resp'[r][j] < resp'[r][i]
        OBVIOUS
      <4>1. i + 1 \in 1 .. Len(resp[r]) /\ 1 \in 1 .. (i + 1) - 1
        BY <2>3
      <4>2. \A j \in 1 .. i - 1 : j + 1 \in 1 .. (i + 1) - 1 /\ j \in 1 .. Len(resp'[r])
        BY <2>3
      <4>3. /\ resp[r][i + 1] < next
            /\ \A j \in 1 .. (i + 1) - 1 : resp[r][j] < resp[r][i + 1]
        BY <2>1, <4>1 DEF UnderWay, InOrder
      <4>4. resp'[r][i] = resp[r][i + 1] /\ m = resp[r][1]
        BY <2>3
      <4>5. \A j \in 1 .. i - 1 : resp'[r][j] = resp[r][j + 1]
        BY <2>3, <4>2
      <4> QED BY <4>1, <4>2, <4>3, <4>4, <4>5
    <3> QED BY <2>1, <2>2, <2>6, <3>1 DEF InOrder
  <2>8. NoneMissing'
    <3> SUFFICES ASSUME ~Lossy PROVE NoneMissing'
      BY <2>2 DEF NoneMissing, Lossy
    <3>1. \A i \in 1 .. Len(resp'[r]) : resp'[r][i] = m + i
      <4> SUFFICES ASSUME NEW i \in 1 .. Len(resp'[r]) PROVE resp'[r][i] = m + i
        OBVIOUS
      <4>1. i + 1 \in 1 .. Len(resp[r])
        BY <2>3
      <4>2. resp[r][i + 1] = Latest + (i + 1)
        BY <2>1, <4>1 DEF UnderWay, NoneMissing
      <4>3. resp'[r][i] = resp[r][i + 1]
        BY <2>3
      <4>4. m = Latest + 1 /\ Latest \in Nat /\ i \in Nat
        BY <2>1, <2>3
      <4>5. Latest + (i + 1) = (Latest + 1) + i
        BY <4>4
      <4> QED BY <4>2, <4>3, <4>4, <4>5
    <3>2. next = m + Len(resp'[r]) + 1
      <4>1. next = Latest + Len(resp[r]) + 1
        BY <2>1, <2>4 DEF UnderWay, NoneMissing
      <4>2. PICK a \in Nat : a = Latest
        BY <2>1
      <4>3. PICK b \in Nat \ {0} : b = Len(resp[r])
        BY <2>3
      <4>4. PICK d \in Nat : d = Len(resp'[r]) /\ d = b - 1
        BY <2>3, <4>3
      <4>5. m = a + 1
        BY <2>1, <4>2
      <4>6. a + b + 1 = (a + 1) + d + 1
        BY <4>4
      <4> QED BY <4>1, <4>2, <4>3, <4>4, <4>5, <4>6
    <3> QED BY <2>1, <2>2, <2>4, <2>6, <3>1, <3>2 DEF NoneMissing
  <2> QED BY <2>5, <2>7, <2>8 DEF UnderWay
<1>7. CASE ReadEnd
  <2>1. CurrentPull' /\ UNCHANGED <<next, resp, got, broken, closer>>
    BY <1>7 DEF ReadEnd, IInv, TypeOK
  <2>2. Current = {recvReader} /\ Current' = {} /\ Len(resp[recvReader]) = 0
    BY <1>7, PullAssumption DEF ReadEnd, IInv, TypeOK
  <2> QED BY <2>1, <2>2, LatestType DEF UnderWay, InOrder, NoneMissing, Latest, P!Latest, Lossy, IInv
<1>8. CASE Close
  BY <1>8, UnderWayFrame DEF Close, Lossy
<1> QED BY <1>1, <1>2, <1>3, <1>4, <1>5, <1>6, <1>7, <1>8
(* The invariant of the refinement holds in every reachable state.         *)
THEOREM PullsInvariance == Spec => [](CurrentPull /\ UnderWay)
<1>1. IInv /\ CurrentPull /\ UnderWay /\ [Next]_vars => (CurrentPull /\ UnderWay)'
  <2> SUFFICES ASSUME IInv, CurrentPull, UnderWay, [Next]_vars
               PROVE  CurrentPull' /\ UnderWay'
    OBVIOUS
  <2>1. CASE UNCHANGED vars
    BY <2>1, UnderWayFrame DEF vars, servVars, clientVars, Lossy, CurrentPull, OpenIsListed,
       IdleIsEmpty, EarlyIsEmpty, RefusedIsOver, LiveIsCurrent, Current
  <2>2. CASE Next
    BY <2>2, WriteUnderWay, HandlerUnderWay, CloseUnderWay, ClientUnderWay DEF Next
  <2> QED BY <2>1, <2>2
<1> QED BY InitUnderWay, Invariance, <1>1, PTL DEF Spec

(* A step of the two ends is a step of the pipe, or leaves it alone: Write *)
(* puts, Read takes, the first break and CloseBegin break it off.          *)
LEMMA StepIsPipeStep ==
  ASSUME IInv, UnderWay, [Next]_vars
  PROVE  [P!Next]_(P!vars)
<1> USE DEF clientVars, servVars
<1>1. CASE Write
  <2>1. /\ next \in Nat /\ next' = next + 1 /\ UNCHANGED <<got, broken, closer>>
    BY <1>1, PullAssumption DEF Write, IInv, TypeOK
  <2>2. next' - 1 = (next - 1) + 1
    BY <2>1
  <2> QED BY <2>1, <2>2 DEF P!Next, P!Put
<1>2. CASE Read
  <2> DEFINE m == Head(resp[recvReader])
  <2>1. /\ m \in Nat /\ Latest \in Nat /\ Latest < m /\ m < next /\ next \in Nat
        /\ ~Lossy => m = Latest + 1
        /\ got' = Append(got, m)
    BY <1>2, ReadTakesNext, LatestType, PullAssumption DEF IInv, TypeOK
  <2>2. UNCHANGED <<next, broken, closer>>
    BY <1>2 DEF Read
  <2>3. m \in Latest + 1 .. (IF Lossy THEN next - 1 ELSE Latest + 1) /\ m <= next - 1
    BY <2>1
  <2> QED BY <2>1, <2>2, <2>3 DEF P!Next, P!Take, Lossy, Latest
<1>3. CASE CloseBegin
  BY <1>3 DEF CloseBegin, P!Next, P!BreakOff
<1>4. ASSUME NEW h \in Handler, Break(h) PROVE P!Next
  <2>1. broken' > 0 /\ UNCHANGED <<next, got>>
    BY <1>4, PullAssumption DEF Break, IInv, TypeOK
  <2> QED BY <2>1 DEF P!Next, P!BreakOff
<1>5. CASE WriteTest \/ WriteWait \/ WriteFails
  BY <1>5 DEF WriteTest, WriteWait, WriteFails, P!vars
<1>6. ASSUME NEW h \in Handler,
             HTTPInvoke(h) \/ SetWriter(h) \/ CheckRunning(h) \/ Timeout(h) \/ CloseWrite(h)
      PROVE  UNCHANGED P!vars
  BY <1>6 DEF HTTPInvoke, SetWriter, CheckRunning, Timeout, CloseWrite, P!vars
<1>7. ASSUME NEW h \in Handler, Pull(h) \/ Gone(h) PROVE UNCHANGED P!vars
  BY <1>7 DEF Pull, Gone, P!vars
<1>8. CASE CloseNotify \/ CloseFlag \/ CloseRemove
  BY <1>8 DEF CloseNotify, CloseFlag, CloseRemove, P!vars
<1>9. CASE PullOK \/ PullRefused \/ ReadEnd \/ Close
  BY <1>9 DEF PullOK, PullRefused, ReadEnd, Close, P!vars
<1>10. CASE UNCHANGED vars
  BY <1>10 DEF vars, P!vars
<1> QED BY <1>1, <1>2, <1>3, <1>4, <1>5, <1>6, <1>7, <1>8, <1>9, <1>10 DEF Next

(* The download half implements the pipe, for any number of pulls,         *)
(* messages and breaks.                                                    *)
THEOREM PullsMakeAPipe == Spec => DownIsPipe
<1>1. Init => P!Init
  BY PullAssumption DEF Init, P!Init
<1>2. IInv /\ CurrentPull /\ UnderWay /\ [Next]_vars => [P!Next]_(P!vars)
  BY StepIsPipeStep
<1> QED BY <1>1, <1>2, Invariance, PullsInvariance, PTL DEF Spec, DownIsPipe, P!Spec
=============================================================================
