--------------------------- MODULE HttpPushProofs ---------------------------
(***************************************************************************)
(* Proofs about HttpPush: its three invariants hold for every number of    *)
(* chunks, every capacity of sendCh and every set of push requests.        *)
(*                                                                         *)
(* Handshake is about the table and the ackIDs: which answers a request    *)
(* can get in each state of the first connection.  BodyEnds is about push  *)
(* and its request.  Order says that whatever is queued, buffered or in a  *)
(* request is sorted, so that the head of a body has nothing before it;    *)
(* Held that every chunk Write may have returned from is received or on    *)
(* its way, and InTurn that a body the first connection may read has no    *)
(* hole in it.                                                             *)
(***************************************************************************)
EXTENDS HttpPush, SequenceTheorems, TLAPS

Conns == {NoConn, First, Later, Zombie}

Requests ==
  [st : {"none", "sent", "reading", "ok", "refused"}, ack : Conns, conn : Conns,
   left : Seq(Chunk), eof : BOOLEAN]

(* The types of the variables; push waits only for a request of its own.   *)
Types ==
  /\ running \in BOOLEAN /\ ackID \in Conns /\ chunked \in BOOLEAN
  /\ writer \in {"put", "wait", "done"} /\ next \in Chunk
  /\ sendCh \in Seq(Chunk) /\ acked \in SUBSET Chunk
  /\ push \in {"loop", "wait", "stopped"} /\ frs \in Seq(Chunk)
  /\ cur \in PushReq \cup {"none"} /\ body \in Seq(Chunk)
  /\ req \in [Req -> Requests] /\ broke \in BOOLEAN /\ table \in Conns
  /\ serv \in {"none", "up", "closed", "down"} /\ got \in SUBSET Chunk
  /\ push = "wait" => ~chunked /\ cur # "none"

(* The table names the first connection exactly while it is up; a client   *)
(* that has no ackID yet has caused no connection without a session; and   *)
(* before and while the first connection is up there is no other.          *)
Handshake ==
  /\ serv = "up" <=> table = First
  /\ serv = "none" => table = NoConn /\ ackID = NoConn
  /\ serv = "up" => ackID \in {NoConn, First}
  /\ ackID = NoConn => table # Zombie
  /\ ackID # Zombie
  /\ \A r \in Req :
       /\ req[r].ack \in {NoConn, ackID}
       /\ ackID = NoConn => req[r].conn # Zombie
       /\ req[r].st = "sent" => req[r].conn = NoConn
       /\ serv = "none" => req[r].st \in {"none", "sent"}
       /\ serv = "up" => req[r].st # "refused"
       /\ serv = "up" /\ req[r].st \in {"reading", "ok"} => req[r].conn = First

-----------------------------------------------------------------------------
(* The members of a sequence of chunks are chunks.                         *)
LEMMA FramesType == ASSUME NEW s \in Seq(Chunk) PROVE Frames(s) \subseteq Chunk
BY ElementOfSeq DEF Frames

(* What the client gets from Response, and no request, is a request.       *)
LEMMA ResponseType ==
  ASSUME NEW r, NEW st \in {"ok", "refused"}, NEW k \in Conns
  PROVE  Response(r, st, k) \in Requests /\ Refused(r) \in Requests /\ NoReq \in Requests
<1>1. NoReq \in Requests
  BY EmptySeq DEF NoReq, Requests, Conns
<1>2. \A t \in {"ok", "refused"}, c \in Conns : [NoReq EXCEPT !.st = t, !.conn = c] \in Requests
  BY <1>1 DEF Requests
<1> QED
  BY <1>1, <1>2 DEF Response, Refused, Conns

(* A request stays one when a field of it is changed.                      *)
LEMMA RequestUpdates ==
  ASSUME NEW q \in Requests
  PROVE  /\ q.left \in Seq(Chunk) /\ q.ack \in Conns /\ q.conn \in Conns
         /\ \A l \in Seq(Chunk) : [q EXCEPT !.left = l] \in Requests
         /\ [q EXCEPT !.eof = TRUE] \in Requests
         /\ \A k \in Conns : [q EXCEPT !.st = "reading", !.conn = k] \in Requests
BY DEF Requests

(* What push and pull send are requests.                                   *)
LEMMA NewReqType ==
  ASSUME Types, NEW b \in Seq(Chunk)
  PROVE  NewReq(b) \in Requests /\ [NewReq(b) EXCEPT !.eof = TRUE] \in Requests
BY DEF Types, NewReq, Requests, Conns, NoConn

(* The initial state is well typed.                                        *)
LEMMA InitTypes == Init => Types
<1> SUFFICES ASSUME Init PROVE Types
  OBVIOUS
<1>1. NoReq \in Requests
  BY EmptySeq DEF NoReq, Requests, Conns
<1>2. 1 \in Chunk /\ <<>> \in Seq(Chunk)
  BY PushAssumption, EmptySeq DEF Chunk
<1>3. NoConn \in Conns
  BY DEF Conns
<1> QED
  BY <1>1, <1>2, <1>3 DEF Init, Types

(* Before the first request no connection is known.                        *)
LEMMA InitHandshake == Init => Handshake
BY DEF Init, Handshake, NoReq, NoConn, First, Later, Zombie

(* Every step keeps the types.                                             *)
LEMMA TypesStep == Types /\ [Next]_vars => Types'
<1> SUFFICES ASSUME Types, [Next]_vars PROVE Types'
  OBVIOUS
<1> USE PushAssumption DEF Types, Req
<1>a. /\ NoReq \in Requests
      /\ \A r : \A k \in Conns : Response(r, "ok", k) \in Requests /\ Refused(r) \in Requests
  BY ResponseType DEF Conns
<1>b. <<>> \in Seq(Chunk) /\ Conns = {NoConn, First, Later, Zombie}
  BY EmptySeq DEF Conns
<1>1. CASE WritePut
  BY <1>1, AppendProperties DEF WritePut, servVars
<1>2. CASE WriteDone
  BY <1>2 DEF WriteDone, servVars, Chunk
<1>3. CASE WriteAgain
  BY <1>3 DEF WriteAgain, servVars
<1>4. CASE WriteEOF
  BY <1>4 DEF WriteEOF, servVars
<1>5. CASE ReadFrames
  BY <1>5, <1>b DEF ReadFrames, servVars
<1>6. CASE PushStops
  BY <1>6, <1>b, FramesType DEF PushStops, servVars
<1>7. CASE PushOK
  <2>1. req[cur].conn \in Conns
    BY <1>7, RequestUpdates DEF PushOK
  <2>2. req' \in [Req -> Requests]
    BY <1>7, <1>a DEF PushOK
  <2>3. ackID' \in Conns
    BY <1>7, <2>1 DEF PushOK, LearnedAck
  <2>4. acked' \in SUBSET Chunk
    BY <1>7, FramesType DEF PushOK
  <2> QED
    BY <1>7, <1>b, <2>2, <2>3, <2>4 DEF PushOK, servVars
<1>8. CASE PushBreaks
  BY <1>8 DEF PushBreaks, servVars
<1>9. CASE PushRefused
  BY <1>9, <1>a DEF PushRefused, servVars
<1>10. CASE ChunkOK
  BY <1>10, <1>a, RequestUpdates DEF ChunkOK, LearnedAck, servVars
<1>11. CASE ChunkBreaks
  BY <1>11, <1>a DEF ChunkBreaks, servVars
<1>12. CASE ChunkRefused
  BY <1>12, <1>a DEF ChunkRefused, servVars
<1>13. ASSUME NEW r \in PushReq, SendRequest(r) PROVE Types'
  BY <1>13, NewReqType DEF SendRequest, servVars
<1>14. ASSUME NEW r \in PushReq, Offer(r) PROVE Types'
  BY <1>14, <1>b, FramesType DEF Offer, servVars
<1>15. ASSUME NEW r \in PushReq, ChunkStart(r) PROVE Types'
  BY <1>15, <1>b, NewReqType DEF ChunkStart, servVars
<1>16. ASSUME NEW r \in PushReq, ChunkSend(r) PROVE Types'
  <2>1. Head(body) \in Chunk /\ Tail(body) \in Seq(Chunk)
    BY <1>16, HeadTailProperties DEF ChunkSend
  <2>2. Append(req[r].left, Head(body)) \in Seq(Chunk)
    BY <2>1, AppendProperties, RequestUpdates
  <2> QED
    BY <1>16, <2>1, <2>2, RequestUpdates DEF ChunkSend, servVars
<1>17. ASSUME NEW r \in PushReq, ChunkTimer(r) PROVE Types'
  BY <1>17, RequestUpdates DEF ChunkTimer, clientVars, servVars
<1>18. CASE PullSend
  BY <1>18, <1>b, NewReqType DEF PullSend, clientVars, servVars
<1>19. CASE PullOK
  BY <1>19, <1>a, RequestUpdates DEF PullOK, LearnedAck, servVars
<1>20. CASE PullRefused
  BY <1>20, <1>a DEF PullRefused, servVars
<1>21. CASE Close
  BY <1>21, RequestUpdates DEF Close, servVars
<1>22. CASE CloseRace
  BY <1>22, <1>a DEF CloseRace, servVars
<1>23. ASSUME NEW r \in Req, Lost(r) PROVE Types'
  BY <1>23, <1>a DEF Lost, clientVars, servVars
<1>24. ASSUME NEW r \in Req, HTTPInvoke(r) PROVE Types'
  <2>1. table' \in Conns /\ serv' \in {"none", "up", "closed", "down"}
    BY <1>24, <1>b DEF HTTPInvoke
  <2>2. CASE req' = [req EXCEPT ![r] = Refused(r)]
    BY <1>24, <1>a, <2>1, <2>2 DEF HTTPInvoke, clientVars
  <2>3. CASE req' = [req EXCEPT ![r].st = "reading", ![r].conn = table']
    BY <1>24, <2>1, <2>3, RequestUpdates DEF HTTPInvoke, clientVars
  <2> QED
    BY <1>24, <2>2, <2>3 DEF HTTPInvoke
<1>25. ASSUME NEW r \in Req, SetReader(r) PROVE Types'
  <2>1. Head(req[r].left) \in Chunk /\ Tail(req[r].left) \in Seq(Chunk)
    BY <1>25, HeadTailProperties, RequestUpdates DEF SetReader
  <2> QED
    BY <1>25, <2>1, RequestUpdates DEF SetReader, clientVars
<1>26. ASSUME NEW r \in Req, Answer(r) PROVE Types'
  BY <1>26, <1>a, RequestUpdates DEF Answer, clientVars, servVars
<1>27. CASE ServerClose
  BY <1>27, <1>b DEF ServerClose, clientVars
<1>28. CASE Shutdown
  <2>1. req' \in [Req -> Requests]
    <3>1. CASE req' = req
      BY <3>1
    <3>2. ASSUME NEW r \in PushReq, req' = [req EXCEPT ![r] = Refused(r)]
          PROVE  req' \in [Req -> Requests]
      <4>1. Refused(r) \in Requests
        BY <1>a, <1>b
      <4> QED
        BY <3>2, <4>1
    <3> QED
      BY <1>28, <3>1, <3>2 DEF Shutdown
  <2> QED
    BY <1>28, <1>b, <2>1 DEF Shutdown, clientVars
<1>29. CASE OtherClose
  BY <1>29, <1>b DEF OtherClose, clientVars
<1>30. CASE UNCHANGED vars
  BY <1>30 DEF vars, clientVars, servVars
<1> QED
  BY <1>1, <1>2, <1>3, <1>4, <1>5, <1>6, <1>7, <1>8, <1>9, <1>10, <1>11, <1>12, <1>13, <1>14,
     <1>15, <1>16, <1>17, <1>18, <1>19, <1>20, <1>21, <1>22, <1>23, <1>24, <1>25, <1>26, <1>27,
     <1>28, <1>29, <1>30 DEF Next
(* The fields of an answer and of no request.                              *)
LEMMA ResponseFields ==
  ASSUME NEW r, NEW st \in {"ok", "refused"}, NEW k \in Conns, NEW x, x = Response(r, st, k)
  PROVE  /\ x.ack = NoConn /\ x.left = <<>> /\ x.eof = FALSE
         /\ (x.st = st /\ x.conn = k) \/ (x.st = "none" /\ x.conn = NoConn)
         /\ r = cur => x.st = st
         /\ NoReq.ack = NoConn /\ NoReq.left = <<>> /\ NoReq.eof = FALSE
         /\ NoReq.st = "none" /\ NoReq.conn = NoConn
BY DEF Response, NoReq

(* The table and the ackIDs, step by step.                                 *)
LEMMA HandshakeStep == Types /\ Handshake /\ [Next]_vars => Handshake'
<1> SUFFICES ASSUME Types, Handshake, [Next]_vars PROVE Handshake'
  OBVIOUS
<1> USE DEF Types, Req, Handshake, NoConn, First, Later, Zombie
<1>a. NoReq.ack = NoConn /\ NoReq.st = "none" /\ NoReq.conn = NoConn
  BY DEF NoReq
<1>b. \A r : /\ Refused(r).ack = NoConn /\ Refused(r).conn = NoConn
             /\ Refused(r).st \in {"refused", "none"}
  BY DEF Refused, Response, NoReq
<1>c. \A r, k : LET x == Response(r, "ok", k)
                IN  /\ x.ack = NoConn
                    /\ (x.st = "ok" /\ x.conn = k) \/ (x.st = "none" /\ x.conn = NoConn)
  BY DEF Response, NoReq
<1>d. \A q \in Requests :
        /\ DOMAIN q = {"st", "ack", "conn", "left", "eof"}
        /\ q = [st |-> q.st, ack |-> q.ack, conn |-> q.conn, left |-> q.left, eof |-> q.eof]
        /\ q.ack \in {NoConn, First, Later, Zombie}
  BY DEF Requests, Conns
<1>1. CASE WritePut \/ WriteDone \/ WriteAgain \/ WriteEOF \/ ReadFrames \/ PushStops \/ PushBreaks
  BY <1>1 DEF WritePut, WriteDone, WriteAgain, WriteEOF, ReadFrames, PushStops, PushBreaks, servVars
<1>2. CASE PushOK
  BY <1>2, <1>a DEF PushOK, LearnedAck, servVars
<1>3. CASE PushRefused \/ ChunkBreaks \/ ChunkRefused \/ PullRefused
  BY <1>3, <1>a DEF PushRefused, ChunkBreaks, ChunkRefused, PullRefused, servVars
<1>4. CASE ChunkOK
  BY <1>4, <1>a DEF ChunkOK, LearnedAck, servVars
<1>5. ASSUME NEW r \in PushReq, SendRequest(r) \/ ChunkStart(r) PROVE Handshake'
  <2>1. \A b : LET x == NewReq(b)
                  y == [NewReq(b) EXCEPT !.eof = TRUE]
              IN  /\ x.ack = ackID /\ x.st = "sent" /\ x.conn = NoConn
                  /\ y.ack = ackID /\ y.st = "sent" /\ y.conn = NoConn
    BY DEF NewReq
  <2>2. CASE SendRequest(r)
    BY <2>1, <2>2 DEF SendRequest, servVars
  <2>3. CASE ChunkStart(r)
    BY <2>1, <2>3 DEF ChunkStart, servVars
  <2> QED
    BY <1>5, <2>2, <2>3
<1>6. ASSUME NEW r \in PushReq, Offer(r) PROVE Handshake'
  BY <1>6 DEF Offer, servVars
<1>7. ASSUME NEW r \in PushReq, ChunkSend(r) \/ ChunkTimer(r) PROVE Handshake'
  <2>1. CASE ChunkSend(r)
    BY <2>1, <1>d DEF ChunkSend, servVars
  <2>2. CASE ChunkTimer(r)
    BY <2>2, <1>d DEF ChunkTimer, clientVars, servVars
  <2> QED
    BY <1>7, <2>1, <2>2
<1>8. CASE PullSend
  BY <1>8 DEF PullSend, NewReq, clientVars, servVars
<1>9. CASE PullOK
  BY <1>9, <1>a DEF PullOK, LearnedAck, servVars
<1>10. CASE Close
  BY <1>10, <1>d DEF Close, servVars
<1>11. CASE CloseRace
  BY <1>11, <1>a DEF CloseRace, servVars
<1>12. ASSUME NEW r \in Req, Lost(r) PROVE Handshake'
  BY <1>12, <1>a DEF Lost, clientVars, servVars
<1>13. ASSUME NEW r \in Req, HTTPInvoke(r) PROVE Handshake'
  <2>1. CASE table = NoConn /\ req[r].ack # NoConn
    <3>1. table' = Zombie /\ serv' = serv /\ ackID' = ackID
      BY <1>13, <2>1 DEF HTTPInvoke, clientVars
    <3>2. ackID # NoConn /\ serv # "none" /\ serv # "up"
      BY <2>1
    <3>3. \A q \in Req : /\ q # r => req'[q] = req[q]
                         /\ q = r => /\ req'[q].ack = NoConn /\ req'[q].conn = NoConn
                                    /\ req'[q].st \in {"refused", "none"}
      BY <1>13, <1>b, <2>1 DEF HTTPInvoke
    <3> QED
      BY <3>1, <3>2, <3>3
  <2>2. CASE table = NoConn /\ req[r].ack = NoConn
    <3>1. serv # "up" /\ ackID' = ackID
      BY <1>13, <2>2 DEF HTTPInvoke, clientVars
    <3>2. /\ table' = IF serv = "none" THEN First ELSE Later
          /\ serv' = IF serv = "none" THEN "up" ELSE serv
      BY <1>13, <2>2 DEF HTTPInvoke
    <3>3. \A q \in Req : /\ req'[q].ack = req[q].ack
                         /\ q # r => req'[q] = req[q]
                         /\ q = r => req'[q].st = "reading" /\ req'[q].conn = table'
      BY <1>13, <1>d, <2>2 DEF HTTPInvoke
    <3> QED
      BY <3>1, <3>2, <3>3
  <2>3. CASE table # NoConn /\ req[r].ack \in {NoConn, table}
    BY <1>13, <1>d, <2>3 DEF HTTPInvoke, clientVars
  <2>4. CASE table # NoConn /\ req[r].ack \notin {NoConn, table}
    BY <1>13, <1>b, <2>4 DEF HTTPInvoke, clientVars
  <2> QED
    BY <2>1, <2>2, <2>3, <2>4
<1>14. ASSUME NEW r \in Req, SetReader(r) PROVE Handshake'
  BY <1>14, <1>d DEF SetReader, clientVars
<1>15. ASSUME NEW r \in Req, Answer(r) PROVE Handshake'
  <2>1. CASE req' = [req EXCEPT ![r] = Response(r, "ok", req[r].conn)]
    BY <1>15, <2>1, <1>c DEF Answer, clientVars, servVars
  <2>2. CASE serv \in {"closed", "down"} /\ req' = [req EXCEPT ![r] = Refused(r)]
    BY <1>15, <2>2, <1>b DEF Answer, clientVars, servVars
  <2> QED
    BY <1>15, <2>1, <2>2 DEF Answer
<1>16. CASE ServerClose
  BY <1>16 DEF ServerClose, clientVars
<1>17. CASE Shutdown
  <2>1. CASE req' = req
    BY <1>17, <2>1 DEF Shutdown, clientVars
  <2>2. ASSUME NEW r \in PushReq, req' = [req EXCEPT ![r] = Refused(r)] PROVE Handshake'
    BY <1>17, <2>2, <1>b DEF Shutdown, clientVars
  <2> QED
    BY <1>17, <2>1, <2>2 DEF Shutdown
<1>18. CASE OtherClose
  BY <1>18 DEF OtherClose, clientVars
<1>19. CASE UNCHANGED vars
  BY <1>19 DEF vars, clientVars, servVars
<1> QED
  BY <1>1, <1>2, <1>3, <1>4, <1>5, <1>6, <1>7, <1>8, <1>9, <1>10, <1>11, <1>12, <1>13, <1>14,
     <1>15, <1>16, <1>17, <1>18, <1>19 DEF Next
-----------------------------------------------------------------------------
(* What is queued and sent is in order. *)

Sorted(s) == \A i, j \in DOMAIN s : i <= j => s[i] <= s[j]

Below(s, t) == \A x \in Frames(s), y \in Frames(t) : x <= y

(* No frame of s is after one that push still holds or that Write queued.  *)
Ahead(s) ==
  /\ \A x \in Frames(s) : x <= next
  /\ Below(s, frs) /\ Below(s, sendCh)

(* A chunked request ends only when its body is empty, and a new one       *)
(* begins with an empty body unless one has broken.                        *)
BodyEnds ==
  chunked =>
    /\ cur # "none" /\ (req[cur].eof \/ req[cur].st = "ok") => body = <<>>
    /\ running /\ ~broke /\ cur = "none" => body = <<>>

(* Every queue is sorted, and so is the way a frame takes: sendCh, the     *)
(* frames of push, the chunked body, the request.  Write has returned from *)
(* every chunk before the one it writes.                                   *)
Order ==
  /\ Sorted(sendCh) /\ Sorted(frs) /\ Sorted(body)
  /\ \A r \in Req : Sorted(req[r].left)
  /\ \A x \in Frames(sendCh) : x <= next
  /\ \A x \in Frames(frs) : x <= next
  /\ Below(frs, sendCh)
  /\ chunked => Ahead(body)
  /\ chunked /\ cur # "none" => Ahead(req[cur].left) /\ Below(req[cur].left, body)
  /\ 1 .. next - 1 \subseteq acked

(* A body without chunks has no frames and is in order.                    *)
LEMMA NoFrames == Frames(<<>>) = {} /\ Sorted(<<>>)
BY DEF Frames, Sorted

(* A frame added at the end of a sorted sequence whose frames are not      *)
(* after it.                                                               *)
LEMMA AppendFrame ==
  ASSUME NEW s \in Seq(Chunk), NEW x \in Chunk
  PROVE  /\ Frames(Append(s, x)) = Frames(s) \cup {x}
         /\ Sorted(s) /\ (\A y \in Frames(s) : y <= x) => Sorted(Append(s, x))
<1>1. /\ Append(s, x) \in Seq(Chunk)
      /\ Len(Append(s, x)) = Len(s) + 1
      /\ \A i \in 1 .. Len(s) : Append(s, x)[i] = s[i]
      /\ Append(s, x)[Len(s) + 1] = x
  BY AppendProperties
<1>2. DOMAIN s = 1 .. Len(s) /\ DOMAIN Append(s, x) = 1 .. Len(s) + 1 /\ Len(s) \in Nat
  BY <1>1, LenProperties
<1>3. Frames(Append(s, x)) = Frames(s) \cup {x}
  BY <1>1, <1>2 DEF Frames
<1>4. ASSUME Sorted(s), \A y \in Frames(s) : y <= x
      PROVE  Sorted(Append(s, x))
  <2> SUFFICES ASSUME NEW i \in DOMAIN Append(s, x), NEW j \in DOMAIN Append(s, x), i <= j
               PROVE  Append(s, x)[i] <= Append(s, x)[j]
    BY DEF Sorted
  <2>1. CASE j \in 1 .. Len(s)
    BY <1>1, <1>2, <1>4, <2>1 DEF Sorted
  <2>2. CASE j = Len(s) + 1 /\ i \in 1 .. Len(s)
    BY <1>1, <1>2, <1>4, <2>2 DEF Frames
  <2>3. CASE j = Len(s) + 1 /\ i = Len(s) + 1
    BY <1>1, <2>3 DEF Chunk
  <2> QED
    BY <1>2, <2>1, <2>2, <2>3
<1> QED
  BY <1>3, <1>4

(* The head of a sorted sequence is its least frame.                       *)
LEMMA TakeFrame ==
  ASSUME NEW s \in Seq(Chunk), s # <<>>
  PROVE  /\ Head(s) \in Chunk /\ Tail(s) \in Seq(Chunk)
         /\ Frames(s) = Frames(Tail(s)) \cup {Head(s)}
         /\ Sorted(s) => Sorted(Tail(s)) /\ \A x \in Frames(s) : Head(s) <= x
<1>1. /\ Head(s) \in Chunk /\ Tail(s) \in Seq(Chunk)
      /\ Len(Tail(s)) = Len(s) - 1
      /\ \A i \in 1 .. Len(Tail(s)) : Tail(s)[i] = s[i + 1]
      /\ Head(s) = s[1] /\ Len(s) \in Nat \ {0}
  BY HeadTailProperties, EmptySeq, LenProperties
<1>2. DOMAIN s = 1 .. Len(s) /\ DOMAIN Tail(s) = 1 .. Len(s) - 1
  BY <1>1, LenProperties
<1>3. Frames(s) = Frames(Tail(s)) \cup {Head(s)}
  <2>1. \A i \in 1 .. Len(s) : i = 1 \/ (i - 1 \in 1 .. Len(s) - 1 /\ Tail(s)[i - 1] = s[i])
    BY <1>1
  <2>2. \A i \in 1 .. Len(s) - 1 : i + 1 \in 1 .. Len(s) /\ Tail(s)[i] = s[i + 1]
    BY <1>1
  <2>3. 1 \in 1 .. Len(s)
    BY <1>1
  <2>4. ASSUME NEW x \in Frames(s) PROVE x \in Frames(Tail(s)) \cup {Head(s)}
    <3>1. PICK i \in 1 .. Len(s) : x = s[i]
      BY <1>2 DEF Frames
    <3> QED
      BY <1>1, <1>2, <2>1, <3>1 DEF Frames
  <2>5. ASSUME NEW x \in Frames(Tail(s)) PROVE x \in Frames(s)
    BY <1>2, <2>2 DEF Frames
  <2> QED
    BY <1>1, <1>2, <2>3, <2>4, <2>5 DEF Frames
<1>4. ASSUME Sorted(s) PROVE Sorted(Tail(s)) /\ \A x \in Frames(s) : Head(s) <= x
  BY <1>1, <1>2, <1>4 DEF Sorted, Frames
<1> QED
  BY <1>1, <1>3, <1>4

(* At the start there are no chunks to be out of order.                    *)
LEMMA InitOrder == Init => BodyEnds /\ Order
BY NoFrames DEF Init, BodyEnds, Order, Below, Ahead, NoReq
(* The end of a chunked body, step by step.                                *)
LEMMA BodyEndsStep == Types /\ Handshake /\ BodyEnds /\ [Next]_vars => BodyEnds'
<1> SUFFICES ASSUME Types, Handshake, BodyEnds, [Next]_vars PROVE BodyEnds'
  OBVIOUS
<1> USE PushAssumption DEF Types, Req, BodyEnds
<1>a. \A b : ~NewReq(b).eof /\ NewReq(b).st = "sent"
  BY DEF NewReq
<1>b. \A r : ~Refused(r).eof /\ Refused(r).st \in {"refused", "none"}
  BY DEF Refused, Response, NoReq
<1>d. \A q \in Requests :
        q = [st |-> q.st, ack |-> q.ack, conn |-> q.conn, left |-> q.left, eof |-> q.eof]
  BY DEF Requests
<1>1. CASE WritePut \/ WriteDone \/ WriteAgain \/ WriteEOF \/ ReadFrames \/ PushStops
  BY <1>1 DEF WritePut, WriteDone, WriteAgain, WriteEOF, ReadFrames, PushStops, servVars
<1>2. CASE PushOK \/ PushBreaks \/ PushRefused
  BY <1>2 DEF PushOK, PushBreaks, PushRefused, servVars
<1>3. CASE ChunkOK \/ ChunkBreaks \/ ChunkRefused
  BY <1>3 DEF ChunkOK, ChunkBreaks, ChunkRefused
<1>4. ASSUME NEW r \in PushReq, SendRequest(r) PROVE BodyEnds'
  BY <1>4 DEF SendRequest
<1>5. ASSUME NEW r \in PushReq, Offer(r) PROVE BodyEnds'
  BY <1>5 DEF Offer, Waiting
<1>6. ASSUME NEW r \in PushReq, ChunkStart(r) PROVE BodyEnds'
  BY <1>6, <1>a DEF ChunkStart
<1>7. ASSUME NEW r \in PushReq, ChunkSend(r) PROVE BodyEnds'
  BY <1>7, <1>d DEF ChunkSend
<1>8. ASSUME NEW r \in PushReq, ChunkTimer(r) PROVE BodyEnds'
  BY <1>8, <1>d DEF ChunkTimer, Waiting, clientVars
<1>9. CASE PullSend \/ PullOK \/ PullRefused
  BY <1>9 DEF PullSend, PullOK, PullRefused, clientVars, servVars
<1>10. CASE Close
  BY <1>10, <1>d DEF Close, Waiting
<1>11. CASE CloseRace
  BY <1>11 DEF CloseRace
<1>12. ASSUME NEW r \in Req, Lost(r) PROVE BodyEnds'
  BY <1>12 DEF Lost, clientVars
<1>13. ASSUME NEW r \in Req, HTTPInvoke(r) PROVE BodyEnds'
  <2>1. CASE req' = [req EXCEPT ![r] = Refused(r)]
    BY <1>13, <2>1, <1>b DEF HTTPInvoke, clientVars
  <2>2. CASE req' = [req EXCEPT ![r].st = "reading", ![r].conn = table']
    BY <1>13, <2>2, <1>d DEF HTTPInvoke, clientVars
  <2> QED
    BY <1>13, <2>1, <2>2 DEF HTTPInvoke
<1>14. ASSUME NEW r \in Req, SetReader(r) PROVE BodyEnds'
  BY <1>14, <1>d DEF SetReader, clientVars
<1>15. ASSUME NEW r \in Req, Answer(r) PROVE BodyEnds'
  BY <1>15 DEF Answer, clientVars
<1>16. CASE ServerClose \/ OtherClose
  BY <1>16 DEF ServerClose, OtherClose, clientVars
<1>17. CASE Shutdown
  <2>1. CASE req' = req
    BY <1>17, <2>1 DEF Shutdown, clientVars
  <2>2. ASSUME NEW r \in PushReq, req' = [req EXCEPT ![r] = Refused(r)] PROVE BodyEnds'
    BY <1>17, <2>2, <1>b DEF Shutdown, clientVars
  <2> QED
    BY <1>17, <2>1, <2>2 DEF Shutdown
<1>18. CASE UNCHANGED vars
  BY <1>18 DEF vars, clientVars, servVars
<1> QED
  BY <1>1, <1>2, <1>3, <1>4, <1>5, <1>6, <1>7, <1>8, <1>9, <1>10, <1>11, <1>12, <1>13, <1>14,
     <1>15, <1>16, <1>17, <1>18 DEF Next

(* The order of the frames, step by step.                                  *)
LEMMA OrderStep == Types /\ Order /\ [Next]_vars => Order'
<1> SUFFICES ASSUME Types, Order, [Next]_vars PROVE Order'
  OBVIOUS
<1> USE PushAssumption DEF Types, Req, Order, Below, Ahead
<1>a. NoReq.left = <<>> /\ Frames(<<>>) = {} /\ Sorted(<<>>)
  BY NoFrames DEF NoReq
<1>b. \A b : NewReq(b).left = b /\ [NewReq(b) EXCEPT !.eof = TRUE].left = b
  BY DEF NewReq
<1>c. \A r, k : Refused(r).left = <<>> /\ Response(r, "ok", k).left = <<>>
  BY DEF Refused, Response, NoReq
<1>d. \A q \in Requests :
        /\ q = [st |-> q.st, ack |-> q.ack, conn |-> q.conn, left |-> q.left, eof |-> q.eof]
        /\ q.left \in Seq(Chunk)
  BY DEF Requests
<1>e. /\ \A s \in Seq(Chunk) : Frames(s) \subseteq Chunk
      /\ Chunk \subseteq Int
  BY FramesType DEF Chunk
<1>1. CASE WritePut
  <2>1. Sorted(sendCh') /\ Frames(sendCh') = Frames(sendCh) \cup {next}
    BY <1>1, AppendFrame DEF WritePut
  <2> QED
    BY <1>1, <1>e, <2>1 DEF WritePut, servVars
<1>2. CASE WriteDone
  <2>1. next \in Int /\ next' \in Int /\ next <= next' /\ 1 .. next' - 1 \subseteq acked
    BY <1>2, <1>e DEF WriteDone
  <2>2. ASSUME NEW s \in Seq(Chunk), \A x \in Frames(s) : x <= next
        PROVE  \A x \in Frames(s) : x <= next'
    <3>1. \A x \in Frames(s) : x \in Int /\ x <= next
      BY <1>e, <2>2
    <3> QED
      BY <2>1, <3>1
  <2>3. UNCHANGED <<sendCh, frs, body, req, chunked, cur, acked>>
    BY <1>2 DEF WriteDone
  <2> QED
    BY <1>d, <2>1, <2>2, <2>3
<1>3. CASE WriteAgain \/ WriteEOF
  BY <1>3 DEF WriteAgain, WriteEOF, servVars
<1>4. CASE ReadFrames
  BY <1>4, <1>a DEF ReadFrames, servVars
<1>5. CASE PushStops
  BY <1>5, <1>a DEF PushStops, servVars
<1>6. CASE PushOK
  BY <1>6, <1>a DEF PushOK, servVars
<1>7. CASE PushBreaks
  BY <1>7 DEF PushBreaks, servVars
<1>8. CASE PushRefused \/ ChunkOK \/ ChunkBreaks \/ ChunkRefused
  BY <1>8, <1>a DEF PushRefused, ChunkOK, ChunkBreaks, ChunkRefused
<1>9. ASSUME NEW r \in PushReq, SendRequest(r) PROVE Order'
  BY <1>9, <1>b DEF SendRequest
<1>10. ASSUME NEW r \in PushReq, Offer(r) PROVE Order'
  BY <1>10, <1>a DEF Offer
<1>11. ASSUME NEW r \in PushReq, ChunkStart(r) PROVE Order'
  BY <1>11, <1>a, <1>b DEF ChunkStart
<1>12. ASSUME NEW r \in PushReq, ChunkSend(r) PROVE Order'
  <2>1. /\ Head(body) \in Chunk /\ Sorted(Tail(body))
        /\ Frames(body) = Frames(Tail(body)) \cup {Head(body)}
        /\ \A x \in Frames(body) : Head(body) <= x
    BY <1>12, TakeFrame DEF ChunkSend
  <2> DEFINE l == Append(req[r].left, Head(body))
  <2>2. Frames(l) = Frames(req[r].left) \cup {Head(body)} /\ Sorted(l)
    BY <1>12, <1>d, <2>1, AppendFrame DEF ChunkSend
  <2>3. /\ req'[r].left = l
        /\ \A q \in Req : q # r => req'[q] = req[q]
        /\ body' = Tail(body) /\ cur' = r /\ cur = r /\ chunked
    BY <1>12, <1>d DEF ChunkSend
  <2> HIDE DEF l
  <2>4. UNCHANGED <<sendCh, frs, next, acked, chunked, running, broke, got>>
    BY <1>12 DEF ChunkSend, servVars
  <2>5. Sorted(body') /\ \A q \in Req : Sorted(req'[q].left)
    BY <2>1, <2>2, <2>3
  <2>6. Ahead(body)' /\ Ahead(req[cur].left)' /\ Below(req[cur].left, body)'
    BY <2>1, <2>2, <2>3, <2>4
  <2> QED
    BY <2>4, <2>5, <2>6
<1>13. ASSUME NEW r \in PushReq, ChunkTimer(r) PROVE Order'
  BY <1>13, <1>d DEF ChunkTimer, clientVars
<1>14. CASE PullSend
  BY <1>14, <1>a, <1>b DEF PullSend, clientVars
<1>15. CASE PullOK \/ PullRefused
  BY <1>15, <1>a DEF PullOK, PullRefused
<1>16. CASE Close
  BY <1>16, <1>d DEF Close
<1>17. CASE CloseRace
  BY <1>17, <1>a DEF CloseRace
<1>18. ASSUME NEW r \in Req, Lost(r) PROVE Order'
  BY <1>18, <1>a DEF Lost, clientVars
<1>19. ASSUME NEW r \in Req, HTTPInvoke(r) PROVE Order'
  <2>1. CASE req' = [req EXCEPT ![r] = Refused(r)]
    BY <1>19, <2>1, <1>a, <1>c DEF HTTPInvoke, clientVars
  <2>2. CASE req' = [req EXCEPT ![r].st = "reading", ![r].conn = table']
    <3>1. \A q \in Req : req'[q].left = req[q].left
      BY <2>2, <1>d
    <3> QED
      BY <1>19, <3>1 DEF HTTPInvoke, clientVars
  <2> QED
    BY <1>19, <2>1, <2>2 DEF HTTPInvoke
<1>20. ASSUME NEW r \in Req, SetReader(r) PROVE Order'
  <2> DEFINE l == Tail(req[r].left)
  <2>1. Sorted(l) /\ Frames(l) \subseteq Frames(req[r].left)
    BY <1>20, <1>d, TakeFrame DEF SetReader
  <2>2. /\ req'[r].left = l
        /\ \A q \in Req : q # r => req'[q] = req[q]
    BY <1>20, <1>d DEF SetReader
  <2> HIDE DEF l
  <2> QED
    BY <1>20, <2>1, <2>2 DEF SetReader, clientVars
<1>21. ASSUME NEW r \in Req, Answer(r) PROVE Order'
  BY <1>21, <1>a, <1>c DEF Answer, clientVars
<1>22. CASE ServerClose \/ OtherClose
  BY <1>22 DEF ServerClose, OtherClose, clientVars
<1>23. CASE Shutdown
  <2>1. CASE req' = req
    BY <1>23, <2>1 DEF Shutdown, clientVars
  <2>2. ASSUME NEW r \in PushReq, req' = [req EXCEPT ![r] = Refused(r)] PROVE Order'
    BY <1>23, <2>2, <1>a, <1>c DEF Shutdown, clientVars
  <2> QED
    BY <1>23, <2>1, <2>2 DEF Shutdown
<1>24. CASE UNCHANGED vars
  BY <1>24 DEF vars, clientVars, servVars
<1> QED
  BY <1>1, <1>2, <1>3, <1>4, <1>5, <1>6, <1>7, <1>8, <1>9, <1>10, <1>11, <1>12, <1>13, <1>14,
     <1>15, <1>16, <1>17, <1>18, <1>19, <1>20, <1>21, <1>22, <1>23, <1>24 DEF Next
-----------------------------------------------------------------------------
(* What is acknowledged is received or on its way, and arrives in turn. *)

NewConn == serv \in {"none", "up"}

(* What the body of r holds may still reach the first connection.          *)
Feeds(r) ==
  \/ req[r].st = "sent" /\ NewConn
  \/ req[r].st = "reading" /\ req[r].conn = First

(* Every chunk Write may have returned from has reached the first          *)
(* connection; with chunked requests some may be in the body that is being *)
(* sent to it.  While push waits, so are its frames.                       *)
Held ==
  /\ running /\ ~chunked /\ NewConn => acked \subseteq got
  /\ running /\ chunked /\ ~broke /\ cur = "none" /\ NewConn => acked \subseteq got
  /\ running /\ chunked /\ ~broke /\ cur # "none" =>
       /\ Feeds(cur) => acked \subseteq got \cup Frames(req[cur].left) \cup Frames(body)
       /\ req[cur].st = "ok" /\ NewConn => acked \subseteq got
  /\ push = "wait" =>
       /\ Feeds(cur) => Frames(frs) \subseteq got \cup Frames(req[cur].left)
       /\ req[cur].st = "ok" /\ NewConn => Frames(frs) \subseteq got

(* No chunk is received before an earlier one, and none is in a body that  *)
(* the first connection may read unless the earlier ones are received or   *)
(* in that body too.                                                       *)
InTurn ==
  (chunked => ~broke) =>
    /\ \A c \in got : 1 .. c \subseteq got
    /\ \A r \in Req : Feeds(r) =>
         \A x \in Frames(req[r].left) : 1 .. x - 1 \subseteq got \cup Frames(req[r].left)
    /\ chunked /\ cur # "none" /\ Feeds(cur) =>
         \A x \in Frames(body) :
           1 .. x - 1 \subseteq got \cup Frames(req[cur].left) \cup Frames(body)

(* The inductive invariant.                                                *)
IInv == Types /\ Handshake /\ BodyEnds /\ Order /\ Held /\ InTurn

(* At the start nothing is held or received.                               *)
LEMMA InitHeld == Init => Held /\ InTurn
BY NoFrames DEF Init, Held, InTurn, NoReq

(* What is acknowledged, step by step.                                     *)
LEMMA HeldStep == IInv /\ [Next]_vars => Held'
<1> SUFFICES ASSUME IInv, [Next]_vars PROVE Held'
  OBVIOUS
<1> USE PushAssumption DEF IInv, Types, Req, Held, Feeds, NewConn
<1>a. NoReq.left = <<>> /\ NoReq.st = "none" /\ Frames(<<>>) = {}
  BY NoFrames DEF NoReq
<1>b. \A b : /\ NewReq(b).left = b /\ [NewReq(b) EXCEPT !.eof = TRUE].left = b
             /\ NewReq(b).st = "sent" /\ [NewReq(b) EXCEPT !.eof = TRUE].st = "sent"
  BY DEF NewReq
<1>c. \A r, k : /\ Refused(r).st \in {"none", "refused"}
                /\ Response(r, "ok", k).st \in {"none", "ok"}
  BY DEF Refused, Response, NoReq
<1>d. \A q \in Requests :
        /\ q = [st |-> q.st, ack |-> q.ack, conn |-> q.conn, left |-> q.left, eof |-> q.eof]
        /\ q.left \in Seq(Chunk)
  BY DEF Requests
<1>1. CASE WritePut \/ WriteDone \/ WriteAgain \/ WriteEOF
  BY <1>1 DEF WritePut, WriteDone, WriteAgain, WriteEOF, servVars
<1>2. CASE ReadFrames
  BY <1>2 DEF ReadFrames, servVars
<1>3. CASE PushStops
  BY <1>3 DEF PushStops, servVars
<1>4. CASE PushOK
  BY <1>4, <1>a DEF PushOK, servVars
<1>5. CASE PushBreaks
  BY <1>5 DEF PushBreaks, servVars
<1>6. CASE PushRefused \/ ChunkRefused
  BY <1>6 DEF PushRefused, ChunkRefused
<1>7. CASE ChunkOK
  BY <1>7 DEF ChunkOK, servVars
<1>8. CASE ChunkBreaks
  BY <1>8 DEF ChunkBreaks, servVars
<1>9. ASSUME NEW r \in PushReq, SendRequest(r) PROVE Held'
  BY <1>9, <1>b DEF SendRequest, servVars
<1>10. ASSUME NEW r \in PushReq, Offer(r) PROVE Held'
  BY <1>10, <1>a DEF Offer, Waiting, servVars
<1>11. ASSUME NEW r \in PushReq, ChunkStart(r) PROVE Held'
  BY <1>11, <1>b DEF ChunkStart, servVars
<1>12. ASSUME NEW r \in PushReq, ChunkSend(r) PROVE Held'
  <2>1. Head(body) \in Chunk /\ Frames(body) = Frames(Tail(body)) \cup {Head(body)}
    BY <1>12, TakeFrame DEF ChunkSend
  <2> DEFINE l == Append(req[r].left, Head(body))
  <2>2. Frames(l) = Frames(req[r].left) \cup {Head(body)}
    BY <1>12, <1>d, <2>1, AppendFrame DEF ChunkSend
  <2>3. /\ req'[r].left = l /\ req'[r].st = req[r].st /\ req'[r].conn = req[r].conn
        /\ body' = Tail(body) /\ cur' = r /\ cur = r /\ chunked /\ push # "wait"
    BY <1>12, <1>d DEF ChunkSend
  <2> HIDE DEF l
  <2> QED
    BY <1>12, <2>1, <2>2, <2>3 DEF ChunkSend, servVars
<1>13. ASSUME NEW r \in PushReq, ChunkTimer(r) PROVE Held'
  BY <1>13, <1>d DEF ChunkTimer, clientVars, servVars
<1>14. CASE PullSend
  BY <1>14 DEF PullSend, clientVars, servVars
<1>15. CASE PullOK \/ PullRefused
  BY <1>15 DEF PullOK, PullRefused, servVars
<1>16. CASE Close
  BY <1>16, <1>d DEF Close, servVars
<1>17. CASE CloseRace
  BY <1>17 DEF CloseRace
<1>18. ASSUME NEW r \in Req, Lost(r) PROVE Held'
  BY <1>18 DEF Lost, clientVars, servVars
<1>19. ASSUME NEW r \in Req, HTTPInvoke(r) PROVE Held'
  <2>1. CASE req' = [req EXCEPT ![r] = Refused(r)]
    BY <1>19, <2>1, <1>c DEF HTTPInvoke, clientVars
  <2>2. CASE req' = [req EXCEPT ![r].st = "reading", ![r].conn = table']
    <3>1. \A q \in Req : /\ req'[q].left = req[q].left
                         /\ q # r => req'[q] = req[q]
                         /\ q = r => req'[q].st = "reading" /\ req'[q].conn = table'
      BY <2>2, <1>d
    <3>2. req[r].st = "sent" /\ (NewConn' => NewConn) /\ (table' = First => NewConn)
      BY <1>19 DEF HTTPInvoke, Handshake, First, Later, Zombie, NoConn
    <3> QED
      BY <1>19, <3>1, <3>2 DEF HTTPInvoke, clientVars
  <2> QED
    BY <1>19, <2>1, <2>2 DEF HTTPInvoke
<1>20. ASSUME NEW r \in Req, SetReader(r) PROVE Held'
  <2> DEFINE l == Tail(req[r].left)
             h == Head(req[r].left)
  <2>1. Frames(req[r].left) = Frames(l) \cup {h}
    BY <1>20, <1>d, TakeFrame DEF SetReader
  <2>2. /\ req'[r].left = l /\ req'[r].st = req[r].st /\ req'[r].conn = req[r].conn
        /\ req[r].st = "reading"
        /\ \A q \in Req : q # r => req'[q] = req[q]
        /\ got' = IF req[r].conn = First THEN got \cup {h} ELSE got
    BY <1>20, <1>d DEF SetReader
  <2> HIDE DEF l, h
  <2> QED
    BY <1>20, <2>1, <2>2 DEF SetReader, clientVars
<1>21. ASSUME NEW r \in Req, Answer(r) PROVE Held'
  <2>1. CASE req' = [req EXCEPT ![r] = Response(r, "ok", req[r].conn)]
    <3>1. req[r].left = <<>> /\ req[r].eof /\ req[r].st = "reading"
      BY <1>21 DEF Answer
    <3>2. NewConn => Feeds(r)
      BY <3>1 DEF Handshake
    <3>3. /\ UNCHANGED <<running, chunked, broke, cur, push, frs, body, acked, got, serv>>
          /\ \A q \in Req : /\ q # r => req'[q] = req[q]
                            /\ q = r => req'[q].st \in {"none", "ok"}
      BY <1>21, <2>1, <1>c DEF Answer, clientVars, servVars
    <3>4. Frames(req[r].left) = {} /\ (chunked /\ cur = r /\ r # "none" => Frames(body) = {})
      BY <3>1, <1>a DEF BodyEnds
    <3> QED
      BY <3>1, <3>2, <3>3, <3>4
  <2>2. CASE req' = [req EXCEPT ![r] = Refused(r)]
    BY <1>21, <2>2, <1>c DEF Answer, clientVars, servVars
  <2> QED
    BY <1>21, <2>1, <2>2 DEF Answer
<1>22. CASE ServerClose
  BY <1>22 DEF ServerClose, clientVars
<1>23. CASE Shutdown
  <2>1. CASE req' = req
    BY <1>23, <2>1 DEF Shutdown, clientVars
  <2>2. ASSUME NEW r \in PushReq, req' = [req EXCEPT ![r] = Refused(r)] PROVE Held'
    BY <1>23, <2>2, <1>c DEF Shutdown, clientVars
  <2> QED
    BY <1>23, <2>1, <2>2 DEF Shutdown
<1>24. CASE OtherClose
  BY <1>24 DEF OtherClose, clientVars
<1>25. CASE UNCHANGED vars
  BY <1>25 DEF vars, clientVars, servVars
<1> QED
  BY <1>1, <1>2, <1>3, <1>4, <1>5, <1>6, <1>7, <1>8, <1>9, <1>10, <1>11, <1>12, <1>13, <1>14,
     <1>15, <1>16, <1>17, <1>18, <1>19, <1>20, <1>21, <1>22, <1>23, <1>24, <1>25 DEF Next
(* The order of arrival, step by step.                                     *)
LEMMA InTurnStep == IInv /\ [Next]_vars => InTurn'
<1> SUFFICES ASSUME IInv, [Next]_vars PROVE InTurn'
  OBVIOUS
<1> USE PushAssumption DEF IInv, Types, Req, InTurn, Feeds, NewConn
<1>a. NoReq.left = <<>> /\ NoReq.st = "none" /\ Frames(<<>>) = {}
  BY NoFrames DEF NoReq
<1>b. \A b : /\ NewReq(b).left = b /\ [NewReq(b) EXCEPT !.eof = TRUE].left = b
             /\ NewReq(b).st = "sent" /\ [NewReq(b) EXCEPT !.eof = TRUE].st = "sent"
  BY DEF NewReq
<1>c. \A r, k : /\ Refused(r).st \in {"none", "refused"}
                /\ Response(r, "ok", k).st \in {"none", "ok"}
  BY DEF Refused, Response, NoReq
<1>d. \A q \in Requests :
        /\ q = [st |-> q.st, ack |-> q.ack, conn |-> q.conn, left |-> q.left, eof |-> q.eof]
        /\ q.left \in Seq(Chunk)
  BY DEF Requests
<1>e. /\ \A s \in Seq(Chunk) : Frames(s) \subseteq Chunk
      /\ Chunk \subseteq Int
  BY FramesType DEF Chunk
(* The chunks before a frame of push are acknowledged. *)
<1>f. \A x \in Frames(frs) : 1 .. x - 1 \subseteq acked
  <2> SUFFICES ASSUME NEW x \in Frames(frs), NEW y \in 1 .. x - 1 PROVE y \in acked
    OBVIOUS
  <2>1. x \in Int /\ next \in Int /\ x <= next
    BY <1>e DEF Order
  <2> QED
    BY <2>1 DEF Order
<1>1. CASE WritePut \/ WriteDone \/ WriteAgain \/ WriteEOF
  BY <1>1 DEF WritePut, WriteDone, WriteAgain, WriteEOF, servVars
<1>2. CASE ReadFrames \/ PushStops
  BY <1>2 DEF ReadFrames, PushStops, servVars
<1>3. CASE PushOK
  BY <1>3, <1>a DEF PushOK, servVars
<1>4. CASE PushBreaks
  BY <1>4 DEF PushBreaks, servVars
<1>5. CASE PushRefused \/ ChunkRefused
  BY <1>5, <1>a DEF PushRefused, ChunkRefused, servVars
<1>6. CASE ChunkOK \/ ChunkBreaks
  BY <1>6, <1>a DEF ChunkOK, ChunkBreaks, servVars
<1>7. ASSUME NEW r \in PushReq, SendRequest(r) PROVE InTurn'
  <2>1. NewConn => \A x \in Frames(frs) : 1 .. x - 1 \subseteq got
    BY <1>7, <1>f DEF SendRequest, Held
  <2> QED
    BY <1>7, <1>b, <2>1 DEF SendRequest, servVars
<1>8. ASSUME NEW r \in PushReq, Offer(r) PROVE InTurn'
  <2>1. /\ cur = r /\ cur' = r /\ r # "none" /\ body' = frs /\ Frames(body) = {} /\ running
        /\ UNCHANGED <<req, chunked, broke, got, serv>>
    BY <1>8, <1>a DEF Offer, Waiting, servVars
  <2>2. chunked /\ ~broke /\ Feeds(cur) =>
          \A x \in Frames(frs) : 1 .. x - 1 \subseteq got \cup Frames(req[cur].left)
    BY <2>1, <1>f DEF Held
  <2> QED
    BY <2>1, <2>2
<1>9. ASSUME NEW r \in PushReq, ChunkStart(r) PROVE InTurn'
  <2>1. ~broke => body = <<>>
    BY <1>9 DEF ChunkStart, BodyEnds
  <2> QED
    BY <1>9, <1>a, <1>b, <2>1 DEF ChunkStart, servVars
<1>10. ASSUME NEW r \in PushReq, ChunkSend(r) PROVE InTurn'
  <2>1. /\ Head(body) \in Chunk
        /\ Frames(body) = Frames(Tail(body)) \cup {Head(body)}
        /\ \A x \in Frames(body) : Head(body) <= x
    BY <1>10, TakeFrame DEF ChunkSend, Order
  <2> DEFINE l == Append(req[r].left, Head(body))
  <2>2. Frames(l) = Frames(req[r].left) \cup {Head(body)}
    BY <1>10, <1>d, <2>1, AppendFrame
  <2>3. /\ req'[r].left = l /\ req'[r].st = req[r].st /\ req'[r].conn = req[r].conn
        /\ \A q \in Req : q # r => req'[q] = req[q]
        /\ body' = Tail(body) /\ cur' = r /\ cur = r /\ r # "none" /\ chunked
        /\ UNCHANGED <<chunked, broke, got, serv>>
    BY <1>10, <1>d DEF ChunkSend, servVars
  (* What is before the head of the body is not in the body. *)
  <2>4. ~broke /\ Feeds(r) => 1 .. Head(body) - 1 \subseteq got \cup Frames(req[r].left)
    <3> SUFFICES ASSUME ~broke, Feeds(r), NEW y \in 1 .. Head(body) - 1
                 PROVE  y \in got \cup Frames(req[r].left)
      OBVIOUS
    <3>1. y \in got \cup Frames(req[r].left) \cup Frames(body)
      BY <2>1, <2>3
    <3>a. Head(body) \in Int
      BY <2>1, <1>e
    <3>2. ~(Head(body) <= y)
      BY <3>a
    <3> QED
      BY <2>1, <3>1, <3>2
  <2> HIDE DEF l
  <2>5. \A q \in Req : Feeds(q)' <=> Feeds(q)
    BY <2>3
  <2> QED
    BY <2>1, <2>2, <2>3, <2>4, <2>5
<1>11. ASSUME NEW r \in PushReq, ChunkTimer(r) PROVE InTurn'
  <2>1. \A q \in Req : /\ req'[q].left = req[q].left /\ req'[q].st = req[q].st
                       /\ req'[q].conn = req[q].conn
    BY <1>11, <1>d DEF ChunkTimer
  <2> QED
    BY <1>11, <2>1 DEF ChunkTimer, clientVars, servVars
<1>12. CASE PullSend
  BY <1>12, <1>a, <1>b DEF PullSend, clientVars, servVars
<1>13. CASE PullOK \/ PullRefused
  BY <1>13, <1>a DEF PullOK, PullRefused, servVars
<1>14. CASE Close
  <2>1. \A q \in Req : /\ req'[q].left = req[q].left /\ req'[q].st = req[q].st
                       /\ req'[q].conn = req[q].conn
    BY <1>14, <1>d DEF Close
  <2> QED
    BY <1>14, <2>1 DEF Close, servVars
<1>15. CASE CloseRace
  BY <1>15, <1>a DEF CloseRace, servVars
<1>16. ASSUME NEW r \in Req, Lost(r) PROVE InTurn'
  BY <1>16, <1>a DEF Lost, clientVars, servVars
<1>17. ASSUME NEW r \in Req, HTTPInvoke(r) PROVE InTurn'
  <2>1. CASE req' = [req EXCEPT ![r] = Refused(r)]
    BY <1>17, <2>1, <1>c DEF HTTPInvoke, clientVars
  <2>2. CASE req' = [req EXCEPT ![r].st = "reading", ![r].conn = table']
    <3>1. \A q \in Req : /\ req'[q].left = req[q].left
                         /\ q # r => req'[q] = req[q]
                         /\ q = r => req'[q].st = "reading" /\ req'[q].conn = table'
      BY <2>2, <1>d
    <3>2. req[r].st = "sent" /\ (NewConn' => NewConn) /\ (table' = First => NewConn)
      BY <1>17 DEF HTTPInvoke, Handshake, First, Later, Zombie, NoConn
    <3>3. \A q \in Req : Feeds(q)' => Feeds(q)
      BY <3>1, <3>2
    <3> QED
      BY <1>17, <3>1, <3>3 DEF HTTPInvoke, clientVars
  <2> QED
    BY <1>17, <2>1, <2>2 DEF HTTPInvoke
<1>18. ASSUME NEW r \in Req, SetReader(r) PROVE InTurn'
  <2> DEFINE l == Tail(req[r].left)
             h == Head(req[r].left)
  <2>1. /\ h \in Chunk /\ Frames(req[r].left) = Frames(l) \cup {h}
        /\ \A x \in Frames(req[r].left) : h <= x
    BY <1>18, <1>d, TakeFrame DEF SetReader, Order
  <2>2. /\ req'[r].left = l /\ req'[r].st = req[r].st /\ req'[r].conn = req[r].conn
        /\ req[r].st = "reading"
        /\ \A q \in Req : q # r => req'[q] = req[q]
        /\ got' = IF req[r].conn = First THEN got \cup {h} ELSE got
        /\ UNCHANGED <<chunked, broke, serv, cur, body>>
    BY <1>18, <1>d DEF SetReader, clientVars
  <2>3. \A q \in Req : Feeds(q)' <=> Feeds(q)
    BY <2>2
  (* Nothing before the head is still in the body: it has been received. *)
  <2>4. (chunked => ~broke) /\ Feeds(r) => 1 .. h - 1 \subseteq got
    <3> SUFFICES ASSUME chunked => ~broke, Feeds(r), NEW y \in 1 .. h - 1 PROVE y \in got
      OBVIOUS
    <3>1. y \in got \cup Frames(req[r].left)
      BY <2>1
    <3>a. h \in Int
      BY <2>1, <1>e
    <3> HIDE DEF h
    <3>2. ~(h <= y)
      BY <3>a
    <3> QED
      BY <2>1, <3>1, <3>2
  <2> HIDE DEF l, h
  <2>5. CASE req[r].conn # First
    BY <2>2, <2>3, <2>5
  <2>6. CASE req[r].conn = First
    <3>1. Feeds(r) /\ got' = got \cup {h} /\ h \in Int
      BY <2>1, <2>2, <2>6, <1>e
    <3>2. (chunked => ~broke) => 1 .. h \subseteq got'
      <4> SUFFICES ASSUME chunked => ~broke, NEW y \in 1 .. h PROVE y \in got'
        OBVIOUS
      <4>1. y = h \/ y \in 1 .. h - 1
        BY <3>1
      <4> QED
        BY <4>1, <3>1, <2>4
    <3> QED
      BY <2>1, <2>2, <2>3, <3>1, <3>2
  <2> QED
    BY <2>5, <2>6
<1>19. ASSUME NEW r \in Req, Answer(r) PROVE InTurn'
  BY <1>19, <1>c DEF Answer, clientVars, servVars
<1>20. CASE ServerClose \/ OtherClose
  BY <1>20 DEF ServerClose, OtherClose, clientVars
<1>21. CASE Shutdown
  <2>1. CASE req' = req
    BY <1>21, <2>1 DEF Shutdown, clientVars
  <2>2. ASSUME NEW r \in PushReq, req' = [req EXCEPT ![r] = Refused(r)] PROVE InTurn'
    BY <1>21, <2>2, <1>c DEF Shutdown, clientVars
  <2> QED
    BY <1>21, <2>1, <2>2 DEF Shutdown
<1>22. CASE UNCHANGED vars
  BY <1>22 DEF vars, clientVars, servVars
<1> QED
  BY <1>1, <1>2, <1>3, <1>4, <1>5, <1>6, <1>7, <1>8, <1>9, <1>10, <1>11, <1>12, <1>13, <1>14,
     <1>15, <1>16, <1>17, <1>18, <1>19, <1>20, <1>21, <1>22 DEF Next

-----------------------------------------------------------------------------

(* The inductive invariant holds in every reachable state.                 *)
THEOREM Invariance == Spec => []IInv
<1>1. Init => IInv
  BY InitTypes, InitHandshake, InitOrder, InitHeld DEF IInv
<1>2. IInv /\ [Next]_vars => IInv'
  <2> SUFFICES ASSUME IInv, [Next]_vars PROVE IInv'
    OBVIOUS
  <2>1. Types' /\ Handshake'
    BY TypesStep, HandshakeStep DEF IInv
  <2>2. BodyEnds' /\ Order'
    BY BodyEndsStep, OrderStep DEF IInv
  <2>3. Held' /\ InTurn'
    BY HeldStep, InTurnStep
  <2> QED
    BY <2>1, <2>2, <2>3 DEF IInv
<1> QED
  BY <1>1, <1>2, PTL DEF Spec

(* The variables of both ends of an upload keep their types.               *)
THEOREM TypeCorrect == Spec => []Types
<1>1. IInv => Types
  BY DEF IInv
<1> QED
  BY <1>1, Invariance, PTL

(* setReader of the first connection never appends a chunk before all the  *)
(* earlier ones, for any number of requests under way, queued repetitions  *)
(* and given-up handlers, as long as no chunked request breaks.            *)
THEOREM ReceivesInTurn == Spec => []NoGap
<1>1. IInv => NoGap
  BY DEF IInv, InTurn, NoGap
<1> QED
  BY <1>1, Invariance, PTL

(* Write returns only from chunks that the running first connection has    *)
(* received, when push sends each batch in a request of its own.           *)
THEOREM ReturnsWhenDelivered == Spec => []AckedIsDelivered
<1>1. IInv => AckedIsDelivered
  BY DEF IInv, Held, NewConn, AckedIsDelivered
<1> QED
  BY <1>1, Invariance, PTL

(* The client never takes over the ackID of a connection that HTTPInvoke   *)
(* left in the table without a session.                                    *)
THEOREM JoinsServedOnly == Spec => []NeverJoinsZombie
<1>1. IInv => NeverJoinsZombie
  BY DEF IInv, Handshake, NeverJoinsZombie
<1> QED
  BY <1>1, Invariance, PTL
=============================================================================
