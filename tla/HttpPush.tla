------------------------------ MODULE HttpPush ------------------------------
(***************************************************************************)
(* The upload half of the HTTP transport: httpDuplexConn.Write, push and   *)
(* chunkPush of http/local.go, HTTPInvoke and setReader of http/remote.go, *)
(* with the connection table and the ackID handshake that both halves use. *)
(*                                                                         *)
(* The client's mux session writes chunks 1, 2, ... one at a time.  Push   *)
(* sends what is queued in POST requests, or feeds it to the body of a     *)
(* long chunked request; a request may break at any time, and what the     *)
(* server has of it may still be read.  A server connection is named by    *)
(* its number, which also stands for its random ackID.                     *)
(***************************************************************************)
EXTENDS Integers, Sequences

CONSTANTS
  MaxChunk,  \* bound: chunks the mux session writes
  QueueCap,  \* capacity of sendCh, 10 in the code
  PushReq    \* bound: push requests that exist at a time

ASSUME PushAssumption ==
  /\ MaxChunk \in Nat \ {0} /\ QueueCap \in Nat \ {0}
  /\ "none" \notin PushReq /\ "pull" \notin PushReq

Chunk  == 1 .. MaxChunk
NoConn == "no"      \* no connection, no ackID
First  == "first"   \* the connection made by the client's first request
Later  == "later"   \* a connection made after the first one was closed
Zombie == "zombie"  \* a connection in the table that no session serves
Req    == PushReq \union {"pull"}

VARIABLES
  running, ackID,     \* httpDuplexConn: running (closeCh open), ackID
  chunked,            \* chunkPushSupported
  writer, next,       \* where Write is, and the chunk it writes
  sendCh,             \* the queue between Write and push
  acked,              \* chunks with a value in their Err channel
  push, frs, cur,     \* where push is, its frames, its request
  body,               \* readBuffer of chunkPushBody
  req,                \* the requests on their way
  broke,              \* a chunked request has broken
  table,              \* httpDuplexServConnTable for the client's id
  serv, got           \* state of the first connection, chunks it received

clientVars == <<running, ackID, chunked, writer, next, sendCh, acked, push, frs, cur, body>>
servVars   == <<table, serv, got>>
vars == <<clientVars, req, broke, servVars>>

NoReq == [st |-> "none", ack |-> NoConn, conn |-> NoConn, left |-> <<>>, eof |-> FALSE]

(* The connection after init: testChunkPush has found out whether the      *)
(* server takes chunked requests; nothing has been sent.                   *)
Init ==
  /\ running = TRUE /\ ackID = NoConn
  /\ chunked \in BOOLEAN
  /\ writer = "put" /\ next = 1
  /\ sendCh = <<>> /\ acked = {}
  /\ push = "loop" /\ frs = <<>> /\ cur = "none"
  /\ body = <<>>
  /\ req = [r \in Req |-> NoReq]
  /\ broke = FALSE
  /\ table = NoConn
  /\ serv = "none" /\ got = {}

(* The answer to request r as the client gets it; nobody waits for that of *)
(* a push the client has given up or of a pull after Close.                *)
Response(r, st, k) ==
  IF r = cur \/ (r = "pull" /\ running)
    THEN [NoReq EXCEPT !.st = st, !.conn = k] ELSE NoReq

Refused(r) == Response(r, "refused", NoConn)

Frames(s) == {s[i] : i \in DOMAIN s}
-----------------------------------------------------------------------------

(* Write: queue the chunk.                                                 *)
WritePut ==
  /\ writer = "put" /\ running
  /\ Len(sendCh) < QueueCap
  /\ sendCh' = Append(sendCh, next)
  /\ writer' = "wait"
  /\ UNCHANGED <<running, ackID, chunked, next, acked, push, frs, cur, body, req, broke, servVars>>

(* Write returns: the mux session goes on to the next chunk.               *)
WriteDone ==
  /\ writer = "wait" /\ next \in acked
  /\ IF next = MaxChunk
       THEN writer' = "done" /\ UNCHANGED next
       ELSE writer' = "put" /\ next' = next + 1
  /\ UNCHANGED <<running, ackID, chunked, sendCh, acked, push, frs, cur, body, req, broke, servVars>>

(* Five seconds without an answer: START again, with the same chunk.       *)
WriteAgain ==
  /\ writer = "wait" /\ next \notin acked
  /\ writer' = "put"
  /\ UNCHANGED <<running, ackID, chunked, next, sendCh, acked, push, frs, cur, body, req, broke, servVars>>

WriteEOF ==
  /\ writer \in {"put", "wait"} /\ ~running
  /\ writer' = "done"
  /\ UNCHANGED <<running, ackID, chunked, next, sendCh, acked, push, frs, cur, body, req, broke, servVars>>
-----------------------------------------------------------------------------
(* push: readFrames takes all that is queued.                              *)
ReadFrames ==
  /\ push = "loop" /\ running /\ frs = <<>> /\ sendCh # <<>>
  /\ frs' = sendCh /\ sendCh' = <<>>
  /\ UNCHANGED <<running, ackID, chunked, writer, next, acked, push, cur, body, req, broke, servVars>>

(* The loop ends with the connection, and notifyDone reports success.      *)
PushStops ==
  /\ push = "loop" /\ ~running
  /\ push' = "stopped"
  /\ acked' = acked \union Frames(frs)
  /\ frs' = <<>>
  /\ UNCHANGED <<running, ackID, chunked, writer, next, sendCh, cur, body, req, broke, servVars>>

NewReq(b) == [st |-> "sent", ack |-> ackID, conn |-> NoConn, left |-> b, eof |-> FALSE]

(* Seeded fault: the frames are acknowledged before there is an answer.    *)
SendRequest_Notify(r) ==
  /\ push = "loop" /\ running /\ ~chunked /\ frs # <<>>
  /\ req[r].st = "none"
  /\ req' = [req EXCEPT ![r] = [NewReq(frs) EXCEPT !.eof = TRUE]]
  /\ cur' = r /\ push' = "wait"
  /\ acked' = acked \union Frames(frs)
  /\ UNCHANGED <<running, ackID, chunked, writer, next, sendCh, frs, body, broke, servVars>>

(* A push request with the frames as its body.                             *)
SendRequest(r) ==
  /\ push = "loop" /\ running /\ ~chunked /\ frs # <<>>
  /\ req[r].st = "none"
  /\ req' = [req EXCEPT ![r] = [NewReq(frs) EXCEPT !.eof = TRUE]]
  /\ cur' = r /\ push' = "wait"
  /\ UNCHANGED <<running, ackID, chunked, writer, next, sendCh, acked, frs, body, broke, servVars>>

(* Seeded fault: every answer replaces the ackID.                          *)
LearnedAck_Always(r) == req[r].conn

(* setAckId: the first ackID the client sees stays.                        *)
LearnedAck(r) == IF ackID = NoConn THEN req[r].conn ELSE ackID

(* Response 200: the frames are acknowledged.                              *)
PushOK ==
  /\ push = "wait" /\ req[cur].st = "ok"
  /\ ackID' = LearnedAck(cur)
  /\ acked' = acked \union Frames(frs)
  /\ frs' = <<>>
  /\ push' = "loop" /\ cur' = "none"
  /\ req' = [req EXCEPT ![cur] = NoReq]
  /\ UNCHANGED <<running, chunked, writer, next, sendCh, body, broke, servVars>>

(* Seeded fault: the frames of a request that breaks are reported as sent. *)
PushBreaks_Drop ==
  /\ push = "wait"
  /\ push' = "loop" /\ cur' = "none"
  /\ acked' = acked \union Frames(frs)
  /\ frs' = <<>>
  /\ UNCHANGED <<running, ackID, chunked, writer, next, sendCh, body, req, broke, servVars>>

(* The request breaks on the client's side, and push tries again.          *)
PushBreaks ==
  /\ push = "wait"
  /\ push' = "loop" /\ cur' = "none"
  /\ UNCHANGED <<running, ackID, chunked, writer, next, sendCh, acked, frs, body, req, broke, servVars>>

(* Response 401 to push.                                                   *)
PushRefused ==
  /\ push = "wait" /\ req[cur].st = "refused"
  /\ running' = FALSE
  /\ push' = "stopped" /\ cur' = "none"
  /\ req' = [req EXCEPT ![cur] = NoReq]
  /\ UNCHANGED <<ackID, chunked, writer, next, sendCh, acked, frs, body, broke, servVars>>
-----------------------------------------------------------------------------
(* push with chunked requests: the body of the running request takes the   *)
(* frames when its reader waits for more; an offer that times out is made  *)
(* again.                                                                  *)
Waiting(r) == req[r].st \in {"sent", "reading"} /\ ~req[r].eof /\ body = <<>>

Offer(r) ==
  /\ push = "loop" /\ running /\ chunked /\ frs # <<>>
  /\ cur = r /\ Waiting(r)
  /\ body' = frs
  /\ acked' = acked \union Frames(frs)
  /\ frs' = <<>>
  /\ UNCHANGED <<running, ackID, chunked, writer, next, sendCh, push, cur, req, broke, servVars>>

(* chunkPush starts a request, with what the last body left unread.        *)
ChunkStart(r) ==
  /\ chunked /\ running /\ cur = "none" /\ req[r].st = "none"
  /\ req' = [req EXCEPT ![r] = NewReq(<<>>)]
  /\ cur' = r
  /\ UNCHANGED <<running, ackID, chunked, writer, next, sendCh, acked, push, frs, body, broke, servVars>>

(* net/http reads the body and sends it.                                   *)
ChunkSend(r) ==
  /\ chunked /\ cur = r /\ body # <<>>
  /\ req[r].st \in {"sent", "reading"}
  /\ req' = [req EXCEPT ![r].left = Append(@, Head(body))]
  /\ body' = Tail(body)
  /\ UNCHANGED <<running, ackID, chunked, writer, next, sendCh, acked, push, frs, cur, broke, servVars>>

(* restartChunkPushTimer: the body ends if its reader waits.               *)
ChunkTimer(r) ==
  /\ chunked /\ cur = r /\ Waiting(r)
  /\ req' = [req EXCEPT ![r].eof = TRUE]
  /\ UNCHANGED <<clientVars, broke, servVars>>

(* The response, or the failure, of a chunked request.  What the server    *)
(* had not read of a broken one is taken to be lost.                       *)
ChunkOK ==
  /\ chunked /\ cur # "none" /\ req[cur].st = "ok"
  /\ ackID' = LearnedAck(cur)
  /\ cur' = "none"
  /\ req' = [req EXCEPT ![cur] = NoReq]
  /\ UNCHANGED <<running, chunked, writer, next, sendCh, acked, push, frs, body, broke, servVars>>

ChunkBreaks ==
  /\ chunked /\ cur # "none"
  /\ cur' = "none" /\ broke' = TRUE
  /\ req' = [req EXCEPT ![cur] = NoReq]
  /\ UNCHANGED <<running, ackID, chunked, writer, next, sendCh, acked, push, frs, body, servVars>>

ChunkRefused ==
  /\ chunked /\ cur # "none" /\ req[cur].st = "refused"
  /\ running' = FALSE
  /\ cur' = "none"
  /\ req' = [req EXCEPT ![cur] = NoReq]
  /\ UNCHANGED <<ackID, chunked, writer, next, sendCh, acked, push, frs, body, broke, servVars>>
-----------------------------------------------------------------------------
(* pull, as far as this half sees it: requests that learn the ackID or     *)
(* that the server has gone.                                               *)
PullSend ==
  /\ running /\ req["pull"].st = "none"
  /\ req' = [req EXCEPT !["pull"] = [NewReq(<<>>) EXCEPT !.eof = TRUE]]
  /\ UNCHANGED <<clientVars, broke, servVars>>

PullOK ==
  /\ req["pull"].st = "ok"
  /\ ackID' = LearnedAck("pull")
  /\ req' = [req EXCEPT !["pull"] = NoReq]
  /\ UNCHANGED <<running, chunked, writer, next, sendCh, acked, push, frs, cur, body, broke, servVars>>

PullRefused ==
  /\ req["pull"].st = "refused"
  /\ running' = FALSE
  /\ req' = [req EXCEPT !["pull"] = NoReq]
  /\ UNCHANGED <<ackID, chunked, writer, next, sendCh, acked, push, frs, cur, body, broke, servVars>>

(* A request is lost: a pull, or a push the client no longer waits for.    *)
Lost(r) ==
  /\ r # cur /\ req[r].st # "none"
  /\ req' = [req EXCEPT ![r] = NoReq]
  /\ UNCHANGED <<clientVars, broke, servVars>>

(* The mux session closes the connection.                                  *)
Close ==
  /\ running
  /\ running' = FALSE
  /\ req' = IF cur \in Req /\ chunked /\ Waiting(cur) THEN [req EXCEPT ![cur].eof = TRUE] ELSE req
  /\ UNCHANGED <<ackID, chunked, writer, next, sendCh, acked, push, frs, cur, body, broke, servVars>>
(* Close is called while another goroutine that got a 401 is inside it:    *)
(* closeCh is closed twice, which ends the process.                        *)
CloseRace ==
  /\ running /\ \E r \in Req : req[r].st = "refused"
  /\ running' = FALSE
  /\ writer' = "done" /\ push' = "stopped" /\ cur' = "none"
  /\ req' = [r \in Req |-> IF req[r].st \in {"refused", "ok"} THEN NoReq ELSE req[r]]
  /\ UNCHANGED <<ackID, chunked, next, sendCh, acked, frs, body, broke, servVars>>
-----------------------------------------------------------------------------
(* HTTPInvoke up to setReader: the connection with the client's id is      *)
(* found or made.  A request that names another ackID is refused; if no    *)
(* connection existed the new one stays in the table without a session.    *)
HTTPInvoke(r) ==
  /\ req[r].st = "sent"
  /\ IF table = NoConn
       THEN IF req[r].ack # NoConn
              THEN /\ table' = Zombie /\ UNCHANGED serv
                   /\ req' = [req EXCEPT ![r] = Refused(r)]
              ELSE /\ table' = IF serv = "none" THEN First ELSE Later
                   /\ serv' = IF serv = "none" THEN "up" ELSE serv
                   /\ req' = [req EXCEPT ![r].st = "reading", ![r].conn = table']
       ELSE /\ req' = IF req[r].ack \in {NoConn, table}
                        THEN [req EXCEPT ![r].st = "reading", ![r].conn = table]
                        ELSE [req EXCEPT ![r] = Refused(r)]
            /\ UNCHANGED <<table, serv>>
  /\ UNCHANGED <<clientVars, broke, got>>

(* setReader appends what it reads to recvBuffer.                          *)
SetReader(r) ==
  /\ req[r].st = "reading" /\ req[r].left # <<>>
  /\ req' = [req EXCEPT ![r].left = Tail(@)]
  /\ got' = IF req[r].conn = First THEN got \union {Head(req[r].left)} ELSE got
  /\ UNCHANGED <<clientVars, broke, table, serv>>

(* The handler answers, with 401 if the connection was shut down.  A pull  *)
(* is answered when its writer is set, and refused when the connection is  *)
(* not running.                                                            *)
Answer(r) ==
  /\ req[r].st = "reading" /\ req[r].left = <<>> /\ req[r].eof
  /\ LET dead == IF r = "pull" THEN {"closed", "down"} ELSE {"down"}
     IN  req' = [req EXCEPT ![r] = IF req[r].conn = First /\ serv \in dead
                                     THEN Refused(r) ELSE Response(r, "ok", req[r].conn)]
  /\ UNCHANGED <<clientVars, broke, servVars>>

(* httpDuplexServConn.Close by the mux session or by the 2 minute check.   *)
(* Whatever the table has for the id is removed.                           *)
ServerClose ==
  /\ serv = "up"
  /\ serv' = "closed"
  /\ table' = NoConn
  /\ UNCHANGED <<clientVars, req, broke, got>>

(* shutdown, when ServProxyMuxSession returns: Close again, and closeRead  *)
(* ends the body that is being read.                                       *)
Shutdown ==
  /\ serv \in {"up", "closed"}
  /\ serv' = "down"
  /\ table' = NoConn
  /\ req' \in {req} \union
       {[req EXCEPT ![r] = Refused(r)] : r \in {q \in PushReq : req[q].st = "reading" /\ req[q].conn = First}}
  /\ UNCHANGED <<clientVars, broke, got>>

(* The end of a later connection, and the 2 minute check of one without a  *)
(* session.                                                                *)
OtherClose ==
  /\ table \in {Later, Zombie}
  /\ table' = NoConn
  /\ UNCHANGED <<clientVars, req, broke, serv, got>>
-----------------------------------------------------------------------------
Next ==
  \/ WritePut \/ WriteDone \/ WriteAgain \/ WriteEOF
  \/ ReadFrames \/ PushStops \/ PushOK \/ PushBreaks \/ PushRefused
  \/ ChunkOK \/ ChunkBreaks \/ ChunkRefused
  \/ \E r \in PushReq : \/ SendRequest(r) \/ Offer(r) \/ ChunkStart(r)
                        \/ ChunkSend(r) \/ ChunkTimer(r)
  \/ PullSend \/ PullOK \/ PullRefused \/ Close \/ CloseRace
  \/ \E r \in Req : Lost(r) \/ HTTPInvoke(r) \/ SetReader(r) \/ Answer(r)
  \/ ServerClose \/ Shutdown \/ OtherClose

Spec == Init /\ [][Next]_vars
-----------------------------------------------------------------------------

(* The connection that the client's first request made receives no chunk   *)
(* before all earlier ones, however often Write queues a chunk again, push *)
(* repeats a request whose answer was lost, and handlers of given-up       *)
(* requests go on reading.  Chunks may arrive more than once.  A chunked   *)
(* request that breaks does lose data.                                     *)
NoGap ==
  (chunked => ~broke) => \A c \in got : 1 .. c \subseteq got

(* While the connection whose ackID the client holds is up, every chunk    *)
(* for which Write may return has been received by that very connection.   *)
AckedIsDelivered ==
  (running /\ ~chunked /\ ackID = First /\ serv = "up") => acked \subseteq got

(* HTTPInvoke leaves a connection that no session serves in the table when *)
(* it refuses a stale ackID.  The client never takes the ackID of such a   *)
(* connection, though a delayed request without ackID is answered by it.   *)
NeverJoinsZombie == ackID # Zombie
=============================================================================
