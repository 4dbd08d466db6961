------------------------------ MODULE HttpPull ------------------------------
(***************************************************************************)
(* The download half of the HTTP transport: pull and Read of               *)
(* httpDuplexConn (http/local.go) against Write, setWriter, closeWrite and *)
(* Close of httpDuplexServConn and the pull branch of HTTPInvoke           *)
(* (http/remote.go).  The server writes messages 1, 2, ... into the        *)
(* response of whichever pull is current; a pull ends after its period, by *)
(* a newer pull, or with the connection.                                   *)
(*                                                                         *)
(* AsyncNotify hands a token to a receiver that is waiting at that moment  *)
(* and is lost otherwise.  Handlers are those of one server connection,    *)
(* whose ackID the client's pulls carry.                                   *)
(***************************************************************************)
EXTENDS Integers, Sequences, FiniteSets

CONSTANTS
  MaxMsg,    \* bound: messages the server's mux session writes
  Handler,   \* bound: pull requests that exist at a time
  MaxBreak,  \* bound: pull requests or responses that break
  None

ASSUME PullAssumption ==
  /\ MaxMsg \in Nat /\ MaxBreak \in Nat
  /\ None \notin Handler

VARIABLES
  running,     \* h.running of the server connection
  inTable,     \* the connection is in httpDuplexServConnTable
  closer,      \* progress of httpDuplexServConn.Close
  writer,      \* h.writer, named by its handler
  stopCh,      \* h.writerStopCh, named by its handler
  sw, next,    \* where Write is, and the message it writes
  hpc,         \* where each pull handler is
  resp,        \* what each handler has written and the client not yet read
  refused,     \* responses with status 401
  cRunning,    \* running of the client's connection
  pulling,     \* the request pull waits for
  recvReader,  \* the response that Read reads
  got,         \* messages read
  broken       \* breaks so far

servVars   == <<running, inTable, closer, writer, stopCh, sw, next, hpc>>
clientVars == <<cRunning, pulling, recvReader, got, broken>>
vars == <<servVars, resp, refused, clientVars>>

(* Both ends after the handshake, before the first pull with an ackID.     *)
Init ==
  /\ running = TRUE /\ inTable = TRUE /\ closer = "no"
  /\ writer = None /\ stopCh = None
  /\ sw = "test" /\ next = 1
  /\ hpc = [h \in Handler |-> "none"]
  /\ resp = [h \in Handler |-> <<>>]
  /\ refused = {}
  /\ cRunning = TRUE /\ pulling = None /\ recvReader = None
  /\ got = <<>> /\ broken = 0

(* Handlers that AsyncNotify on the stop channel of h reaches.             *)
Reached(h) == {g \in Handler : g = h /\ hpc[g] = "select"}

(* Handler h moves to l, those in S return.                                *)
Move(h, l, S) == hpc' = [g \in Handler |-> IF g \in S THEN "out"
                                           ELSE IF g = h THEN l ELSE hpc[g]]
-----------------------------------------------------------------------------
(* httpDuplexServConn.Write: the test of running, then the writer under    *)
(* sendLock.  Without one, Write waits for a notification or 10 seconds.   *)
WriteTest ==
  /\ sw = "test" /\ next <= MaxMsg
  /\ sw' = IF running THEN "lock" ELSE "eof"
  /\ UNCHANGED <<running, inTable, closer, writer, stopCh, next, hpc, resp, refused, clientVars>>

WriteWait ==
  /\ sw = "lock" /\ writer = None
  /\ sw' = "test"
  /\ UNCHANGED <<running, inTable, closer, writer, stopCh, next, hpc, resp, refused, clientVars>>

(* The message goes into the response; one the client has given up, or     *)
(* whose handler has returned, swallows it.                                *)
Listening(h) ==
  h \in {pulling, recvReader} /\ hpc[h] \in {"check", "select", "timeout"}

Write ==
  /\ sw = "lock" /\ writer # None
  /\ resp' = IF Listening(writer) THEN [resp EXCEPT ![writer] = Append(@, next)] ELSE resp
  /\ next' = next + 1 /\ sw' = "test"
  /\ UNCHANGED <<running, inTable, closer, writer, stopCh, hpc, refused, clientVars>>

(* The write fails: the writer is dropped and the mux session gets the     *)
(* error.                                                                  *)
WriteFails ==
  /\ sw = "lock" /\ writer # None /\ ~Listening(writer)
  /\ writer' = None
  /\ sw' = "eof"
  /\ UNCHANGED <<running, inTable, closer, stopCh, next, hpc, resp, refused, clientVars>>
-----------------------------------------------------------------------------
(* HTTPInvoke finds the connection, or refuses the ackID of one that has   *)
(* left the table.                                                         *)
HTTPInvoke(h) ==
  /\ hpc[h] = "sent"
  /\ IF inTable THEN Move(h, "set", {}) /\ UNCHANGED refused
                ELSE Move(h, "out", {}) /\ refused' = refused \union {h}
  /\ UNCHANGED <<running, inTable, closer, writer, stopCh, sw, next, resp, clientVars>>

(* Seeded fault: the pull before is stopped but stays the writer.          *)
SetWriter_KeepWriter(h) ==
  /\ hpc[h] = "set"
  /\ Move(h, "check", Reached(stopCh))
  /\ writer' = IF writer = None THEN h ELSE writer
  /\ stopCh' = h
  /\ UNCHANGED <<running, inTable, closer, sw, next, resp, refused, clientVars>>

(* setWriter: the pull before is told to stop, this one takes over.        *)
SetWriter(h) ==
  /\ hpc[h] = "set"
  /\ Move(h, "check", Reached(stopCh))
  /\ writer' = h /\ stopCh' = h
  /\ UNCHANGED <<running, inTable, closer, sw, next, resp, refused, clientVars>>

(* A status that comes after data has no effect.                           *)
Refuse(h) == refused' = IF resp[h] = <<>> THEN refused \union {h} ELSE refused

CheckRunning(h) ==
  /\ hpc[h] = "check"
  /\ IF running THEN Move(h, "select", {}) /\ UNCHANGED refused
                ELSE Move(h, "out", {}) /\ Refuse(h)
  /\ UNCHANGED <<running, inTable, closer, writer, stopCh, sw, next, resp, clientVars>>

(* The period of the pull is over.                                         *)
Timeout(h) ==
  /\ hpc[h] = "select"
  /\ Move(h, "timeout", {})
  /\ UNCHANGED <<running, inTable, closer, writer, stopCh, sw, next, resp, refused, clientVars>>

(* Seeded fault: the handler returns without closeWrite.                   *)
CloseWrite_KeepWriter(h) ==
  /\ hpc[h] = "timeout"
  /\ Move(h, "out", {})
  /\ UNCHANGED <<running, inTable, closer, writer, stopCh, sw, next, resp, refused, clientVars>>

(* closeWrite drops whatever writer there is by then, and stops the        *)
(* handler of the last pull.                                               *)
CloseWrite(h) ==
  /\ hpc[h] = "timeout"
  /\ IF running THEN Move(h, "out", Reached(stopCh)) /\ writer' = None
                ELSE Move(h, "out", {}) /\ UNCHANGED writer
  /\ UNCHANGED <<running, inTable, closer, stopCh, sw, next, resp, refused, clientVars>>
-----------------------------------------------------------------------------
(* httpDuplexServConn.Close, by the mux session or the 2 minute check:     *)
(* closeWrite, the notification of one waiting pull, the flag, the table.  *)
CloseBegin ==
  /\ closer = "no"
  /\ closer' = "notify"
  /\ writer' = None
  /\ hpc' = [g \in Handler |-> IF g \in Reached(stopCh) THEN "out" ELSE hpc[g]]
  /\ UNCHANGED <<running, inTable, stopCh, sw, next, resp, refused, clientVars>>

CloseNotify ==
  /\ closer = "notify"
  /\ closer' = "flag"
  /\ LET W == {g \in Handler : hpc[g] = "select"}
     IN  IF W = {} THEN UNCHANGED <<hpc, refused>>
         ELSE \E g \in W : Move(g, "out", {}) /\ Refuse(g)
  /\ UNCHANGED <<running, inTable, writer, stopCh, sw, next, resp, clientVars>>

CloseFlag ==
  /\ closer = "flag"
  /\ closer' = "remove" /\ running' = FALSE
  /\ UNCHANGED <<inTable, writer, stopCh, sw, next, hpc, resp, refused, clientVars>>

CloseRemove ==
  /\ closer = "remove"
  /\ closer' = "done" /\ inTable' = FALSE
  /\ UNCHANGED <<running, writer, stopCh, sw, next, hpc, resp, refused, clientVars>>
-----------------------------------------------------------------------------

(* The client's pull sends a request when Read has nothing to read from.   *)
Pull(h) ==
  /\ cRunning /\ pulling = None /\ recvReader = None
  /\ hpc[h] = "none"
  /\ hpc' = [hpc EXCEPT ![h] = "sent"]
  /\ pulling' = h
  /\ UNCHANGED <<running, inTable, closer, writer, stopCh, sw, next, resp, refused, cRunning, recvReader, got, broken>>

(* The response begins, with its first message or its end.                 *)
PullOK ==
  /\ pulling # None /\ pulling \notin refused
  /\ resp[pulling] # <<>> \/ hpc[pulling] = "out"
  /\ recvReader' = pulling /\ pulling' = None
  /\ UNCHANGED <<servVars, resp, refused, cRunning, got, broken>>

(* Seeded fault: pull tries again.                                         *)
PullRefused_Retry ==
  /\ pulling \in refused
  /\ pulling' = None
  /\ UNCHANGED <<servVars, resp, refused, cRunning, recvReader, got, broken>>

(* 401: the client closes its end.                                         *)
PullRefused ==
  /\ pulling \in refused
  /\ pulling' = None /\ cRunning' = FALSE
  /\ UNCHANGED <<servVars, resp, refused, recvReader, got, broken>>

(* Read takes from the response until it ends.                             *)
Read ==
  /\ recvReader # None /\ resp[recvReader] # <<>>
  /\ got' = Append(got, Head(resp[recvReader]))
  /\ resp' = [resp EXCEPT ![recvReader] = Tail(@)]
  /\ UNCHANGED <<servVars, refused, cRunning, pulling, recvReader, broken>>

(* Seeded fault: the response is dropped as soon as it has ended.          *)
ReadEnd_Early ==
  /\ recvReader # None /\ hpc[recvReader] = "out"
  /\ recvReader' = None
  /\ UNCHANGED <<servVars, resp, refused, cRunning, pulling, got, broken>>

(* Read finds the end of the response, and pull may send the next request. *)
ReadEnd ==
  /\ recvReader # None /\ hpc[recvReader] = "out" /\ resp[recvReader] = <<>>
  /\ recvReader' = None
  /\ UNCHANGED <<servVars, resp, refused, cRunning, pulling, got, broken>>

(* A pull or its response breaks; pull and Read go on as after an orderly  *)
(* end, and what was in the response is lost.                              *)
Break(h) ==
  /\ h \in {pulling, recvReader} /\ broken < MaxBreak
  /\ broken' = broken + 1
  /\ pulling' = IF pulling = h THEN None ELSE pulling
  /\ recvReader' = IF recvReader = h THEN None ELSE recvReader
  /\ resp' = [resp EXCEPT ![h] = <<>>]
  /\ UNCHANGED <<servVars, refused, cRunning, got>>

(* A request that both sides are done with, or that never arrived.         *)
Gone(h) ==
  /\ hpc[h] \in {"out", "sent"} /\ h \notin {pulling, recvReader}
  /\ hpc' = [hpc EXCEPT ![h] = "none"]
  /\ resp' = [resp EXCEPT ![h] = <<>>]
  /\ refused' = refused \ {h}
  /\ UNCHANGED <<running, inTable, closer, writer, stopCh, sw, next, clientVars>>

(* The client's mux session closes its end.                                *)
Close ==
  /\ cRunning
  /\ cRunning' = FALSE
  /\ UNCHANGED <<servVars, resp, refused, pulling, recvReader, got, broken>>
-----------------------------------------------------------------------------
Serve(h) == HTTPInvoke(h) \/ SetWriter(h) \/ CheckRunning(h) \/ CloseWrite(h)

Next ==
  \/ WriteTest \/ WriteWait \/ Write \/ WriteFails
  \/ \E h \in Handler : \/ HTTPInvoke(h) \/ SetWriter(h) \/ CheckRunning(h)
                        \/ Timeout(h) \/ CloseWrite(h)
                        \/ Pull(h) \/ Break(h) \/ Gone(h)
  \/ CloseBegin \/ CloseNotify \/ CloseFlag \/ CloseRemove
  \/ PullOK \/ PullRefused \/ Read \/ ReadEnd \/ Close

(* Goroutines that can run do, pulls reach the server and are answered,    *)
(* and periods end.  Write looks for a writer every 10 seconds, while a    *)
(* pull stays for its period (30 seconds or more), so it does not miss     *)
(* every one of them: strong fairness.  Nothing makes an end close.        *)
Fairness ==
  /\ WF_vars(WriteTest) /\ WF_vars(WriteWait) /\ SF_vars(Write \/ WriteFails)
  /\ \A h \in Handler : /\ WF_vars(Serve(h)) /\ WF_vars(Timeout(h))
                        /\ WF_vars(Gone(h))
  /\ WF_vars(\E h \in Handler : Pull(h))
  /\ WF_vars(CloseNotify) /\ WF_vars(CloseFlag) /\ WF_vars(CloseRemove)
  /\ WF_vars(PullOK) /\ WF_vars(PullRefused) /\ WF_vars(Read) /\ WF_vars(ReadEnd)

Spec == Init /\ [][Next]_vars /\ Fairness
-----------------------------------------------------------------------------
(* Every variable has its type; pull waits for a response or Read reads    *)
(* one, never both.                                                        *)
TypeOK ==
  /\ running \in BOOLEAN /\ inTable \in BOOLEAN /\ cRunning \in BOOLEAN
  /\ closer \in {"no", "notify", "flag", "remove", "done"}
  /\ writer \in Handler \union {None} /\ stopCh \in Handler \union {None}
  /\ sw \in {"test", "lock", "eof"} /\ next \in 1 .. MaxMsg + 1
  /\ hpc \in [Handler -> {"none", "sent", "set", "check", "select", "timeout", "out"}]
  /\ resp \in [Handler -> Seq(1 .. MaxMsg)] /\ refused \subseteq Handler
  /\ pulling \in Handler \union {None} /\ recvReader \in Handler \union {None}
  /\ pulling = None \/ recvReader = None
  /\ got \in Seq(1 .. MaxMsg) /\ broken \in 0 .. MaxBreak

(* The pipe the two ends promise: Write puts a message in, Read takes it   *)
(* out, and a pull that breaks or a server that closes breaks it off.      *)
P == INSTANCE Pipe WITH sent <- next - 1, lossy <- broken > 0 \/ closer # "no"

(* The download half implements the pipe: Read gets the messages in order, *)
(* none twice and none missing, although the writer moves from pull to     *)
(* pull while Write, timeouts, late notifications and Close run.  After a  *)
(* break, or during Close, when Write may use a response that is over,     *)
(* messages may be missing but keep their order.                           *)
DownIsPipe == P!Spec

(* While nobody closes the connection, the response that Write would use   *)
(* belongs to a handler that has not returned: net/http forbids the use of *)
(* a ResponseWriter after that, and the data would be lost.                *)
WriterIsServed ==
  (writer # None /\ closer = "no") => hpc[writer] \in {"check", "select", "timeout"}

(* When the server has closed the connection, the client closes its end,   *)
(* though any of the notifications of Close may be lost.                   *)
Learned == ~running ~> ~cRunning

(* A message that Write has accepted is read in the end, unless a pull     *)
(* breaks or one end is closed.                                            *)
Delivered ==
  \A m \in 1 .. MaxMsg :
    next > m ~> \/ broken > 0 \/ closer # "no" \/ ~cRunning
                \/ \E i \in DOMAIN got : got[i] = m
=============================================================================
