---------------------------- MODULE LocalServers ----------------------------
(***************************************************************************)
(* The servers of the client over Start and Stop of the library            *)
(* (local/proxy.go, local_server.go): the accept loop of a proxy and the   *)
(* loop of its transparent UDP proxy (transparent_unix.go), which both run *)
(* while the flag proxyServerRunning is set.  What an accepted connection  *)
(* does is module LocalProxy.                                              *)
(*                                                                         *)
(* A UDP flow has a session with one mux stream.  A session is named by    *)
(* the datagram that made it, a stream by the datagram that opened it.     *)
(* Stop does not end the loops, so that after a second Start the loops of  *)
(* both may run, on one table of sessions.                                 *)
(***************************************************************************)
EXTENDS Integers, FiniteSets

CONSTANTS
  MaxStart,   \* bound: how often the servers are started
  MaxPacket,  \* bound: datagrams that arrive
  Flow,       \* source and destination of datagrams, the key of a session
  Nil

ASSUME ServersAssumption ==
  /\ MaxStart \in Nat \ {0} /\ MaxPacket \in Nat \ {0}
  /\ Nil \notin Nat /\ Nil \notin Flow

Starts  == 1 .. MaxStart
Packets == 1 .. MaxPacket

VARIABLES
  phase,    \* what the caller of Start and Stop did last; exited by Fatal
  running,  \* proxyServerRunning
  gen,      \* how often startLocalServers has run
  lis,      \* the TCP listener of each start
  loop,     \* its accept loop
  udp,      \* its UDP loop: where it is, its session, and the stream it opens
  arrived,  \* datagrams so far
  table,    \* tudpSessions
  flow,     \* the flow of each session
  stream,   \* t.stream
  status,   \* each stream: none, open, ended (by the other side), closed
  reader    \* the goroutine that reads it: where it is, and its session

tcpVars == <<phase, running, gen, lis, loop>>
udpVars == <<udp, arrived, table, flow, stream, status, reader>>
serversVars == <<tcpVars, udpVars>>

ServersInit ==
  /\ phase = "stopped" /\ running = TRUE /\ gen = 0
  /\ lis = [g \in Starts |-> "none"] /\ loop = [g \in Starts |-> "none"]
  /\ udp = [g \in Starts |-> [pc |-> "none", t |-> Nil, s |-> Nil]]
  /\ arrived = 0
  /\ table = [k \in Flow |-> Nil]
  /\ flow = [t \in Packets |-> Nil]
  /\ stream = [t \in Packets |-> Nil]
  /\ status = [s \in Packets |-> "none"]
  /\ reader = [s \in Packets |-> [pc |-> "none", t |-> Nil]]
-----------------------------------------------------------------------------
(* startLocalServers: the UDP loop is a goroutine; a TCP address that      *)
(* cannot be listened on is fatal for the process.                         *)
Start ==
  /\ phase = "stopped" /\ gen < MaxStart
  /\ running' = TRUE /\ gen' = gen + 1
  /\ \/ /\ phase' = "started"
        /\ lis' = [lis EXCEPT ![gen + 1] = "open"]
        /\ loop' = [loop EXCEPT ![gen + 1] = "test"]
        /\ udp' = [udp EXCEPT ![gen + 1].pc = "socket"]
     \/ phase' = "exited" /\ UNCHANGED <<lis, loop, udp>>
  /\ UNCHANGED <<arrived, table, flow, stream, status, reader>>

(* Seeded fault: the listeners are left to the accept loops.               *)
StopLeaveListeners ==
  /\ phase = "started" /\ phase' = "stopped"
  /\ running' = FALSE
  /\ status' = [s \in Packets |-> IF status[s] = "open" THEN "ended" ELSE status[s]]
  /\ UNCHANGED <<gen, lis, loop, udp, arrived, table, flow, stream, reader>>

(* Stop: the flag, the listeners, and the sessions of the channels with    *)
(* all their streams.  The UDP sockets and the table are left alone.       *)
Stop ==
  /\ phase = "started" /\ phase' = "stopped"
  /\ running' = FALSE
  /\ lis' = [lis EXCEPT ![gen] = "closed"]
  /\ status' = [s \in Packets |-> IF status[s] = "open" THEN "ended" ELSE status[s]]
  /\ UNCHANGED <<gen, loop, udp, arrived, table, flow, stream, reader>>

(* The accept loop: AcceptTCP returns a connection or, on a closed         *)
(* listener, an error, and either way the flag is tested next.             *)
AcceptTCP(g) ==
  /\ loop[g] = "accept"
  /\ loop' = [loop EXCEPT ![g] = "test"]
  /\ UNCHANGED <<phase, running, gen, lis, udpVars>>

TestRunning(g) ==
  /\ loop[g] = "test"
  /\ IF running THEN loop' = [loop EXCEPT ![g] = "accept"] /\ UNCHANGED lis
                ELSE /\ loop' = [loop EXCEPT ![g] = "end"]
                     /\ lis' = [lis EXCEPT ![g] = "closed"]
  /\ UNCHANGED <<phase, running, gen, udpVars>>
-----------------------------------------------------------------------------
(* The UDP loop *)

UdpGoto(g, l) == udp' = [udp EXCEPT ![g].pc = l]

(* The datagram is dealt with.                                             *)
UdpNext(g) == udp' = [udp EXCEPT ![g] = [pc |-> "test", t |-> Nil, s |-> Nil]]

(* The socket with its options and its address; one that fails is not      *)
(* closed.                                                                 *)
Bind(g) ==
  /\ udp[g].pc = "socket"
  /\ UdpGoto(g, "test") \/ UdpGoto(g, "end")
  /\ UNCHANGED <<tcpVars, arrived, table, flow, stream, status, reader>>

TestUdp(g) ==
  /\ udp[g].pc = "test"
  /\ UdpGoto(g, IF running THEN "recv" ELSE "end")
  /\ UNCHANGED <<tcpVars, arrived, table, flow, stream, status, reader>>

(* recvTransparentUDP fails, or the datagram has no original address.      *)
RecvFails(g) ==
  /\ udp[g].pc = "recv"
  /\ UdpGoto(g, "test")
  /\ UNCHANGED <<tcpVars, arrived, table, flow, stream, status, reader>>

(* A datagram of flow k, and getTUDPSession: the session of the table, or  *)
(* a new one stored there.                                                 *)
Recv(g, k) ==
  LET p == arrived + 1
      t == IF table[k] = Nil THEN p ELSE table[k]
  IN  /\ udp[g].pc = "recv" /\ p \in Packets
      /\ arrived' = p
      /\ table' = [table EXCEPT ![k] = t]
      /\ flow' = [flow EXCEPT ![t] = k]
      /\ udp' = [udp EXCEPT ![g] = [pc |-> "handle", t |-> t, s |-> p]]
      /\ UNCHANGED <<tcpVars, stream, status, reader>>

(* handle: a session with a stream is written to, which loses the datagram *)
(* without notice if the stream has ended; one without gets a stream,      *)
(* unless its address is multicast or no rule gives it a channel.          *)
Handle(g) ==
  LET t == udp[g].t
  IN  /\ udp[g].pc = "handle"
      /\ \/ stream[t] # Nil /\ UdpNext(g)
         \/ stream[t] = Nil /\ UdpGoto(g, "close")
         \/ stream[t] = Nil /\ UdpGoto(g, "open")
      /\ UNCHANGED <<tcpVars, arrived, table, flow, stream, status, reader>>

UdpMuxStream(g) ==
  /\ udp[g].pc = "open"
  /\ \/ UdpGoto(g, "close") /\ UNCHANGED status
     \/ UdpGoto(g, "connect") /\ status' = [status EXCEPT ![udp[g].s] = "open"]
  /\ UNCHANGED <<tcpVars, arrived, table, flow, stream, reader>>

(* When Connect fails the stream is not yet the session's, and t.close     *)
(* does not close it.                                                      *)
Connect(g) ==
  /\ udp[g].pc = "connect"
  /\ UdpGoto(g, "close") \/ (status[udp[g].s] = "open" /\ UdpGoto(g, "attach"))
  /\ UNCHANGED <<tcpVars, arrived, table, flow, stream, status, reader>>

(* The stream is the session's, and the datagram is written to it.         *)
Attach(g) ==
  LET t == udp[g].t
      s == udp[g].s
  IN  /\ udp[g].pc = "attach"
      /\ stream' = [stream EXCEPT ![t] = s]
      /\ reader' = [reader EXCEPT ![s] = [pc |-> "read", t |-> t]]
      /\ UdpNext(g)
      /\ UNCHANGED <<tcpVars, arrived, table, flow, status>>

(* Seeded fault: only the table is cleaned.                                *)
CloseStreamKept(t) == status

(* t.close: the stream that the session has by now, then the entry of the  *)
(* flow, whichever session it holds by now.                                *)
CloseStream(t) ==
  IF stream[t] = Nil THEN status ELSE [status EXCEPT ![stream[t]] = "closed"]

(* Seeded fault: the entry stays.                                          *)
DeleteKept(t) == table

Delete(t) == [table EXCEPT ![flow[t]] = Nil]

CloseSession(g) ==
  /\ udp[g].pc = "close"
  /\ status' = CloseStream(udp[g].t)
  /\ UdpGoto(g, "delete")
  /\ UNCHANGED <<tcpVars, arrived, table, flow, stream, reader>>

DeleteSession(g) ==
  /\ udp[g].pc = "delete"
  /\ table' = Delete(udp[g].t)
  /\ UdpNext(g)
  /\ UNCHANGED <<tcpVars, arrived, flow, stream, status, reader>>
-----------------------------------------------------------------------------
(* The reader of a stream *)

ReaderGoto(s, l) == reader' = [reader EXCEPT ![s].pc = l]

(* A reply that is written back changes nothing here.  Reading ends when   *)
(* the stream ended, the deadline passed, a reply cannot be written, or a  *)
(* name server has answered.                                               *)
ReadEnds(s) ==
  /\ reader[s].pc = "read"
  /\ ReaderGoto(s, "close")
  /\ UNCHANGED <<tcpVars, udp, arrived, table, flow, stream, status>>

ReaderCloses(s) ==
  /\ reader[s].pc = "close"
  /\ status' = CloseStream(reader[s].t)
  /\ ReaderGoto(s, "delete")
  /\ UNCHANGED <<tcpVars, udp, arrived, table, flow, stream>>

ReaderDeletes(s) ==
  /\ reader[s].pc = "delete"
  /\ table' = Delete(reader[s].t)
  /\ ReaderGoto(s, "done")
  /\ UNCHANGED <<tcpVars, udp, arrived, flow, stream, status>>

(* The server's side ends a stream.                                        *)
StreamEnds(s) ==
  /\ status[s] = "open"
  /\ status' = [status EXCEPT ![s] = "ended"]
  /\ UNCHANGED <<tcpVars, udp, arrived, table, flow, stream, reader>>
-----------------------------------------------------------------------------
Reader(s) == ReadEnds(s) \/ ReaderCloses(s) \/ ReaderDeletes(s)

AcceptLoop(g) == (lis[g] = "closed" /\ AcceptTCP(g)) \/ TestRunning(g)

UdpLoop(g) ==
  \/ Bind(g) \/ TestUdp(g) \/ Handle(g) \/ UdpMuxStream(g) \/ Connect(g)
  \/ Attach(g) \/ CloseSession(g) \/ DeleteSession(g)

ServersStep ==
  \/ Start \/ Stop
  \/ \E g \in Starts : \/ AcceptTCP(g) \/ TestRunning(g) \/ UdpLoop(g) \/ RecvFails(g)
                       \/ \E k \in Flow : Recv(g, k)
  \/ \E s \in Packets : Reader(s) \/ StreamEnds(s)

Alive == phase # "exited"

ServersNext == Alive /\ ServersStep

(* Goroutines that can run do; AcceptTCP returns from a closed listener;   *)
(* the deadline that is set before each read passes.  Nothing makes a      *)
(* connection or a datagram come, nor anybody call Start and Stop.         *)
ServersFairness ==
  /\ \A g \in Starts : /\ WF_serversVars(Alive /\ AcceptLoop(g))
                       /\ WF_serversVars(Alive /\ UdpLoop(g))
  /\ \A s \in Packets : WF_serversVars(Alive /\ Reader(s))

ServersSpec == ServersInit /\ [][ServersNext]_serversVars /\ ServersFairness
-----------------------------------------------------------------------------
(* An accept loop whose listener Stop has closed ends, unless a new Start  *)
(* sets the flag again before the loop has tested it, or the process ends. *)
AcceptLoopEnds ==
  phase = "stopped" ~> (gen = 0 \/ loop[gen] = "end" \/ running)

(* The session of flow k has a stream that is not open any more.           *)
Stuck(k) ==
  LET t == table[k]
  IN  t # Nil /\ stream[t] # Nil /\ status[stream[t]] # "open"

(* A flow whose session has lost its stream is not stuck with it: the      *)
(* entry is deleted, and the next datagram opens a new stream, whoever     *)
(* closed the stream and however the loops of two Starts overlap.          *)
FlowRecovers == \A k \in Flow : Stuck(k) ~> (~Stuck(k) \/ ~Alive)

(* A stream whose reader is done is closed.  Only when the loops of two    *)
(* Starts have both opened a stream for one session, of which it keeps the *)
(* later one, the other stays open.                                        *)
ReaderLeavesNothing ==
  \A s \in Packets : reader[s].pc = "done" =>
    status[s] = "closed" \/ (gen > 1 /\ stream[reader[s].t] # s)
=============================================================================
