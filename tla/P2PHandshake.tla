---------------------------- MODULE P2PHandshake ----------------------------
(***************************************************************************)
(* Two clients that meet in a room of the server (module P2PRoom) and try  *)
(* to reach each other directly: startP2PSession of                        *)
(* common/channel/local_p2p.go, its dialling goroutines, the acceptor of   *)
(* its listener or of the UPnP port, and the sessions that come of it      *)
(* (setP2PSession of common/channel/mux.go).                               *)
(*                                                                         *)
(* Each session with the server has a public address, a number; the order  *)
(* of the numbers is that of strings.Compare.  Ip tells which addresses    *)
(* are ports of one host: two clients behind one NAT share it.  The        *)
(* private address of a session changes with the public one.               *)
(***************************************************************************)
EXTENDS Integers, FiniteSets

CONSTANTS
  Peer,       \* the two clients
  Dialers,    \* the goroutines of one round: one per address of the peer
  Addrs(_, _),\* the public address of a client's n-th session
  Ip(_),      \* its host
  Expose,     \* the clients with UPNPExposePort > 0
  ReusePort,  \* the clients that may listen on the port of their session
  MaxSession, \* bound: sessions each client opens with the server
  MaxRetry,   \* maxRetry, 10 in the code
  MaxTrouble  \* bound: times the network fails

ASSUME HandshakeAssumption ==
  /\ IsFiniteSet(Peer) /\ Cardinality(Peer) = 2
  /\ Expose \subseteq Peer /\ ReusePort \subseteq Peer
  /\ MaxSession \in [Peer -> Nat] /\ MaxRetry \in Nat \ {0} /\ MaxTrouble \in Nat

(* The server sees the first sessions of the two clients come from two     *)
(* addresses, and 0 is none.                                               *)
ASSUME AddrsAssumption ==
  \A p \in Peer : /\ Addrs(p, 1) \in Nat \ {0}
                  /\ \A q \in Peer \ {p} : Addrs(p, 1) # Addrs(q, 1)

VARIABLES
  pc,       \* where startP2PSession is
  sess,     \* the number of sessions so far
  peer,     \* peerPubAddr, 0 when unknown
  role,     \* p2pOpt.role
  failed,   \* lastFailPubPeerIP, 0 when none
  known,    \* the clients with a context in p2pHandshakeCtxTable
  upnp,     \* the clients with a mapped UPnP port
  lis,      \* the clients that listen for this round
  acc,      \* the connection an acceptor handles
  tries,    \* attempts of each dialler in this round
  on,       \* what each dialler does: Idle, Dial, or its connection
  room,     \* the addresses the server hands out, 0 when none
  late,     \* sessions whose end the server has not noticed yet
  e,        \* the two ends of each connection
  asked,    \* connections on which an AuthRequest was written
  answered, \* connections on which it was answered
  cut,      \* connections the network does not carry any more
  trouble   \* how often the network failed

roundVars == <<sess, peer, role, failed, known, upnp, lis>>
roomVars  == <<room, late>>
netVars   == <<cut, trouble>>
authVars  == <<asked, answered>>
vars == <<pc, roundVars, acc, tries, on, roomVars, e, authVars, netVars>>

Other(p) == CHOOSE q \in Peer : q # p

None == <<>>
Idle == <<>>
Dial == <<"dial">>
Conns == UNION {{p} \X Dialers \X (1 .. MaxSession[p] * MaxRetry) : p \in Peer}

Pub(p) == IF p \in upnp THEN Addrs(p, 1) ELSE Addrs(p, sess[p])

(* isP2PSessionEstablisehd                                                 *)
Established(p) == \E c \in Conns : e[c][p] = "up"

Init ==
  /\ pc = [p \in Peer |-> "start"]
  /\ sess = [p \in Peer |-> 0] /\ peer = [p \in Peer |-> 0]
  /\ role = [p \in Peer |-> "unknown"] /\ failed = [p \in Peer |-> 0]
  /\ known = {} /\ upnp = {} /\ lis = {} /\ acc = [p \in Peer |-> None]
  /\ tries = [p \in Peer |-> [k \in Dialers |-> 0]]
  /\ on = [p \in Peer |-> [k \in Dialers |-> Idle]]
  /\ room = [p \in Peer |-> 0] /\ late = [p \in Peer |-> 0]
  /\ e = [c \in Conns |-> [p \in Peer |-> "none"]]
  /\ asked = {} /\ answered = {} /\ cut = {} /\ trouble = 0

End(c, p, s) == e' = [e EXCEPT ![c][p] = s]
-----------------------------------------------------------------------------
(* startUPNPServer: the port of the gateway, which may not be there, is    *)
(* mapped to a listener that stays.                                        *)
StartUPNPServer(p) ==
  /\ pc[p] = "start"
  /\ pc' = [pc EXCEPT ![p] = "idle"]
  /\ upnp' \in IF p \in Expose THEN {upnp, upnp \union {p}} ELSE {upnp}
  /\ UNCHANGED <<sess, peer, role, failed, known, lis, acc, tries, on, roomVars, e, authVars,
                 netVars>>

(* No direct session: a session with the server, whose local address the   *)
(* listener and the diallers will use.                                     *)
CreateSession(p) ==
  /\ pc[p] = "idle" /\ ~Established(p) /\ sess[p] < MaxSession[p]
  /\ pc' = [pc EXCEPT ![p] = "exchange"]
  /\ sess' = [sess EXCEPT ![p] = @ + 1]
  /\ peer' = [peer EXCEPT ![p] = 0]
  /\ UNCHANGED <<role, failed, known, upnp, lis, acc, tries, on, roomVars, e, authVars, netVars>>

(* session.Close: the server notices later.                                *)
CloseSession(p) == late' = [late EXCEPT ![p] = @ + 1]

(* Seeded fault: only the hosts are compared.                              *)
RoleByIp(p, a) == IF Ip(Pub(p)) < Ip(a) THEN "client" ELSE "server"

RoleFor(p, a) == IF Pub(p) < a THEN "client" ELSE "server"

(* The addresses are exchanged until the server knows a peer that did not  *)
(* fail before.  Then the roles are taken from the two addresses, the      *)
(* round's listener is opened and its diallers start.                      *)
Exchange(p) ==
  LET a == room[Other(p)] IN
  /\ pc[p] = "exchange"
  /\ room' = [room EXCEPT ![p] = Pub(p)]
  /\ IF a = 0 \/ Ip(a) = failed[p]
       THEN UNCHANGED <<pc, peer, role, known, lis, acc, tries, on>>
       ELSE /\ pc' = [pc EXCEPT ![p] = "try"]
            /\ peer' = [peer EXCEPT ![p] = a]
            /\ role' = [role EXCEPT ![p] = RoleFor(p, a)]
            /\ known' = known \union {p}
            /\ IF p \in ReusePort \ upnp
                 THEN lis' = lis \union {p} /\ acc' = [acc EXCEPT ![p] = None]
                 ELSE UNCHANGED <<lis, acc>>
            /\ tries' = [tries EXCEPT ![p] = [k \in Dialers |-> 0]]
            /\ on' = [on EXCEPT ![p] = [k \in Dialers |-> Dial]]
  /\ UNCHANGED <<sess, failed, upnp, late, e, authVars, netVars>>

ExchangeFails(p) ==
  /\ pc[p] = "exchange"
  /\ pc' = [pc EXCEPT ![p] = "idle"]
  /\ CloseSession(p)
  /\ UNCHANGED <<roundVars, acc, tries, on, room, e, authVars, netVars>>

(* The listener cannot be opened: the round ends, the role stays.          *)
ListenFails(p) ==
  LET a == room[Other(p)] IN
  /\ pc[p] = "exchange" /\ p \in ReusePort \ upnp /\ a # 0 /\ Ip(a) # failed[p]
  /\ pc' = [pc EXCEPT ![p] = "idle"]
  /\ role' = [role EXCEPT ![p] = RoleFor(p, a)]
  /\ known' = known \union {p}
  /\ room' = [room EXCEPT ![p] = Pub(p)]
  /\ CloseSession(p)
  /\ UNCHANGED <<sess, peer, failed, upnp, lis, acc, tries, on, e, authVars, netVars>>

(* removeP2PSession of the server: by client, so that the address of a     *)
(* newer session goes with that of the older one.                          *)
RoomForgets(p) ==
  /\ late[p] > 0
  /\ late' = [late EXCEPT ![p] = @ - 1]
  /\ room' = [room EXCEPT ![p] = 0]
  /\ UNCHANGED <<pc, roundVars, acc, tries, on, e, authVars, netVars>>
-----------------------------------------------------------------------------
(* connFunc: another attempt unless there is a session already.            *)
MayDial(p, k) == on[p][k] = Dial /\ tries[p][k] < MaxRetry /\ ~Established(p)

Fresh(p, k) == <<p, k, (sess[p] - 1) * MaxRetry + tries[p][k] + 1>>

Tried(p, k) == [tries EXCEPT ![p][k] = @ + 1]

DialFails(p, k) ==
  /\ MayDial(p, k)
  /\ tries' = Tried(p, k)
  /\ UNCHANGED <<pc, roundVars, acc, on, roomVars, e, authVars, netVars>>

(* The peer listens at the address: the connection waits in its backlog.   *)
DialOK(p, k) ==
  LET q == Other(p)  c == Fresh(p, k) IN
  /\ MayDial(p, k) /\ peer[p] = Pub(q) /\ q \in lis \union upnp
  /\ tries' = Tried(p, k)
  /\ on' = [on EXCEPT ![p][k] = c]
  /\ e' = [e EXCEPT ![c] = [i \in Peer |-> IF i = p THEN "wait" ELSE "backlog"]]
  /\ UNCHANGED <<pc, roundVars, acc, roomVars, authVars, netVars>>

(* Both dial from the ports they listen on: one connection opens from both *)
(* sides, and both diallers have it.                                       *)
DialBoth(p, k, l) ==
  LET q == Other(p)  c == Fresh(p, k) IN
  /\ MayDial(p, k) /\ MayDial(q, l) /\ peer[p] = Pub(q) /\ peer[q] = Pub(p)
  /\ Peer \subseteq ReusePort \ upnp
  /\ tries' = [tries EXCEPT ![p][k] = @ + 1, ![q][l] = @ + 1]
  /\ on' = [on EXCEPT ![p][k] = c, ![q][l] = c]
  /\ e' = [e EXCEPT ![c] = [i \in Peer |-> "wait"]]
  /\ UNCHANGED <<pc, roundVars, acc, roomVars, authVars, netVars>>

(* The attempt is over, with a session or without; or there is no other.   *)
DialReturns(p, k) ==
  /\ \/ /\ on[p][k] = Dial /\ ~MayDial(p, k)
        /\ on' = [on EXCEPT ![p][k] = Idle]
     \/ /\ on[p][k] \in Conns
        /\ e[on[p][k]][p] \in {"up", "dropped", "closed"}
        /\ on' = [on EXCEPT ![p][k] = IF e[on[p][k]][p] = "closed" THEN Dial ELSE Idle]
  /\ UNCHANGED <<pc, roundVars, acc, tries, roomVars, e, authVars, netVars>>

(* Both diallers have signalled: the listener goes, with its backlog, the  *)
(* role is unknown again and the session with the server is closed ...     *)
RoundEnd(p) ==
  /\ pc[p] = "try" /\ \A k \in Dialers : on[p][k] = Idle
  /\ pc' = [pc EXCEPT ![p] = "rest"]
  /\ lis' = lis \ {p}
  /\ e' = [c \in Conns |-> [i \in Peer |->
             IF i = p /\ p \in lis /\ e[c][i] = "backlog" THEN "closed" ELSE e[c][i]]]
  /\ role' = [role EXCEPT ![p] = "unknown"]
  /\ CloseSession(p)
  /\ UNCHANGED <<sess, peer, failed, known, upnp, acc, tries, on, room, authVars, netVars>>

(* ... and after 30 seconds a peer that was not reached is remembered.     *)
Rest(p) ==
  /\ pc[p] = "rest"
  /\ pc' = [pc EXCEPT ![p] = "idle"]
  /\ failed' = IF Established(p) THEN failed ELSE [failed EXCEPT ![p] = Ip(peer[p])]
  /\ UNCHANGED <<sess, peer, role, known, upnp, lis, acc, tries, on, roomVars, e, authVars, netVars>>
-----------------------------------------------------------------------------
(* servTCP accepts a connection when it is done with the one before; that  *)
(* of the UPnP port looks for a context by the other side's host first.    *)
Accept(c, p) ==
  /\ e[c][p] = "backlog"
  /\ acc[p] # None => e[acc[p]][p] \in {"up", "dropped", "closed"}
  /\ acc' = [acc EXCEPT ![p] = c]
  /\ End(c, p, IF p \in upnp THEN "lookup" ELSE "wait")
  /\ UNCHANGED <<pc, roundVars, tries, on, roomVars, authVars, netVars>>

Lookup(c, p) ==
  /\ e[c][p] = "lookup"
  /\ End(c, p, IF p \in known THEN "wait" ELSE "closed")
  /\ UNCHANGED <<pc, roundVars, acc, tries, on, roomVars, authVars, netVars>>

(* handleP2PConn waits for a role, then is the client of the connection,   *)
(* which asks at once, or its server.                                      *)
TakeRole(c, p) ==
  /\ e[c][p] = "wait" /\ role[p] # "unknown"
  /\ End(c, p, role[p])
  /\ asked' = IF role[p] = "client" THEN asked \union {c} ELSE asked
  /\ UNCHANGED <<pc, roundVars, acc, tries, on, roomVars, answered, netVars>>

(* serverAuthSession: accepted and answered, or refused and closed.        *)
ServerAuth(c, p) ==
  /\ e[c][p] = "server" /\ c \in asked \ cut
  /\ \/ End(c, p, "up") /\ answered' = answered \union {c}
     \/ End(c, p, "closed") /\ UNCHANGED answered
  /\ UNCHANGED <<pc, roundVars, acc, tries, on, roomVars, asked, netVars>>

(* The answer is read; the client then waits, without a deadline, for the  *)
(* end of the stream that carried it ...                                   *)
ClientAuth(c, p) ==
  /\ e[c][p] = "client" /\ c \in answered \ cut
  /\ End(c, p, "closing")
  /\ UNCHANGED <<pc, roundVars, acc, tries, on, roomVars, authVars, netVars>>

(* ... which follows the answer.                                           *)
AuthStreamEnds(c, p) ==
  /\ e[c][p] = "closing" /\ c \notin cut
  /\ End(c, p, "up")
  /\ UNCHANGED <<pc, roundVars, acc, tries, on, roomVars, authVars, netVars>>

(* Seeded fault: the client waits without a deadline.                      *)
ClientNoDeadline(c, p) == FALSE /\ UNCHANGED vars

(* The deadline of the answer, which may be on its way, and p2pConn.Close. *)
ClientTimeout(c, p) ==
  /\ e[c][p] = "client"
  /\ End(c, p, "closed")
  /\ UNCHANGED <<pc, roundVars, acc, tries, on, roomVars, authVars, netVars>>

(* AcceptStream fails when the other side has closed the connection.       *)
ServerSeesEnd(c, p) ==
  /\ e[c][p] = "server" /\ e[c][Other(p)] = "closed" /\ c \notin cut
  /\ End(c, p, "closed")
  /\ UNCHANGED <<pc, roundVars, acc, tries, on, roomVars, authVars, netVars>>

(* Seeded fault: only a broken network counts as a failed ping.            *)
PingFailsCut(c, p) ==
  /\ e[c][p] = "up" /\ c \in cut
  /\ End(c, p, "dropped")
  /\ UNCHANGED <<pc, roundVars, acc, tries, on, roomVars, authVars, netVars>>

(* setP2PSession: three pings fail; the session is forgotten, not closed.  *)
PingFails(c, p) ==
  /\ e[c][p] = "up" /\ (c \in cut \/ e[c][Other(p)] = "closed")
  /\ End(c, p, "dropped")
  /\ UNCHANGED <<pc, roundVars, acc, tries, on, roomVars, authVars, netVars>>

(* The network stops carrying a connection, which neither end is told.     *)
NetBreaks(c) ==
  /\ trouble < MaxTrouble /\ c \notin cut
  /\ \A p \in Peer : e[c][p] \notin {"none", "backlog", "dropped", "closed"}
  /\ cut' = cut \union {c} /\ trouble' = trouble + 1
  /\ UNCHANGED <<pc, roundVars, acc, tries, on, roomVars, e, authVars>>

Round(p) ==
  \/ StartUPNPServer(p) \/ CreateSession(p) \/ Exchange(p) \/ RoundEnd(p) \/ Rest(p)

Dialler(p, k) ==
  DialFails(p, k) \/ DialOK(p, k) \/ DialReturns(p, k) \/ \E l \in Dialers : DialBoth(p, k, l)

Handle(c, p) ==
  \/ Accept(c, p) \/ Lookup(c, p) \/ TakeRole(c, p) \/ ServerAuth(c, p) \/ ClientAuth(c, p)
  \/ AuthStreamEnds(c, p) \/ ClientTimeout(c, p) \/ ServerSeesEnd(c, p) \/ PingFails(c, p)

Next ==
  \/ \E p \in Peer :
       \/ Round(p) \/ ExchangeFails(p) \/ ListenFails(p) \/ RoomForgets(p)
       \/ \E k \in Dialers : Dialler(p, k)
       \/ \E c \in Conns : Handle(c, p)
  \/ \E c \in Conns : NetBreaks(c)

(* Every goroutine that can take a step does, and every deadline passes.   *)
(* The server need not be rid of old sessions.                             *)
Spec ==
  /\ Init /\ [][Next]_vars
  /\ \A p \in Peer :
       /\ WF_vars(Round(p))
       /\ \A k \in Dialers : WF_vars(Dialler(p, k))
       /\ \A c \in Conns : WF_vars(Handle(c, p))
-----------------------------------------------------------------------------

(* While neither client has had to open a second session, the roles that   *)
(* both derive from the two addresses differ on every connection: they     *)
(* never wait for each other's request, nor do both ask.  (After a second  *)
(* session one may still use the other's former address.)                  *)
FirstRolesDiffer ==
  (\A p \in Peer : sess[p] <= 1) =>
    \A c \in Conns : \A s \in {"client", "server"} : \E p \in Peer : e[c][p] # s

(* A round that does not end has a dialler in one of two reads without a   *)
(* deadline: as the server of its connection it waits for a stream         *)
(* (AcceptStream), as the client, authenticated, for the end of the        *)
(* authentication stream.  Nothing else in a round waits forever, whatever *)
(* the network, the peer's acceptor and the order of the two rounds do.    *)
HangsOnlyInRead ==
  \A p \in Peer :
    <>[](pc[p] = "try")
      => <>[](\E k \in Dialers : on[p][k] \in Conns
                                 /\ e[on[p][k]][p] \in {"server", "closing"})

(* One end has the session and the other gave up.                          *)
Half(c) == \E p \in Peer : e[c][p] = "up" /\ e[c][Other(p)] = "closed"

(* A session whose other end gave up is not kept: the pings find out, and  *)
(* a new round can start.                                                  *)
HalfSessionGoes == \A c \in Conns : Half(c) ~> ~Half(c)
=============================================================================
