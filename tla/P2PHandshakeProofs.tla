------------------------- MODULE P2PHandshakeProofs -------------------------
(***************************************************************************)
(* Proofs about P2PHandshake: for all public addresses, numbers of         *)
(* diallers, attempts and network failures, and with or without UPnP and   *)
(* reusable ports, the two clients take different roles while each is in   *)
(* its first session with the server.                                      *)
(*                                                                         *)
(* Each client derives its role alone, from what the server handed out,    *)
(* which may be missing or late, and drops and derives it again with every *)
(* round.  The argument is that all those derivations give one result, the *)
(* FirstRole of the client, so that whatever connection takes whichever    *)
(* derivation's role, its two ends differ.                                 *)
(***************************************************************************)
EXTENDS P2PHandshake, FiniteSetTheorems, TLAPS

Labels == {"start", "idle", "exchange", "try", "rest"}

Ends == {"none", "backlog", "lookup", "wait", "client", "server", "closing", "up", "dropped",
         "closed"}

(* The types of the variables that roles come from.                        *)
Types ==
  /\ pc \in [Peer -> Labels] /\ sess \in [Peer -> Nat]
  /\ role \in [Peer -> {"unknown", "client", "server"}]
  /\ room = [p \in Peer |-> room[p]]
  /\ upnp \subseteq Peer /\ known \subseteq Peer /\ lis \subseteq Peer
  /\ e \in [Conns -> [Peer -> Ends]]

FirstRole(p) == IF Addrs(p, 1) < Addrs(Other(p), 1) THEN "client" ELSE "server"

(* Whoever exchanges addresses has a session.                              *)
InSession == \A p \in Peer : pc[p] = "exchange" => sess[p] >= 1

OnlyFirst == \A p \in Peer : sess[p] <= 1

(* In the first sessions the server hands out first addresses only, and    *)
(* every role ever taken comes from them.                                  *)
FirstAddrs == OnlyFirst => \A p \in Peer : room[p] \in {0, Addrs(p, 1)}

FirstRoles == OnlyFirst => \A p \in Peer : role[p] \in {"unknown", FirstRole(p)}

FirstEnds ==
  OnlyFirst => \A p \in Peer : \A c \in Conns :
                 e[c][p] \in {"client", "server"} => e[c][p] = FirstRole(p)

(* The inductive invariant.                                                *)
IInv == Types /\ InSession /\ FirstAddrs /\ FirstRoles /\ FirstEnds
-----------------------------------------------------------------------------
(* There are two clients, each the other one of the other.                 *)
LEMMA OtherPeer ==
  ASSUME NEW p \in Peer
  PROVE  Other(p) \in Peer /\ Other(p) # p /\ Other(Other(p)) = p
<1>1. IsFiniteSet(Peer) /\ Cardinality(Peer) = 2
  BY HandshakeAssumption
<1>2. IsFiniteSet(Peer \ {p}) /\ Cardinality(Peer \ {p}) = 1
  BY <1>1, FS_RemoveElement
<1>3. PICK q : Peer \ {p} = {q}
  BY <1>2, FS_Singleton
<1>4. Peer = {p, q} /\ p # q
  BY <1>3
<1>5. Other(p) = q /\ Other(q) = p
  BY <1>4 DEF Other
<1> QED
  BY <1>4, <1>5

(* The roles from the first addresses differ.                              *)
LEMMA RolesDiffer ==
  ASSUME NEW p \in Peer
  PROVE  FirstRole(p) \in {"client", "server"} /\ FirstRole(p) # FirstRole(Other(p))
<1>1. Other(p) \in Peer /\ Other(p) # p /\ Other(Other(p)) = p
  BY OtherPeer
<1>2. Addrs(p, 1) \in Nat /\ Addrs(Other(p), 1) \in Nat /\ Addrs(p, 1) # Addrs(Other(p), 1)
  BY <1>1, AddrsAssumption
<1>3. Addrs(p, 1) < Addrs(Other(p), 1) <=> ~(Addrs(Other(p), 1) < Addrs(p, 1))
  BY <1>2
<1> QED
  BY <1>1, <1>3 DEF FirstRole

(* While a client exchanges addresses in its first session, it publishes   *)
(* its first address and takes its first role, if any.                     *)
LEMMA FirstRoleTaken ==
  ASSUME IInv, OnlyFirst, NEW p \in Peer, pc[p] = "exchange"
  PROVE  /\ Pub(p) = Addrs(p, 1)
         /\ room[Other(p)] # 0 => RoleFor(p, room[Other(p)]) = FirstRole(p)
<1>1. sess[p] = 1
  BY DEF IInv, Types, InSession, OnlyFirst
<1>2. Pub(p) = Addrs(p, 1)
  BY <1>1 DEF Pub
<1>3. room[Other(p)] \in {0, Addrs(Other(p), 1)}
  BY OtherPeer DEF IInv, FirstAddrs
<1> QED
  BY <1>2, <1>3 DEF RoleFor, FirstRole

(* RoleFor gives a role.                                                   *)
LEMMA RoleType ==
  ASSUME NEW p, NEW a
  PROVE  RoleFor(p, a) \in {"unknown", "client", "server"}
  BY DEF RoleFor

(* Steps of the ends of connections: an end that becomes client or server  *)
(* takes the role that its client has.                                     *)
LEMMA EndStep ==
  ASSUME IInv, NEW c \in Conns, NEW p \in Peer, NEW s \in Ends, End(c, p, s),
         UNCHANGED <<pc, roundVars, room>>,
         s \in {"client", "server"} => s = role[p]
  PROVE  IInv'
<1>1. Types /\ InSession /\ FirstAddrs /\ FirstRoles /\ FirstEnds
  BY DEF IInv
<1>2. UNCHANGED <<pc, sess, role, upnp, known, lis, room>>
  BY DEF roundVars
<1>3. e' = [e EXCEPT ![c] = [e[c] EXCEPT ![p] = s]] /\ e[c] \in [Peer -> Ends]
  BY <1>1 DEF End, Types
<1>4. \A d \in Conns : \A q \in Peer : e'[d][q] = IF d = c /\ q = p THEN s ELSE e[d][q]
  BY <1>1, <1>3 DEF Types
<1>5. e' \in [Conns -> [Peer -> Ends]]
  BY <1>1, <1>3 DEF Types
<1>6. Types'
  BY <1>1, <1>2, <1>5 DEF Types
<1>7. InSession' /\ FirstAddrs' /\ FirstRoles'
  BY <1>1, <1>2 DEF InSession, FirstAddrs, FirstRoles, OnlyFirst
<1>8. FirstEnds'
  <2> SUFFICES ASSUME OnlyFirst', NEW q \in Peer, NEW d \in Conns,
                      e'[d][q] \in {"client", "server"}
               PROVE  e'[d][q] = FirstRole(q)
    BY DEF FirstEnds
  <2>1. OnlyFirst
    BY <1>2 DEF OnlyFirst
  <2>2. CASE d = c /\ q = p
    <3>1. e'[d][q] = s /\ s \in {"client", "server"} /\ s = role[p]
      BY <1>4, <2>2
    <3>2. role[p] \in {"unknown", FirstRole(p)}
      BY <1>1, <2>1 DEF FirstRoles
    <3> QED
      BY <2>2, <3>1, <3>2
  <2>3. CASE ~(d = c /\ q = p)
    BY <1>1, <1>4, <2>1, <2>3 DEF FirstEnds
  <2> QED
    BY <2>2, <2>3
<1> QED
  BY <1>6, <1>7, <1>8 DEF IInv

(* Steps that open connections or close them, which give no roles.         *)
LEMMA ConnStep ==
  ASSUME IInv, UNCHANGED <<pc, sess, role, upnp, known, lis, room>>,
         e' \in [Conns -> [Peer -> Ends]],
         \A c \in Conns : \A p \in Peer : e'[c][p] \in {"client", "server"} => e'[c][p] = e[c][p]
  PROVE  IInv'
<1>1. Types /\ InSession /\ FirstAddrs /\ FirstRoles /\ FirstEnds
  BY DEF IInv
<1>2. Types' /\ InSession' /\ FirstAddrs' /\ FirstRoles'
  BY <1>1 DEF Types, InSession, FirstAddrs, FirstRoles, OnlyFirst
<1>3. FirstEnds'
  BY <1>1 DEF FirstEnds, OnlyFirst
<1> QED
  BY <1>2, <1>3 DEF IInv
(* Steps of the ends of a connection keep the invariant.                   *)
LEMMA HandleStep ==
  ASSUME IInv, NEW c \in Conns, NEW p \in Peer, Handle(c, p)
  PROVE  IInv'
<1>1. role[p] \in {"unknown", "client", "server"}
  BY DEF IInv, Types
<1>2. PICK s \in Ends : End(c, p, s) /\ (s \in {"client", "server"} => s = role[p])
  BY <1>1 DEF Handle, Accept, Lookup, TakeRole, ServerAuth, ClientAuth, AuthStreamEnds,
     ClientTimeout, ServerSeesEnd, PingFails, Ends
<1>3. UNCHANGED <<pc, roundVars, room>>
  BY DEF Handle, Accept, Lookup, TakeRole, ServerAuth, ClientAuth, AuthStreamEnds,
     ClientTimeout, ServerSeesEnd, PingFails, roomVars
<1> QED
  BY <1>2, <1>3, EndStep

(* Steps of the diallers keep the invariant: new connections have no roles *)
(* yet.                                                                    *)
LEMMA DiallerStep ==
  ASSUME IInv, NEW p \in Peer, NEW k \in Dialers, Dialler(p, k)
  PROVE  IInv'
<1>1. Types
  BY DEF IInv
<1>2. UNCHANGED <<pc, sess, role, upnp, known, lis, room>>
  BY DEF Dialler, DialFails, DialOK, DialReturns, DialBoth, roundVars, roomVars
<1>3. CASE UNCHANGED e
  BY <1>1, <1>2, <1>3, ConnStep DEF Types
<1>4. ASSUME NEW b \in [Peer -> {"wait", "backlog"}], NEW c, e' = [e EXCEPT ![c] = b]
      PROVE  IInv'
  <2>1. \A d \in Conns : e'[d] = IF d = c THEN b ELSE e[d]
    BY <1>1, <1>4 DEF Types
  <2>2. b \in [Peer -> Ends]
    BY DEF Ends
  <2>3. e' \in [Conns -> [Peer -> Ends]]
    BY <1>1, <1>4, <2>2 DEF Types
  <2>4. \A d \in Conns : \A q \in Peer : e'[d][q] \in {"client", "server"} => e'[d][q] = e[d][q]
    BY <2>1
  <2> QED
    BY <1>2, <2>3, <2>4, ConnStep
<1>5. CASE DialOK(p, k)
  <2>1. [i \in Peer |-> IF i = p THEN "wait" ELSE "backlog"] \in [Peer -> {"wait", "backlog"}]
    OBVIOUS
  <2>2. e' = [e EXCEPT ![Fresh(p, k)] = [i \in Peer |-> IF i = p THEN "wait" ELSE "backlog"]]
    BY <1>5 DEF DialOK
  <2> QED
    BY <1>4, <2>1, <2>2
<1>6. ASSUME NEW l \in Dialers, DialBoth(p, k, l) PROVE IInv'
  <2>1. [i \in Peer |-> "wait"] \in [Peer -> {"wait", "backlog"}]
    OBVIOUS
  <2>2. e' = [e EXCEPT ![Fresh(p, k)] = [i \in Peer |-> "wait"]]
    BY <1>6 DEF DialBoth
  <2> QED
    BY <1>4, <2>1, <2>2
<1>7. CASE DialFails(p, k) \/ DialReturns(p, k)
  <2>1. UNCHANGED e
    BY <1>7 DEF DialFails, DialReturns
  <2> QED
    BY <1>3, <2>1
<1> QED
  BY <1>5, <1>6, <1>7 DEF Dialler

(* Steps of startP2PSession that leave the connections alone: a role that  *)
(* is taken is the first role, an address that is published the first one, *)
(* as long as no second session begins.                                    *)
LEMMA SessionStep ==
  ASSUME IInv, NEW p \in Peer, UNCHANGED e,
         NEW l \in Labels, pc' = [pc EXCEPT ![p] = l],
         NEW n \in Nat, sess' = [sess EXCEPT ![p] = n], n >= sess[p],
         l = "exchange" => n >= 1,
         NEW r \in {"unknown", "client", "server"}, role' = [role EXCEPT ![p] = r],
         NEW a, room' = [room EXCEPT ![p] = a],
         upnp' \subseteq Peer, known' \subseteq Peer, lis' \subseteq Peer,
         OnlyFirst => a \in {0, Addrs(p, 1)} /\ r \in {"unknown", FirstRole(p)}
  PROVE  IInv'
<1>1. Types /\ InSession /\ FirstAddrs /\ FirstRoles /\ FirstEnds
  BY DEF IInv
<1>2. /\ \A q \in Peer : pc'[q] = IF q = p THEN l ELSE pc[q]
      /\ \A q \in Peer : sess'[q] = IF q = p THEN n ELSE sess[q]
      /\ \A q \in Peer : role'[q] = IF q = p THEN r ELSE role[q]
      /\ \A q \in Peer : room'[q] = IF q = p THEN a ELSE room[q]
  BY <1>1 DEF Types
<1>3. Types'
  BY <1>1 DEF Types
<1>4. InSession'
  BY <1>1, <1>2 DEF InSession
<1>5. OnlyFirst' => OnlyFirst
  <2>1. \A q \in Peer : sess'[q] \in Nat /\ sess[q] \in Nat /\ sess[q] <= sess'[q]
    BY <1>1, <1>2 DEF Types
  <2> QED
    BY <2>1 DEF OnlyFirst
<1>6. FirstAddrs' /\ FirstRoles'
  BY <1>1, <1>2, <1>5 DEF FirstAddrs, FirstRoles
<1>7. FirstEnds'
  BY <1>1, <1>5 DEF FirstEnds
<1> QED
  BY <1>3, <1>4, <1>6, <1>7 DEF IInv
(* What p has by now may be written again.                                 *)
LEMMA Same ==
  ASSUME IInv, NEW p \in Peer
  PROVE  /\ pc[p] \in Labels /\ pc = [pc EXCEPT ![p] = pc[p]]
         /\ sess[p] \in Nat /\ sess = [sess EXCEPT ![p] = sess[p]] /\ sess[p] >= sess[p]
         /\ pc[p] = "exchange" => sess[p] >= 1
         /\ role[p] \in {"unknown", "client", "server"} /\ role = [role EXCEPT ![p] = role[p]]
         /\ room = [room EXCEPT ![p] = room[p]]
         /\ upnp \subseteq Peer /\ known \subseteq Peer /\ lis \subseteq Peer
         /\ OnlyFirst => room[p] \in {0, Addrs(p, 1)} /\ role[p] \in {"unknown", FirstRole(p)}
<1>1. Types /\ InSession /\ FirstAddrs /\ FirstRoles
  BY DEF IInv
<1>2. pc[p] \in Labels /\ sess[p] \in Nat /\ role[p] \in {"unknown", "client", "server"}
  BY <1>1 DEF Types
<1>3. pc = [pc EXCEPT ![p] = pc[p]] /\ sess = [sess EXCEPT ![p] = sess[p]]
  BY <1>1 DEF Types
<1>4. role = [role EXCEPT ![p] = role[p]]
  BY <1>1 DEF Types
<1>5. room = [room EXCEPT ![p] = room[p]]
  BY <1>1 DEF Types
<1>6. upnp \subseteq Peer /\ known \subseteq Peer /\ lis \subseteq Peer
  BY <1>1 DEF Types
<1>7. sess[p] >= sess[p] /\ (pc[p] = "exchange" => sess[p] >= 1)
  BY <1>1, <1>2 DEF InSession
<1>8. OnlyFirst => room[p] \in {0, Addrs(p, 1)} /\ role[p] \in {"unknown", FirstRole(p)}
  BY <1>1 DEF FirstAddrs, FirstRoles
<1> QED
  BY <1>2, <1>3, <1>4, <1>5, <1>6, <1>7, <1>8

(* The exchange of addresses keeps the invariant, also when the listener   *)
(* cannot be opened.                                                       *)
LEMMA ExchangeStep ==
  ASSUME IInv, NEW p \in Peer, Exchange(p) \/ ListenFails(p)
  PROVE  IInv'
<1> DEFINE a == room[Other(p)]
<1>1. pc[p] = "exchange" /\ room' = [room EXCEPT ![p] = Pub(p)] /\ UNCHANGED <<e, sess, upnp>>
  BY DEF Exchange, ListenFails
<1>2. OnlyFirst => Pub(p) = Addrs(p, 1) /\ (a # 0 => RoleFor(p, a) = FirstRole(p))
  BY <1>1, FirstRoleTaken
<1>3. CASE UNCHANGED <<pc, role, known, lis>>
  BY <1>1, <1>2, <1>3, Same, SessionStep
<1>4. ASSUME NEW l \in {"try", "idle"}, a # 0, pc' = [pc EXCEPT ![p] = l],
             role' = [role EXCEPT ![p] = RoleFor(p, a)], known' = known \union {p},
             lis' \in {lis, lis \union {p}}
      PROVE  IInv'
  <2>1. l \in Labels /\ l # "exchange"
    BY DEF Labels
  <2>2. upnp' \subseteq Peer /\ known' \subseteq Peer /\ lis' \subseteq Peer
    BY <1>1, <1>4, Same
  <2>3. RoleFor(p, a) \in {"unknown", "client", "server"}
    BY RoleType
  <2>4. OnlyFirst => Pub(p) \in {0, Addrs(p, 1)} /\ RoleFor(p, a) \in {"unknown", FirstRole(p)}
    BY <1>2, <1>4
  <2>5. sess' = [sess EXCEPT ![p] = sess[p]] /\ sess[p] \in Nat /\ sess[p] >= sess[p]
    BY <1>1, Same
  <2> HIDE DEF a
  <2> QED
    BY <1>1, <1>4, <2>1, <2>2, <2>3, <2>4, <2>5, SessionStep
<1>5. CASE Exchange(p)
  <2>1. CASE a = 0 \/ Ip(a) = failed[p]
    <3>1. UNCHANGED <<pc, role, known, lis>>
      BY <1>5, <2>1 DEF Exchange
    <3> QED
      BY <1>3, <3>1
  <2>2. CASE ~(a = 0 \/ Ip(a) = failed[p])
    <3>1. /\ pc' = [pc EXCEPT ![p] = "try"] /\ role' = [role EXCEPT ![p] = RoleFor(p, a)]
          /\ known' = known \union {p} /\ lis' \in {lis, lis \union {p}}
      BY <1>5, <2>2 DEF Exchange
    <3> QED
      BY <1>4, <2>2, <3>1
  <2> QED
    BY <2>1, <2>2
<1>6. CASE ListenFails(p)
  <2>1. /\ pc' = [pc EXCEPT ![p] = "idle"] /\ role' = [role EXCEPT ![p] = RoleFor(p, a)]
        /\ known' = known \union {p} /\ lis' = lis /\ a # 0
    BY <1>6 DEF ListenFails
  <2> QED
    BY <1>4, <2>1
<1> QED
  BY <1>5, <1>6

(* The end of a round drops the role and closes what waits in the backlog. *)
LEMMA RoundEndStep ==
  ASSUME IInv, NEW p \in Peer, RoundEnd(p)
  PROVE  IInv'
<1>1. Types /\ InSession /\ FirstAddrs /\ FirstRoles /\ FirstEnds
  BY DEF IInv
<1>2. /\ pc' = [pc EXCEPT ![p] = "rest"] /\ lis' = lis \ {p}
      /\ role' = [role EXCEPT ![p] = "unknown"] /\ UNCHANGED <<sess, known, upnp, room>>
  BY DEF RoundEnd
<1>3. \A c \in Conns : \A i \in Peer : e'[c][i] \in {"closed", e[c][i]}
  BY DEF RoundEnd
<1>4. e' \in [Conns -> [Peer -> Ends]]
  BY <1>1 DEF RoundEnd, Types, Ends
<1>5. Types'
  BY <1>1, <1>2, <1>4 DEF Types, Labels
<1>6. InSession'
  BY <1>1, <1>2 DEF InSession, Types
<1>7. FirstAddrs' /\ FirstRoles'
  BY <1>1, <1>2 DEF FirstAddrs, FirstRoles, OnlyFirst, Types
<1>8. FirstEnds'
  <2> SUFFICES ASSUME OnlyFirst', NEW q \in Peer, NEW c \in Conns,
                      e'[c][q] \in {"client", "server"}
               PROVE  e'[c][q] = FirstRole(q)
    BY DEF FirstEnds
  <2>1. OnlyFirst
    BY <1>2 DEF OnlyFirst
  <2>2. e'[c][q] = e[c][q]
    BY <1>3
  <2> QED
    BY <1>1, <2>1, <2>2 DEF FirstEnds
<1> QED
  BY <1>5, <1>6, <1>7, <1>8 DEF IInv

(* The other steps of startP2PSession and those of the server.             *)
LEMMA OtherRoundStep ==
  ASSUME IInv, NEW p \in Peer,
         StartUPNPServer(p) \/ CreateSession(p) \/ Rest(p) \/ ExchangeFails(p) \/ RoomForgets(p)
  PROVE  IInv'
<1>1. UNCHANGED <<e, role>>
  BY DEF StartUPNPServer, CreateSession, Rest, ExchangeFails, RoomForgets, roundVars
<1>2. CASE StartUPNPServer(p)
  <2>1. pc' = [pc EXCEPT ![p] = "idle"] /\ UNCHANGED <<sess, room, known, lis>>
    BY <1>2 DEF StartUPNPServer, roomVars
  <2>2. upnp' \subseteq Peer
    BY <1>2, Same DEF StartUPNPServer
  <2>3. PICK l \in Labels : l = "idle" /\ l # "exchange"
    BY DEF Labels
  <2>4. /\ sess' = [sess EXCEPT ![p] = sess[p]] /\ sess[p] \in Nat /\ sess[p] >= sess[p]
        /\ role' = [role EXCEPT ![p] = role[p]] /\ role[p] \in {"unknown", "client", "server"}
        /\ room' = [room EXCEPT ![p] = room[p]]
        /\ upnp' \subseteq Peer /\ known' \subseteq Peer /\ lis' \subseteq Peer
        /\ OnlyFirst => room[p] \in {0, Addrs(p, 1)} /\ role[p] \in {"unknown", FirstRole(p)}
    BY <1>1, <2>1, <2>2, Same
  <2> QED
    BY <1>1, <2>1, <2>3, <2>4, SessionStep
<1>3. CASE CreateSession(p)
  <2>1. /\ pc' = [pc EXCEPT ![p] = "exchange"] /\ sess' = [sess EXCEPT ![p] = sess[p] + 1]
        /\ UNCHANGED <<room, upnp, known, lis>>
    BY <1>3 DEF CreateSession, roomVars
  <2>2. sess[p] \in Nat
    BY Same
  <2>3. sess[p] + 1 \in Nat /\ sess[p] + 1 >= sess[p] /\ sess[p] + 1 >= 1
    BY <2>2
  <2>4. "exchange" \in Labels
    BY DEF Labels
  <2> QED
    BY <1>1, <2>1, <2>3, <2>4, Same, SessionStep
<1>4. CASE Rest(p) \/ ExchangeFails(p)
  <2>1. pc' = [pc EXCEPT ![p] = "idle"] /\ UNCHANGED <<sess, room, upnp, known, lis>>
    BY <1>4 DEF Rest, ExchangeFails, roundVars, roomVars
  <2>2. PICK l \in Labels : l = "idle" /\ l # "exchange"
    BY DEF Labels
  <2>3. /\ sess' = [sess EXCEPT ![p] = sess[p]] /\ sess[p] \in Nat /\ sess[p] >= sess[p]
        /\ role' = [role EXCEPT ![p] = role[p]] /\ role[p] \in {"unknown", "client", "server"}
        /\ room' = [room EXCEPT ![p] = room[p]]
        /\ upnp' \subseteq Peer /\ known' \subseteq Peer /\ lis' \subseteq Peer
        /\ OnlyFirst => room[p] \in {0, Addrs(p, 1)} /\ role[p] \in {"unknown", FirstRole(p)}
    BY <1>1, <2>1, Same
  <2> QED
    BY <1>1, <2>1, <2>2, <2>3, SessionStep
<1>5. CASE RoomForgets(p)
  <2>1. room' = [room EXCEPT ![p] = 0] /\ UNCHANGED <<pc, sess, upnp, known, lis>>
    BY <1>5 DEF RoomForgets, roundVars
  <2> QED
    BY <1>1, <2>1, Same, SessionStep
<1> QED
  BY <1>2, <1>3, <1>4, <1>5

(* Nobody has a role at the start.                                         *)
LEMMA InitIInv == Init => IInv
<1>1. SUFFICES ASSUME Init PROVE IInv
  OBVIOUS
<1>2. Types
  BY <1>1 DEF Init, Types, Labels, Ends
<1>3. InSession /\ FirstAddrs /\ FirstRoles
  BY <1>1 DEF Init, InSession, FirstAddrs, FirstRoles
<1>4. FirstEnds
  BY <1>1 DEF Init, FirstEnds
<1> QED
  BY <1>2, <1>3, <1>4 DEF IInv

(* The invariant holds in every state of the handshake.                    *)
THEOREM Invariance == Spec => []IInv
<1>1. IInv /\ [Next]_vars => IInv'
  <2> SUFFICES ASSUME IInv, [Next]_vars PROVE IInv'
    OBVIOUS
  <2>1. ASSUME NEW p \in Peer, Round(p) \/ ExchangeFails(p) \/ ListenFails(p) \/ RoomForgets(p)
        PROVE  IInv'
    BY <2>1, ExchangeStep, RoundEndStep, OtherRoundStep DEF Round
  <2>2. CASE \E p \in Peer : \E k \in Dialers : Dialler(p, k)
    BY <2>2, DiallerStep
  <2>3. CASE \E p \in Peer : \E c \in Conns : Handle(c, p)
    BY <2>3, HandleStep
  <2>4. CASE UNCHANGED vars \/ \E c \in Conns : NetBreaks(c)
    <3>1. UNCHANGED <<pc, sess, role, upnp, known, lis, room, e>>
      BY <2>4 DEF NetBreaks, vars, roundVars, roomVars
    <3>2. e' \in [Conns -> [Peer -> Ends]]
      BY <3>1 DEF IInv, Types
    <3> QED
      BY <3>1, <3>2, ConnStep
  <2> QED
    BY <2>1, <2>2, <2>3, <2>4 DEF Next
<1> QED
  BY InitIInv, <1>1, PTL DEF Spec

(* The variables that roles come from keep their types.                    *)
THEOREM TypeCorrect == Spec => []Types
<1>1. IInv => Types
  BY DEF IInv
<1> QED
  BY <1>1, Invariance, PTL

(* In their first sessions the two ends of a connection never have the     *)
(* same role: whichever of the two clients exchanged first, dialled or     *)
(* accepted, whichever round's role its handleP2PConn took, and whatever   *)
(* the server forgot in between.                                           *)
THEOREM PeersDiffer == Spec => []FirstRolesDiffer
<1>1. IInv => FirstRolesDiffer
  <2> SUFFICES ASSUME IInv, OnlyFirst, NEW c \in Conns, NEW s \in {"client", "server"}
               PROVE  \E p \in Peer : e[c][p] # s
    BY DEF FirstRolesDiffer, OnlyFirst
  <2>1. PICK p \in Peer : TRUE
    <3>1. Peer # {}
      BY HandshakeAssumption, FS_EmptySet
    <3> QED
      BY <3>1
  <2>2. Other(p) \in Peer /\ FirstRole(p) # FirstRole(Other(p))
    BY OtherPeer, RolesDiffer
  <2>3. \A q \in Peer : e[c][q] = s => s = FirstRole(q)
    BY DEF IInv, FirstEnds
  <2> QED
    BY <2>2, <2>3
<1> QED
  BY <1>1, Invariance, PTL
=============================================================================
