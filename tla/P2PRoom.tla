------------------------------ MODULE P2PRoom ------------------------------
(***************************************************************************)
(* The rendezvous server of the P2P/P2S2P feature: the room table of       *)
(* remote_p2p.go and the life of the mux sessions that use it, as          *)
(* serverAuthSession, ServProxyMuxSession and sessionContext.close drive   *)
(* them (remote.go).                                                       *)
(*                                                                         *)
(* Two clients that present the same P2P token meet in a room.  A client   *)
(* process owns one connection id and opens two kinds of sessions:         *)
(* exchange sessions, whose auth requests carry a private address and are  *)
(* repeated until the peer's address is known, and data sessions, whose    *)
(* streams the server forwards to a session of the other member.           *)
(*                                                                         *)
(* Every access to the table holds p2pSessionMutex and is one action; the  *)
(* goroutines interleave between accesses.  An address pair (private and   *)
(* public) is named by the exchange session that published it.             *)
(***************************************************************************)
EXTENDS Naturals, FiniteSets

CONSTANTS
  Token,     \* room names, AuthRequest.P2PToken
  ConnID,    \* client processes, AuthRequest.P2PConnID
  Session,   \* mux sessions accepted by the server over tcp or tls
  Auth,      \* the auth request each session presents
  None       \* the empty string where an address is expected

(***************************************************************************)
(* P2PPriAddr stands for len(auth.P2PPriAddr) > 0: the session is an       *)
(* exchange session.                                                       *)
(***************************************************************************)
AuthRequest == [P2PToken : Token, P2PConnID : ConnID, P2PPriAddr : BOOLEAN]

ASSUME AuthAssumption == /\ Auth \in [Session -> AuthRequest]
                         /\ None \notin Session

VARIABLES
  rooms,     \* keys of p2pSessionTable
  members,   \* keys of each room's map
  nodes,     \* the p2pNode of each member
  pc,        \* where the session's ServProxyMuxSession goroutine is
  isP2P,     \* ctx.isP2P, set together with ctx.auth
  alive,     \* the session's transport is up
  learned,   \* the peer address in the last auth response
  listed,    \* the ctx is in emptySessions
  reaper,    \* how far the idle-session reaper is in closing the ctx
  pending,   \* an accepted P2P stream whose peer stream is not opened yet
  tunnels    \* <<s, p>>: a stream of s is joined with a peer stream of p

roomVars  == <<rooms, members, nodes>>
ctxVars   == <<isP2P, alive, learned, listed>>
tunVars   == <<pending, tunnels>>
vars == <<rooms, members, nodes, pc, isP2P, alive, learned, listed, reaper,
          pending, tunnels>>

Slots     == Token \X ConnID
Node      == [sessions : SUBSET Session, addr : Session \cup {None}]
EmptyNode == [sessions |-> {}, addr |-> None]

Tok(s)  == Auth[s].P2PToken
Cid(s)  == Auth[s].P2PConnID
Slot(s) == <<Tok(s), Cid(s)>>
Exchange(s) == Auth[s].P2PPriAddr

PCs == {"off", "auth", "answer", "loop", "accept",
        "close", "closeConn", "done"}

(***************************************************************************)
(* p2pSessionTable starts empty; no session is connected.                  *)
(***************************************************************************)
Init ==
  /\ rooms   = {}
  /\ members = [t \in Token |-> {}]
  /\ nodes   = [n \in Slots |-> EmptyNode]
  /\ pc      = [s \in Session |-> "off"]
  /\ isP2P   = [s \in Session |-> FALSE]
  /\ alive   = [s \in Session |-> FALSE]
  /\ learned = [s \in Session |-> None]
  /\ listed  = [s \in Session |-> FALSE]
  /\ reaper  = [s \in Session |-> "no"]
  /\ pending = [s \in Session |-> FALSE]
  /\ tunnels = {}

-----------------------------------------------------------------------------
(* The room table *)

\* Seeded fault: the room size check is off by one.
Admitted_OffByOne(s) == \/ Cid(s) \in members[Tok(s)]
                        \/ Cardinality(members[Tok(s)]) <= 2

(***************************************************************************)
(* addP2PSession returns true: the client is in the room already or there  *)
(* is space for it.                                                        *)
(***************************************************************************)
Admitted(s) == \/ Cid(s) \in members[Tok(s)]
               \/ Cardinality(members[Tok(s)]) < 2

(***************************************************************************)
(* The room is made before the size check, whatever the check says.  An    *)
(* exchange request only publishes its addresses, any other request only   *)
(* registers its session.                                                  *)
(***************************************************************************)
addP2PSession(s) ==
  /\ rooms' = rooms \cup {Tok(s)}
  /\ IF Admitted(s)
     THEN /\ members' = [members EXCEPT ![Tok(s)] = @ \cup {Cid(s)}]
          /\ nodes' = [nodes EXCEPT ![Slot(s)] =
                 [sessions |-> IF Exchange(s) THEN @.sessions
                                              ELSE @.sessions \cup {s},
                  addr |-> IF Exchange(s) THEN s ELSE @.addr]]
     ELSE UNCHANGED <<members, nodes>>

\* Seeded fault: the last member leaves and the room is kept.
removeP2PSession_KeepRoom(s) ==
  LET left == nodes[Slot(s)].sessions \ {s}
  IN  IF left = {}
      THEN /\ members' = [members EXCEPT ![Tok(s)] = @ \ {Cid(s)}]
           /\ nodes' = [nodes EXCEPT ![Slot(s)] = EmptyNode]
           /\ UNCHANGED rooms
      ELSE /\ nodes' = [nodes EXCEPT ![Slot(s)].sessions = left]
           /\ UNCHANGED <<rooms, members>>

\* Seeded fault: a session that is not registered removes nothing.
removeP2PSession_OnlyRegistered(s) ==
  LET left == nodes[Slot(s)].sessions \ {s}
  IN  IF s \notin nodes[Slot(s)].sessions
      THEN UNCHANGED roomVars
      ELSE IF left = {}
      THEN /\ members' = [members EXCEPT ![Tok(s)] = @ \ {Cid(s)}]
           /\ nodes' = [nodes EXCEPT ![Slot(s)] = EmptyNode]
           /\ rooms' = IF members[Tok(s)] = {Cid(s)} THEN rooms \ {Tok(s)}
                                                     ELSE rooms
      ELSE /\ nodes' = [nodes EXCEPT ![Slot(s)].sessions = left]
           /\ UNCHANGED <<rooms, members>>

\* Seeded fault: any session that leaves takes its member with it.
removeP2PSession_Always(s) ==
  /\ members' = [members EXCEPT ![Tok(s)] = @ \ {Cid(s)}]
  /\ nodes' = [nodes EXCEPT ![Slot(s)] = EmptyNode]
  /\ rooms' = {t \in rooms : members'[t] # {}}

\* Seeded fault: the session is left in the member's session map.
removeP2PSession_KeepSession(s) ==
  IF Cid(s) \in members[Tok(s)] /\ nodes[Slot(s)].sessions = {}
  THEN /\ members' = [members EXCEPT ![Tok(s)] = @ \ {Cid(s)}]
       /\ nodes' = [nodes EXCEPT ![Slot(s)] = EmptyNode]
       /\ rooms' = {t \in rooms : members'[t] # {}}
  ELSE UNCHANGED roomVars

(***************************************************************************)
(* A member whose last session leaves is deleted, published addresses      *)
(* included, and so is a room whose last member leaves.                    *)
(***************************************************************************)
removeP2PSession(s) ==
  LET left == nodes[Slot(s)].sessions \ {s}
  IN  IF Tok(s) \notin rooms \/ Cid(s) \notin members[Tok(s)]
      THEN UNCHANGED roomVars
      ELSE IF left = {}
      THEN /\ members' = [members EXCEPT ![Tok(s)] = @ \ {Cid(s)}]
           /\ nodes' = [nodes EXCEPT ![Slot(s)] = EmptyNode]
           /\ rooms' = IF members[Tok(s)] = {Cid(s)} THEN rooms \ {Tok(s)}
                                                     ELSE rooms
      ELSE /\ nodes' = [nodes EXCEPT ![Slot(s)] =
                  [sessions |-> left,
                   addr |-> IF Exchange(s) THEN None ELSE @.addr]]
           /\ UNCHANGED <<rooms, members>>

(***************************************************************************)
(* getPeerAddr ranges over a Go map: any other member may come first.      *)
(***************************************************************************)
PeerAddrs(s) ==
  LET others == members[Tok(s)] \ {Cid(s)}
  IN  IF others = {} THEN {None}
                     ELSE {nodes[<<Tok(s), c>>].addr : c \in others}

\* Seeded fault: the caller's own member is not skipped.
PeerSessions_Own(s) ==
  UNION {nodes[<<Tok(s), c>>].sessions : c \in members[Tok(s)]}

(***************************************************************************)
(* The sessions openPeerStream may try: it gives up after the first one.   *)
(***************************************************************************)
PeerSessions(s) ==
  UNION {nodes[<<Tok(s), c>>].sessions : c \in members[Tok(s)] \ {Cid(s)}}

-----------------------------------------------------------------------------
(* The goroutine that serves a session *)

Goto(s, from, to) == pc[s] = from /\ pc' = [pc EXCEPT ![s] = to]

Connect(s) ==
  /\ Goto(s, "off", "auth")
  /\ alive' = [alive EXCEPT ![s] = TRUE]
  /\ UNCHANGED <<roomVars, isP2P, learned, listed, reaper, tunVars>>

(***************************************************************************)
(* serverAuthSession up to addP2PSession.  A full room closes the session. *)
(* A data session has no further use of the table, so the rest of its      *)
(* authentication and the assignments to ctx belong to the same step.      *)
(***************************************************************************)
AuthP2P(s) ==
  /\ alive[s]
  /\ addP2PSession(s)
  /\ \/ /\ ~Admitted(s)
        /\ Goto(s, "auth", "close")
        /\ alive' = [alive EXCEPT ![s] = FALSE]
        /\ UNCHANGED isP2P
     \/ /\ Admitted(s) /\ Exchange(s)
        /\ Goto(s, "auth", "answer")
        /\ UNCHANGED <<alive, isP2P>>
     \/ /\ Admitted(s) /\ ~Exchange(s)
        /\ Goto(s, "auth", "loop")
        /\ isP2P' = [isP2P EXCEPT ![s] = TRUE]
        /\ UNCHANGED alive
  /\ UNCHANGED <<learned, listed, reaper, tunVars>>

(***************************************************************************)
(* The rest of serverAuthSession for an exchange request: getPeerAddr and  *)
(* the response.  isP2PExahnge keeps the goroutine reading auth requests.  *)
(***************************************************************************)
AnswerExchange(s) ==
  /\ Goto(s, "answer", "auth")
  /\ \E a \in PeerAddrs(s) : learned' = [learned EXCEPT ![s] = a]
  /\ isP2P' = [isP2P EXCEPT ![s] = TRUE]
  /\ UNCHANGED <<roomVars, alive, listed, reaper, tunVars>>

(***************************************************************************)
(* A request that cannot be read leaves the transport to ctx.close; a user *)
(* or a compressor that is refused closes it at once.                      *)
(***************************************************************************)
AuthRefused(s) ==
  /\ alive[s]
  /\ Goto(s, "auth", "close")
  /\ \E open \in BOOLEAN : alive' = [alive EXCEPT ![s] = open]
  /\ UNCHANGED <<roomVars, isP2P, learned, listed, reaper, tunVars>>

(***************************************************************************)
(* The head of the accept loop: P2P streams are never counted, so a P2P    *)
(* data session always counts as empty.                                    *)
(***************************************************************************)
ListAsEmpty(s) ==
  /\ Goto(s, "loop", "accept")
  /\ listed' = [listed EXCEPT ![s] = TRUE]
  /\ UNCHANGED <<roomVars, isP2P, alive, learned, reaper, tunVars>>

(***************************************************************************)
(* Bound: one P2P stream is in flight at a time.  Streams meet only in the *)
(* table, which they do not change.                                        *)
(***************************************************************************)
AcceptP2PStream(s) ==
  /\ alive[s] /\ tunnels = {} /\ \A r \in Session : ~pending[r]
  /\ Goto(s, "accept", "loop")
  /\ pending' = [pending EXCEPT ![s] = TRUE]
  /\ UNCHANGED <<roomVars, ctxVars, reaper, tunnels>>

AcceptFails(s) ==
  /\ ~alive[s]
  /\ pc[s] \in {"auth", "accept"}
  /\ pc' = [pc EXCEPT ![s] = "close"]
  /\ UNCHANGED <<roomVars, ctxVars, reaper, tunVars>>

(***************************************************************************)
(* The deferred ctx.close(): the room table first, then session.Close()    *)
(* and the removal from emptySessions.                                     *)
(***************************************************************************)
CloseRemove(s) ==
  /\ Goto(s, "close", "closeConn")
  /\ IF isP2P[s] THEN removeP2PSession(s) ELSE UNCHANGED roomVars
  /\ UNCHANGED <<ctxVars, reaper, tunVars>>

CloseConn(s) ==
  /\ Goto(s, "closeConn", "done")
  /\ alive' = [alive EXCEPT ![s] = FALSE]
  /\ listed' = [listed EXCEPT ![s] = FALSE]
  /\ UNCHANGED <<roomVars, isP2P, learned, reaper, tunVars>>

-----------------------------------------------------------------------------
(* Other goroutines, and the network *)

(***************************************************************************)
(* handleP2PProxyStream opens the peer stream some time after the accept,  *)
(* when the session may be gone; a failure closes the accepted stream.     *)
(***************************************************************************)
OpenPeerStream(s) ==
  /\ pending[s]
  /\ pending' = [pending EXCEPT ![s] = FALSE]
  /\ \/ /\ PeerSessions(s) = {}
        /\ UNCHANGED tunnels
     \/ \E p \in PeerSessions(s) :
           tunnels' = IF alive[p] THEN tunnels \cup {<<s, p>>} ELSE tunnels
  /\ UNCHANGED <<roomVars, pc, ctxVars, reaper>>

EndTunnel(s, p) ==
  /\ <<s, p>> \in tunnels
  /\ tunnels' = tunnels \ {<<s, p>>}
  /\ UNCHANGED <<roomVars, pc, ctxVars, reaper, pending>>

(***************************************************************************)
(* The client closes the session, or the connection breaks.                *)
(***************************************************************************)
Drop(s) ==
  /\ alive[s]
  /\ alive' = [alive EXCEPT ![s] = FALSE]
  /\ UNCHANGED <<roomVars, pc, isP2P, learned, listed, reaper, tunVars>>

(***************************************************************************)
(* The reaper of init() runs ctx.close() for one listed ctx at a time.     *)
(***************************************************************************)
ReaperRemove(s) ==
  /\ listed[s]
  /\ \A r \in Session : reaper[r] = "no"
  /\ reaper' = [reaper EXCEPT ![s] = "closeConn"]
  /\ IF isP2P[s] THEN removeP2PSession(s) ELSE UNCHANGED roomVars
  /\ UNCHANGED <<pc, ctxVars, tunVars>>

ReaperCloseConn(s) ==
  /\ reaper[s] = "closeConn"
  /\ reaper' = [reaper EXCEPT ![s] = "no"]
  /\ alive' = [alive EXCEPT ![s] = FALSE]
  /\ listed' = [listed EXCEPT ![s] = FALSE]
  /\ UNCHANGED <<roomVars, pc, isP2P, learned, tunVars>>

-----------------------------------------------------------------------------

Next ==
  \E s \in Session :
    \/ Connect(s) \/ AuthP2P(s) \/ AuthRefused(s) \/ AcceptP2PStream(s)
    \/ AnswerExchange(s) \/ ListAsEmpty(s) \/ AcceptFails(s)
    \/ CloseRemove(s) \/ CloseConn(s)
    \/ OpenPeerStream(s) \/ Drop(s)
    \/ \E p \in Session : EndTunnel(s, p)
    \/ ReaperRemove(s) \/ ReaperCloseConn(s)

Spec == Init /\ [][Next]_vars

-----------------------------------------------------------------------------
(* Properties *)

TypeOK ==
  /\ rooms \subseteq Token
  /\ members \in [Token -> SUBSET ConnID]
  /\ nodes \in [Slots -> Node]
  /\ pc \in [Session -> PCs]
  /\ isP2P \in [Session -> BOOLEAN]
  /\ alive \in [Session -> BOOLEAN]
  /\ learned \in [Session -> Session \cup {None}]
  /\ listed \in [Session -> BOOLEAN]
  /\ reaper \in [Session -> {"no", "closeConn"}]
  /\ pending \in [Session -> BOOLEAN]
  /\ tunnels \subseteq Session \X Session

(***************************************************************************)
(* A room never has more than two members, however joins, leaves and late  *)
(* closes of old sessions interleave.                                      *)
(***************************************************************************)
RoomsAtMostTwo == \A t \in Token : Cardinality(members[t]) <= 2

(***************************************************************************)
(* p2pSessionTable holds exactly the rooms that have a member: a room is   *)
(* neither left behind by its last member nor deleted under one.           *)
(***************************************************************************)
RoomsHaveMembers == \A t \in Token : t \in rooms <=> members[t] # {}

(***************************************************************************)
(* The goroutine of s is bound to run removeP2PSession(s) still.           *)
(***************************************************************************)
WillRemove(s) == \/ pc[s] = "answer"
                 \/ isP2P[s] /\ pc[s] \in {"auth", "loop", "accept", "close"}

(***************************************************************************)
(* No slot of a room leaks: every member has a session whose goroutine     *)
(* still has the removal ahead of it.  A leaked slot would lock a client   *)
(* out of its room for the life of the server.                             *)
(***************************************************************************)
SlotHasOwner ==
  \A t \in Token : \A c \in members[t] :
    \E s \in Session : Slot(s) = <<t, c>> /\ WillRemove(s)

(***************************************************************************)
(* Only data sessions that are still to be closed are registered, each     *)
(* under its own client and room: openPeerStream never picks a session     *)
(* whose context has finished closing.                                     *)
(***************************************************************************)
RegisteredAreOpen ==
  \A n \in Slots : \A s \in nodes[n].sessions :
    Slot(s) = n /\ ~Exchange(s) /\ WillRemove(s)

(***************************************************************************)
(* The accept loop serves the session, which is up and not being reaped.   *)
(***************************************************************************)
Served(s) == pc[s] \in {"loop", "accept"} /\ alive[s] /\ reaper[s] # "closeConn"

(***************************************************************************)
(* A data session that is up and served stays reachable for its peer: no   *)
(* other session's close, no exchange and no second close takes it out of  *)
(* the table.                                                              *)
(***************************************************************************)
ServedIsReachable ==
  \A s \in Session : Served(s) => /\ Cid(s) \in members[Tok(s)]
                                  /\ s \in nodes[Slot(s)].sessions

(***************************************************************************)
(* A published address belongs to an exchange session of that client that  *)
(* is still to be closed: peers are never sent to the address of a session *)
(* that is over.                                                           *)
(***************************************************************************)
AddrOwnerIsOpen ==
  \A n \in Slots : \A x \in Session :
    nodes[n].addr = x => Slot(x) = n /\ Exchange(x) /\ WillRemove(x)

(***************************************************************************)
(* Nothing in the table is stale, however late an old session of a client  *)
(* closes beside newer ones: neither a session nor an address.             *)
(***************************************************************************)
TableIsFresh == RegisteredAreOpen /\ AddrOwnerIsOpen

(***************************************************************************)
(* Streams are joined, and addresses handed out, between the two different *)
(* clients of one room only.                                               *)
(***************************************************************************)
Peers(s, p) == Tok(s) = Tok(p) /\ Cid(s) # Cid(p)
OnlyPeersMeet ==
  /\ \A tn \in tunnels : Peers(tn[1], tn[2])
  /\ \A s \in Session : learned[s] # None => Peers(s, learned[s])
=============================================================================
