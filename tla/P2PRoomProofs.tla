--------------------------- MODULE P2PRoomProofs ---------------------------
(***************************************************************************)
(* The invariants of the rendezvous server hold for any number of rooms,   *)
(* clients and sessions.                                                   *)
(*                                                                         *)
(* What makes them inductive is a stronger reading of the table: a slot    *)
(* that is not taken has an empty node, and a slot that is taken has a     *)
(* registered session or a published address.  Each of those belongs to a  *)
(* session whose goroutine still has the removal ahead of it.              *)
(***************************************************************************)
EXTENDS P2PRoom, FiniteSetTheorems, TLAPS

TableType == /\ rooms \subseteq Token
             /\ members \in [Token -> SUBSET ConnID]
             /\ nodes \in [Slots -> Node]

MembersFinite == \A t \in Token : IsFiniteSet(members[t])

AbsentAreEmpty ==
  \A t \in Token : \A c \in ConnID \ members[t] : nodes[<<t, c>>] = EmptyNode

MemberIsHeld ==
  \A t \in Token : \A c \in members[t] :
    nodes[<<t, c>>].sessions # {} \/ nodes[<<t, c>>].addr # None

\* What concerns the table alone.
TableInv == /\ TableType
            /\ MembersFinite
            /\ RoomsAtMostTwo
            /\ RoomsHaveMembers
            /\ AbsentAreEmpty
            /\ MemberIsHeld

\* The inductive invariant.
IInv == /\ TypeOK
        /\ TableInv
        /\ RegisteredAreOpen
        /\ AddrOwnerIsOpen
        /\ ServedIsReachable
        /\ OnlyPeersMeet

-----------------------------------------------------------------------------
(* A session's request names a token, a client and so a slot, and whether  *)
(* it is an exchange session.                                              *)
LEMMA SlotType ==
  ASSUME NEW s \in Session
  PROVE  /\ Tok(s) \in Token
         /\ Cid(s) \in ConnID
         /\ Slot(s) \in Slots
         /\ Exchange(s) \in BOOLEAN
BY AuthAssumption DEF Tok, Cid, Slot, Slots, Exchange, AuthRequest

-----------------------------------------------------------------------------
(* addP2PSession *)

(***************************************************************************)
(* addP2PSession keeps the table well-formed: the size check keeps a room  *)
(* at two members, and a room made for a client that is then refused has   *)
(* members already.                                                        *)
(***************************************************************************)
LEMMA AddKeepsTable ==
  ASSUME NEW s \in Session, TableInv, addP2PSession(s)
  PROVE  TableInv'
<1> DEFINE t0 == Tok(s)
           c0 == Cid(s)
<1>1. t0 \in Token /\ c0 \in ConnID /\ Slot(s) = <<t0, c0>> /\ Slot(s) \in Slots
      /\ Exchange(s) \in BOOLEAN
  BY SlotType DEF Slot
<1>2. TableType /\ IsFiniteSet(members[t0]) /\ rooms' = rooms \cup {t0}
  BY <1>1 DEF TableInv, MembersFinite, addP2PSession
<1>3. CASE ~Admitted(s)
  <2>1. members' = members /\ nodes' = nodes
    BY <1>3 DEF addP2PSession
  <2>2. members[t0] # {}
    BY <1>3, FS_EmptySet DEF Admitted
  <2> QED
    BY <1>1, <1>2, <2>1, <2>2
    DEF TableInv, TableType, MembersFinite, RoomsAtMostTwo, RoomsHaveMembers,
        AbsentAreEmpty, MemberIsHeld
<1>4. CASE Admitted(s)
  <2>1. members' = [members EXCEPT ![t0] = @ \cup {c0}]
    BY <1>4 DEF addP2PSession
  <2>2. nodes' = [nodes EXCEPT ![Slot(s)] =
                    [sessions |-> IF Exchange(s) THEN @.sessions
                                                 ELSE @.sessions \cup {s},
                     addr |-> IF Exchange(s) THEN s ELSE @.addr]]
    BY <1>4 DEF addP2PSession
  <2>3. nodes[Slot(s)] \in Node
    BY <1>1, <1>2 DEF TableType
  <2>4. nodes'[Slot(s)] = [sessions |-> IF Exchange(s) THEN nodes[Slot(s)].sessions
                                        ELSE nodes[Slot(s)].sessions \cup {s},
                           addr |-> IF Exchange(s) THEN s ELSE nodes[Slot(s)].addr]
    BY <1>1, <1>2, <2>2 DEF TableType
  <2>5. \A n \in Slots : n # Slot(s) => nodes'[n] = nodes[n]
    BY <1>1, <1>2, <2>2 DEF TableType
  <2>6. TableType'
    <3>1. nodes'[Slot(s)] \in Node
      BY <2>3, <2>4 DEF Node
    <3> QED
      BY <1>1, <1>2, <2>1, <2>2, <2>3, <3>1, <2>5 DEF TableType
  <2>7. members'[t0] = members[t0] \cup {c0}
        /\ \A t \in Token : t # t0 => members'[t] = members[t]
    BY <1>1, <1>2, <2>1 DEF TableType
  <2>8. IsFiniteSet(members'[t0]) /\ Cardinality(members'[t0]) <= 2
    <3>1. Cardinality(members[t0]) \in Nat
      BY <1>2, FS_CardinalityType
    <3>2. IsFiniteSet(members[t0] \cup {c0})
          /\ Cardinality(members[t0] \cup {c0}) =
               IF c0 \in members[t0] THEN Cardinality(members[t0])
                                     ELSE Cardinality(members[t0]) + 1
      BY <1>2, FS_AddElement
    <3>3. Cardinality(members[t0]) <= 2
      BY <1>1 DEF TableInv, RoomsAtMostTwo
    <3> QED
      BY <1>4, <2>7, <3>1, <3>2, <3>3 DEF Admitted
  <2>9. MembersFinite' /\ RoomsAtMostTwo'
    BY <2>7, <2>8 DEF TableInv, MembersFinite, RoomsAtMostTwo
  <2>10. RoomsHaveMembers'
    BY <1>1, <1>2, <2>7 DEF TableInv, RoomsHaveMembers
  <2>11. AbsentAreEmpty'
    <3> SUFFICES ASSUME NEW t \in Token, NEW c \in ConnID, c \notin members'[t]
                 PROVE  nodes'[<<t, c>>] = EmptyNode
      BY DEF AbsentAreEmpty
    <3>1. <<t, c>> \in Slots /\ <<t, c>> # Slot(s) /\ c \notin members[t]
      BY <1>1, <2>7 DEF Slots
    <3> QED
      BY <2>5, <3>1 DEF TableInv, AbsentAreEmpty
  <2>12. MemberIsHeld'
    <3> SUFFICES ASSUME NEW t \in Token, NEW c \in members'[t]
                 PROVE  nodes'[<<t, c>>].sessions # {} \/ nodes'[<<t, c>>].addr # None
      BY DEF MemberIsHeld
    <3>1. CASE <<t, c>> = Slot(s)
      BY <2>4, <3>1, AuthAssumption
    <3>2. CASE <<t, c>> # Slot(s)
      <4>1. c \in members[t] /\ <<t, c>> \in Slots
        BY <1>1, <1>2, <2>7, <3>2 DEF Slots, TableType
      <4> QED
        BY <2>5, <3>2, <4>1 DEF TableInv, MemberIsHeld
    <3> QED
      BY <3>1, <3>2
  <2> QED
    BY <2>6, <2>9, <2>10, <2>11, <2>12 DEF TableInv
<1> QED
  BY <1>3, <1>4

(***************************************************************************)
(* addP2PSession touches the slot of its session only and takes nothing    *)
(* away: it registers a data session or publishes an exchange address.     *)
(***************************************************************************)
LEMMA AddEffect ==
  ASSUME NEW s \in Session, TableType, addP2PSession(s)
  PROVE  /\ \A t \in Token : members[t] \subseteq members'[t]
         /\ \A n \in Slots : nodes[n].sessions \subseteq nodes'[n].sessions
         /\ \A n \in Slots : \A x \in nodes'[n].sessions :
              \/ x \in nodes[n].sessions
              \/ x = s /\ n = Slot(s) /\ ~Exchange(s) /\ Admitted(s)
         /\ \A n \in Slots :
              \/ nodes'[n].addr = nodes[n].addr
              \/ nodes'[n].addr = s /\ n = Slot(s) /\ Exchange(s) /\ Admitted(s)
         /\ Admitted(s) => Cid(s) \in members'[Tok(s)]
         /\ Admitted(s) /\ ~Exchange(s) => s \in nodes'[Slot(s)].sessions
<1>1. Tok(s) \in Token /\ Slot(s) \in Slots /\ Exchange(s) \in BOOLEAN
  BY SlotType
<1>2. CASE ~Admitted(s)
  BY <1>2 DEF addP2PSession
<1>3. CASE Admitted(s)
  <2>1. /\ \A t \in Token : t # Tok(s) => members'[t] = members[t]
        /\ members'[Tok(s)] = members[Tok(s)] \cup {Cid(s)}
    BY <1>1, <1>3 DEF addP2PSession, TableType
  <2>2. /\ \A n \in Slots : n # Slot(s) => nodes'[n] = nodes[n]
        /\ nodes'[Slot(s)] =
             [sessions |-> IF Exchange(s) THEN nodes[Slot(s)].sessions
                           ELSE nodes[Slot(s)].sessions \cup {s},
              addr |-> IF Exchange(s) THEN s ELSE nodes[Slot(s)].addr]
    BY <1>1, <1>3 DEF addP2PSession, TableType
  <2> QED
    BY <1>1, <1>3, <2>1, <2>2
<1> QED
  BY <1>2, <1>3

-----------------------------------------------------------------------------
(* removeP2PSession *)

(***************************************************************************)
(* removeP2PSession keeps the table well-formed: the last session of a     *)
(* member takes the member with it and the last member takes the room.     *)
(***************************************************************************)
LEMMA RemoveKeepsTable ==
  ASSUME NEW s \in Session, TableInv, removeP2PSession(s)
  PROVE  TableInv'
<1> DEFINE t0 == Tok(s)
           c0 == Cid(s)
           left == nodes[Slot(s)].sessions \ {s}
<1>1. t0 \in Token /\ c0 \in ConnID /\ Slot(s) = <<t0, c0>> /\ Slot(s) \in Slots
      /\ Exchange(s) \in BOOLEAN
  BY SlotType DEF Slot
<1>2. TableType /\ IsFiniteSet(members[t0])
  BY <1>1 DEF TableInv, MembersFinite
<1>3. CASE t0 \notin rooms \/ c0 \notin members[t0]
  <2>1. rooms' = rooms /\ members' = members /\ nodes' = nodes
    BY <1>3 DEF removeP2PSession, roomVars
  <2> QED
    BY <2>1 DEF TableInv, TableType, MembersFinite, RoomsAtMostTwo,
                RoomsHaveMembers, AbsentAreEmpty, MemberIsHeld
<1>4. CASE t0 \in rooms /\ c0 \in members[t0] /\ left = {}
  <2>1. /\ members' = [members EXCEPT ![t0] = @ \ {c0}]
        /\ nodes' = [nodes EXCEPT ![Slot(s)] = EmptyNode]
        /\ rooms' = IF members[t0] = {c0} THEN rooms \ {t0} ELSE rooms
    BY <1>4 DEF removeP2PSession
  <2>2. /\ members'[t0] = members[t0] \ {c0}
        /\ \A t \in Token : t # t0 => members'[t] = members[t]
        /\ nodes'[Slot(s)] = EmptyNode
        /\ \A n \in Slots : n # Slot(s) => nodes'[n] = nodes[n]
    BY <1>1, <1>2, <2>1 DEF TableType
  <2>3. TableType'
    <3>1. EmptyNode \in Node
      BY DEF EmptyNode, Node
    <3> QED
      BY <1>1, <1>2, <2>1, <3>1 DEF TableType
  <2>4. IsFiniteSet(members'[t0]) /\ Cardinality(members'[t0]) <= 2
    <3>1. Cardinality(members[t0]) \in Nat /\ Cardinality(members[t0]) <= 2
      BY <1>1, <1>2, FS_CardinalityType DEF TableInv, RoomsAtMostTwo
    <3>2. IsFiniteSet(members[t0] \ {c0})
          /\ Cardinality(members[t0] \ {c0}) = Cardinality(members[t0]) - 1
      BY <1>2, <1>4, FS_RemoveElement
    <3> QED
      BY <2>2, <3>1, <3>2
  <2>5. MembersFinite' /\ RoomsAtMostTwo'
    BY <2>2, <2>4 DEF TableInv, MembersFinite, RoomsAtMostTwo
  <2>6. RoomsHaveMembers'
    BY <1>1, <1>4, <2>1, <2>2 DEF TableInv, RoomsHaveMembers
  <2>7. AbsentAreEmpty'
    <3> SUFFICES ASSUME NEW t \in Token, NEW c \in ConnID, c \notin members'[t]
                 PROVE  nodes'[<<t, c>>] = EmptyNode
      BY DEF AbsentAreEmpty
    <3>1. <<t, c>> \in Slots /\ (<<t, c>> # Slot(s) => c \notin members[t])
      BY <1>1, <2>2 DEF Slots
    <3> QED
      BY <2>2, <3>1 DEF TableInv, AbsentAreEmpty
  <2>8. MemberIsHeld'
    <3> SUFFICES ASSUME NEW t \in Token, NEW c \in members'[t]
                 PROVE  nodes'[<<t, c>>].sessions # {} \/ nodes'[<<t, c>>].addr # None
      BY DEF MemberIsHeld
    <3>1. c \in members[t] /\ <<t, c>> \in Slots /\ <<t, c>> # Slot(s)
      BY <1>1, <1>2, <2>2 DEF Slots, TableType
    <3> QED
      BY <2>2, <3>1 DEF TableInv, MemberIsHeld
  <2> QED
    BY <2>3, <2>5, <2>6, <2>7, <2>8 DEF TableInv
<1>5. CASE t0 \in rooms /\ c0 \in members[t0] /\ left # {}
  <2>1. /\ nodes' = [nodes EXCEPT ![Slot(s)] =
                       [sessions |-> left,
                        addr |-> IF Exchange(s) THEN None ELSE @.addr]]
        /\ rooms' = rooms
        /\ members' = members
    BY <1>5 DEF removeP2PSession
  <2>2. /\ nodes'[Slot(s)].sessions = left
        /\ nodes'[Slot(s)] = [sessions |-> left,
              addr |-> IF Exchange(s) THEN None ELSE nodes[Slot(s)].addr]
        /\ \A n \in Slots : n # Slot(s) => nodes'[n] = nodes[n]
    BY <1>1, <1>2, <2>1 DEF TableType
  <2>3. TableType'
    <3>1. nodes[Slot(s)] \in Node
      BY <1>1, <1>2 DEF TableType
    <3>2. nodes'[Slot(s)] \in Node
      BY <2>2, <3>1 DEF Node
    <3> QED
      BY <1>1, <1>2, <2>1, <2>2, <3>2 DEF TableType
  <2>4. MembersFinite' /\ RoomsAtMostTwo' /\ RoomsHaveMembers'
    BY <2>1 DEF TableInv, MembersFinite, RoomsAtMostTwo, RoomsHaveMembers
  <2>5. AbsentAreEmpty'
    <3> SUFFICES ASSUME NEW t \in Token, NEW c \in ConnID, c \notin members[t]
                 PROVE  nodes'[<<t, c>>] = EmptyNode
      BY <2>1 DEF AbsentAreEmpty
    <3>1. <<t, c>> \in Slots /\ <<t, c>> # Slot(s)
      BY <1>1, <1>5 DEF Slots
    <3> QED
      BY <2>2, <3>1 DEF TableInv, AbsentAreEmpty
  <2>6. MemberIsHeld'
    <3> SUFFICES ASSUME NEW t \in Token, NEW c \in members[t]
                 PROVE  nodes'[<<t, c>>].sessions # {} \/ nodes'[<<t, c>>].addr # None
      BY <2>1 DEF MemberIsHeld
    <3>1. <<t, c>> \in Slots
      BY <1>2 DEF Slots, TableType
    <3> QED
      BY <1>5, <2>2, <3>1 DEF TableInv, MemberIsHeld
  <2> QED
    BY <2>3, <2>4, <2>5, <2>6 DEF TableInv
<1> QED
  BY <1>3, <1>4, <1>5

(***************************************************************************)
(* removeP2PSession takes its session out of the table and nothing else    *)
(* but, at most, an address of the same slot: sessions of other slots, and *)
(* the other sessions of the slot, stay reachable.                         *)
(***************************************************************************)
LEMMA RemoveEffect ==
  ASSUME NEW s \in Session, TableInv, RegisteredAreOpen, AddrOwnerIsOpen,
         removeP2PSession(s)
  PROVE  /\ \A n \in Slots : nodes'[n].sessions = nodes[n].sessions \ {s}
         /\ \A n \in Slots : nodes'[n].addr # s
                             /\ nodes'[n].addr \in {nodes[n].addr, None}
         /\ \A t \in Token : \A c \in members[t] :
              nodes[<<t, c>>].sessions \ {s} # {} => c \in members'[t]
<1> DEFINE t0 == Tok(s)
           c0 == Cid(s)
           left == nodes[Slot(s)].sessions \ {s}
<1>1. t0 \in Token /\ c0 \in ConnID /\ Slot(s) = <<t0, c0>> /\ Slot(s) \in Slots
      /\ Exchange(s) \in BOOLEAN
  BY SlotType DEF Slot
<1>2. TableType /\ s # None
  BY AuthAssumption DEF TableInv
<1>3. \A n \in Slots : n # Slot(s) => s \notin nodes[n].sessions /\ nodes[n].addr # s
  BY <1>2 DEF RegisteredAreOpen, AddrOwnerIsOpen
<1>4. ~Exchange(s) => nodes[Slot(s)].addr # s
  BY <1>1, <1>2 DEF AddrOwnerIsOpen
<1>5. CASE t0 \notin rooms \/ c0 \notin members[t0]
  <2>1. rooms' = rooms /\ members' = members /\ nodes' = nodes
    BY <1>5 DEF removeP2PSession, roomVars
  <2>2. c0 \notin members[t0]
    BY <1>1, <1>5 DEF TableInv, RoomsHaveMembers
  <2>3. nodes[Slot(s)] = EmptyNode
    BY <1>1, <2>2 DEF TableInv, AbsentAreEmpty
  <2> QED
    BY <1>2, <1>3, <2>1, <2>3 DEF EmptyNode
<1>6. CASE t0 \in rooms /\ c0 \in members[t0] /\ left = {}
  <2>1. /\ members'[t0] = members[t0] \ {c0}
        /\ \A t \in Token : t # t0 => members'[t] = members[t]
        /\ nodes'[Slot(s)] = EmptyNode
        /\ \A n \in Slots : n # Slot(s) => nodes'[n] = nodes[n]
    BY <1>1, <1>2, <1>6 DEF removeP2PSession, TableType
  <2> QED
    BY <1>1, <1>2, <1>3, <1>6, <2>1 DEF EmptyNode
<1>7. CASE t0 \in rooms /\ c0 \in members[t0] /\ left # {}
  <2>1. /\ members' = members
        /\ nodes'[Slot(s)] = [sessions |-> left,
              addr |-> IF Exchange(s) THEN None ELSE nodes[Slot(s)].addr]
        /\ \A n \in Slots : n # Slot(s) => nodes'[n] = nodes[n]
    BY <1>1, <1>2, <1>7 DEF removeP2PSession, TableType
  <2> QED
    BY <1>1, <1>2, <1>3, <1>4, <2>1
<1> QED
  BY <1>5, <1>6, <1>7

-----------------------------------------------------------------------------
(* The inductive invariant *)

(***************************************************************************)
(* A step that leaves the table alone, moves no session past its removal   *)
(* and begins to serve none keeps the invariant.                           *)
(***************************************************************************)
LEMMA QuietStep ==
  ASSUME IInv, TypeOK', OnlyPeersMeet', UNCHANGED roomVars,
         \A x \in Session : WillRemove(x) => WillRemove(x)',
         \A x \in Session : Served(x)' => Served(x)
  PROVE  IInv'
<1>1. rooms' = rooms /\ members' = members /\ nodes' = nodes
  BY DEF roomVars
<1>2. TableInv'
  BY <1>1 DEF IInv, TableInv, TableType, MembersFinite, RoomsAtMostTwo,
              RoomsHaveMembers, AbsentAreEmpty, MemberIsHeld
<1>3. \A n \in Slots : nodes[n] \in Node
  BY DEF IInv, TypeOK
<1>4. RegisteredAreOpen'
  BY <1>1, <1>3 DEF IInv, RegisteredAreOpen, Node
<1>5. AddrOwnerIsOpen'
  BY <1>1 DEF IInv, AddrOwnerIsOpen
<1>6. ServedIsReachable'
  BY <1>1 DEF IInv, ServedIsReachable
<1> QED
  BY <1>2, <1>4, <1>5, <1>6 DEF IInv

\* Initially nobody is in the table.
LEMMA InitInv == Init => IInv
<1> SUFFICES ASSUME Init PROVE IInv
  OBVIOUS
<1>1. EmptyNode \in Node
  BY DEF EmptyNode, Node
<1>2. TypeOK
  BY <1>1 DEF Init, TypeOK, PCs
<1>3. \A t \in Token : members[t] = {}
  BY DEF Init
<1>4. \A n \in Slots : nodes[n] = EmptyNode
  BY DEF Init
<1>5. MembersFinite /\ RoomsAtMostTwo
  BY <1>3, FS_EmptySet DEF MembersFinite, RoomsAtMostTwo
<1>6. RoomsHaveMembers /\ MemberIsHeld
  BY <1>3 DEF Init, RoomsHaveMembers, MemberIsHeld
<1>7. AbsentAreEmpty
  BY <1>4 DEF AbsentAreEmpty, Slots
<1>8. TableInv
  BY <1>2, <1>5, <1>6, <1>7 DEF TableInv, TableType, TypeOK
<1>9. RegisteredAreOpen /\ AddrOwnerIsOpen
  BY <1>4, AuthAssumption DEF RegisteredAreOpen, AddrOwnerIsOpen, EmptyNode
<1>10. ServedIsReachable /\ OnlyPeersMeet
  BY DEF Init, ServedIsReachable, Served, OnlyPeersMeet
<1> QED
  BY <1>2, <1>8, <1>9, <1>10 DEF IInv

(***************************************************************************)
(* serverAuthSession registers only a session that has its removal ahead.  *)
(***************************************************************************)
LEMMA AuthStep ==
  ASSUME NEW s \in Session, IInv, AuthP2P(s)
  PROVE  IInv'
<1>1. TypeOK /\ TableInv /\ TableType
  BY DEF IInv, TableInv
<1>2. addP2PSession(s) /\ pc[s] = "auth"
  BY DEF AuthP2P, Goto
<1>3. TableInv'
  BY <1>1, <1>2, AddKeepsTable
<1>4. TypeOK'
  BY <1>1, <1>3 DEF TypeOK, TableInv, TableType, AuthP2P, Goto, PCs, tunVars
<1>5. \A x \in Session : WillRemove(x) => WillRemove(x)'
  BY <1>1 DEF TypeOK, AuthP2P, Goto, WillRemove
<1>6. Admitted(s) => WillRemove(s)'
  BY <1>1, SlotType DEF TypeOK, AuthP2P, Goto, WillRemove
<1>7. \A n \in Slots : nodes[n] \in Node
  BY <1>1 DEF TypeOK
<1>8. RegisteredAreOpen'
  <2> SUFFICES ASSUME NEW n \in Slots, NEW x \in nodes'[n].sessions
               PROVE  Slot(x) = n /\ ~Exchange(x) /\ WillRemove(x)'
    BY DEF RegisteredAreOpen
  <2>1. \/ x \in nodes[n].sessions
        \/ x = s /\ n = Slot(s) /\ ~Exchange(s) /\ Admitted(s)
    BY <1>1, <1>2, AddEffect
  <2> QED
    BY <1>5, <1>6, <1>7, <2>1 DEF IInv, RegisteredAreOpen, Node
<1>9. AddrOwnerIsOpen'
  <2> SUFFICES ASSUME NEW n \in Slots, NEW x \in Session, nodes'[n].addr = x
               PROVE  Slot(x) = n /\ Exchange(x) /\ WillRemove(x)'
    BY DEF AddrOwnerIsOpen
  <2>1. \/ nodes'[n].addr = nodes[n].addr
        \/ nodes'[n].addr = s /\ n = Slot(s) /\ Exchange(s) /\ Admitted(s)
    BY <1>1, <1>2, AddEffect
  <2> QED
    BY <1>5, <1>6, <2>1 DEF IInv, AddrOwnerIsOpen
<1>10. ServedIsReachable'
  <2> SUFFICES ASSUME NEW x \in Session, Served(x)'
               PROVE  Cid(x) \in members'[Tok(x)] /\ x \in nodes'[Slot(x)].sessions
    BY DEF ServedIsReachable
  <2>1. CASE x = s
    <3>1. Admitted(s) /\ ~Exchange(s)
      BY <1>1, <2>1 DEF TypeOK, AuthP2P, Goto, Served
    <3> QED
      BY <1>1, <1>2, <2>1, <3>1, AddEffect
  <2>2. CASE x # s
    <3>1. Served(x)
      BY <1>1, <2>2 DEF TypeOK, AuthP2P, Goto, Served
    <3>2. Cid(x) \in members[Tok(x)] /\ x \in nodes[Slot(x)].sessions
      BY <3>1 DEF IInv, ServedIsReachable
    <3> QED
      BY <1>1, <1>2, <3>2, SlotType, AddEffect
  <2> QED
    BY <2>1, <2>2
<1>11. OnlyPeersMeet'
  BY DEF IInv, OnlyPeersMeet, AuthP2P, tunVars
<1> QED
  BY <1>3, <1>4, <1>8, <1>9, <1>10, <1>11 DEF IInv

(***************************************************************************)
(* ctx.close(), run by the session's goroutine or by the reaper: removing  *)
(* the session of one context leaves the other sessions where they are.    *)
(***************************************************************************)
LEMMA RemoveStep ==
  ASSUME NEW s \in Session, IInv, TypeOK', OnlyPeersMeet',
         removeP2PSession(s),
         \A x \in Session \ {s} : WillRemove(x) => WillRemove(x)',
         \A x \in Session : Served(x)' => x # s /\ Served(x)
  PROVE  IInv'
<1>1. TableInv /\ RegisteredAreOpen /\ AddrOwnerIsOpen
  BY DEF IInv
<1>2. TableInv'
  BY <1>1, RemoveKeepsTable
<1>3. /\ \A n \in Slots : nodes'[n].sessions = nodes[n].sessions \ {s}
      /\ \A n \in Slots : nodes'[n].addr # s
                          /\ nodes'[n].addr \in {nodes[n].addr, None}
      /\ \A t \in Token : \A c \in members[t] :
           nodes[<<t, c>>].sessions \ {s} # {} => c \in members'[t]
  BY <1>1, RemoveEffect
<1>4. \A n \in Slots : nodes[n] \in Node
  BY DEF IInv, TypeOK
<1>5. RegisteredAreOpen'
  BY <1>1, <1>3, <1>4 DEF RegisteredAreOpen, Node
<1>6. AddrOwnerIsOpen'
  <2> SUFFICES ASSUME NEW n \in Slots, NEW x \in Session, nodes'[n].addr = x
               PROVE  Slot(x) = n /\ Exchange(x) /\ WillRemove(x)'
    BY DEF AddrOwnerIsOpen
  <2>1. nodes[n].addr = x /\ x # s
    BY <1>3, AuthAssumption
  <2> QED
    BY <1>1, <2>1 DEF AddrOwnerIsOpen
<1>7. ServedIsReachable'
  <2> SUFFICES ASSUME NEW x \in Session, Served(x)'
               PROVE  Cid(x) \in members'[Tok(x)] /\ x \in nodes'[Slot(x)].sessions
    BY DEF ServedIsReachable
  <2>1. x # s /\ Cid(x) \in members[Tok(x)] /\ x \in nodes[Slot(x)].sessions
    BY DEF IInv, ServedIsReachable
  <2>2. Tok(x) \in Token /\ Slot(x) = <<Tok(x), Cid(x)>> /\ Slot(x) \in Slots
    BY SlotType DEF Slot
  <2> QED
    BY <1>3, <2>1, <2>2
<1> QED
  BY <1>2, <1>5, <1>6, <1>7 DEF IInv

\* Every step of the server and of its clients keeps the invariant.
LEMMA NextInv == IInv /\ [Next]_vars => IInv'
<1> SUFFICES ASSUME IInv, [Next]_vars PROVE IInv'
  OBVIOUS
<1>1. TypeOK
  BY DEF IInv
<1>2. \A n \in Slots : nodes[n] \in Node
  BY <1>1 DEF TypeOK
<1>3. \A t \in Token, c \in ConnID : <<t, c>> \in Slots
  BY DEF Slots
<1>4. CASE UNCHANGED vars
  BY <1>1, <1>4, QuietStep
  DEF vars, roomVars, IInv, TypeOK, OnlyPeersMeet, WillRemove, Served
<1>5. CASE Next
  <2> SUFFICES ASSUME NEW s \in Session,
                      \/ Connect(s) \/ AuthP2P(s) \/ AuthRefused(s)
                      \/ AcceptP2PStream(s) \/ AnswerExchange(s)
                      \/ ListAsEmpty(s) \/ AcceptFails(s)
                      \/ CloseRemove(s) \/ CloseConn(s)
                      \/ OpenPeerStream(s) \/ Drop(s)
                      \/ \E p \in Session : EndTunnel(s, p)
                      \/ ReaperRemove(s) \/ ReaperCloseConn(s)
               PROVE  IInv'
    BY <1>5 DEF Next
  <2>1. CASE Connect(s)
    <3>1. TypeOK' /\ OnlyPeersMeet'
      BY <1>1, <2>1 DEF Connect, Goto, TypeOK, PCs, roomVars, tunVars, IInv,
                        OnlyPeersMeet
    <3> QED
      BY <1>1, <2>1, <3>1, QuietStep
      DEF Connect, Goto, TypeOK, WillRemove, Served
  <2>2. CASE AuthP2P(s)
    BY <2>2, AuthStep
  <2>3. CASE AuthRefused(s)
    <3>1. TypeOK' /\ OnlyPeersMeet'
      BY <1>1, <2>3 DEF AuthRefused, Goto, TypeOK, PCs, roomVars, tunVars, IInv,
                        OnlyPeersMeet
    <3> QED
      BY <1>1, <2>3, <3>1, QuietStep
      DEF AuthRefused, Goto, TypeOK, WillRemove, Served
  <2>4. CASE AcceptP2PStream(s)
    <3>1. TypeOK' /\ OnlyPeersMeet'
      BY <1>1, <2>4 DEF AcceptP2PStream, Goto, TypeOK, PCs, roomVars, ctxVars,
                        IInv, OnlyPeersMeet
    <3> QED
      BY <1>1, <2>4, <3>1, QuietStep
      DEF AcceptP2PStream, Goto, TypeOK, ctxVars, WillRemove, Served
  <2>5. CASE AnswerExchange(s)
    <3>1. PICK a \in PeerAddrs(s) : learned' = [learned EXCEPT ![s] = a]
      BY <2>5 DEF AnswerExchange
    <3>2. a \in Session \cup {None} /\ (a # None => Peers(s, a))
      <4>1. CASE a = None
        BY <4>1
      <4>2. CASE a # None
        <5>1. PICK c \in members[Tok(s)] \ {Cid(s)} : a = nodes[<<Tok(s), c>>].addr
          BY <3>1, <4>2 DEF PeerAddrs
        <5>2. c \in ConnID /\ <<Tok(s), c>> \in Slots
          BY <1>1, <1>3, SlotType DEF TypeOK
        <5>3. a \in Session
          BY <1>2, <4>2, <5>1, <5>2 DEF Node
        <5>4. Slot(a) = <<Tok(s), c>>
          BY <5>1, <5>2, <5>3 DEF IInv, AddrOwnerIsOpen
        <5> QED
          BY <5>1, <5>3, <5>4 DEF Slot, Peers
      <4> QED
        BY <4>1, <4>2
    <3>3. TypeOK'
      BY <1>1, <2>5, <3>1, <3>2
      DEF AnswerExchange, Goto, TypeOK, PCs, roomVars, tunVars
    <3>4. OnlyPeersMeet'
      BY <1>1, <2>5, <3>1, <3>2
      DEF AnswerExchange, TypeOK, tunVars, IInv, OnlyPeersMeet
    <3> QED
      BY <1>1, <2>5, <3>3, <3>4, QuietStep
      DEF AnswerExchange, Goto, TypeOK, WillRemove, Served
  <2>6. CASE ListAsEmpty(s)
    <3>1. TypeOK' /\ OnlyPeersMeet'
      BY <1>1, <2>6 DEF ListAsEmpty, Goto, TypeOK, PCs, roomVars, tunVars, IInv,
                        OnlyPeersMeet
    <3> QED
      BY <1>1, <2>6, <3>1, QuietStep
      DEF ListAsEmpty, Goto, TypeOK, WillRemove, Served
  <2>7. CASE AcceptFails(s)
    <3>1. TypeOK' /\ OnlyPeersMeet'
      BY <1>1, <2>7 DEF AcceptFails, TypeOK, PCs, roomVars, ctxVars, tunVars, IInv,
                        OnlyPeersMeet
    <3> QED
      BY <1>1, <2>7, <3>1, QuietStep
      DEF AcceptFails, TypeOK, ctxVars, WillRemove, Served
  <2>8. CASE CloseRemove(s)
    <3>1. OnlyPeersMeet'
      BY <2>8 DEF CloseRemove, ctxVars, tunVars, IInv, OnlyPeersMeet
    <3>2. CASE isP2P[s]
      <4>1. removeP2PSession(s)
        BY <2>8, <3>2 DEF CloseRemove
      <4>2. TableType'
        BY <4>1, RemoveKeepsTable DEF IInv, TableInv
      <4>3. TypeOK'
        BY <1>1, <2>8, <4>2
        DEF CloseRemove, Goto, TypeOK, TableType, PCs, ctxVars, tunVars
      <4> QED
        BY <1>1, <2>8, <3>1, <4>1, <4>3, RemoveStep
        DEF CloseRemove, Goto, TypeOK, ctxVars, WillRemove, Served
    <3>3. CASE ~isP2P[s]
      <4>1. TypeOK'
        BY <1>1, <2>8, <3>3
        DEF CloseRemove, Goto, TypeOK, PCs, roomVars, ctxVars, tunVars
      <4> QED
        BY <1>1, <2>8, <3>1, <3>3, <4>1, QuietStep
        DEF CloseRemove, Goto, TypeOK, ctxVars, WillRemove, Served
    <3> QED
      BY <3>2, <3>3
  <2>9. CASE CloseConn(s)
    <3>1. TypeOK' /\ OnlyPeersMeet'
      BY <1>1, <2>9 DEF CloseConn, Goto, TypeOK, PCs, roomVars, tunVars, IInv,
                        OnlyPeersMeet
    <3> QED
      BY <1>1, <2>9, <3>1, QuietStep
      DEF CloseConn, Goto, TypeOK, WillRemove, Served
  <2>10. CASE OpenPeerStream(s)
    <3>1. \A p \in PeerSessions(s) : p \in Session /\ Peers(s, p)
      <4> SUFFICES ASSUME NEW p \in PeerSessions(s)
                   PROVE  p \in Session /\ Peers(s, p)
        OBVIOUS
      <4>1. PICK c \in members[Tok(s)] \ {Cid(s)} : p \in nodes[<<Tok(s), c>>].sessions
        BY DEF PeerSessions
      <4>2. <<Tok(s), c>> \in Slots
        BY <1>1, <1>3, SlotType DEF TypeOK
      <4>3. p \in Session /\ Slot(p) = <<Tok(s), c>>
        BY <1>2, <4>1, <4>2 DEF IInv, RegisteredAreOpen, Node
      <4> QED
        BY <4>1, <4>3 DEF Slot, Peers
    <3>2. /\ tunnels' \subseteq Session \X Session
          /\ \A tn \in tunnels' : Peers(tn[1], tn[2])
      <4>1. \/ tunnels' = tunnels
            \/ \E p \in PeerSessions(s) : tunnels' = tunnels \cup {<<s, p>>}
        BY <2>10 DEF OpenPeerStream
      <4> QED
        BY <1>1, <3>1, <4>1 DEF TypeOK, IInv, OnlyPeersMeet
    <3>3. TypeOK' /\ OnlyPeersMeet'
      BY <1>1, <2>10, <3>2 DEF OpenPeerStream, TypeOK, roomVars, ctxVars, IInv,
                               OnlyPeersMeet
    <3> QED
      BY <1>1, <2>10, <3>3, QuietStep
      DEF OpenPeerStream, TypeOK, ctxVars, WillRemove, Served
  <2>11. CASE Drop(s)
    <3>1. TypeOK' /\ OnlyPeersMeet'
      BY <1>1, <2>11 DEF Drop, TypeOK, roomVars, tunVars, IInv, OnlyPeersMeet
    <3> QED
      BY <1>1, <2>11, <3>1, QuietStep DEF Drop, TypeOK, WillRemove, Served
  <2>12. CASE \E p \in Session : EndTunnel(s, p)
    <3>1. TypeOK' /\ OnlyPeersMeet'
      BY <1>1, <2>12 DEF EndTunnel, TypeOK, roomVars, ctxVars, IInv, OnlyPeersMeet
    <3> QED
      BY <1>1, <2>12, <3>1, QuietStep
      DEF EndTunnel, TypeOK, ctxVars, WillRemove, Served
  <2>13. CASE ReaperRemove(s)
    <3>1. OnlyPeersMeet'
      BY <2>13 DEF ReaperRemove, ctxVars, tunVars, IInv, OnlyPeersMeet
    <3>2. CASE isP2P[s]
      <4>1. removeP2PSession(s)
        BY <2>13, <3>2 DEF ReaperRemove
      <4>2. TableType'
        BY <4>1, RemoveKeepsTable DEF IInv, TableInv
      <4>3. TypeOK'
        BY <1>1, <2>13, <4>2
        DEF ReaperRemove, TypeOK, TableType, ctxVars, tunVars
      <4> QED
        BY <1>1, <2>13, <3>1, <4>1, <4>3, RemoveStep
        DEF ReaperRemove, TypeOK, ctxVars, WillRemove, Served
    <3>3. CASE ~isP2P[s]
      <4>1. TypeOK'
        BY <1>1, <2>13, <3>3
        DEF ReaperRemove, TypeOK, roomVars, ctxVars, tunVars
      <4> QED
        BY <1>1, <2>13, <3>1, <3>3, <4>1, QuietStep
        DEF ReaperRemove, TypeOK, ctxVars, WillRemove, Served
    <3> QED
      BY <3>2, <3>3
  <2>14. CASE ReaperCloseConn(s)
    <3>1. TypeOK' /\ OnlyPeersMeet'
      BY <1>1, <2>14 DEF ReaperCloseConn, TypeOK, roomVars, tunVars, IInv,
                         OnlyPeersMeet
    <3> QED
      BY <1>1, <2>14, <3>1, QuietStep
      DEF ReaperCloseConn, TypeOK, WillRemove, Served
  <2> QED
    BY <2>1, <2>2, <2>3, <2>4, <2>5, <2>6, <2>7, <2>8, <2>9, <2>10, <2>11,
       <2>12, <2>13, <2>14
<1> QED
  BY <1>4, <1>5

-----------------------------------------------------------------------------
(* The theorems *)

(***************************************************************************)
(* The inductive invariant holds in every reachable state.                 *)
(***************************************************************************)
THEOREM Invariance == Spec => []IInv
BY InitInv, NextInv, PTL DEF Spec

(***************************************************************************)
(* Type correctness: what the table, the contexts and the tunnels hold, in *)
(* particular that getPeerAddr answers with an address or with nothing.    *)
(***************************************************************************)
THEOREM TypeCorrect == Spec => []TypeOK
<1>1. IInv => TypeOK
  BY DEF IInv
<1> QED
  BY <1>1, Invariance, PTL

(***************************************************************************)
(* The size check of addP2PSession bounds every room by two members.       *)
(***************************************************************************)
THEOREM RoomLimit == Spec => []RoomsAtMostTwo
<1>1. IInv => RoomsAtMostTwo
  BY DEF IInv, TableInv
<1> QED
  BY <1>1, Invariance, PTL

(***************************************************************************)
(* p2pSessionTable holds exactly the rooms that have a member, although a  *)
(* room is made before the size check refuses its client.                  *)
(***************************************************************************)
THEOREM NoEmptyRooms == Spec => []RoomsHaveMembers
<1>1. IInv => RoomsHaveMembers
  BY DEF IInv, TableInv
<1> QED
  BY <1>1, Invariance, PTL

(***************************************************************************)
(* Every member of a room has a session whose goroutine will still run     *)
(* removeP2PSession: no slot of a room is lost.                            *)
(***************************************************************************)
THEOREM NoLostSlot == Spec => []SlotHasOwner
<1>1. IInv => SlotHasOwner
  <2> SUFFICES ASSUME IInv, NEW t \in Token, NEW c \in members[t]
               PROVE  \E s \in Session : Slot(s) = <<t, c>> /\ WillRemove(s)
    BY DEF SlotHasOwner
  <2>1. <<t, c>> \in Slots /\ nodes[<<t, c>>] \in Node
    BY DEF IInv, TypeOK, Slots
  <2>2. nodes[<<t, c>>].sessions # {} \/ nodes[<<t, c>>].addr # None
    BY DEF IInv, TableInv, MemberIsHeld
  <2> QED
    BY <2>1, <2>2 DEF IInv, RegisteredAreOpen, AddrOwnerIsOpen, Node
<1> QED
  BY <1>1, Invariance, PTL

(***************************************************************************)
(* A served session stays reachable for its peer, whatever other sessions, *)
(* the exchange and the reaper do.                                         *)
(***************************************************************************)
THEOREM Reachability == Spec => []ServedIsReachable
<1>1. IInv => ServedIsReachable
  BY DEF IInv
<1> QED
  BY <1>1, Invariance, PTL

(***************************************************************************)
(* What is registered or published belongs to a session of that slot that  *)
(* is still to be closed.                                                  *)
(***************************************************************************)
THEOREM NothingStale == Spec => []TableIsFresh
<1>1. IInv => TableIsFresh
  BY DEF IInv, TableIsFresh
<1> QED
  BY <1>1, Invariance, PTL

(***************************************************************************)
(* Streams are joined and addresses exchanged between the two different    *)
(* clients of one room only.                                               *)
(***************************************************************************)
THEOREM Separation == Spec => []OnlyPeersMeet
<1>1. IInv => OnlyPeersMeet
  BY DEF IInv
<1> QED
  BY <1>1, Invariance, PTL

=============================================================================
