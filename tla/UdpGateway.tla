----------------------------- MODULE UdpGateway -----------------------------
(***************************************************************************)
(* The UDP gateway of udpgw.go.  Connections from tun2socks carry packets  *)
(* with a connection id; a session per id forwards them through one mux    *)
(* stream and is dropped when it has not been used for 30 seconds.         *)
(*                                                                         *)
(* The table and the ordered set of last uses are two structures.  Readers *)
(* and the expiry take udpSessionMutex, handlers, closers and the copiers  *)
(* use the fields of a session without it, so each access of theirs is an  *)
(* action.  A session is named by the packet that made it, a stream by the *)
(* packet whose handler opened it.                                         *)
(***************************************************************************)
EXTENDS Integers, FiniteSets, SequencesExt

CONSTANTS
  Packet,       \* packets with content, in the order in which they may arrive
  ConID,        \* connection ids
  Con,          \* the conid of each packet
  Conn,         \* the gateway connection each packet comes from
  Direct,       \* packets to port 53 whose dns request is not proxied
  ExpireBatch,  \* sessions dropped per tick of the expiry, 5 in the code
  None

ASSUME GatewayAssumption ==
  /\ Con \in [Packet -> ConID]
  /\ DOMAIN Conn = Packet
  /\ Direct \subseteq Packet
  /\ ExpireBatch \in Nat \ {0}
  /\ None \notin Packet

VARIABLES
  table,     \* udpSessionTable
  idSet,     \* udpSessionIdSet, the sessions in the order of their activeTime
  aged,      \* how many entries of idSet are 30 seconds old
  pc, ses,   \* where the goroutine of each packet is, and its session
  stream,    \* u.stream with its streamReader and streamWriter
  copier,    \* the goroutine that copies replies of each stream
  stopping,  \* progress of closeAllUDPSession
  panicked   \* the process is dead

vars == <<table, idSet, aged, pc, ses, stream, copier, stopping, panicked>>

(* The program starts without sessions.                                    *)
Init ==
  /\ table = [c \in ConID |-> None]
  /\ idSet = <<>> /\ aged = 0
  /\ pc = [p \in Packet |-> "new"]
  /\ ses = [p \in Packet |-> None]
  /\ stream = [u \in Packet |-> None]
  /\ copier = [p \in Packet |-> "off"]
  /\ stopping = "no"
  /\ panicked = FALSE

Goto(p, l) == pc' = [pc EXCEPT ![p] = l]

(* A nil dereference ends the process with all its state.                  *)
Panic ==
  /\ panicked' = TRUE
  /\ table' = [c \in ConID |-> None]
  /\ idSet' = <<>> /\ aged' = 0
  /\ pc' = [p \in Packet |-> "done"]
  /\ ses' = [p \in Packet |-> None]
  /\ stream' = [u \in Packet |-> None]
  /\ copier' = [p \in Packet |-> "off"]
  /\ stopping' = "yes"
-----------------------------------------------------------------------------
(* updateUdpSession, with remove and without: session u leaves the ordered *)
(* set or moves to its end.                                                *)
Forget(u) ==
  /\ idSet' = RemoveFirst(idSet, u)
  /\ aged' = IF \E i \in 1 .. aged : idSet[i] = u THEN aged - 1 ELSE aged

Refresh(u) ==
  /\ idSet' = Append(RemoveFirst(idSet, u), u)
  /\ aged' = IF \E i \in 1 .. aged : idSet[i] = u THEN aged - 1 ELSE aged

(* closeStream for the sessions in set U.                                  *)
CloseStreams(U) ==
  stream' = [u \in Packet |-> IF u \in U THEN None ELSE stream[u]]

(* Handlers that are about to run closeStream on u.  Two closers may both  *)
(* pass its nil test, and the second one then uses a nil stream.           *)
Closers(u) ==
  {q \in Packet : \/ pc[q] = "close" /\ ses[q] = u
                  \/ pc[q] = "remove" /\ table[Con[q]] = u}
-----------------------------------------------------------------------------
(* handleUDPGatewayConn reads the next packet of its connection and looks  *)
(* its session up, or makes one.                                           *)
GetUDPSession(p) ==
  /\ pc[p] = "new"
  /\ \A q \in Packet : Conn[q] = Conn[p] => pc[q] # "update"
  /\ LET u == IF table[Con[p]] = None THEN p ELSE table[Con[p]]
     IN  /\ table' = [table EXCEPT ![Con[p]] = u]
         /\ ses' = [ses EXCEPT ![p] = u]
  /\ Goto(p, "update")
  /\ UNCHANGED <<idSet, aged, stream, copier, stopping, panicked>>

(* Seeded fault: the reader takes the session out of the ordered set.      *)
UpdateUdpSession_Remove(p) ==
  /\ pc[p] = "update"
  /\ Forget(ses[p])
  /\ Goto(p, "start")
  /\ UNCHANGED <<table, ses, stream, copier, stopping, panicked>>

(* The reader stamps the session and starts handlePacket.                  *)
UpdateUdpSession(p) ==
  /\ pc[p] = "update"
  /\ Refresh(ses[p])
  /\ Goto(p, "start")
  /\ UNCHANGED <<table, ses, stream, copier, stopping, panicked>>

(* handlePacket up to its first use of a stream.  A packet that is not to  *)
(* port 53 may have no proxy.                                              *)
HandlePacket(p) ==
  /\ pc[p] = "start"
  /\ \/ stream[ses[p]] # None /\ Goto(p, "write")
     \/ stream[ses[p]] = None /\ p \in Direct /\ Goto(p, "dns")
     \/ stream[ses[p]] = None /\ p \notin Direct
        /\ \E l \in {"open", "done"} : Goto(p, l)
  /\ UNCHANGED <<table, idSet, aged, ses, stream, copier, stopping, panicked>>

(* u.streamWriter.Write, which reads the field again.                      *)
WriteStream(p) ==
  /\ pc[p] = "write"
  /\ IF stream[ses[p]] = None
       THEN Panic
       ELSE /\ Goto(p, "done")
            /\ UNCHANGED <<table, idSet, aged, ses, stream, copier, stopping, panicked>>

(* QueryRaw and the reply to the gateway connection; errors are logged.    *)
QueryRaw(p) ==
  /\ pc[p] = "dns"
  /\ Goto(p, "close")
  /\ UNCHANGED <<table, idSet, aged, ses, stream, copier, stopping, panicked>>

(* udpSession.close of a direct query: its own stream, whatever session    *)
(* the table has for the id, and the place in the ordered set.             *)
CloseOwn(p) ==
  /\ pc[p] = "close"
  /\ CloseStreams({ses[p]})
  /\ Goto(p, "remove")
  /\ UNCHANGED <<table, idSet, aged, ses, copier, stopping, panicked>>

RemoveUdpSession(p) ==
  /\ pc[p] = "remove"
  /\ IF table[Con[p]] = None
       THEN Goto(p, "forget") /\ UNCHANGED stream
       ELSE Goto(p, "delete") /\ CloseStreams({table[Con[p]]})
  /\ UNCHANGED <<table, idSet, aged, ses, copier, stopping, panicked>>

DeleteEntry(p) ==
  /\ pc[p] = "delete"
  /\ table' = [table EXCEPT ![Con[p]] = None]
  /\ Goto(p, "forget")
  /\ UNCHANGED <<idSet, aged, ses, stream, copier, stopping, panicked>>

ForgetSession(p) ==
  /\ pc[p] = "forget"
  /\ Forget(ses[p])
  /\ Goto(p, "done")
  /\ UNCHANGED <<table, ses, stream, copier, stopping, panicked>>

(* Two closers of one session at once.                                     *)
CloseRace(p) ==
  /\ pc[p] \in {"close", "remove"}
  /\ \E u \in Packet : /\ p \in Closers(u) /\ stream[u] # None
                       /\ Closers(u) # {p}
  /\ Panic

(* GetMuxStreamByChannel and Connect.  An unknown channel has no           *)
(* configuration, which is used all the same; a stream whose Connect fails *)
(* is not closed.                                                          *)
OpenStream(p) ==
  /\ pc[p] = "open"
  /\ \/ Panic
     \/ /\ Goto(p, "done") \/ Goto(p, "attach")
        /\ UNCHANGED <<table, idSet, aged, ses, stream, copier, stopping, panicked>>

(* The stream becomes the session's, also over that of another handler,    *)
(* and gets its copier.                                                    *)
Attach(p) ==
  /\ pc[p] = "attach"
  /\ stream' = [stream EXCEPT ![ses[p]] = p]
  /\ copier' = [copier EXCEPT ![p] = "top"]
  /\ Goto(p, "write")
  /\ UNCHANGED <<table, idSet, aged, ses, stopping, panicked>>

(* The copier loads u.streamReader in every round.                         *)
CopierLoad(p) ==
  /\ copier[p] = "top"
  /\ IF stream[ses[p]] = None
       THEN Panic
       ELSE /\ copier' = [copier EXCEPT ![p] = "read"]
            /\ UNCHANGED <<table, idSet, aged, pc, ses, stream, stopping, panicked>>

(* A reply is passed on, or the read or the write fails.                   *)
CopierRead(p) ==
  /\ copier[p] = "read"
  /\ \E l \in {"top", "off"} : copier' = [copier EXCEPT ![p] = l]
  /\ UNCHANGED <<table, idSet, aged, pc, ses, stream, stopping, panicked>>
-----------------------------------------------------------------------------
(* Time passes: the longest unused session becomes 30 seconds old.         *)
Age ==
  /\ aged < Len(idSet)
  /\ aged' = aged + 1
  /\ UNCHANGED <<table, idSet, pc, ses, stream, copier, stopping, panicked>>

(* The entries that one tick takes out of the ordered set, oldest first.   *)
Due == IF aged < ExpireBatch THEN aged ELSE ExpireBatch

Expired == {idSet[i] : i \in 1 .. Due}

(* Seeded fault: removeUdpSession looks at the wrong key.                  *)
Expire_KeepTable ==
  /\ aged > 0
  /\ idSet' = SubSeq(idSet, Due + 1, Len(idSet))
  /\ aged' = aged - Due
  /\ CloseStreams(Expired)
  /\ UNCHANGED <<table, pc, ses, copier, stopping, panicked>>

(* One tick of expireUdpSessions.  The table's session with the id goes,   *)
(* whether or not it is the one whose entry has expired.                   *)
Expire ==
  /\ aged > 0
  /\ LET ids == {Con[u] : u \in Expired}
     IN  /\ table' = [c \in ConID |-> IF c \in ids THEN None ELSE table[c]]
         /\ CloseStreams({table[c] : c \in ids} \ {None})
  /\ idSet' = SubSeq(idSet, Due + 1, Len(idSet))
  /\ aged' = aged - Due
  /\ UNCHANGED <<pc, ses, copier, stopping, panicked>>

ExpireRace ==
  /\ \E u \in Packet : /\ u \in {table[Con[x]] : x \in Expired}
                       /\ stream[u] # None /\ Closers(u) # {}
  /\ Panic

(* closeAllUDPSession, which holds no lock: the streams first, then a new  *)
(* table.  The ordered set keeps its entries.                              *)
CloseAll ==
  /\ stopping = "no"
  /\ CloseStreams({table[c] : c \in ConID} \ {None})
  /\ stopping' = "range"
  /\ UNCHANGED <<table, idSet, aged, pc, ses, copier, panicked>>

ResetTable ==
  /\ stopping = "range"
  /\ table' = [c \in ConID |-> None]
  /\ stopping' = "yes"
  /\ UNCHANGED <<idSet, aged, pc, ses, stream, copier, panicked>>
-----------------------------------------------------------------------------
Handle(p) ==
  \/ UpdateUdpSession(p) \/ HandlePacket(p) \/ WriteStream(p)
  \/ QueryRaw(p) \/ CloseOwn(p) \/ RemoveUdpSession(p) \/ DeleteEntry(p)
  \/ ForgetSession(p) \/ CloseRace(p) \/ OpenStream(p) \/ Attach(p)

Next ==
  \/ \E p \in Packet : \/ GetUDPSession(p) \/ Handle(p)
                       \/ CopierLoad(p) \/ CopierRead(p)
  \/ Age \/ Expire \/ ExpireRace \/ CloseAll \/ ResetTable

(* Goroutines that can run do, time passes and the ticker fires.  Nothing  *)
(* makes packets or replies come.                                          *)
Fairness ==
  /\ \A p \in Packet : WF_vars(Handle(p))
  /\ WF_vars(Age) /\ WF_vars(Expire)

Spec == Init /\ [][Next]_vars /\ Fairness
-----------------------------------------------------------------------------
Tracked == {idSet[i] : i \in DOMAIN idSet}

(* A session in the table has an entry in the ordered set, or the reader   *)
(* that just took it from the table will make one: closes by handlers, the *)
(* expiry and closeAllUDPSession, in any order, leave none in the table    *)
(* that the expiry would never find.                                       *)
TableTracked ==
  \A c \in ConID : table[c] # None =>
    \/ table[c] \in Tracked
    \/ \E p \in Packet : pc[p] = "update" /\ ses[p] = table[c]

(* Once packets stop coming, expireUdpSessions forgets everything: table   *)
(* and ordered set become empty and stay so.                               *)
Forgotten ==
  <>[](idSet = <<>> /\ \A c \in ConID : table[c] = None)
=============================================================================
