----------------------------- MODULE LocalProxy -----------------------------
(***************************************************************************)
(* One connection of the local proxy (serveProxyConn of                    *)
(* local/local_server.go): the SOCKS handshake of module Socks, the        *)
(* sniffing of TLS and HTTP on whatever else arrives, the choice of a      *)
(* stream, and the two copying goroutines; with the accept loop and        *)
(* stopLocalServers.                                                       *)
(*                                                                         *)
(* A stream is an open, ended or closed end of a mux stream; what it got   *)
(* is the sequence of payload numbers.  The proxy's MITM and HTTPDump      *)
(* options are off.                                                        *)
(***************************************************************************)
EXTENDS Socks

CONSTANTS
  Compressors, \* the channel's Compressor: "none" or "snappy"
  MaxPass      \* bound: streams that one connection opens

ASSUME ProxyAssumption == MaxPass \in Nat \ {0}

VARIABLES
  comp,      \* the compressor of the chosen channel
  pc,        \* where serveProxyConn is
  shadow,    \* a descriptor of the connection is left to the garbage collector
  host,      \* remoteHost
  flags,     \* which of isSocksProxy, isHttpsProxy, isTransparentProxy hold
  ireq,      \* initialHTTPReq
  preq,      \* proxyReq
  n,         \* the current pass through START
  st,        \* the stream of each pass
  up,        \* what was written to it, as payload numbers
  copier,    \* the goroutine that copies from it
  count,     \* runningProxyStreamCount
  active,    \* activeStreams, by pass
  stop,      \* stopLocalServers: no, range, over
  pending    \* the contexts its Range has still to visit

hsVars    == <<hs, target>>
reqVars   == <<ireq, preq>>
connVars  == <<comp, shadow>>
serveVars == <<connVars, pc, host, flags, ireq, preq, n, st, up, copier, count>>
stopVars  == <<active, stop, pending>>
proxyVars == <<socksVars, serveVars, stopVars>>

Passes == 1 .. MaxPass

NoReq == [h |-> None, x |-> 0]

ProxyInit ==
  /\ SocksInit
  /\ comp \in Compressors
  /\ pc = "accept" /\ shadow = FALSE /\ host = None /\ flags = {}
  /\ ireq = NoReq /\ preq = NoReq
  /\ n = 0 /\ st = [i \in Passes |-> "none"] /\ up = [i \in Passes |-> <<>>]
  /\ copier = [i \in Passes |-> "none"]
  /\ count = 0 /\ active = {} /\ stop = "no" /\ pending = {}

Goto(l) == pc' = l

(* The deferred calls of serveProxyConn.                                   *)
Return ==
  /\ Goto("done")
  /\ lclosed' = TRUE
  /\ st' = [i \in Passes |-> IF st[i] = "none" THEN "none" ELSE "closed"]
  /\ count' = count - 1

Stay == UNCHANGED <<lclosed, st, count>>
-----------------------------------------------------------------------------
(* The accept loop.  A proxy with Forward sends every connection to one    *)
(* host.  A redirected connection comes with its original address, found   *)
(* through a second descriptor, whose connection replaces the accepted one *)
(* and which nobody closes.                                                *)
Accept ==
  /\ pc = "accept" /\ stop = "no"
  /\ count' = count + 1
  /\ shadow' = (kind = "tproxy")
  /\ IF kind \in {"tproxy", "forward"}
       THEN /\ host' = (IF kind = "tproxy" THEN Addr ELSE Name)
            /\ flags' = {"transparent"} /\ hs' = hs /\ Goto("sniff")
       ELSE hs' = "peek" /\ Goto("socks") /\ UNCHANGED <<host, flags>>
  /\ UNCHANGED <<clientVars, net, buf, lclosed, replies, target, comp, reqVars, n, st,
                 up, copier, stopVars>>

(* Without an original address the connection is dropped: closed, or left  *)
(* to the garbage collector when there is no second descriptor.            *)
AcceptNoAddr ==
  /\ pc = "accept" /\ stop = "no" /\ kind = "tproxy"
  /\ Goto("dropped") /\ lclosed' = TRUE /\ shadow' \in BOOLEAN
  /\ UNCHANGED <<clientVars, net, buf, replies, hsVars, comp, host, flags, reqVars,
                 n, st, up, copier, count, stopVars>>

CollectFile ==
  /\ shadow /\ shadow' = FALSE
  /\ UNCHANGED <<socksVars, comp, pc, host, flags, reqVars, n, st, up, copier, count,
                 stopVars>>

(* The handshake is over: granted at once, before any stream is open, and  *)
(* with a new reader on the connection.                                    *)
SocksGranted ==
  /\ pc = "socks" /\ hs = "ok"
  /\ replies' = Append(replies, "granted") /\ buf' = <<>> /\ hs' = "granted"
  /\ flags' = {"socks"} /\ host' = target
  /\ Goto(IF target = UdpGw THEN "udpgw" ELSE "sniff")
  /\ UNCHANGED <<clientVars, net, lclosed, target, connVars, reqVars, n, st, up, copier,
                 count, stopVars>>

SocksFailed ==
  /\ pc = "socks" /\ hs = "fail"
  /\ Return
  /\ UNCHANGED <<clientVars, net, buf, replies, hsVars, connVars, host, flags, reqVars,
                 n, up, copier, stopVars>>

(* Not SOCKS: the reader that peeked is kept with what it holds.           *)
NotSocks ==
  /\ pc = "socks" /\ hs = "notsocks"
  /\ Goto("sniff")
  /\ UNCHANGED <<socksVars, connVars, host, flags, reqVars, n, st, up, copier, count, stopVars>>

(* handleUDPGatewayConn reads the connection to its end (UdpGateway).      *)
UdpGatewayEnds ==
  /\ pc = "udpgw" /\ (cl # "on" \/ lclosed)
  /\ Return
  /\ UNCHANGED <<clientVars, net, buf, replies, hsVars, connVars, host, flags, reqVars,
                 n, up, copier, stopVars>>

(* The server name of a TLS hello, if one arrives before the deadline,     *)
(* replaces an address that came from a local DNS query.  Nothing is read. *)
TrySniffDomain == host \in {None, Addr}

First == IF Avail THEN Head(buf).t ELSE "nothing"

Sniff ==
  /\ pc = "sniff"
  /\ \/ /\ ~TrySniffDomain /\ Goto("start") /\ UNCHANGED host
     \/ /\ TrySniffDomain /\ flags # {} /\ First = "tls"
        /\ host' = Head(buf).h /\ Goto("start")
     \/ /\ TrySniffDomain
        /\ flags = {} \/ First # "tls"
        /\ Goto("peek") /\ UNCHANGED host
  /\ UNCHANGED <<socksVars, connVars, flags, reqVars, n, st, up, copier, count, stopVars>>

(* An HTTP method within 100 ms: the request is read, names the host, and  *)
(* becomes the first one to forward, unless it is a CONNECT, which is      *)
(* answered here.                                                          *)
PeekRequest ==
  /\ pc = "peek" /\ First \in {"req", "connect"}
  /\ buf' = Tail(buf) /\ host' = Head(buf).h /\ Goto("start")
  /\ IF Head(buf).t = "connect" /\ "socks" \notin flags
       THEN /\ replies' = Append(replies, "200") /\ flags' = flags \union {"https"}
            /\ UNCHANGED ireq
       ELSE /\ ireq' = [h |-> Head(buf).h, x |-> Head(buf).x]
            /\ UNCHANGED <<replies, flags>>
  /\ UNCHANGED <<clientVars, net, lclosed, hsVars, connVars, preq, n, st, up, copier,
                 count, stopVars>>

(* Something else, nothing in time, or the end.                            *)
PeekOther ==
  /\ pc = "peek" /\ First \notin {"req", "connect"}
  /\ IF (Avail /\ flags = {}) \/ Ended THEN Return ELSE Goto("start") /\ Stay
  /\ UNCHANGED <<clientVars, net, buf, replies, hsVars, connVars, host, flags, reqVars,
                 n, up, copier, stopVars>>
-----------------------------------------------------------------------------
(* START: without a host, a channel or a stream the connection ends.       *)
StartFails ==
  /\ pc = "start"
  /\ Return
  /\ UNCHANGED <<clientVars, net, buf, replies, hsVars, connVars, host, flags, reqVars,
                 n, up, copier, stopVars>>

GetMuxStream ==
  /\ pc = "start" /\ host # None /\ n < MaxPass
  /\ n' = n + 1
  /\ st' = [st EXCEPT ![n + 1] = "open"]
  /\ Goto("connect")
  /\ UNCHANGED <<socksVars, connVars, host, flags, reqVars, up, copier, count, stopVars>>

(* stream.Connect writes the address; it fails on a stream that ended.     *)
ConnectFails ==
  /\ pc = "connect" /\ st[n] # "open"
  /\ Return
  /\ UNCHANGED <<clientVars, net, buf, replies, hsVars, connVars, host, flags, reqVars,
                 n, up, copier, stopVars>>

Raw == flags # {} /\ ireq = NoReq

(* The context is stored (a Range in progress may or may not see it), and  *)
(* the copier of the downward direction starts.                            *)
Connected ==
  /\ pc = "connect" /\ st[n] = "open"
  /\ active' = active \union {n}
  /\ pending' \in IF stop = "range" THEN {pending, pending \union {n}} ELSE {pending}
  /\ copier' = [copier EXCEPT ![n] = "run"]
  /\ IF Raw THEN Goto("copy") /\ UNCHANGED <<reqVars>>
            ELSE Goto("hwrite") /\ preq' = ireq /\ ireq' = NoReq
  /\ UNCHANGED <<socksVars, connVars, host, flags, n, st, up, count, stop>>

(* Seeded fault: the client's connection is left open.                     *)
CopierEndsOpen(i) ==
  /\ copier[i] = "run" /\ st[i] # "open"
  /\ copier' = [copier EXCEPT ![i] = "done"]
  /\ UNCHANGED <<socksVars, connVars, pc, host, flags, reqVars, n, st, up, count, stopVars>>

(* The goroutine that copies from the stream to the client ends with the   *)
(* stream, and closes the client's connection.                             *)
CopierEnds(i) ==
  /\ copier[i] = "run" /\ st[i] # "open"
  /\ copier' = [copier EXCEPT ![i] = "done"]
  /\ lclosed' = TRUE
  /\ UNCHANGED <<clientVars, net, buf, replies, hsVars, connVars, pc, host, flags, ireq,
                 preq, n, st, up, count, stopVars>>

(* The other end of the stream: an answer is over, an idle stream is given *)
(* up after the ReadTimeout of the options, or the session breaks.         *)
RemoteEnds(i) ==
  /\ st[i] = "open"
  /\ st' = [st EXCEPT ![i] = "ended"]
  /\ UNCHANGED <<socksVars, connVars, pc, host, flags, reqVars, n, up, copier, count, stopVars>>
-----------------------------------------------------------------------------
(* The tunnel: io.CopyBuffer from the client to the stream, until a write  *)
(* fails, the client ends, or both directions are idle.                    *)
CopyUp ==
  /\ pc = "copy" /\ Avail
  /\ buf' = Tail(buf)
  /\ IF st[n] = "open"
       THEN up' = [up EXCEPT ![n] = Append(@, Head(buf).x)] /\ UNCHANGED pc
       ELSE Goto("upend") /\ UNCHANGED up
  /\ UNCHANGED <<clientVars, net, lclosed, replies, hsVars, connVars, host, flags, ireq,
                 preq, n, st, copier, count, stopVars>>

CopyUpEnds ==
  /\ pc = "copy" /\ Ended
  /\ Goto("upend")
  /\ UNCHANGED <<socksVars, connVars, host, flags, reqVars, n, st, up, copier, count, stopVars>>

Idle ==
  /\ pc \in {"copy", "hread"} /\ ~Avail
  /\ IF pc = "copy" THEN Goto("upend") /\ Stay ELSE Return
  /\ UNCHANGED <<clientVars, net, buf, replies, hsVars, connVars, host, flags, reqVars,
                 n, up, copier, stopVars>>

(* Seeded fault: only the deferred Close closes the stream.                *)
CloseWriterLate ==
  /\ pc = "upend"
  /\ Goto("wait")
  /\ UNCHANGED <<socksVars, connVars, host, flags, reqVars, n, st, up, copier, count, stopVars>>

(* The writer is closed: the stream itself, or a snappy writer, whose      *)
(* Close leaves the stream open.                                           *)
CloseWriter ==
  /\ pc = "upend"
  /\ st' = IF comp = "none" THEN [st EXCEPT ![n] = "closed"] ELSE st
  /\ Goto("wait")
  /\ UNCHANGED <<socksVars, connVars, host, flags, reqVars, n, up, copier, count, stopVars>>

(* <-closeCh, and the context is forgotten.                                *)
TunnelEnds ==
  /\ pc = "wait" /\ copier[n] = "done"
  /\ active' = active \ {n}
  /\ Return
  /\ UNCHANGED <<clientVars, net, buf, replies, hsVars, connVars, host, flags, reqVars,
                 n, up, copier, stop, pending>>
-----------------------------------------------------------------------------
(* The HTTP loop writes a request, if it has one, to the stream ...        *)
WriteRequest ==
  /\ pc = "hwrite"
  /\ IF preq = NoReq THEN Goto("hread") /\ Stay /\ UNCHANGED up
     ELSE IF st[n] = "open"
       THEN Goto("hread") /\ Stay /\ up' = [up EXCEPT ![n] = Append(@, preq.x)]
     ELSE Return /\ UNCHANGED up
  /\ UNCHANGED <<clientVars, net, buf, replies, hsVars, connVars, host, flags, reqVars,
                 n, copier, stopVars>>

(* ... and reads the next one.  A request for another host than the one    *)
(* before closes the stream and goes back to START, where neither          *)
(* remoteHost nor the request is remembered.                               *)
ReadRequest ==
  /\ pc = "hread" /\ First = "req"
  /\ buf' = Tail(buf)
  /\ IF preq # NoReq /\ preq.h # Head(buf).h
       THEN st' = [st EXCEPT ![n] = "closed"] /\ preq' = NoReq /\ Goto("start")
       ELSE /\ preq' = [h |-> Head(buf).h, x |-> Head(buf).x]
            /\ Goto("hwrite") /\ UNCHANGED st
  /\ UNCHANGED <<clientVars, net, lclosed, replies, hsVars, connVars, host, flags, ireq, n,
                 up, copier, count, stopVars>>

ReadRequestFails ==
  /\ pc = "hread" /\ Ended
  /\ Return
  /\ UNCHANGED <<clientVars, net, buf, replies, hsVars, connVars, host, flags, reqVars,
                 n, up, copier, stopVars>>
-----------------------------------------------------------------------------
(* stopLocalServers: the listeners are closed, then the connection of each *)
(* stored context is closed and the context deleted.                       *)
StopBegin ==
  /\ stop = "no" /\ stop' = "range" /\ pending' = active
  /\ UNCHANGED <<socksVars, serveVars, active>>

(* Seeded fault: the contexts are deleted, their connections are not       *)
(* closed.                                                                 *)
StopForget(i) ==
  /\ stop = "range" /\ i \in pending
  /\ pending' = pending \ {i} /\ active' = active \ {i}
  /\ UNCHANGED <<socksVars, serveVars, stop>>

StopClose(i) ==
  /\ stop = "range" /\ i \in pending
  /\ pending' = pending \ {i} /\ active' = active \ {i}
  /\ lclosed' = TRUE
  /\ UNCHANGED <<clientVars, net, buf, replies, hsVars, serveVars, stop>>

StopEnd ==
  /\ stop = "range" /\ pending = {}
  /\ stop' = "over"
  /\ UNCHANGED <<socksVars, serveVars, active, pending>>

Serve ==
  \/ Accept \/ SocksGranted \/ SocksFailed \/ NotSocks \/ UdpGatewayEnds \/ Sniff
  \/ PeekRequest \/ PeekOther \/ GetMuxStream \/ ConnectFails \/ Connected
  \/ CopyUp \/ CopyUpEnds \/ CloseWriter \/ TunnelEnds
  \/ WriteRequest \/ ReadRequest \/ ReadRequestFails

Others == UNCHANGED <<serveVars, stopVars>>

ProxyNext ==
  \/ Serve \/ AcceptNoAddr \/ CollectFile \/ StartFails \/ Idle
  \/ Client /\ Others
  \/ Fill /\ Others
  \/ Handshake /\ Others
  \/ \E i \in Passes : CopierEnds(i) \/ RemoteEnds(i) \/ StopClose(i)
  \/ StopBegin \/ StopEnd

(* Goroutines that can run do, what was sent arrives, a client that has a  *)
(* token to send sends it.  A stream without an end of its own, which only *)
(* the snappy writer leaves behind, ends by the ReadTimeout sent with      *)
(* Connect.  The runtime collects garbage every two minutes.  Nothing      *)
(* makes a client or the server end.                                       *)
ProxyFairness ==
  /\ WF_proxyVars(Serve) /\ WF_proxyVars(GetMuxStream \/ StartFails)
  /\ WF_proxyVars((ClientSend \/ ClientRefused) /\ Others)
  /\ WF_proxyVars(Fill /\ Others) /\ WF_proxyVars(Handshake /\ Others)
  /\ \A i \in Passes : /\ WF_proxyVars(CopierEnds(i)) /\ WF_proxyVars(StopClose(i))
                       /\ WF_proxyVars(comp = "snappy" /\ RemoteEnds(i))
  /\ WF_proxyVars(StopEnd) /\ WF_proxyVars(CollectFile)

ProxySpec == ProxyInit /\ [][ProxyNext]_proxyVars /\ ProxyFairness
-----------------------------------------------------------------------------
(* The first stream of a connection is a Pipe: what the handshake, the     *)
(* peeks, the sniffing and the change of readers leave of the client's     *)
(* bytes reaches the stream in order and complete, however TCP cuts them.  *)
P == INSTANCE Pipe WITH sent <- Cardinality(Payload), got <- up[1], lossy <- FALSE
UpstreamIsPipe == P!Spec

(* A client that closes makes serveProxyConn end, with its copier, its     *)
(* stream and its deferred calls, whatever it is doing.                    *)
HandlerEnds == (cl # "on" /\ pc \notin {"accept", "dropped"}) ~> pc = "done"

(* When the remote side ends the stream, or a redirected connection is     *)
(* dropped, every descriptor of the client's connection is closed, so that *)
(* a client that only waits for an answer does not hang.                   *)
RemoteEndReaches ==
  (pc = "dropped" \/ \E i \in Passes : st[i] = "ended") ~> (lclosed /\ ~shadow)

(* The contexts that stopLocalServers finds are all brought to their end:  *)
(* their connections are closed and their handlers return.                 *)
StopEndsTunnels == (stop = "range" /\ pending # {}) ~> pc = "done"

(* The program's own SOCKS5 client, waiting for an answer at each step,    *)
(* and the server do not wait for each other: it is granted or refused, or *)
(* its connection is closed.                                               *)
OwnClientAnswered ==
  (kind \in {"socks5", "user5", "addr5"} /\ pc = "socks")
    ~> \/ \E i \in DOMAIN replies : replies[i] \in {"granted"} \union Refusals
       \/ lclosed \/ cl # "on"

(* "Switch to next stream since target host change": a request is only     *)
(* written to a stream that was connected to the host it names.            *)
RequestReachesItsHost ==
  kind = "http" => \A j \in DOMAIN up[2] : Script[up[2][j]].h = host
=============================================================================
