------------------------------- MODULE Socks --------------------------------
(***************************************************************************)
(* The SOCKS handshake on one connection of the local proxy: the server's  *)
(* side (NewSocksConn, socks5Handshake and readSocks4aConnect of           *)
(* socks/socks.go) and the program's own client (Socks5ProxyConnect of     *)
(* helper/net.go), with other clients that the proxy meets: ones that do   *)
(* not wait for an answer, SOCKS4 and 4a, plain HTTP, CONNECT and TLS.     *)
(*                                                                         *)
(* A message is one token.  net is what the client has sent and the server *)
(* has not read from the socket; buf is the bufio.Reader, which takes as   *)
(* much as has arrived, so that how TCP cuts the stream is nondeterminism. *)
(***************************************************************************)
EXTENDS Integers, Sequences, FiniteSets

CONSTANTS
  Kinds,     \* the clients that may connect
  Passwords, \* lengths of the password the program's own client is given
  Name, Other, Addr, UdpGw, \* hosts: two names, an IP address, the udp gateway
  None

ASSUME SocksAssumption ==
  /\ Kinds \subseteq {"socks5", "user5", "addr5", "udpgw5", "eager5", "early5", "bind5", "gss5",
                       "socks4", "bind4", "web5", "http", "connect", "tls", "tproxy", "forward"}
  /\ Passwords \subseteq Nat
  /\ Cardinality({Name, Other, Addr, UdpGw, None}) = 5

VARIABLES
  kind,     \* the client of this connection
  pass,     \* the length of its password
  sent,     \* how many tokens of its script the client has sent
  cl,       \* the client: on, refused (it gives up), closed
  net, buf, \* see above
  lclosed,  \* the proxy has closed its end
  replies,  \* the answers sent to the client
  hs,       \* where the handshake is
  target    \* SocksRequest.Target

clientVars == <<kind, pass, sent, cl>>
socksVars  == <<clientVars, net, buf, lclosed, replies, hs, target>>
-----------------------------------------------------------------------------
(* A token: its type, the host it names, a parameter, and how many answers *)
(* the client waits for before it sends it.                                *)
Tok(t, h, x, w) == [t |-> t, h |-> h, x |-> x, wait |-> w]

Data(i, w) == Tok("data", None, i, w)
Req(h, i)  == Tok("req", h, i, 0)

(* Socks5ProxyConnect with a user: the length byte of the password is its  *)
(* length modulo 256, and what is longer follows it as further bytes.      *)
PassTokens(n) ==
  <<Tok("auth", None, n % 256, 1)>>
    \o IF n > n % 256 THEN <<Tok("junk", None, 0, 1)>> ELSE <<>>

Socks5ProxyConnect(auth, h) ==
  IF auth THEN <<Tok("greet", None, {"none", "pw"}, 0)>> \o PassTokens(pass)
                 \o <<Tok("cmd", h, "connect", 2), Data(1, 3), Data(2, 3)>>
          ELSE <<Tok("greet", None, {"none"}, 0),
                 Tok("cmd", h, "connect", 1), Data(1, 2), Data(2, 2)>>

(* What each client sends.                                                 *)
Script ==
  CASE kind = "socks5"  -> Socks5ProxyConnect(FALSE, Name)
    [] kind = "user5"   -> Socks5ProxyConnect(TRUE, Name)
    [] kind = "addr5"   -> Socks5ProxyConnect(FALSE, Addr)
    [] kind = "udpgw5"  -> Socks5ProxyConnect(FALSE, UdpGw)
    [] kind = "eager5"  -> <<Tok("greet", None, {"none"}, 0), Tok("cmd", Name, "connect", 0),
                             Data(1, 0), Data(2, 0)>>
    [] kind = "early5"  -> <<Tok("greet", None, {"none"}, 0), Tok("cmd", Name, "connect", 1),
                             Data(1, 1), Data(2, 1)>>
    [] kind = "bind5"   -> <<Tok("greet", None, {"none"}, 0), Tok("cmd", Name, "bind", 1)>>
    [] kind = "gss5"    -> <<Tok("greet", None, {"gss"}, 0)>>
    [] kind = "socks4"  -> <<Tok("v4", Name, "connect", 0), Data(1, 1), Data(2, 1)>>
    [] kind = "bind4"   -> <<Tok("v4", Name, "bind", 0)>>
    [] kind = "web5"    -> <<Tok("greet", None, {"none"}, 0), Tok("cmd", Addr, "connect", 1),
                             [Req(Name, 1) EXCEPT !.wait = 2], Req(Name, 2)>>
    [] kind = "http"    -> <<Req(Name, 1), Req(Name, 2), Req(Other, 3), Req(Other, 4)>>
    [] kind = "connect" -> <<Tok("connect", Name, 0, 0), Data(1, 1), Data(2, 1)>>
    [] kind = "forward" -> <<Data(1, 0), Data(2, 0)>>
    [] kind \in {"tls", "tproxy"} -> <<Tok("tls", Name, 1, 0), Data(2, 0)>>

(* The payload that was sent: the places in the script of the tokens after *)
(* the handshake, which are numbered by their parameter.                   *)
Payload == {i \in 1 .. sent : Script[i].t \in {"data", "req", "tls"}}

Refusals == {"nomethod", "authfail", "general", "unsupported"}

SocksInit ==
  /\ kind \in Kinds
  /\ pass \in IF kind = "user5" THEN Passwords ELSE {1}
  /\ sent = 0 /\ cl = "on"
  /\ net = <<>> /\ buf = <<>> /\ lclosed = FALSE
  /\ replies = <<>> /\ hs = "no" /\ target = None
-----------------------------------------------------------------------------
(* The client: the next token, if it need not wait; it gives up when it is *)
(* refused, and it may close at any time.                                  *)
ClientSend ==
  /\ cl = "on" /\ sent < Len(Script)
  /\ Len(replies) >= Script[sent + 1].wait
  /\ \A i \in DOMAIN replies : replies[i] \notin Refusals
  /\ sent' = sent + 1
  /\ net' = IF lclosed THEN net ELSE Append(net, Script[sent + 1])
  /\ UNCHANGED <<kind, pass, cl, buf, lclosed, replies, hs, target>>

ClientRefused ==
  /\ cl = "on" /\ \E i \in DOMAIN replies : replies[i] \in Refusals
  /\ cl' = "refused"
  /\ UNCHANGED <<kind, pass, sent, net, buf, lclosed, replies, hs, target>>

ClientClose ==
  /\ cl = "on" /\ cl' = "closed"
  /\ UNCHANGED <<kind, pass, sent, net, buf, lclosed, replies, hs, target>>

(* bufio.Reader.fill: an empty buffer takes a part of what has arrived,    *)
(* when there is a read (none between the handshake and its answer).       *)
Fill ==
  /\ buf = <<>> /\ net # <<>> /\ ~lclosed /\ hs # "ok"
  /\ \E k \in DOMAIN net : /\ buf' = SubSeq(net, 1, k)
                           /\ net' = SubSeq(net, k + 1, Len(net))
  /\ UNCHANGED <<clientVars, lclosed, replies, hs, target>>

Avail == buf # <<>>

(* A read returns io.EOF or an error.                                      *)
Ended == /\ buf = <<>>
         /\ lclosed \/ (net = <<>> /\ cl # "on")
-----------------------------------------------------------------------------
(* NewSocksConn: the version byte is only peeked at.                       *)
PeekVersion ==
  /\ hs = "peek" /\ Avail
  /\ hs' = CASE Head(buf).t = "greet" -> "greet"
             [] Head(buf).t = "v4"    -> "v4"
             [] OTHER                 -> "notsocks"
  /\ UNCHANGED <<clientVars, net, buf, lclosed, replies, target>>

(* Seeded fault: the bytes behind the message are not looked at.           *)
StepNoFlush(l, r) ==
  /\ buf' = Tail(buf)
  /\ hs' = l
  /\ replies' = replies \o r
  /\ UNCHANGED <<clientVars, net, lclosed>>

(* A handshake step reads one message, answers it with r (a sequence, not  *)
(* empty), goes to l, and fails when bytes are left in the buffer, which   *)
(* socksFlushBuffers tests after it has sent the answer.                   *)
Leftover == Tail(buf) # <<>>

Step(l, r) ==
  /\ buf' = Tail(buf)
  /\ hs' = IF Leftover THEN "fail" ELSE l
  /\ replies' = replies \o r
  /\ UNCHANGED <<clientVars, net, lclosed>>

socks5NegotiateAuth ==
  /\ hs = "greet" /\ Avail
  /\ LET offered == Head(buf).x
     IN IF "pw" \in offered THEN Step("auth", <<"pw">>)
        ELSE IF "none" \in offered THEN Step("cmd", <<"none">>)
        ELSE Step("fail", <<"nomethod">>)
  /\ UNCHANGED target

(* Seeded fault: the positive answer stays in the buffered writer.         *)
AuthNoAnswer ==
  /\ hs = "auth" /\ Avail
  /\ \/ Head(buf).t = "auth" /\ Head(buf).x > 0 /\ Step("cmd", <<>>)
     \/ Step("fail", <<"authfail">>)
  /\ UNCHANGED target

(* The user name and the password, neither of them empty, are taken for    *)
(* the arguments of a pluggable transport and refused if they are none.    *)
socks5AuthRFC1929 ==
  /\ hs = "auth" /\ Avail
  /\ \/ Head(buf).t = "auth" /\ Head(buf).x > 0 /\ Step("cmd", <<"authok">>)
     \/ Step("fail", <<"authfail">>)
  /\ UNCHANGED target

socks5ReadCommand ==
  /\ hs = "cmd" /\ Avail
  /\ IF Head(buf).t # "cmd" THEN Step("fail", <<"general">>)
     ELSE IF Head(buf).x # "connect" THEN Step("fail", <<"unsupported">>)
     ELSE Step("ok", <<>>)
  /\ target' = IF hs' = "ok" THEN Head(buf).h ELSE None

(* Here the user name alone is the arguments; it may be empty.             *)
readSocks4aConnect ==
  /\ hs = "v4" /\ Avail
  /\ (Head(buf).x = "connect" /\ Step("ok", <<>>)) \/ Step("fail", <<>>)
  /\ target' = IF hs' = "ok" THEN Head(buf).h ELSE None

(* The connection ends under a read.  Of a failed peek NewSocksConn        *)
(* returns the reader too, so that the caller goes on with it.             *)
HandshakeEOF ==
  /\ hs \in {"peek", "greet", "auth", "cmd", "v4"} /\ Ended
  /\ hs' = IF hs = "peek" THEN "notsocks" ELSE "fail"
  /\ UNCHANGED <<clientVars, net, buf, lclosed, replies, target>>

Client == ClientSend \/ ClientRefused \/ ClientClose

Handshake ==
  \/ PeekVersion \/ socks5NegotiateAuth \/ socks5AuthRFC1929 \/ socks5ReadCommand
  \/ readSocks4aConnect \/ HandshakeEOF
=============================================================================
