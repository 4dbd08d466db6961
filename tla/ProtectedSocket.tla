--------------------------- MODULE ProtectedSocket ---------------------------
(***************************************************************************)
(* The raw-descriptor sockets of common/protector/protected.go.  A call    *)
(* opens a socket, sets its options, has it excluded from the VPN          *)
(* (currentProtect), connects or binds it, turns the number into a         *)
(* net.Conn that holds a duplicate, and closes the number it opened.  The  *)
(* calls run in one process and share its descriptor table, in which the   *)
(* kernel always hands out the lowest free number: what a call does to a   *)
(* number it no longer owns, it does to somebody else's socket.            *)
(***************************************************************************)
EXTENDS Integers, FiniteSets, FiniteSetsExt, SequencesExt

CONSTANTS Calls,   \* the calls in flight, each a goroutine
          Kinds,   \* the functions called, a subset of the domain of Steps
          NumFds   \* size of the descriptor table (RLIMIT_NOFILE)

ASSUME NumFdsAssumption == NumFds \in Nat \ {0}

None == 0
Fds == 1..NumFds

ASSUME CallsAssumption == None \notin Calls

(***************************************************************************)
(* The system calls of each function, in order.                            *)
(***************************************************************************)
dialContext == <<"socket", "mark", "reuse", "bind", "protect", "connect",
                 "wait", "dup", "fclose", "cleanup">>
DialUDP == <<"socket", "mark", "protect", "connect", "wait", "dup",
             "fclose", "cleanup">>
ListenTCP == <<"socket", "reuse", "protect", "bind", "dup", "fclose",
               "cleanup">>
ListenUDP == <<"socket", "mark", "protect", "bind", "dup", "fclose",
               "cleanup">>
Resolve == <<"socket", "protect", "connectnow", "dup", "lookup", "fclose",
             "rawclose">>
SupportReusePort == <<"socket", "reuse", "rawclose">>

Steps == [dial |-> dialContext, dialudp |-> DialUDP, listen |-> ListenTCP,
          listenudp |-> ListenUDP, resolve |-> Resolve,
          probe |-> SupportReusePort]

ASSUME KindsAssumption == Kinds \subseteq DOMAIN Steps

VARIABLES
    kind,    \* the function each call runs
    pc,      \* its next system call, "closetwice", or "done"
    ok,      \* FALSE once the call has met an error
    raw,     \* the number socket(2) returned, kept in a local variable
    fd,      \* conn.socketFd, None when it is socketError
    ret,     \* the duplicate: held by the net.Conn under construction, then
             \* by the caller, None when there is none or it is closed
    gor,     \* the connect goroutine: "none", "ready", "call", "in", "over"
    gfd,     \* the number the goroutine read from conn.socketFd
    gsock,   \* the socket its connect(2) works on
    fdt,     \* kernel: the socket behind each number, named by its call
    peer     \* kernel: the call whose address the socket is connected to

call == <<kind, pc, ok, raw, fd, ret>>
vars == <<call, gor, gfd, gsock, fdt, peer>>

Init ==
    /\ kind \in [Calls -> Kinds]
    /\ pc = [c \in Calls |-> "socket"]
    /\ ok = [c \in Calls |-> TRUE]
    /\ raw = [c \in Calls |-> None]
    /\ fd = [c \in Calls |-> None]
    /\ ret = [c \in Calls |-> None]
    /\ gor = [c \in Calls |-> "none"]
    /\ gfd = [c \in Calls |-> None]
    /\ gsock = [c \in Calls |-> None]
    /\ fdt = [f \in Fds |-> None]
    /\ peer = [c \in Calls |-> None]

-----------------------------------------------------------------------------
(* The kernel's side. *)

Free == {f \in Fds : fdt[f] = None}

SocketAt(f) == IF f = None THEN None ELSE fdt[f]

(* close(2): a number that is not open is EBADF and changes nothing. *)
Release(f) == fdt' = IF f = None THEN fdt ELSE [fdt EXCEPT ![f] = None]

(* A listener, and a stream socket that is connected, refuse connect(2); *)
(* a datagram socket takes the new address.                              *)
Connectable(s) == CASE kind[s] = "listen" -> FALSE
                    [] kind[s] = "dial" -> peer[s] = None
                    [] OTHER -> TRUE

-----------------------------------------------------------------------------
(* The step after s in the function c runs. *)
After(c, s) == LET steps == Steps[kind[c]]
                   i == CHOOSE j \in 1..Len(steps) : steps[j] = s
               IN IF i = Len(steps) THEN "done" ELSE steps[i + 1]

Goto(c, s) == pc' = [pc EXCEPT ![c] = s]

Proceed(c, s) == Goto(c, After(c, s)) /\ UNCHANGED ok

Fail(c, s) == Goto(c, s) /\ ok' = [ok EXCEPT ![c] = FALSE]

(* What an error does: before the deferred cleanup is registered the       *)
(* number is closed on the spot, later by the cleanup.  ListenTCP closes   *)
(* it again after reuseTCPAddr has closed it.  An error of the duplication *)
(* still closes the file.                                                  *)
OnError(c, s) ==
    CASE s = "dup" -> "fclose"
      [] s = "reuse" /\ kind[c] = "listen" -> "closetwice"
      [] s = "mark" \/ (s = "reuse" /\ kind[c] # "listen") -> "rawclose"
      [] s = "bind" /\ kind[c] = "dial" -> "rawclose"
      [] s = "protect" /\ kind[c] = "resolve" -> "rawclose"
      [] OTHER -> "cleanup"

(* An address that does not parse, a context that is done or, in Resolve,  *)
(* an address that needs no lookup: nothing was opened.                    *)
Reject(c) ==
    /\ pc[c] = "socket" /\ kind[c] \in {"dial", "resolve"}
    /\ Fail(c, "done")
    /\ UNCHANGED <<kind, raw, fd, ret, gor, gfd, gsock, fdt, peer>>

Socket(c) ==
    /\ pc[c] = "socket"
    /\ IF Free = {}
       THEN Fail(c, "done") /\ UNCHANGED <<raw, fdt>>
       ELSE /\ Proceed(c, "socket")
            /\ raw' = [raw EXCEPT ![c] = Min(Free)]
            /\ fdt' = [fdt EXCEPT ![Min(Free)] = c]
    /\ UNCHANGED <<kind, fd, ret, gor, gfd, gsock, peer>>

(* setsockopt(2), bind(2) with listen(2), and currentProtect: each may be  *)
(* refused.  The number is in conn.socketFd once SO_MARK is set.           *)
Option(c) ==
    /\ pc[c] \in {"mark", "reuse", "bind", "protect"}
    /\ \/ Proceed(c, pc[c])
       \/ Fail(c, OnError(c, pc[c]))
    /\ fd' = [fd EXCEPT ![c] = IF kind[c] \in {"resolve", "probe"}
                               THEN None ELSE raw[c]]
    /\ UNCHANGED <<kind, raw, ret, gor, gfd, gsock, fdt, peer>>

(* connectSocket starts the goroutine and the timer, and waits for the     *)
(* first of them.                                                          *)
connectSocket(c) ==
    /\ pc[c] = "connect"
    /\ Proceed(c, "connect")
    /\ gor' = [gor EXCEPT ![c] = "ready"]
    /\ UNCHANGED <<kind, raw, fd, ret, gfd, gsock, fdt, peer>>

(* The goroutine evaluates conn.socketFd, without conn.mutex. *)
GoRead(c) ==
    /\ gor[c] = "ready"
    /\ gor' = [gor EXCEPT ![c] = "call"]
    /\ gfd' = [gfd EXCEPT ![c] = fd[c]]
    /\ UNCHANGED <<call, gsock, fdt, peer>>

(* connect(2) starts on whatever socket has that number now. *)
GoCall(c) ==
    /\ gor[c] = "call"
    /\ gor' = [gor EXCEPT ![c] = "in"]
    /\ gsock' = [gsock EXCEPT ![c] = SocketAt(gfd[c])]
    /\ UNCHANGED <<call, gfd, fdt, peer>>

(* The answer is the call's if it still waits; the timer's message is then *)
(* left in the channel, which has room for both.                           *)
Answer(c, good) ==
    IF pc[c] # "wait" THEN UNCHANGED <<pc, ok>>
    ELSE IF good THEN Proceed(c, "wait")
    ELSE Fail(c, OnError(c, "wait"))

GoConnected(c) ==
    /\ gor[c] = "in"
    /\ gsock[c] # None
    /\ Connectable(gsock[c])
    /\ peer' = [peer EXCEPT ![gsock[c]] = c]
    /\ gor' = [gor EXCEPT ![c] = "over"]
    /\ Answer(c, TRUE)
    /\ UNCHANGED <<kind, raw, fd, ret, gfd, gsock, fdt>>

GoRefused(c) ==
    /\ gor[c] = "in"
    /\ gor' = [gor EXCEPT ![c] = "over"]
    /\ Answer(c, FALSE)
    /\ UNCHANGED <<kind, raw, fd, ret, gfd, gsock, fdt, peer>>

(* Seeded fault: a timer only for a timeout above 0; DialUDP has none. *)
TimerIfSet(c) ==
    /\ pc[c] = "wait" /\ kind[c] = "dial"
    /\ Fail(c, OnError(c, "wait"))
    /\ UNCHANGED <<kind, raw, fd, ret, gor, gfd, gsock, fdt, peer>>

(* time.AfterFunc, after 5 s when the caller set no timeout: the call      *)
(* gives up, its goroutine does not.                                       *)
Timer(c) ==
    /\ pc[c] = "wait"
    /\ Fail(c, OnError(c, "wait"))
    /\ UNCHANGED <<kind, raw, fd, ret, gor, gfd, gsock, fdt, peer>>

(* Resolve connects its datagram socket itself; that does not block. *)
ConnectNow(c) ==
    /\ pc[c] = "connectnow"
    /\ \/ /\ SocketAt(raw[c]) # None
          /\ Connectable(SocketAt(raw[c]))
          /\ peer' = [peer EXCEPT ![SocketAt(raw[c])] = c]
          /\ Proceed(c, "connectnow")
       \/ Fail(c, "rawclose") /\ UNCHANGED peer
    /\ UNCHANGED <<kind, raw, fd, ret, gor, gfd, gsock, fdt>>

(* net.FileConn, FilePacketConn or FileListener: dup(2) of the number. *)
Dup(c) ==
    /\ pc[c] = "dup"
    /\ IF SocketAt(raw[c]) # None /\ Free # {}
       THEN /\ Proceed(c, "dup")
            /\ ret' = [ret EXCEPT ![c] = Min(Free)]
            /\ fdt' = [fdt EXCEPT ![Min(Free)] = SocketAt(raw[c])]
       ELSE Fail(c, OnError(c, "dup")) /\ UNCHANGED <<ret, fdt>>
    /\ UNCHANGED <<kind, raw, fd, gor, gfd, gsock, peer>>

(* DnsLookup: one query under deadlines, then dnsConn.Close. *)
DnsLookup(c) ==
    /\ pc[c] = "lookup"
    /\ \/ Proceed(c, "lookup")
       \/ Fail(c, "fclose")
    /\ Release(ret[c])
    /\ ret' = [ret EXCEPT ![c] = None]
    /\ UNCHANGED <<kind, raw, fd, gor, gfd, gsock, peer>>

(* Seeded fault: file.Close without the assignment of socketError after it. *)
FileCloseKept(c) ==
    /\ pc[c] = "fclose"
    /\ Release(raw[c])
    /\ Proceed(c, "fclose")
    /\ UNCHANGED <<kind, raw, fd, ret, gor, gfd, gsock, peer>>

(* file.Close and conn.socketFd = socketError, under conn.mutex. *)
FileClose(c) ==
    /\ pc[c] = "fclose"
    /\ Release(raw[c])
    /\ fd' = [fd EXCEPT ![c] = None]
    /\ Proceed(c, "fclose")
    /\ UNCHANGED <<kind, raw, ret, gor, gfd, gsock, peer>>

(* Seeded fault: the deferred cleanup does not close the number. *)
CleanupForgotten(c) ==
    /\ pc[c] = "cleanup"
    /\ Proceed(c, "cleanup")
    /\ UNCHANGED <<kind, raw, fd, ret, gor, gfd, gsock, fdt, peer>>

(* The deferred cleanup, then the return. *)
cleanup(c) ==
    /\ pc[c] = "cleanup"
    /\ Release(fd[c])
    /\ fd' = [fd EXCEPT ![c] = None]
    /\ Proceed(c, "cleanup")
    /\ UNCHANGED <<kind, raw, ret, gor, gfd, gsock, peer>>

(* The closes of the local socketFd: after an early error, in reuseTCPAddr *)
(* and, in Resolve, deferred behind the file that has closed it already.   *)
RawClose(c) ==
    /\ pc[c] \in {"rawclose", "closetwice"}
    /\ Release(raw[c])
    /\ Goto(c, IF pc[c] = "closetwice" THEN "rawclose" ELSE "done")
    /\ UNCHANGED <<kind, ok, raw, fd, ret, gor, gfd, gsock, peer>>

(* The caller closes the connection it was given. *)
CallerCloses(c) ==
    /\ pc[c] = "done" /\ ret[c] # None
    /\ Release(ret[c])
    /\ ret' = [ret EXCEPT ![c] = None]
    /\ UNCHANGED <<kind, pc, ok, raw, fd, gor, gfd, gsock, peer>>

-----------------------------------------------------------------------------
(* The steps of the call's own goroutine and of its timer. *)
CallStep(c) ==
    \/ Reject(c) \/ Socket(c) \/ Option(c) \/ connectSocket(c)
    \/ Timer(c) \/ ConnectNow(c) \/ Dup(c) \/ DnsLookup(c)
    \/ FileClose(c) \/ cleanup(c) \/ RawClose(c)

Connector(c) ==
    GoRead(c) \/ GoCall(c) \/ GoConnected(c) \/ GoRefused(c)

Next == \E c \in Calls : CallStep(c) \/ Connector(c) \/ CallerCloses(c)

(* The runtime runs every goroutine that can run and fires every timer;    *)
(* nothing makes the other end answer a connect.                           *)
Fairness == \A c \in Calls : WF_vars(CallStep(c))

Spec == Init /\ [][Next]_vars /\ Fairness

-----------------------------------------------------------------------------
(* Properties. *)

(* The two functions that close a number twice: Resolve always (file.Close *)
(* and syscall.Close, both deferred), ListenTCP when SO_REUSEPORT is       *)
(* refused (in reuseTCPAddr and after it).                                 *)
ClosesTwice(c) == \/ kind[c] = "resolve"
                  \/ kind[c] = "listen" /\ ~ok[c]

(* While a call works on its number, and while the caller holds the        *)
(* connection, the number is the call's own socket, and connect(2) reached *)
(* another call's socket only from a call that had already failed (the     *)
(* late goroutine of connectSocket).  Only a call that closes a number     *)
(* twice can break this, for any other call in the process.                *)
OwnSockets ==
    (\A d \in Calls : ~ClosesTwice(d)) =>
        \A c \in Calls :
            /\ raw[c] # None /\ pc[c] \notin {"cleanup", "done"}
                   => SocketAt(raw[c]) = c
            /\ fd[c] # None /\ pc[c] = "cleanup" => SocketAt(fd[c]) = c
            /\ ret[c] # None => SocketAt(ret[c]) = c
            /\ gsock[c] \notin {None, c} => ~ok[c]

(* No descriptor leaks: each open number is held by a call that will close *)
(* it or by the caller it was returned to, on every error path of every    *)
(* function, whatever the other calls closed in between.                   *)
NoFdLeak ==
    \A f \in Fds : fdt[f] # None =>
        \E c \in Calls : \/ ret[c] = f
                         \/ raw[c] = f /\ pc[c] # "done"

(* A call whose connect(2) never answers still returns. *)
CallEnds == \A c \in Calls : <>(pc[c] = "done")

=============================================================================
