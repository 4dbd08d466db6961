--------------------------- MODULE ServerSession ---------------------------
(***************************************************************************)
(* One served mux session of remote.go: the ServProxyMuxSession goroutine, *)
(* a handler goroutine per accepted stream, and the reaper goroutine that  *)
(* init() starts to close sessions without streams.  They share            *)
(* ctx.streamCouter (atomic), ctx.closed (a plain field) and the sync.Map  *)
(* emptySessions, and no lock orders them: every access is an action.      *)
(*                                                                         *)
(* The room table that ctx.close also updates is in module P2PRoom.        *)
(***************************************************************************)
EXTENDS Integers, FiniteSets

CONSTANT Stream      \* streams the client may open on the session

ASSUME StreamAssumption == IsFiniteSet(Stream)

VARIABLES
  configured,   \* SetDefaultMuxConfig has set SessionIdleTimeout > 0
  reaper,       \* the reaper goroutine
  main,         \* the ServProxyMuxSession goroutine
  h,            \* the handler goroutine of each stream
  streamCouter, \* ctx.streamCouter
  closed,       \* ctx.closed
  listed,       \* ctx is in emptySessions
  isP2P,        \* ctx.isP2P
  open,         \* the mux session is up
  idle          \* now - ctx.activeIOTime > SessionIdleTimeout

ctxVars == <<streamCouter, closed, listed, isP2P, open, idle>>
vars == <<configured, reaper, main, h, streamCouter, closed, listed, isP2P,
          open, idle>>

CloseSteps == {"close", "closeConn", "delete"}
MainPCs    == {"off", "auth", "exchange", "load", "store", "accept", "done"}
                \cup CloseSteps
ReaperPCs  == {"start", "off", "tick"} \cup CloseSteps
HandlerPCs == {"none", "add", "delete", "work", "p2p", "dec", "check",
               "store", "done"}

Init ==
  /\ configured = FALSE
  /\ reaper = "start"
  /\ main = "off"
  /\ h = [s \in Stream |-> "none"]
  /\ streamCouter = 0
  /\ closed = FALSE
  /\ listed = FALSE
  /\ isP2P = FALSE
  /\ open = TRUE
  /\ idle = FALSE

MainGoto(from, to) == main = from /\ main' = to
HGoto(s, from, to) == h[s] = from /\ h' = [h EXCEPT ![s] = to]

-----------------------------------------------------------------------------
(* ServProxyMuxSession *)

(***************************************************************************)
(* A session is accepted once the configuration is loaded.  A client that  *)
(* serves its peer passes an auth that was done already; a server passes   *)
(* none.                                                                   *)
(***************************************************************************)
ServProxyMuxSession ==
  /\ configured
  /\ main = "off"
  /\ main' \in {"auth", "load"}
  /\ UNCHANGED <<configured, reaper, h, ctxVars>>

(***************************************************************************)
(* serverAuthSession returns an auth.  The first exchange request sets     *)
(* isP2PExahnge, which nothing resets: the loop reads auth requests from   *)
(* then on.  Any other request ends the authentication.                    *)
(***************************************************************************)
AuthOK ==
  /\ open
  /\ \/ MainGoto("auth", "exchange")
     \/ MainGoto("exchange", "exchange")
     \/ MainGoto("auth", "load")
  /\ isP2P' \in {isP2P, TRUE}
  /\ UNCHANGED <<configured, reaper, h, streamCouter, closed, listed, open, idle>>

(***************************************************************************)
(* serverAuthSession fails: accept or read error, or a refused request     *)
(* (which closes the session at once).                                     *)
(***************************************************************************)
AuthFails ==
  /\ MainGoto("auth", "close") \/ MainGoto("exchange", "close")
  /\ open' \in {open, FALSE}
  /\ UNCHANGED <<configured, reaper, h, streamCouter, closed, listed, isP2P, idle>>

LoadCounter ==
  /\ main = "load"
  /\ main' = IF streamCouter = 0 THEN "store" ELSE "accept"
  /\ UNCHANGED <<configured, reaper, h, ctxVars>>

StoreEmpty ==
  /\ MainGoto("store", "accept")
  /\ listed' = TRUE
  /\ UNCHANGED <<configured, reaper, h, streamCouter, closed, isP2P, open, idle>>

AcceptStream(s) ==
  /\ open
  /\ MainGoto("accept", "load")
  /\ HGoto(s, "none", IF isP2P THEN "p2p" ELSE "add")
  /\ UNCHANGED <<configured, reaper, ctxVars>>

\* Seeded fault: an accept error is logged and the loop goes on.
AcceptFails_Continue ==
  /\ ~open
  /\ MainGoto("accept", "load")
  /\ UNCHANGED <<configured, reaper, h, ctxVars>>

AcceptFails ==
  /\ ~open
  /\ MainGoto("accept", "close")
  /\ UNCHANGED <<configured, reaper, h, ctxVars>>

(***************************************************************************)
(* The deferred ctx.close().                                               *)
(***************************************************************************)
MainClose ==
  /\ \/ MainGoto("close", "closeConn") /\ closed' = TRUE
        /\ UNCHANGED <<open, listed>>
     \/ MainGoto("closeConn", "delete") /\ open' = FALSE
        /\ UNCHANGED <<closed, listed>>
     \/ MainGoto("delete", "done") /\ listed' = FALSE
        /\ UNCHANGED <<closed, open>>
  /\ UNCHANGED <<configured, reaper, h, streamCouter, isP2P, idle>>

-----------------------------------------------------------------------------
(* The handler of a stream: handleProxyStream, or handleP2PProxyStream,    *)
(* which leaves the counter and emptySessions alone.                       *)

HandlerAdd(s) ==
  /\ HGoto(s, "add", "delete")
  /\ streamCouter' = streamCouter + 1
  /\ UNCHANGED <<configured, reaper, main, closed, listed, isP2P, open, idle>>

HandlerDelete(s) ==
  /\ HGoto(s, "delete", "work")
  /\ listed' = FALSE
  /\ UNCHANGED <<configured, reaper, main, streamCouter, closed, isP2P, open, idle>>

(***************************************************************************)
(* The stream is over: the connect request cannot be read, its address is  *)
(* not allowed, the dial fails, or both copies have ended.                 *)
(***************************************************************************)
HandlerWork(s) ==
  /\ HGoto(s, "work", "dec") \/ HGoto(s, "p2p", "done")
  /\ UNCHANGED <<configured, reaper, main, ctxVars>>

\* Seeded fault: the counter is left alone when a stream ends.
HandlerDec_Never(s) ==
  /\ HGoto(s, "dec", "done")
  /\ UNCHANGED <<configured, reaper, main, ctxVars>>

HandlerDec(s) ==
  /\ HGoto(s, "dec", IF streamCouter = 1 THEN "check" ELSE "done")
  /\ streamCouter' = streamCouter - 1
  /\ UNCHANGED <<configured, reaper, main, closed, listed, isP2P, open, idle>>

\* Seeded fault: the last handler leaves without listing the session.
HandlerCheck_NoStore(s) ==
  /\ HGoto(s, "check", "done")
  /\ UNCHANGED <<configured, reaper, main, ctxVars>>

HandlerCheck(s) ==
  /\ HGoto(s, "check", IF closed THEN "done" ELSE "store")
  /\ UNCHANGED <<configured, reaper, main, ctxVars>>

HandlerStore(s) ==
  /\ HGoto(s, "store", "done")
  /\ listed' = TRUE
  /\ UNCHANGED <<configured, reaper, main, streamCouter, closed, isP2P, open, idle>>

-----------------------------------------------------------------------------
(* The reaper, the configuration it reads, the clock and the client *)

(***************************************************************************)
(* The goroutine of init() reads SessionIdleTimeout once, when it is first *)
(* scheduled; main() loads the configuration after package initialisation. *)
(***************************************************************************)
ReaperStart ==
  /\ reaper = "start"
  /\ reaper' = IF configured THEN "tick" ELSE "off"
  /\ UNCHANGED <<configured, main, h, ctxVars>>

SetDefaultMuxConfig ==
  /\ ~configured
  /\ configured' = TRUE
  /\ UNCHANGED <<reaper, main, h, ctxVars>>

ReaperPick ==
  /\ reaper = "tick" /\ listed /\ idle
  /\ reaper' = "close"
  /\ UNCHANGED <<configured, main, h, ctxVars>>

\* Seeded fault: the reaper forgets the session without closing it.
ReaperClose_ForgetConn ==
  /\ \/ reaper = "close" /\ reaper' = "closeConn" /\ closed' = TRUE
        /\ UNCHANGED <<open, listed>>
     \/ reaper = "closeConn" /\ reaper' = "delete"
        /\ UNCHANGED <<closed, open, listed>>
     \/ reaper = "delete" /\ reaper' = "tick" /\ listed' = FALSE
        /\ UNCHANGED <<closed, open>>
  /\ UNCHANGED <<configured, main, h, streamCouter, isP2P, idle>>

\* Seeded fault: the reaper closes the session and leaves it listed.
ReaperClose_KeepListed ==
  /\ \/ reaper = "close" /\ reaper' = "closeConn" /\ closed' = TRUE
        /\ UNCHANGED <<open, listed>>
     \/ reaper = "closeConn" /\ reaper' = "tick" /\ open' = FALSE
        /\ UNCHANGED <<closed, listed>>
  /\ UNCHANGED <<configured, main, h, streamCouter, isP2P, idle>>

ReaperClose ==
  /\ \/ reaper = "close" /\ reaper' = "closeConn" /\ closed' = TRUE
        /\ UNCHANGED <<open, listed>>
     \/ reaper = "closeConn" /\ reaper' = "delete" /\ open' = FALSE
        /\ UNCHANGED <<closed, listed>>
     \/ reaper = "delete" /\ reaper' = "tick" /\ listed' = FALSE
        /\ UNCHANGED <<closed, open>>
  /\ UNCHANGED <<configured, main, h, streamCouter, isP2P, idle>>

(***************************************************************************)
(* activeIOTime is set when the session starts and never again.            *)
(***************************************************************************)
IdleTimePasses ==
  /\ ~idle /\ main # "off"
  /\ idle' = TRUE
  /\ UNCHANGED <<configured, reaper, main, h, streamCouter, closed, listed,
                 isP2P, open>>

Drop ==
  /\ open /\ main # "off"
  /\ open' = FALSE
  /\ UNCHANGED <<configured, reaper, main, h, streamCouter, closed, listed,
                 isP2P, idle>>

-----------------------------------------------------------------------------

Main     == AuthFails \/ LoadCounter \/ StoreEmpty \/ AcceptFails \/ MainClose
Reaper   == ReaperStart \/ ReaperPick \/ ReaperClose
Handler(s) == \/ HandlerAdd(s) \/ HandlerDelete(s) \/ HandlerDec(s)
              \/ HandlerCheck(s) \/ HandlerStore(s)

Next ==
  \/ ServProxyMuxSession \/ AuthOK \/ AuthFails \/ LoadCounter \/ StoreEmpty
  \/ AcceptFails \/ MainClose
  \/ \E s \in Stream :
       \/ AcceptStream(s) \/ HandlerAdd(s) \/ HandlerDelete(s) \/ HandlerWork(s)
       \/ HandlerDec(s) \/ HandlerCheck(s) \/ HandlerStore(s)
  \/ ReaperStart \/ SetDefaultMuxConfig \/ ReaperPick \/ ReaperClose
  \/ IdleTimePasses \/ Drop

Spec == Init /\ [][Next]_vars

(***************************************************************************)
(* Goroutines that are ready run; time passes; main() loads the            *)
(* configuration.  Nothing makes a client authenticate, open a stream or   *)
(* end one, but reads and writes on a closed session fail.                 *)
(***************************************************************************)
Fairness ==
  /\ WF_vars((open => main \notin {"auth", "exchange"}) /\ Main)
  /\ WF_vars(Reaper)
  /\ WF_vars(SetDefaultMuxConfig)
  /\ WF_vars(IdleTimePasses)
  /\ \A s \in Stream : /\ WF_vars(Handler(s))
                       /\ WF_vars(~open /\ HandlerWork(s))

FairSpec == Spec /\ Fairness

-----------------------------------------------------------------------------
(* Properties *)

TypeOK ==
  /\ configured \in BOOLEAN
  /\ reaper \in ReaperPCs
  /\ main \in MainPCs
  /\ h \in [Stream -> HandlerPCs]
  /\ streamCouter \in Nat
  /\ closed \in BOOLEAN
  /\ listed \in BOOLEAN
  /\ isP2P \in BOOLEAN
  /\ open \in BOOLEAN
  /\ idle \in BOOLEAN

Counted == {s \in Stream : h[s] \in {"delete", "work", "dec"}}
Active  == {s \in Stream : h[s] \in {"delete", "work", "p2p"}}

(***************************************************************************)
(* streamCouter is the number of handlers between their two AddInt32       *)
(* calls, so it is never negative and is zero exactly when no stream is    *)
(* being proxied.                                                          *)
(***************************************************************************)
CounterExact == streamCouter = Cardinality(Counted)

(***************************************************************************)
(* A session at rest is a candidate for the reaper: whenever the loop      *)
(* waits for a stream, no handler runs and nobody has begun to close the   *)
(* session, the session is in emptySessions, whatever the order in which   *)
(* the last handlers and the loop stored and deleted it.                   *)
(***************************************************************************)
RestingIsListed ==
  (/\ main = "accept" /\ ~closed
   /\ \A s \in Stream : h[s] \in {"none", "p2p", "done"}) => listed

(***************************************************************************)
(* Only ctx.close takes the session down on the server's side, and the     *)
(* serving goroutine leaves its loop only when the session failed: a       *)
(* context is not closed while its transport is up and its loop accepts,   *)
(* unless the reaper is closing it.                                        *)
(***************************************************************************)
ClosedIsDown ==
  (closed /\ main \notin CloseSteps /\ reaper \notin CloseSteps) => ~open

(***************************************************************************)
(* Once a context is marked closed, by its own goroutine or by the reaper, *)
(* everything that works for the session comes to an end and the counter   *)
(* is back at zero.                                                        *)
(***************************************************************************)
CloseEndsAll ==
  closed ~> (/\ main = "done" /\ streamCouter = 0
             /\ \A s \in Stream : h[s] \in {"none", "done"})

(***************************************************************************)
(* A handler can put a closed context back into emptySessions (it tests    *)
(* ctx.closed before it stores).  A running reaper takes it out again.     *)
(***************************************************************************)
ReaperForgets ==
  (main = "done" /\ listed /\ reaper \notin {"start", "off"}) ~> ~listed
=============================================================================
