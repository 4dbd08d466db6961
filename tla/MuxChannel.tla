----------------------------- MODULE MuxChannel -----------------------------
(***************************************************************************)
(* The client's proxy channel of mux.go: a LocalProxyChannel with its      *)
(* muxSessionHolders.  Proxy connections call getMuxStream, which walks    *)
(* the holders round robin; each holder keeps one current mux session,     *)
(* replaces it when it expires and closes a retired session once it has no *)
(* streams.  Heartbeat goroutines ping the current session.  A channel is  *)
(* a configured one, or an ad hoc one that GetMuxStreamByURL made and that *)
(* the expiry task removes again; StopLocalChannels drops both.  It has no *)
(* direct P2P sessions.                                                    *)
(*                                                                         *)
(* What runs under sessionMutex is one action; the gaps between unlock and *)
(* the next lock are interleavings.  Sessions are numbered in the order in *)
(* which CreateMuxSession makes them, and the heartbeat goroutine that the *)
(* init of session s starts is named s too.                                *)
(***************************************************************************)
EXTENDS Integers, FiniteSets

CONSTANTS
  N,           \* number of holders, len(ch.sessions)
  Caller,      \* goroutines of proxy connections
  MaxSession,  \* bound: mux sessions the server lets the client make
  HeartBeat,   \* the transport is Pingable and HeartBeatPeriod > 0
  Origins,     \* which channels: "configured", "adhoc"
  None

ASSUME ChannelAssumption ==
  /\ N \in Nat \ {0}
  /\ MaxSession \in Nat /\ N <= MaxSession
  /\ HeartBeat \in BOOLEAN
  /\ Origins \subseteq {"configured", "adhoc"}
  /\ IsFiniteSet(Caller)
  /\ None \notin Nat \cup Caller \cup {"expiry"} /\ "expiry" \notin Caller

Holder  == 0 .. N - 1
Session == 1 .. MaxSession

VARIABLES
  holder,   \* muxSessionHolder: muxSession, retiredSessions, expiry, heatbeating
  made,     \* sessions made so far are 1 .. made
  st,       \* state of each session
  cursor,   \* ch.cursor
  pc,       \* where each caller is
  idx,      \* getMuxStream's c
  tries,    \* getMuxStream's i: holders that failed in this call
  tried,    \* history: which holders those are
  on,       \* the session of the caller's stream
  hb,       \* heartbeat goroutines: pc, holder, and the session they ping
  orphan,   \* sessions init left open after a failed authentication
  origin,   \* autoExpire and lazyConnect are set in an ad hoc channel
  place,    \* of the channel: in localChannelTable, or how it left it
  lock,     \* who holds localChannelMutex
  exp       \* the expiry task: where it is, and at which holder

callVars == <<cursor, pc, idx, tries, tried, on>>
tableVars == <<origin, place, lock, exp>>
vars == <<holder, made, st, cursor, pc, idx, tries, tried, on, hb, orphan, tableVars>>

(***************************************************************************)
(* Init of the channel connects every holder before the channel is in the  *)
(* table (shouldInit, once set, stays set; a holder that cannot connect is *)
(* not appended).  Holder i starts with session i + 1 and its heartbeat.   *)
(***************************************************************************)
Init ==
  /\ holder = [i \in Holder |-> [cur |-> i + 1, retired |-> {},
                                 expired |-> FALSE, beating |-> FALSE]]
  /\ made = N
  /\ st = [s \in Session |-> IF s <= N THEN "up" ELSE "none"]
  /\ cursor = 0
  /\ pc = [c \in Caller |-> "idle"]
  /\ idx = [c \in Caller |-> 0]
  /\ tries = [c \in Caller |-> 0]
  /\ tried = [c \in Caller |-> {}]
  /\ on = [c \in Caller |-> None]
  /\ hb = [s \in Session |-> IF s <= N /\ HeartBeat
                             THEN [pc |-> "start", of |-> s - 1, sess |-> None]
                             ELSE [pc |-> "none", of |-> 0, sess |-> None]]
  /\ orphan = {}
  /\ origin \in Origins /\ place = "table" /\ lock = None
  /\ exp = [pc |-> "wait", at |-> 0]

-----------------------------------------------------------------------------
(* The streams of a session, which pmux, a library, counts.  (The counter  *)
(* of http2 sessions, which a second Close of a stream takes down again,   *)
(* is not modelled.)                                                       *)

Streams(s) == {c \in Caller : on[c] = s /\ pc[c] \in {"store", "using"}}

NumStreams(s) == Cardinality(Streams(s))

-----------------------------------------------------------------------------
(* The parts of muxSessionHolder that run under its mutex, as functions of *)
(* the holder's state.                                                     *)

\* Seeded fault: an expired session is dropped instead of retired.
Check_Drop(r) ==
  IF r.cur # None /\ r.expired THEN [r EXCEPT !.cur = None] ELSE r

Check(r) ==
  IF r.cur # None /\ r.expired
  THEN [r EXCEPT !.retired = @ \cup {r.cur}, !.cur = None]
  ELSE r

(***************************************************************************)
(* init: what becomes of the holder, and the session that was made.  A     *)
(* session whose authentication fails is neither kept nor closed.          *)
(***************************************************************************)
InitOutcomes(r) ==
  LET s == made + 1
  IN  IF r.cur # None
      THEN {[holder |-> r, new |-> None, ok |-> TRUE]}
      ELSE {[holder |-> r, new |-> None, ok |-> FALSE]} \cup
           (IF s \notin Session THEN {} ELSE
            {[holder |-> r, new |-> s, ok |-> FALSE],
             [holder |-> [r EXCEPT !.cur = s, !.expired = FALSE],
              new |-> s, ok |-> TRUE]})

\* Seeded fault: every retired session is taken for drained.
Drained_All(r) == r.retired

Drained(r) == {s \in r.retired : NumStreams(s) <= 0}

(***************************************************************************)
(* The effects of init and of tryCloseRetiredSessions on the sessions and  *)
(* on the heartbeat goroutines.                                            *)
(***************************************************************************)
Sessions(new, closing) ==
  [s \in Session |-> IF s = new THEN "up"
                     ELSE IF s \in closing THEN "closed" ELSE st[s]]

Spawn(beats, i, o) ==
  IF o.ok /\ o.new # None /\ HeartBeat
  THEN [beats EXCEPT ![o.new] = [pc |-> "start", of |-> i, sess |-> None]]
  ELSE beats

Made(o) ==
  /\ made' = IF o.new = None THEN made ELSE o.new
  /\ orphan' = IF o.new # None /\ ~o.ok THEN orphan \cup {o.new} ELSE orphan

-----------------------------------------------------------------------------
(* getMuxStream, called by a proxy connection *)

CallerGoto(c, from, to) == pc[c] = from /\ pc' = [pc EXCEPT ![c] = to]

\* getMuxStream returns: its local variables are gone.
Return(c) ==
  /\ idx' = [idx EXCEPT ![c] = 0]
  /\ tries' = [tries EXCEPT ![c] = 0]
  /\ tried' = [tried EXCEPT ![c] = {}]

\* GetMuxStreamByURL keeps localChannelMutex until it returns.
Unlock(c) == lock' = IF lock = c THEN None ELSE lock

GetMuxStream(c) ==
  /\ place = "table"
  /\ CallerGoto(c, "idle", "try")
  /\ idx' = [idx EXCEPT ![c] = cursor]
  /\ IF origin = "adhoc" THEN lock = None /\ lock' = c ELSE UNCHANGED lock
  /\ UNCHANGED <<holder, made, st, cursor, tries, tried, on, hb, orphan,
                 origin, place, exp>>

\* Seeded fault: the cursor wraps one holder too late.
At_NoWrap(c) == IF idx[c] >= N THEN N - 1 ELSE idx[c]

\* The holder a caller is at: the index wraps at the end of the list.
At(c) == IF idx[c] >= N THEN 0 ELSE idx[c]

\* Seeded fault: the loop over the holders never ends.
TryNext_Forever(c, i) ==
  /\ idx' = [idx EXCEPT ![c] = i + 1]
  /\ pc' = [pc EXCEPT ![c] = "try"]
  /\ UNCHANGED <<tries, tried>>

\* The loop of getMuxStream goes on to the next holder, if one is left.
TryNext(c, i) ==
  /\ tries' = [tries EXCEPT ![c] = @ + 1]
  /\ tried' = [tried EXCEPT ![c] = @ \cup {i}]
  /\ idx' = [idx EXCEPT ![c] = i + 1]
  /\ pc' = [pc EXCEPT ![c] = IF tries[c] + 1 < N THEN "try" ELSE "failed"]

(***************************************************************************)
(* getNewStream on the holder at hand: check, init when there is no        *)
(* session, OpenStream, and tryCloseRetiredSessions on the way out.  A     *)
(* session that is down, or none at all, is ErrSessionShutdown; OpenStream *)
(* may also fail otherwise, which moves on to the next holder.             *)
(***************************************************************************)
GetNewStream(c) ==
  LET i == At(c)
  IN  /\ pc[c] = "try"
      /\ \E o \in InitOutcomes(Check(holder[i])) :
           LET r == o.holder
               gone == Drained(r)
               up == r.cur # None /\ (r.cur = o.new \/ st[r.cur] = "up")
           IN  /\ holder' = [holder EXCEPT ![i] = [r EXCEPT !.retired = @ \ gone]]
               /\ st' = Sessions(o.new, gone)
               /\ hb' = Spawn(hb, i, o)
               /\ Made(o)
               /\ \/ /\ up
                     /\ CallerGoto(c, "try", "store")
                     /\ on' = [on EXCEPT ![c] = r.cur]
                     /\ idx' = [idx EXCEPT ![c] = i]
                     /\ UNCHANGED <<tries, tried>>
                  \/ /\ ~up
                     /\ CallerGoto(c, "try", "close")
                     /\ idx' = [idx EXCEPT ![c] = i]
                     /\ UNCHANGED <<on, tries, tried>>
                  \/ /\ r.cur # None
                     /\ TryNext(c, i)
                     /\ UNCHANGED on
      /\ UNCHANGED <<cursor, tableVars>>

(***************************************************************************)
(* holder.close(): it closes the session that is current when it gets the  *)
(* lock, which need not be the one that failed.                            *)
(***************************************************************************)
CloseHolder(i) ==
  /\ st' = Sessions(None, {holder[i].cur})
  /\ holder' = [holder EXCEPT ![i].cur = None]

CloseAfterShutdown(c) ==
  /\ pc[c] = "close"
  /\ CloseHolder(idx[c])
  /\ TryNext(c, idx[c])
  /\ UNCHANGED <<made, cursor, on, hb, orphan, tableVars>>

StoreCursor(c) ==
  /\ CallerGoto(c, "store", "using")
  /\ cursor' = idx[c] + 1
  /\ Return(c)
  /\ Unlock(c)
  /\ UNCHANGED <<holder, made, st, on, hb, orphan, origin, place, exp>>

(***************************************************************************)
(* The proxy connection closes its stream.                                 *)
(***************************************************************************)
CloseStream(c) ==
  /\ CallerGoto(c, "using", "idle")
  /\ on' = [on EXCEPT ![c] = None]
  /\ UNCHANGED <<holder, made, st, cursor, idx, tries, tried, hb, orphan, tableVars>>

(***************************************************************************)
(* The call failed.  GetMuxStreamByURL then makes another channel, which   *)
(* takes the place of this one in the table if it can be initialised.      *)
(***************************************************************************)
GiveUp(c) ==
  /\ CallerGoto(c, "failed", "idle")
  /\ Return(c)
  /\ Unlock(c)
  /\ place' \in IF origin = "adhoc" /\ place = "table"
               THEN {place, "replaced"} ELSE {place}
  /\ UNCHANGED <<holder, made, st, cursor, on, hb, orphan, origin, exp>>

-----------------------------------------------------------------------------
(* The heartbeat goroutine started by the init of session s *)

HBGoto(s, from, to) == hb[s].pc = from /\ hb' = [hb EXCEPT ![s].pc = to]

HBUnchanged == UNCHANGED <<made, callVars, orphan, tableVars>>

HeartbeatStart(s) ==
  /\ HBGoto(s, "start", IF holder[hb[s].of].beating THEN "exit" ELSE "begin")
  /\ UNCHANGED <<holder, st>>
  /\ HBUnchanged

HeartbeatBegin(s) ==
  /\ HBGoto(s, "begin", "wait")
  /\ holder' = [holder EXCEPT ![hb[s].of].beating = TRUE]
  /\ UNCHANGED st
  /\ HBUnchanged

(***************************************************************************)
(* A tick: check and read the session under the lock.  Without a session   *)
(* a channel that is not lazy reconnects after HibernateAfterSecs.         *)
(***************************************************************************)
HeartbeatTick(s) ==
  LET i == hb[s].of
      r == Check(holder[i])
  IN  /\ hb[s].pc = "wait"
      /\ holder' = [holder EXCEPT ![i] = r]
      /\ \/ /\ r.cur # None
            /\ hb' = [hb EXCEPT ![s].pc = "ping", ![s].sess = r.cur]
         \/ /\ r.cur = None
            /\ \E to \in IF origin = "adhoc" THEN {"wait"} ELSE {"wait", "reinit"} :
                  hb' = [hb EXCEPT ![s].pc = to]
      /\ UNCHANGED st
      /\ HBUnchanged

\* Seeded fault: a failed ping is only logged.
HeartbeatPing_LogOnly(s) ==
  /\ hb[s].pc = "ping"
  /\ hb' = [hb EXCEPT ![s].pc = "wait", ![s].sess = None]
  /\ UNCHANGED <<holder, st>>
  /\ HBUnchanged

(***************************************************************************)
(* The ping runs without the lock.  It fails on a session that is down or  *)
(* closed and may time out on any other.                                   *)
(***************************************************************************)
PingOutcomes(s) == {FALSE} \cup {st[s] = "up"}

HeartbeatPing(s) ==
  /\ hb[s].pc = "ping"
  /\ \E ok \in PingOutcomes(hb[s].sess) :
        hb' = [hb EXCEPT ![s].pc = IF ok THEN "wait" ELSE "close",
                         ![s].sess = None]
  /\ UNCHANGED <<holder, st>>
  /\ HBUnchanged

HeartbeatClose(s) ==
  /\ HBGoto(s, "close", "wait")
  /\ CloseHolder(hb[s].of)
  /\ HBUnchanged

HeartbeatReinit(s) ==
  /\ hb[s].pc = "reinit"
  /\ \E o \in InitOutcomes(holder[hb[s].of]) :
        /\ holder' = [holder EXCEPT ![hb[s].of] = o.holder]
        /\ st' = Sessions(o.new, {})
        /\ hb' = Spawn([hb EXCEPT ![s].pc = "wait"], hb[s].of, o)
        /\ Made(o)
  /\ UNCHANGED <<callVars, tableVars>>

-----------------------------------------------------------------------------
(* The statistics dump, time and the network *)

DumpStat(i) ==
  LET gone == Drained(holder[i])
  IN  /\ gone # {}
      /\ holder' = [holder EXCEPT ![i].retired = @ \ gone]
      /\ st' = Sessions(None, gone)
      /\ UNCHANGED <<made, callVars, hb, orphan, tableVars>>

Expire(i) ==
  /\ holder[i].cur # None /\ ~holder[i].expired
  /\ holder' = [holder EXCEPT ![i].expired = TRUE]
  /\ UNCHANGED <<made, st, callVars, hb, orphan, tableVars>>

(* The connection broke.                                                   *)
SessionDown(s) ==
  /\ st[s] = "up"
  /\ st' = [st EXCEPT ![s] = "down"]
  /\ UNCHANGED <<holder, made, callVars, hb, orphan, tableVars>>

-----------------------------------------------------------------------------
(* The table of channels: the expiry task and StopLocalChannels *)

ExpGoto(l) == exp' = [exp EXCEPT !.pc = l]

ExpUnchanged == UNCHANGED <<made, callVars, hb, orphan, origin>>

\* expireLocalChannels: a tick of the task that the first ad hoc call starts.
ExpireTick ==
  /\ origin = "adhoc" /\ place = "table" /\ lock = None
  /\ exp.pc = "wait"
  /\ exp' = [pc |-> "check", at |-> 0]
  /\ lock' = "expiry"
  /\ UNCHANGED <<holder, st, place>>
  /\ ExpUnchanged

(***************************************************************************)
(* session.check() without sessionMutex: muxSession is tested and then     *)
(* read again.  A session that a heartbeat has closed in between is nil by *)
(* then, and tryCloseRetiredSessions panics on it.                         *)
(***************************************************************************)
ExpireCheck ==
  LET r == holder[exp.at]
  IN  /\ exp.pc = "check"
      /\ ExpGoto(IF r.cur # None /\ r.expired THEN "retire" ELSE "sweep")
      /\ UNCHANGED <<holder, st, place, lock>>
      /\ ExpUnchanged

ExpireRetire ==
  LET r == holder[exp.at]
  IN  /\ exp.pc = "retire"
      /\ IF r.cur = None THEN ExpGoto("panic") /\ UNCHANGED holder
         ELSE /\ holder' = [holder EXCEPT ![exp.at] =
                              [r EXCEPT !.retired = @ \cup {r.cur}, !.cur = None]]
              /\ ExpGoto("sweep")
      /\ UNCHANGED <<st, place, lock>>
      /\ ExpUnchanged

\* Seeded fault: retired sessions do not keep the channel.
Kept_Never(r) == FALSE

\* A channel with retired sessions stays in the table.
Kept(r) == r.retired # {}

ExpireKeep == ExpGoto("wait") /\ lock' = None

ExpireSweep ==
  LET gone == Drained(holder[exp.at])
      r == [holder[exp.at] EXCEPT !.retired = @ \ gone]
  IN  /\ exp.pc = "sweep"
      /\ holder' = [holder EXCEPT ![exp.at] = r]
      /\ st' = Sessions(None, gone)
      /\ IF Kept(r) THEN ExpireKeep
         ELSE ExpGoto(IF r.cur # None THEN "count" ELSE "close") /\ UNCHANGED lock
      /\ UNCHANGED place
      /\ ExpUnchanged

\* Its current session is tested, and read again to count its streams.
ExpireCount ==
  LET r == holder[exp.at]
  IN  /\ exp.pc = "count"
      /\ IF r.cur = None THEN ExpGoto("panic") /\ UNCHANGED lock
         ELSE IF NumStreams(r.cur) > 0 THEN ExpireKeep
         ELSE ExpGoto("close") /\ UNCHANGED lock
      /\ UNCHANGED <<holder, st, place>>
      /\ ExpUnchanged

(***************************************************************************)
(* session.close(), then the next holder; after the last one the channel   *)
(* leaves the table.                                                       *)
(***************************************************************************)
ExpireClose ==
  /\ exp.pc = "close"
  /\ CloseHolder(exp.at)
  /\ IF exp.at + 1 < N
     THEN /\ exp' = [pc |-> "check", at |-> exp.at + 1]
          /\ UNCHANGED <<place, lock>>
     ELSE /\ exp' = [pc |-> "wait", at |-> 0]
          /\ place' = IF place = "table" THEN "expired" ELSE place
          /\ lock' = None
  /\ ExpUnchanged

(***************************************************************************)
(* StopLocalChannels closes the current sessions under their holders,      *)
(* takes neither lock, and leaves retired sessions and heartbeats alone.   *)
(***************************************************************************)
StopLocalChannels ==
  /\ place = "table"
  /\ place' = "stopped"
  /\ st' = Sessions(None, {holder[i].cur : i \in Holder})
  /\ UNCHANGED <<holder, lock, exp>>
  /\ ExpUnchanged

Expiry == \/ ExpireTick \/ ExpireCheck \/ ExpireRetire \/ ExpireSweep
          \/ ExpireCount \/ ExpireClose

-----------------------------------------------------------------------------

Call(c) == GetNewStream(c) \/ CloseAfterShutdown(c) \/ StoreCursor(c) \/ GiveUp(c)

Beat(s) == \/ HeartbeatStart(s) \/ HeartbeatBegin(s) \/ HeartbeatTick(s)
           \/ HeartbeatPing(s) \/ HeartbeatClose(s) \/ HeartbeatReinit(s)

Step ==
  \/ \E c \in Caller : \/ GetMuxStream(c) \/ GetNewStream(c)
                       \/ CloseAfterShutdown(c) \/ StoreCursor(c)
                       \/ CloseStream(c) \/ GiveUp(c)
  \/ \E s \in Session : \/ HeartbeatStart(s) \/ HeartbeatBegin(s)
                        \/ HeartbeatTick(s) \/ HeartbeatPing(s)
                        \/ HeartbeatClose(s) \/ HeartbeatReinit(s)
                        \/ SessionDown(s)
  \/ \E i \in Holder : DumpStat(i) \/ Expire(i)
  \/ Expiry \/ StopLocalChannels

\* A panic ends the process.
Alive == exp.pc # "panic"

Next == Alive /\ Step

Spec == Init /\ [][Next]_vars

(***************************************************************************)
(* Goroutines that are ready run and tickers fire.  Nothing makes a proxy  *)
(* connection ask for a stream or end one.                                 *)
(***************************************************************************)
FairSpec == /\ Spec
            /\ \A c \in Caller : WF_vars(Alive /\ Call(c))
            /\ \A s \in Session : WF_vars(Alive /\ Beat(s))
            /\ WF_vars(Alive /\ Expiry)

-----------------------------------------------------------------------------
(* Properties *)

Owns(i, s) == s = holder[i].cur \/ s \in holder[i].retired

(***************************************************************************)
(* Every authenticated session is either held by a holder or closed:       *)
(* expiry, failed pings, failed opens and stale closes in any order        *)
(* neither lose an open connection nor keep a closed one for later use.    *)
(* Only StopLocalChannels closes a session under its holder.               *)
(***************************************************************************)
SessionsAccounted ==
  \A s \in (1 .. made) \ orphan :
    LET owned == \E i \in Holder : Owns(i, s)
    IN  /\ ~owned => st[s] = "closed"
        /\ owned /\ st[s] = "closed" => place = "stopped"

(***************************************************************************)
(* An ad hoc channel that the expiry task has removed has no stream on an  *)
(* open session and no current session, and never gets one again, although *)
(* its heartbeats still run and the task looks at the holders without      *)
(* their lock.  (A session without streams that a heartbeat retires while  *)
(* the task looks stays open.)                                             *)
(***************************************************************************)
RemovedIsUnused ==
  place = "expired" =>
    /\ \A i \in Holder : holder[i].cur = None
    /\ \A s \in Session : st[s] # "closed" => Streams(s) = {}

(***************************************************************************)
(* A retired session is closed only when it has no active stream, as the   *)
(* log line of tryCloseRetiredSessions says.                               *)
(***************************************************************************)
DrainedBeforeClose ==
  [][\A i \in Holder : \A s \in holder[i].retired :
       s \notin holder'[i].retired => Streams(s) = {}]_vars

(***************************************************************************)
(* A call gives up only after it has asked every holder of the channel,    *)
(* wherever the shared cursor stood and however other calls moved it.      *)
(***************************************************************************)
FailsAfterAll == \A c \in Caller : pc[c] = "failed" => tried[c] = Holder

(***************************************************************************)
(* A current session whose connection broke, or that StopLocalChannels     *)
(* closed, is given up sooner or later, without any traffic.               *)
(***************************************************************************)
DownIsDropped ==
  \A i \in Holder : \A s \in Session :
    (holder[i].cur = s /\ st[s] # "up") ~> (holder[i].cur # s \/ ~Alive)

(***************************************************************************)
(* A call for a stream ends, with a stream or with an error.               *)
(***************************************************************************)
CallEnds ==
  \A c \in Caller : pc[c] = "try" ~> (pc[c] \in {"using", "failed"} \/ ~Alive)

=============================================================================
