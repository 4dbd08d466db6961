------------------------ MODULE ProtectedSocketProofs ------------------------
(***************************************************************************)
(* Proofs about ProtectedSocket: both of its invariants hold for every     *)
(* number of calls, every mix of functions and every size of the           *)
(* descriptor table.                                                       *)
(*                                                                         *)
(* Walk ties the place of a call to the function it runs and to what its   *)
(* three variables for numbers hold.  Kept says who is going to close an   *)
(* open number; a call that waits for the deferred cleanup counts only     *)
(* while conn.socketFd still is the number it opened.  Owned is the        *)
(* exclusive ownership that holds until somebody closes a number twice.    *)
(***************************************************************************)
EXTENDS ProtectedSocket, NaturalsInduction, WellFoundedInduction, TLAPS

Options == {"mark", "reuse", "bind", "protect"}

(* Where a call of each function can be.                                   *)
Labels(k) ==
  CASE k = "dial"      -> {"socket", "mark", "reuse", "bind", "protect", "connect", "wait",
                           "dup", "fclose", "cleanup", "rawclose", "done"}
    [] k = "dialudp"   -> {"socket", "mark", "protect", "connect", "wait", "dup", "fclose",
                           "cleanup", "rawclose", "done"}
    [] k = "listen"    -> {"socket", "reuse", "protect", "bind", "dup", "fclose", "cleanup",
                           "closetwice", "rawclose", "done"}
    [] k = "listenudp" -> {"socket", "mark", "protect", "bind", "dup", "fclose", "cleanup",
                           "rawclose", "done"}
    [] k = "resolve"   -> {"socket", "protect", "connectnow", "dup", "lookup", "fclose",
                           "rawclose", "done"}
    [] OTHER           -> {"socket", "reuse", "rawclose", "done"}

(* The types of the variables.                                             *)
Types ==
  /\ kind \in [Calls -> Kinds]
  /\ \A c \in Calls : pc[c] \in Labels(kind[c])
  /\ DOMAIN pc = Calls
  /\ ok \in [Calls -> BOOLEAN]
  /\ raw \in [Calls -> Fds \cup {None}]
  /\ fd \in [Calls -> Fds \cup {None}]
  /\ ret \in [Calls -> Fds \cup {None}]
  /\ gor \in [Calls -> {"none", "ready", "call", "in", "over"}]
  /\ gfd \in [Calls -> Fds \cup {None}]
  /\ gsock \in [Calls -> Calls \cup {None}]
  /\ fdt \in [Fds -> Calls \cup {None}]
  /\ peer \in [Calls -> Calls \cup {None}]

(* What a call's variables hold, by where it is.                           *)
Walk ==
  \A c \in Calls :
    /\ pc[c] = "socket" => raw[c] = None
    /\ pc[c] \in {"connect", "wait"} => fd[c] = raw[c]
    /\ pc[c] \in Options \cup {"socket", "connect", "wait", "connectnow", "dup"} => ret[c] = None
    /\ pc[c] = "closetwice" => ~ok[c]
    /\ fd[c] \in {None, raw[c]}
    /\ ret[c] # None => ret[c] # raw[c]
    /\ ok[c] /\ gor[c] \in {"ready", "call", "in"} => pc[c] = "wait"
    /\ ok[c] /\ gor[c] \in {"call", "in"} => gfd[c] = raw[c]

(* Each open number has a call that will close it or a caller that may.    *)
Keeps(c, f) ==
  \/ ret[c] = f
  \/ raw[c] = f /\ pc[c] # "done" /\ (pc[c] = "cleanup" => fd[c] = f)

Kept == \A f \in Fds : fdt[f] # None => \E c \in Calls : Keeps(c, f)

(* Until a number is closed twice, what a call holds is its own.           *)
Owns(c) ==
  /\ raw[c] # None /\ pc[c] \notin {"cleanup", "done"} => fdt[raw[c]] = c
  /\ fd[c] # None /\ pc[c] = "cleanup" => fdt[fd[c]] = c
  /\ ret[c] # None => fdt[ret[c]] = c
  /\ gsock[c] \notin {None, c} => ~ok[c]

Owned == (\A d \in Calls : ~ClosesTwice(d)) => \A c \in Calls : Owns(c)

(* The inductive invariant.                                                *)
IInv == Types /\ Walk /\ Kept /\ Owned
-----------------------------------------------------------------------------
(* The kernel finds the lowest free number when there is a free one.       *)
LEMMA MinIn == ASSUME NEW S \in SUBSET Nat, S # {} PROVE Min(S) \in S
<1> DEFINE R == {p \in Nat \X Nat : p[1] < p[2]}
<1>1. OpToRel(<, Nat) = R
  BY Zenon DEF OpToRel
<1>2. \E x \in S : \A y \in S : ~ <<y, x>> \in OpToRel(<, Nat)
  BY NatLessThanWellFounded, WFMin, Zenon
<1>3. PICK x \in S : \A y \in S : ~ <<y, x>> \in R
  BY <1>1, <1>2, Zenon
<1>4. ASSUME NEW y \in S PROVE x <= y
  <2>1. ~ <<y, x>> \in R
    BY <1>3
  <2>2. <<y, x>> \in Nat \X Nat
    OBVIOUS
  <2>3. ~(y < x)
    BY <2>1, <2>2
  <2> QED
    BY <2>3
<1> QED
  BY <1>4 DEF Min

(* The kernel's choice, the lowest free number, is a free one.             *)
LEMMA LowestFree == ASSUME Free # {} PROVE Min(Free) \in Fds /\ fdt[Min(Free)] = None
<1>1. Free \in SUBSET Nat
  BY NumFdsAssumption DEF Free, Fds
<1> QED
  BY <1>1, MinIn DEF Free

(* The functions a call can run.                                           *)
LEMMA KindCases ==
  ASSUME Types, NEW c \in Calls
  PROVE  kind[c] \in {"dial", "dialudp", "listen", "listenudp", "resolve", "probe"}
BY KindsAssumption DEF Types, Steps

(* The next system call of each function, as Steps lists them.             *)
LEMMA Successors ==
  ASSUME Types, NEW c \in Calls
  PROVE  /\ After(c, "socket") \in Labels(kind[c]) \cap Options
         /\ pc[c] \in Options =>
              After(c, pc[c]) \in Labels(kind[c]) \cap
                                  (Options \cup {"connect", "connectnow", "dup", "rawclose"})
         /\ pc[c] = "connect" => After(c, "connect") = "wait"
         /\ pc[c] = "wait" => After(c, "wait") = "dup"
         /\ pc[c] = "connectnow" => After(c, "connectnow") = "dup"
         /\ pc[c] = "dup" => After(c, "dup") \in Labels(kind[c]) \cap {"fclose", "lookup"}
         /\ pc[c] = "lookup" => After(c, "lookup") = "fclose"
         /\ pc[c] = "fclose" => After(c, "fclose") \in Labels(kind[c]) \cap {"cleanup", "rawclose"}
         /\ pc[c] = "fclose" /\ kind[c] # "resolve" => After(c, "fclose") = "cleanup"
         /\ pc[c] = "cleanup" => After(c, "cleanup") = "done"
<1>a. pc[c] \in Labels(kind[c])
  BY DEF Types
<1>1. CASE kind[c] = "dial"
  BY <1>1, <1>a DEF After, Steps, dialContext, Labels, Options
<1>2. CASE kind[c] = "dialudp"
  BY <1>2, <1>a DEF After, Steps, DialUDP, Labels, Options
<1>3. CASE kind[c] = "listen"
  BY <1>3, <1>a DEF After, Steps, ListenTCP, Labels, Options
<1>4. CASE kind[c] = "listenudp"
  BY <1>4, <1>a DEF After, Steps, ListenUDP, Labels, Options
<1>5. CASE kind[c] = "resolve"
  BY <1>5, <1>a DEF After, Steps, Resolve, Labels, Options
<1>6. CASE kind[c] = "probe"
  BY <1>6, <1>a DEF After, Steps, SupportReusePort, Labels, Options
<1> QED
  BY <1>1, <1>2, <1>3, <1>4, <1>5, <1>6, KindCases

(* Where an error leads.                                                   *)
LEMMA ErrorPaths ==
  ASSUME Types, NEW c \in Calls
  PROVE  /\ pc[c] \in Options =>
              /\ OnError(c, pc[c]) \in Labels(kind[c]) \cap {"closetwice", "rawclose", "cleanup"}
              /\ OnError(c, pc[c]) = "cleanup" => kind[c] \notin {"resolve", "probe"}
         /\ pc[c] = "wait" => OnError(c, "wait") = "cleanup" /\ "cleanup" \in Labels(kind[c])
         /\ pc[c] = "dup" => OnError(c, "dup") = "fclose" /\ "fclose" \in Labels(kind[c])
<1>a. pc[c] \in Labels(kind[c])
  BY DEF Types
<1>1. CASE kind[c] \in {"dial", "dialudp"}
  BY <1>1, <1>a DEF OnError, Labels, Options
<1>2. CASE kind[c] \in {"listen", "listenudp"}
  BY <1>2, <1>a DEF OnError, Labels, Options
<1>3. CASE kind[c] = "resolve"
  BY <1>3, <1>a DEF OnError, Labels, Options
<1>4. CASE kind[c] = "probe"
  BY <1>4, <1>a DEF OnError, Labels, Options
<1> QED
  BY <1>1, <1>2, <1>3, <1>4, KindCases

(* Labels that a function has, from those it must have had.                *)
LEMMA LabelFacts ==
  ASSUME Types, NEW c \in Calls
  PROVE  /\ "done" \in Labels(kind[c]) /\ "rawclose" \in Labels(kind[c])
         /\ "socket" \in Labels(kind[c])
         /\ pc[c] = "connect" => "wait" \in Labels(kind[c])
         /\ pc[c] \in {"wait", "connectnow"} => "dup" \in Labels(kind[c])
         /\ pc[c] = "lookup" => "fclose" \in Labels(kind[c])
         /\ pc[c] \in {"connectnow", "lookup"} => kind[c] = "resolve"
         /\ pc[c] \in {"connect", "wait", "cleanup"} => kind[c] \notin {"resolve", "probe"}
         /\ pc[c] = "closetwice" => kind[c] = "listen"
         /\ "connect" \in Labels(kind[c]) => kind[c] \notin {"resolve", "probe"}
<1>a. pc[c] \in Labels(kind[c])
  BY DEF Types
<1> QED
  BY KindCases, <1>a DEF Labels
-----------------------------------------------------------------------------
(* The program starts in the invariant.                                    *)
LEMMA InitIInv == Init => IInv
<1> SUFFICES ASSUME Init PROVE IInv
  OBVIOUS
<1>1. \A c \in Calls : "socket" \in Labels(kind[c])
  BY DEF Labels
<1> QED
  BY <1>1 DEF Init, IInv, Types, Walk, Kept, Owned, Owns, Options

(* A call moves to a label of its function.                                *)
LEMMA Moves ==
  ASSUME Types, NEW c \in Calls, NEW s \in Labels(kind[c]), UNCHANGED kind, Goto(c, s)
  PROVE  /\ \A d \in Calls : pc'[d] \in Labels(kind'[d])
         /\ DOMAIN pc' = Calls
         /\ pc'[c] = s /\ \A d \in Calls : d # c => pc'[d] = pc[d]
BY DEF Types, Goto

(* Closing a descriptor keeps the table typed.                             *)
LEMMA ReleaseType ==
  ASSUME Types, NEW f \in Fds \cup {None}, Release(f)
  PROVE  /\ fdt' \in [Fds -> Calls \cup {None}]
         /\ \A g \in Fds : fdt'[g] = IF g = f THEN None ELSE fdt[g]
BY DEF Types, Release, Fds, None

(* The types, step by step.                                                *)
LEMMA TypesStep ==
  ASSUME Types, NEW c \in Calls, CallStep(c) \/ Connector(c) \/ CallerCloses(c)
  PROVE  Types'
<1> USE DEF Types
<1>a. None \in Fds \cup {None}
  OBVIOUS
<1>1. CASE Reject(c)
  BY <1>1, Moves, LabelFacts DEF Reject, Fail
<1>2. CASE Socket(c)
  <2>1. CASE Free = {}
    BY <1>2, <2>1, Moves, LabelFacts DEF Socket, Fail
  <2>2. CASE Free # {}
    BY <1>2, <2>2, Moves, Successors, LowestFree DEF Socket, Proceed
  <2> QED
    BY <2>1, <2>2
<1>3. CASE Option(c)
  <2>1. PICK s \in Labels(kind[c]) : Goto(c, s)
    BY <1>3, Successors, ErrorPaths DEF Option, Options, Proceed, Fail
  <2> QED
    BY <1>3, <2>1, Moves DEF Option, Proceed, Fail
<1>4. CASE connectSocket(c)
  BY <1>4, Moves, Successors, LabelFacts DEF connectSocket, Proceed
<1>5. CASE Timer(c)
  BY <1>5, Moves, ErrorPaths DEF Timer, Fail
<1>6. CASE ConnectNow(c)
  <2>1. PICK s \in Labels(kind[c]) : Goto(c, s)
    BY <1>6, Successors, LabelFacts DEF ConnectNow, Proceed, Fail
  <2>2. peer' \in [Calls -> Calls \cup {None}]
    BY <1>6 DEF ConnectNow
  <2> QED
    BY <1>6, <2>1, <2>2, Moves DEF ConnectNow, Proceed, Fail
<1>7. CASE Dup(c)
  <2>1. CASE SocketAt(raw[c]) # None /\ Free # {}
    <3>1. SocketAt(raw[c]) \in Calls
      BY <2>1 DEF SocketAt
    <3>2. After(c, "dup") \in Labels(kind[c])
      BY <1>7, Successors DEF Dup
    <3> QED
      BY <1>7, <2>1, <3>1, <3>2, Moves, LowestFree DEF Dup, Proceed
  <2>2. CASE ~(SocketAt(raw[c]) # None /\ Free # {})
    <3>1. /\ Goto(c, "fclose") /\ "fclose" \in Labels(kind[c])
          /\ ok' = [ok EXCEPT ![c] = FALSE]
      BY <1>7, <2>2, ErrorPaths DEF Dup, Fail
    <3>2. UNCHANGED <<kind, raw, fd, ret, fdt, gor, gfd, gsock, peer>>
      BY <1>7, <2>2 DEF Dup
    <3>3. /\ \A d \in Calls : pc'[d] \in Labels(kind'[d])
          /\ DOMAIN pc' = Calls
      BY <3>1, <3>2, Moves
    <3> QED
      BY <3>1, <3>2, <3>3
  <2> QED
    BY <2>1, <2>2
<1>8. CASE DnsLookup(c)
  <2>1. Goto(c, "fclose") /\ "fclose" \in Labels(kind[c])
    BY <1>8, Successors, LabelFacts DEF DnsLookup, Proceed, Fail
  <2> QED
    BY <1>8, <2>1, Moves, ReleaseType DEF DnsLookup, Proceed, Fail
<1>9. CASE FileClose(c)
  BY <1>9, Moves, Successors, ReleaseType DEF FileClose, Proceed
<1>10. CASE cleanup(c)
  BY <1>10, Moves, Successors, LabelFacts, ReleaseType DEF cleanup, Proceed
<1>11. CASE RawClose(c)
  <2>1. PICK s \in Labels(kind[c]) : Goto(c, s)
    BY <1>11, LabelFacts DEF RawClose
  <2> QED
    BY <1>11, <2>1, Moves, ReleaseType DEF RawClose
<1>12. CASE GoRead(c) \/ GoCall(c)
  BY <1>12 DEF GoRead, GoCall, SocketAt, call
<1>13. CASE GoConnected(c) \/ GoRefused(c)
  <2>1. peer' \in [Calls -> Calls \cup {None}]
    <3>1. CASE GoConnected(c)
      BY <3>1 DEF GoConnected
    <3>2. CASE GoRefused(c)
      BY <3>2 DEF GoRefused
    <3> QED
      BY <1>13, <3>1, <3>2
  <2>2. (\A d \in Calls : pc'[d] \in Labels(kind'[d])) /\ DOMAIN pc' = Calls /\ ok' \in [Calls -> BOOLEAN]
    <3>1. CASE pc[c] # "wait"
      BY <1>13, <3>1 DEF GoConnected, GoRefused, Answer
    <3>2. CASE pc[c] = "wait"
      <4>1. PICK s \in Labels(kind[c]) : Goto(c, s)
        BY <1>13, <3>2, Successors, ErrorPaths, LabelFacts
           DEF GoConnected, GoRefused, Answer, Proceed, Fail
      <4> QED
        BY <1>13, <3>2, <4>1, Moves DEF GoConnected, GoRefused, Answer, Proceed, Fail
    <3> QED
      BY <3>1, <3>2
  <2> QED
    BY <1>13, <2>1, <2>2 DEF GoConnected, GoRefused
<1>14. CASE CallerCloses(c)
  BY <1>14, ReleaseType DEF CallerCloses
<1> QED
  BY <1>1, <1>2, <1>3, <1>4, <1>5, <1>6, <1>7, <1>8, <1>9, <1>10, <1>11, <1>12, <1>13, <1>14
     DEF CallStep, Connector
(* What the calls' variables hold, step by step.                           *)
LEMMA WalkStep ==
  ASSUME Types, Walk, NEW c \in Calls, CallStep(c) \/ Connector(c) \/ CallerCloses(c)
  PROVE  Walk'
<1> USE DEF Types
<1>0. Types'
  BY TypesStep
<1> SUFFICES ASSUME NEW d \in Calls
             PROVE  /\ pc'[d] = "socket" => raw'[d] = None
                    /\ pc'[d] \in {"connect", "wait"} => fd'[d] = raw'[d]
                    /\ pc'[d] \in Options \cup {"socket", "connect", "wait", "connectnow", "dup"}
                         => ret'[d] = None
                    /\ pc'[d] = "closetwice" => ~ok'[d]
                    /\ fd'[d] \in {None, raw'[d]}
                    /\ ret'[d] # None => ret'[d] # raw'[d]
                    /\ ok'[d] /\ gor'[d] \in {"ready", "call", "in"} => pc'[d] = "wait"
                    /\ ok'[d] /\ gor'[d] \in {"call", "in"} => gfd'[d] = raw'[d]
  BY DEF Walk
<1> USE DEF Walk, Options, Goto
<1>1. CASE Reject(c)
  BY <1>1 DEF Reject, Fail
<1>2. CASE Socket(c)
  <2>1. CASE Free = {}
    BY <1>2, <2>1 DEF Socket, Fail
  <2>2. CASE Free # {}
    BY <1>2, <2>2, Successors DEF Socket, Proceed
  <2> QED
    BY <2>1, <2>2
<1>3. CASE Option(c)
  <2>1. CASE Proceed(c, pc[c])
    BY <1>3, <2>1, Successors, LabelFacts DEF Option, Proceed
  <2>2. CASE Fail(c, OnError(c, pc[c]))
    BY <1>3, <2>2, ErrorPaths DEF Option, Fail
  <2> QED
    BY <1>3, <2>1, <2>2 DEF Option
<1>4. CASE connectSocket(c)
  BY <1>4, Successors DEF connectSocket, Proceed
<1>5. CASE Timer(c)
  BY <1>5, ErrorPaths DEF Timer, Fail
<1>6. CASE ConnectNow(c)
  <2>1. CASE Proceed(c, "connectnow")
    BY <1>6, <2>1, Successors DEF ConnectNow, Proceed
  <2>2. CASE Fail(c, "rawclose")
    BY <1>6, <2>2 DEF ConnectNow, Fail
  <2> QED
    BY <1>6, <2>1, <2>2 DEF ConnectNow
<1>7. CASE Dup(c)
  <2>1. CASE SocketAt(raw[c]) # None /\ Free # {}
    <3>1. Min(Free) # raw[c]
      BY <2>1, LowestFree DEF SocketAt
    <3> QED
      BY <1>7, <2>1, <3>1, Successors DEF Dup, Proceed
  <2>2. CASE ~(SocketAt(raw[c]) # None /\ Free # {})
    BY <1>7, <2>2, ErrorPaths DEF Dup, Fail
  <2> QED
    BY <2>1, <2>2
<1>8. CASE DnsLookup(c)
  <2>1. pc' = [pc EXCEPT ![c] = "fclose"] /\ (ok'[d] => ok[d])
    BY <1>8, Successors DEF DnsLookup, Proceed, Fail
  <2> QED
    BY <1>8, <2>1 DEF DnsLookup
<1>9. CASE FileClose(c)
  BY <1>9, Successors DEF FileClose, Proceed
<1>10. CASE cleanup(c)
  BY <1>10, Successors DEF cleanup, Proceed
<1>11. CASE RawClose(c)
  BY <1>11 DEF RawClose
<1>12. CASE GoRead(c) \/ GoCall(c)
  BY <1>12 DEF GoRead, GoCall, call
<1>13. CASE GoConnected(c) \/ GoRefused(c)
  <2>1. CASE pc[c] # "wait"
    BY <1>13, <2>1 DEF GoConnected, GoRefused, Answer
  <2>2. CASE pc[c] = "wait"
    <3>1. /\ \A e \in Calls : e # c => pc'[e] = pc[e] /\ ok'[e] = ok[e]
          /\ pc'[c] = "dup" \/ (pc'[c] = "cleanup" /\ ~ok'[c])
          /\ gor'[c] = "over" /\ \A e \in Calls : e # c => gor'[e] = gor[e]
          /\ UNCHANGED <<raw, fd, ret, gfd>>
      BY <1>13, <2>2, Successors, ErrorPaths DEF GoConnected, GoRefused, Answer, Proceed, Fail
    <3> QED
      BY <2>2, <3>1
  <2> QED
    BY <2>1, <2>2
<1>14. CASE CallerCloses(c)
  BY <1>14 DEF CallerCloses
<1> QED
  BY <1>1, <1>2, <1>3, <1>4, <1>5, <1>6, <1>7, <1>8, <1>9, <1>10, <1>11, <1>12, <1>13, <1>14
     DEF CallStep, Connector
-----------------------------------------------------------------------------
(* Every open number stays somebody's to close. *)

(* A step that neither opens a number nor lets go of one.                  *)
LEMMA KeptFrame ==
  ASSUME Types, Kept, NEW c \in Calls, UNCHANGED <<fdt, raw, ret>>,
         \A d \in Calls : d # c => pc'[d] = pc[d] /\ fd'[d] = fd[d],
         pc[c] # "done" => pc'[c] # "done" \/ raw[c] = None,
         pc'[c] = "cleanup" => fd'[c] = raw[c]
  PROVE  Kept'
<1> SUFFICES ASSUME NEW f \in Fds, fdt'[f] # None PROVE \E d \in Calls : Keeps(d, f)'
  BY DEF Kept
<1>1. PICK d \in Calls : Keeps(d, f)
  BY DEF Kept
<1>2. f # None
  BY DEF Fds, None
<1> QED
  BY <1>1, <1>2 DEF Keeps

(* A step that releases what call c holds at f0.                           *)
LEMMA KeptRelease ==
  ASSUME Types, Kept, NEW c \in Calls, NEW f0 \in Fds \cup {None}, Release(f0), UNCHANGED raw,
         \A d \in Calls : d # c => pc'[d] = pc[d] /\ fd'[d] = fd[d] /\ ret'[d] = ret[d],
         \A f \in Fds \ {f0} : Keeps(c, f) => Keeps(c, f)'
  PROVE  Kept'
<1> SUFFICES ASSUME NEW f \in Fds, fdt'[f] # None PROVE \E d \in Calls : Keeps(d, f)'
  BY DEF Kept
<1>1. f # f0 /\ fdt[f] # None
  BY ReleaseType
<1>2. PICK d \in Calls : Keeps(d, f)
  BY <1>1 DEF Kept
<1> QED
  BY <1>1, <1>2 DEF Keeps

(* The keepers, step by step.                                              *)
LEMMA KeptStep ==
  ASSUME Types, Walk, Kept, NEW c \in Calls, CallStep(c) \/ Connector(c) \/ CallerCloses(c)
  PROVE  Kept'
<1> USE DEF Types
<1>0. \A f \in Fds : f # None
  BY DEF Fds, None
<1>1. CASE Reject(c)
  BY <1>1, KeptFrame DEF Reject, Fail, Goto, Walk
<1>2. CASE Socket(c)
  <2>1. CASE Free = {}
    BY <1>2, <2>1, KeptFrame DEF Socket, Fail, Goto, Walk
  <2>2. CASE Free # {}
    <3> DEFINE m == Min(Free)
    <3>1. m \in Fds /\ fdt[m] = None
      BY <2>2, LowestFree
    <3>2. /\ raw' = [raw EXCEPT ![c] = m] /\ fdt' = [fdt EXCEPT ![m] = c]
          /\ pc[c] = "socket" /\ pc' = [pc EXCEPT ![c] = After(c, "socket")]
          /\ UNCHANGED <<fd, ret>>
      BY <1>2, <2>2 DEF Socket, Proceed, Goto
    <3>3. After(c, "socket") \notin {"cleanup", "done"} /\ raw[c] = None
      BY <3>2, Successors DEF Options, Walk
    <3> HIDE DEF m
    <3> SUFFICES ASSUME NEW f \in Fds, fdt'[f] # None PROVE \E d \in Calls : Keeps(d, f)'
      BY DEF Kept
    <3>4. CASE f = m
      BY <3>1, <3>2, <3>3, <3>4 DEF Keeps
    <3>5. CASE f # m
      <4>1. PICK d \in Calls : Keeps(d, f)
        BY <3>1, <3>2, <3>5 DEF Kept
      <4> QED
        BY <4>1, <3>2, <3>3, <1>0 DEF Keeps
    <3> QED
      BY <3>4, <3>5
  <2> QED
    BY <2>1, <2>2
<1>3. CASE Option(c)
  <2>1. UNCHANGED <<fdt, raw, ret>> /\ pc[c] \in Options
    BY <1>3 DEF Option, Options
  <2>2. /\ \A d \in Calls : d # c => pc'[d] = pc[d] /\ fd'[d] = fd[d]
        /\ pc'[c] # "done"
    BY <1>3, Successors, ErrorPaths DEF Option, Options, Proceed, Fail, Goto
  <2>3. pc'[c] = "cleanup" => fd'[c] = raw[c]
    <3>1. CASE Proceed(c, pc[c])
      BY <2>1, <3>1, Successors DEF Proceed, Goto, Options
    <3>2. CASE Fail(c, OnError(c, pc[c]))
      BY <1>3, <2>1, <3>2, ErrorPaths DEF Option, Fail, Goto
    <3> QED
      BY <1>3, <3>1, <3>2 DEF Option
  <2> QED
    BY <2>1, <2>2, <2>3, KeptFrame
<1>4. CASE connectSocket(c)
  BY <1>4, KeptFrame, Successors DEF connectSocket, Proceed, Goto
<1>5. CASE Timer(c)
  BY <1>5, KeptFrame, ErrorPaths DEF Timer, Fail, Goto, Walk
<1>6. CASE ConnectNow(c)
  BY <1>6, KeptFrame, Successors DEF ConnectNow, Proceed, Fail, Goto
<1>7. CASE Dup(c)
  <2>1. CASE SocketAt(raw[c]) # None /\ Free # {}
    <3> DEFINE m == Min(Free)
    <3>1. m \in Fds /\ fdt[m] = None
      BY <2>1, LowestFree
    <3>2. /\ ret' = [ret EXCEPT ![c] = m] /\ fdt' = [fdt EXCEPT ![m] = SocketAt(raw[c])]
          /\ pc[c] = "dup" /\ pc' = [pc EXCEPT ![c] = After(c, "dup")]
          /\ UNCHANGED <<fd, raw>>
      BY <1>7, <2>1 DEF Dup, Proceed, Goto
    <3>3. After(c, "dup") \notin {"cleanup", "done"} /\ ret[c] = None
      BY <3>2, Successors DEF Walk
    <3> HIDE DEF m
    <3> SUFFICES ASSUME NEW f \in Fds, fdt'[f] # None PROVE \E d \in Calls : Keeps(d, f)'
      BY DEF Kept
    <3>4. CASE f = m
      BY <3>2, <3>4 DEF Keeps
    <3>5. CASE f # m
      <4>1. PICK d \in Calls : Keeps(d, f)
        BY <3>1, <3>2, <3>5 DEF Kept
      <4> QED
        BY <4>1, <3>2, <3>3, <1>0 DEF Keeps
    <3> QED
      BY <3>4, <3>5
  <2>2. CASE ~(SocketAt(raw[c]) # None /\ Free # {})
    BY <1>7, <2>2, KeptFrame, ErrorPaths DEF Dup, Fail, Goto
  <2> QED
    BY <2>1, <2>2
<1>8. CASE DnsLookup(c)
  <2>1. pc' = [pc EXCEPT ![c] = "fclose"] /\ pc[c] = "lookup"
    BY <1>8, Successors DEF DnsLookup, Proceed, Fail, Goto
  <2>2. \A f \in Fds \ {ret[c]} : Keeps(c, f) => Keeps(c, f)'
    BY <1>8, <2>1 DEF DnsLookup, Keeps
  <2> QED
    BY <1>8, <2>1, <2>2, KeptRelease DEF DnsLookup
<1>9. CASE FileClose(c)
  <2>1. \A f \in Fds \ {raw[c]} : Keeps(c, f) => Keeps(c, f)'
    BY <1>9 DEF FileClose, Keeps
  <2> QED
    BY <1>9, <2>1, KeptRelease DEF FileClose, Proceed, Goto
<1>10. CASE cleanup(c)
  <2>1. \A f \in Fds \ {fd[c]} : Keeps(c, f) => Keeps(c, f)'
    BY <1>10 DEF cleanup, Keeps
  <2> QED
    BY <1>10, <2>1, KeptRelease DEF cleanup, Proceed, Goto
<1>11. CASE RawClose(c)
  <2>1. \A f \in Fds \ {raw[c]} : Keeps(c, f) => Keeps(c, f)'
    BY <1>11 DEF RawClose, Keeps
  <2> QED
    BY <1>11, <2>1, KeptRelease DEF RawClose, Goto
<1>12. CASE GoRead(c) \/ GoCall(c)
  BY <1>12 DEF GoRead, GoCall, call, Kept, Keeps
<1>13. CASE GoConnected(c) \/ GoRefused(c)
  <2>1. CASE pc[c] # "wait"
    BY <1>13, <2>1 DEF GoConnected, GoRefused, Answer, Kept, Keeps
  <2>2. CASE pc[c] = "wait"
    <3>1. /\ \A e \in Calls : e # c => pc'[e] = pc[e]
          /\ pc'[c] \in {"dup", "cleanup"}
          /\ UNCHANGED <<raw, fd, ret, fdt>>
      BY <1>13, <2>2, Successors, ErrorPaths DEF GoConnected, GoRefused, Answer, Proceed, Fail, Goto
    <3>2. fd[c] = raw[c]
      BY <2>2 DEF Walk
    <3> QED
      BY <3>1, <3>2, KeptFrame
  <2> QED
    BY <2>1, <2>2
<1>14. CASE CallerCloses(c)
  <2>1. \A f \in Fds \ {ret[c]} : Keeps(c, f) => Keeps(c, f)'
    BY <1>14 DEF CallerCloses, Keeps
  <2> QED
    BY <1>14, <2>1, KeptRelease DEF CallerCloses
<1> QED
  BY <1>1, <1>2, <1>3, <1>4, <1>5, <1>6, <1>7, <1>8, <1>9, <1>10, <1>11, <1>12, <1>13, <1>14
     DEF CallStep, Connector
-----------------------------------------------------------------------------
(* Who owns what. *)

(* An error is never taken back, and a call never changes its function.    *)
LEMMA ErrorStays ==
  ASSUME Types, NEW c \in Calls, CallStep(c) \/ Connector(c) \/ CallerCloses(c)
  PROVE  kind' = kind /\ \A d \in Calls : ok'[d] => ok[d]
<1> USE DEF Types, Proceed, Fail
<1>1. CASE CallStep(c)
  BY <1>1 DEF CallStep, Reject, Socket, Option, connectSocket, Timer, ConnectNow, Dup, DnsLookup,
              FileClose, cleanup, RawClose
<1>2. CASE Connector(c)
  BY <1>2 DEF Connector, GoRead, GoCall, GoConnected, GoRefused, Answer, call
<1>3. CASE CallerCloses(c)
  BY <1>3 DEF CallerCloses
<1> QED
  BY <1>1, <1>2, <1>3

(* What the others own stays theirs when c releases a number of its own.   *)
LEMMA OthersOwn ==
  ASSUME Types, NEW c \in Calls, NEW f \in Fds \cup {None}, f # None => fdt[f] = c,
         Release(f), UNCHANGED <<raw, gsock>>,
         NEW d \in Calls, d # c, Owns(d), ok'[d] => ok[d],
         pc'[d] = pc[d], fd'[d] = fd[d], ret'[d] = ret[d]
  PROVE  Owns(d)'
BY ReleaseType DEF Types, Owns

(* The owners, step by step.                                               *)
LEMMA OwnedStep ==
  ASSUME Types, Walk, Owned, NEW c \in Calls, CallStep(c) \/ Connector(c) \/ CallerCloses(c)
  PROVE  Owned'
<1>0. SUFFICES ASSUME \A d \in Calls : ~ClosesTwice(d), NEW d \in Calls
               PROVE  Owns(d)'
  <2>1. kind' = kind /\ \A e \in Calls : ok'[e] => ok[e]
    BY ErrorStays
  <2>2. (\A e \in Calls : ~ClosesTwice(e))' => \A e \in Calls : ~ClosesTwice(e)
    BY <2>1 DEF ClosesTwice, Types
  <2> QED
    BY <2>2 DEF Owned
<1>a. Owns(c) /\ Owns(d)
  BY <1>0 DEF Owned
<1>b. kind[c] # "resolve" /\ pc[c] # "closetwice"
  BY <1>0, LabelFacts DEF ClosesTwice, Walk
<1>c. ok'[d] => ok[d]
  BY ErrorStays
<1>d. None \notin Calls /\ \A f \in Fds : f # None
  BY CallsAssumption DEF Fds, None
<1> USE DEF Types, Goto
<1>1. CASE Reject(c)
  BY <1>1, <1>a DEF Reject, Fail, Owns
<1>2. CASE Socket(c)
  <2>1. CASE Free = {}
    BY <1>2, <2>1, <1>a DEF Socket, Fail, Owns
  <2>2. CASE Free # {}
    <3> DEFINE m == Min(Free)
    <3>1. m \in Fds /\ fdt[m] = None
      BY <2>2, LowestFree
    <3>2. /\ raw' = [raw EXCEPT ![c] = m] /\ fdt' = [fdt EXCEPT ![m] = c]
          /\ pc[c] = "socket" /\ pc' = [pc EXCEPT ![c] = After(c, "socket")]
          /\ UNCHANGED <<fd, ret, gsock, ok>>
      BY <1>2, <2>2 DEF Socket, Proceed
    <3>3. After(c, "socket") \notin {"cleanup", "done"}
      BY Successors DEF Options
    <3> HIDE DEF m
    <3> QED
      BY <3>1, <3>2, <3>3, <1>a, <1>d DEF Owns
  <2> QED
    BY <2>1, <2>2
<1>3. CASE Option(c)
  <2>1. CASE Proceed(c, pc[c])
    BY <1>3, <2>1, <1>a, Successors DEF Option, Options, Proceed, Owns
  <2>2. CASE Fail(c, OnError(c, pc[c]))
    BY <1>3, <2>2, <1>a, ErrorPaths DEF Option, Options, Fail, Owns
  <2> QED
    BY <1>3, <2>1, <2>2 DEF Option
<1>4. CASE connectSocket(c)
  BY <1>4, <1>a, Successors DEF connectSocket, Proceed, Owns
<1>5. CASE Timer(c)
  BY <1>5, <1>a, ErrorPaths DEF Timer, Fail, Owns, Walk
<1>6. CASE ConnectNow(c) \/ DnsLookup(c)
  BY <1>6, <1>b, LabelFacts DEF ConnectNow, DnsLookup
<1>7. CASE Dup(c)
  <2>1. CASE SocketAt(raw[c]) # None /\ Free # {}
    <3> DEFINE m == Min(Free)
    <3>1. m \in Fds /\ fdt[m] = None
      BY <2>1, LowestFree
    <3>2. /\ ret' = [ret EXCEPT ![c] = m] /\ fdt' = [fdt EXCEPT ![m] = SocketAt(raw[c])]
          /\ pc[c] = "dup" /\ pc' = [pc EXCEPT ![c] = After(c, "dup")]
          /\ UNCHANGED <<fd, raw, gsock, ok>>
      BY <1>7, <2>1 DEF Dup, Proceed
    <3>3. After(c, "dup") \notin {"cleanup", "done"}
      BY <3>2, Successors
    <3>4. SocketAt(raw[c]) = c
      BY <2>1, <3>2, <1>a DEF SocketAt, Owns
    <3> HIDE DEF m
    <3> QED
      BY <3>1, <3>2, <3>3, <3>4, <1>a, <1>d DEF Owns
  <2>2. CASE ~(SocketAt(raw[c]) # None /\ Free # {})
    BY <1>7, <2>2, <1>a, ErrorPaths DEF Dup, Fail, Owns
  <2> QED
    BY <2>1, <2>2
<1>8. CASE FileClose(c)
  <2>1. /\ Release(raw[c]) /\ pc[c] = "fclose" /\ pc' = [pc EXCEPT ![c] = "cleanup"]
        /\ fd' = [fd EXCEPT ![c] = None] /\ UNCHANGED <<raw, ret, gsock, ok>>
    BY <1>8, <1>b, Successors DEF FileClose, Proceed
  <2>2. CASE d # c
    BY <2>1, <2>2, <1>a, <1>c, OthersOwn DEF Owns
  <2>3. CASE d = c
    <3>1. ret[c] # None => fdt'[ret[c]] = c
      BY <2>1, <1>a, ReleaseType DEF Walk, Owns
    <3> QED
      BY <2>1, <2>3, <3>1, <1>a DEF Owns
  <2> QED
    BY <2>2, <2>3
<1>9. CASE cleanup(c)
  <2>1. /\ Release(fd[c]) /\ pc[c] = "cleanup" /\ pc' = [pc EXCEPT ![c] = "done"]
        /\ fd' = [fd EXCEPT ![c] = None] /\ UNCHANGED <<raw, ret, gsock, ok>>
    BY <1>9, Successors DEF cleanup, Proceed
  <2>2. CASE d # c
    BY <2>1, <2>2, <1>a, <1>c, OthersOwn DEF Owns
  <2>3. CASE d = c
    <3>1. ret[c] # None => fdt'[ret[c]] = c
      BY <2>1, <1>a, ReleaseType DEF Walk, Owns
    <3> QED
      BY <2>1, <2>3, <3>1, <1>a DEF Owns
  <2> QED
    BY <2>2, <2>3
<1>10. CASE RawClose(c)
  <2>1. /\ Release(raw[c]) /\ pc[c] = "rawclose" /\ pc' = [pc EXCEPT ![c] = "done"]
        /\ UNCHANGED <<raw, fd, ret, gsock, ok>>
    BY <1>10, <1>b DEF RawClose
  <2>2. CASE d # c
    BY <2>1, <2>2, <1>a, <1>c, OthersOwn DEF Owns
  <2>3. CASE d = c
    <3>1. ret[c] # None => fdt'[ret[c]] = c
      BY <2>1, <1>a, ReleaseType DEF Walk, Owns
    <3> QED
      BY <2>1, <2>3, <3>1, <1>a DEF Owns
  <2> QED
    BY <2>2, <2>3
<1>11. CASE CallerCloses(c)
  <2>1. /\ Release(ret[c]) /\ pc[c] = "done" /\ ret' = [ret EXCEPT ![c] = None]
        /\ UNCHANGED <<pc, raw, fd, gsock, ok>>
    BY <1>11 DEF CallerCloses
  <2>2. CASE d # c
    BY <2>1, <2>2, <1>a, <1>c, OthersOwn DEF Owns
  <2>3. CASE d = c
    BY <2>1, <2>3, <1>a DEF Owns
  <2> QED
    BY <2>2, <2>3
<1>12. CASE GoRead(c)
  BY <1>12, <1>a DEF GoRead, call, Owns
<1>13. CASE GoCall(c)
  <2>1. ok[c] => SocketAt(gfd[c]) \in {None, c}
    BY <1>13, <1>a DEF GoCall, Walk, Owns, SocketAt
  <2> QED
    BY <1>13, <2>1, <1>a DEF GoCall, call, Owns
<1>14. CASE GoConnected(c) \/ GoRefused(c)
  <2>1. CASE pc[c] # "wait"
    BY <1>14, <2>1, <1>a DEF GoConnected, GoRefused, Answer, Owns
  <2>2. CASE pc[c] = "wait"
    <3>1. /\ \A e \in Calls : e # c => pc'[e] = pc[e]
          /\ pc'[c] \in {"dup", "cleanup"}
          /\ UNCHANGED <<raw, fd, ret, fdt, gsock>>
      BY <1>14, <2>2, Successors, ErrorPaths DEF GoConnected, GoRefused, Answer, Proceed, Fail
    <3>2. fd[c] = raw[c]
      BY <2>2 DEF Walk
    <3> QED
      BY <2>2, <3>1, <3>2, <1>a, <1>c DEF Owns
  <2> QED
    BY <2>1, <2>2
<1> QED
  BY <1>1, <1>2, <1>3, <1>4, <1>5, <1>6, <1>7, <1>8, <1>9, <1>10, <1>11, <1>12, <1>13, <1>14
     DEF CallStep, Connector

-----------------------------------------------------------------------------

(* The inductive invariant holds in every reachable state.                 *)
THEOREM Invariance == Spec => []IInv
<1>1. IInv /\ [Next]_vars => IInv'
  <2> SUFFICES ASSUME IInv, [Next]_vars PROVE IInv'
    OBVIOUS
  <2>1. ASSUME NEW c \in Calls, CallStep(c) \/ Connector(c) \/ CallerCloses(c) PROVE IInv'
    BY <2>1, TypesStep, WalkStep, KeptStep, OwnedStep DEF IInv
  <2>2. CASE UNCHANGED vars
    BY <2>2 DEF vars, call, IInv, Types, Walk, Kept, Keeps, Owned, Owns, ClosesTwice
  <2> QED
    BY <2>1, <2>2 DEF Next
<1> QED
  BY <1>1, InitIInv, PTL DEF Spec

(* Every call is at a system call of its own function, and its variables   *)
(* and the descriptor table keep their types.                              *)
THEOREM TypeCorrect == Spec => []Types
<1>1. IInv => Types
  BY DEF IInv
<1> QED
  BY <1>1, Invariance, PTL

(* No error path of dialContext, DialUDP, ListenTCP, ListenUDP, Resolve or *)
(* SupportReusePort leaks a descriptor, whatever calls run beside it.      *)
THEOREM ClosesAll == Spec => []NoFdLeak
<1>1. IInv => NoFdLeak
  BY DEF IInv, Kept, Keeps, NoFdLeak
<1> QED
  BY <1>1, Invariance, PTL

(* Unless a number has been closed twice, each call and each caller works  *)
(* on its own socket, and connect(2) reaches a foreign one only from the   *)
(* goroutine of a call that has already failed.                            *)
THEOREM WorksOnOwn == Spec => []OwnSockets
<1>1. IInv => OwnSockets
  <2> SUFFICES ASSUME IInv, \A d \in Calls : ~ClosesTwice(d), NEW c \in Calls
               PROVE  /\ raw[c] # None /\ pc[c] \notin {"cleanup", "done"} => SocketAt(raw[c]) = c
                      /\ fd[c] # None /\ pc[c] = "cleanup" => SocketAt(fd[c]) = c
                      /\ ret[c] # None => SocketAt(ret[c]) = c
                      /\ gsock[c] \notin {None, c} => ~ok[c]
    BY DEF OwnSockets
  <2>1. Owns(c)
    BY DEF IInv, Owned
  <2> QED
    BY <2>1 DEF Owns, SocketAt
<1> QED
  BY <1>1, Invariance, PTL
=============================================================================
