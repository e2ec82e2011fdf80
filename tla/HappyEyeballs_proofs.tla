------------------------ MODULE HappyEyeballs_proofs ------------------------
(***************************************************************************)
(* Theorems about the connection race: it never waits for nobody, decides  *)
(* rightly, and the socket that is used stays.                             *)
(***************************************************************************)
EXTENDS HappyEyeballs, FiniteSetTheorems, SequenceTheorems, WellFoundedInduction, TLAPS

\* Between the locking of winner_mutex and its release.
InMutex == {"check", "claim", "end", "scan"}

\* A worker that knows how its connection ended, and has not left.
Settling == InMutex \cup {"last", "endFailed"}

\* A worker has signalled its own event before it settles, and leaves without it only when the
\* race is over.
EventsSet ==
    \A w \in Attempts : /\ worker[w] \in Settling => completed[w]
                        /\ worker[w] = "gone" /\ ~completed[w] => race

\* Once a worker has claimed the race nobody else is about to.
OneWinner ==
    /\ socket # 0 => race \/ worker[socket] = "end"
    /\ \A w \in Attempts : worker[w] = "claim" => socket = 0

\* What is open, and what destroy_thread has closed.
SocketsOpen ==
    /\ destroy # "no" => main \in {"connected", "failed"}
    /\ IF destroy = "done" THEN \A c \in Candidates : worker[c] = "gone"
       ELSE Candidates \subseteq open
    /\ socket # 0 => socket \in open
    /\ used # 0 => socket = used

\* An error is followed by the end of the race: somebody is about to signal it.
ErrorEnds ==
    (error # 0 /\ ~race) => main \in {"signal", "failed"} \/ \E w \in Attempts : worker[w] = "endFailed"

\* Whoever waits for the race has somebody to wait for.
SomebodyLeft ==
    /\ main \in {"try", "count", "coalesce", "signal", "return", "wait"} => ~starting
    /\ (main = "return" /\ error = 0) \/ main = "wait" =>
          race \/ \E w \in Attempts : w <= launched /\ (worker[w] \in Settling \/ ~completed[w])

RaceInv == TypeOK /\ EventsSet /\ OneWinner /\ SocketsOpen /\ ErrorEnds /\ SomebodyLeft

-----------------------------------------------------------------------------
\* There is a worker for every address at most.
LEMMA WorkerForEach ==
    ASSUME TypeOK
    PROVE  /\ Len(addresses) \in Nat /\ Len(addresses) <= MaxAddresses
           /\ launched \in Nat /\ launched <= MaxAddresses /\ Candidates \subseteq Attempts
<1>1. PICK n \in Attempts : addresses \in [1 .. n -> {IPv4, IPv6}]
  BY DEF TypeOK
<1>2. n \in Nat /\ n <= MaxAddresses
  BY ConstantsAssumption DEF Attempts
<1>3. Len(addresses) = n
  BY <1>1, <1>2, LenProperties, SeqDef
<1>4. launched \in 0 .. Len(addresses)
  BY DEF TypeOK
<1>5. QED
  BY <1>2, <1>3, <1>4, ConstantsAssumption DEF Candidates, Attempts

\* coalesce_errors returns an error of one of the candidates, or none.
LEMMA CommonErrorType ==
    ASSUME TypeOK
    PROVE  CommonError \in Errors \cup {0}
<1>1. Candidates \subseteq Attempts
  BY WorkerForEach
<1>2. ModeIndex \subseteq Nat /\ ModeIndex \subseteq Attempts
  <2>1. ModeIndex \subseteq Attempts
    BY <1>1 DEF ModeIndex
  <2>2. QED
    BY <2>1, ConstantsAssumption DEF Attempts
<1>3. CASE ModeIndex = {}
  BY <1>3 DEF CommonError
<1>4. CASE ModeIndex # {}
  <2>1. PICK x \in ModeIndex : \A y \in ModeIndex : ~ (<<y, x>> \in OpToRel(<, Nat))
    BY <1>2, <1>4, NatLessThanWellFounded, WFMin
  <2>2. \A y \in ModeIndex : x <= y
    <3>1. \A y \in ModeIndex : x \in Nat /\ y \in Nat /\ ~ (y < x)
      BY <1>2, <2>1 DEF OpToRel
    <3>2. QED
      BY <3>1
  <2>3. (CHOOSE c \in ModeIndex : \A d \in ModeIndex : c <= d) \in ModeIndex
    BY <2>2
  <2>4. CommonError \in {err[c] : c \in ModeIndex}
    BY <1>4, <2>3 DEF CommonError
  <2>5. QED
    BY <1>2, <2>4 DEF TypeOK
<1>5. QED
  BY <1>3, <1>4

\* The race begins as it should, in any order of families.
LEMMA InitRace == Init => RaceInv
<1> SUFFICES ASSUME Init PROVE RaceInv
  OBVIOUS
<1>1. PICK n \in Attempts : addresses \in [1 .. n -> {IPv4, IPv6}]
  BY DEF Init
<1>2. n \in Nat /\ n <= MaxAddresses
  BY ConstantsAssumption DEF Attempts
<1>3. Len(addresses) \in Nat
  BY <1>1, <1>2, LenProperties, SeqDef
<1>4. addresses \in UNION {[1 .. k -> {IPv4, IPv6}] : k \in Attempts}
  BY <1>1
<1>5. \A w \in Attempts : w \in Nat /\ w > 0
  BY ConstantsAssumption DEF Attempts
<1>6. TypeOK
  <2>1. \A w \in Attempts : /\ worker[w] = "none" /\ w > launched
                            /\ lock # w /\ ~completed[w]
    BY <1>5 DEF Init
  <2>2. launched \in 0 .. Len(addresses)
    BY <1>3 DEF Init
  <2>3. QED
    BY <1>4, <2>1, <2>2 DEF Init, TypeOK
<1>7. QED
  BY <1>5, <1>6 DEF Init, RaceInv, EventsSet, OneWinner, SocketsOpen, ErrorEnds, SomebodyLeft,
     Candidates, Settling, InMutex

\* Every step keeps the types and the mutual exclusion of winner_mutex.
LEMMA NextTypes ==
    ASSUME TypeOK, [Next]_vars
    PROVE  TypeOK'
<1> USE DEF callerVars, candidateVars, contextVars, Candidates
<1>1. CASE Launch
  <2>1. launched \in Nat /\ Len(addresses) \in Nat /\ launched + 1 <= Len(addresses)
    BY <1>1, WorkerForEach DEF Launch, MoreToTry
  <2>2. launched + 1 \in Attempts
    BY <2>1, WorkerForEach, ConstantsAssumption DEF Attempts
  <2>3. /\ launched' \in 0 .. Len(addresses) /\ socket' \in Candidates' \cup {0}
        /\ used' \in Candidates' \cup {0}
    BY <1>1, <2>1 DEF Launch, TypeOK
  <2>4. \A w \in Attempts : w \in Nat
    BY ConstantsAssumption DEF Attempts
  <2>5. \A w \in Attempts : /\ worker'[w] = "none" <=> w > launched'
                            /\ lock' = w <=> worker'[w] \in {"check", "claim", "end", "scan"}
    <3> SUFFICES ASSUME NEW w \in Attempts
                 PROVE  /\ worker'[w] = "none" <=> w > launched'
                        /\ lock' = w <=> worker'[w] \in {"check", "claim", "end", "scan"}
      OBVIOUS
    <3>1. CASE w = launched + 1
      <4>1. worker[w] = "none" /\ worker'[w] = "start"
        BY <1>1, <2>1, <2>2, <3>1 DEF Launch, TypeOK
      <4>2. QED
        BY <1>1, <2>1, <3>1, <4>1 DEF Launch, TypeOK
    <3>2. CASE w # launched + 1
      BY <1>1, <2>1, <2>4, <3>2 DEF Launch, TypeOK
    <3>3. QED
      BY <3>1, <3>2
  <2>6. QED
    BY <1>1, <2>2, <2>3, <2>5 DEF Launch, TypeOK
<1>2. CASE LaunchFails
  <2>1. launched + 1 \in Attempts
    BY <1>2, WorkerForEach, ConstantsAssumption DEF LaunchFails, MoreToTry, Attempts
  <2>2. QED
    BY <1>2, <2>1 DEF LaunchFails, TypeOK
<1>3. CASE Delay
  BY <1>3 DEF Delay, TypeOK
<1>4. CASE Dispatched
  BY <1>4 DEF Dispatched, TypeOK
<1>5. CASE Try
  BY <1>5 DEF Try, TypeOK
<1>6. CASE Count
  BY <1>6 DEF Count, TypeOK
<1>7. CASE Coalesce
  BY <1>7, CommonErrorType DEF Coalesce, TypeOK
<1>8. CASE SignalEnd
  BY <1>8 DEF SignalEnd, TypeOK
<1>9. CASE Return
  BY <1>9 DEF Return, TypeOK
<1>10. CASE Timeout
  BY <1>10 DEF Timeout, TypeOK
<1>11. ASSUME NEW w \in Attempts, Worker(w)
      PROVE  TypeOK'
  <2>1. CASE Exit(w)
    BY <1>11, <2>1 DEF Exit, Goto, TypeOK
  <2>2. CASE Connect(w)
    BY <1>11, <2>2 DEF Connect, Goto, TypeOK
  <2>3. CASE Connected(w)
    BY <1>11, <2>3 DEF Connected, Goto, TypeOK
  <2>4. CASE ConnectFails(w)
    BY <1>11, <2>4 DEF ConnectFails, Goto, TypeOK
  <2>5. CASE Complete(w)
    <3>1. w # 0 /\ lock = 0 /\ lock' = w
      BY <2>5, ConstantsAssumption DEF Complete, Attempts
    <3>2. \E place \in {"check", "scan"} : worker' = [worker EXCEPT ![w] = place]
      BY <2>5 DEF Complete, Goto
    <3>3. worker[w] # "none" /\ \A v \in Attempts : v # lock
      BY <2>5, <3>1, ConstantsAssumption DEF Complete, Attempts
    <3>4. /\ worker' \in [Attempts -> {"none", "start", "connecting", "won", "lost", "check", "claim",
                                   "end", "endFailed", "scan", "last", "gone"}]
          /\ \A v \in Attempts : v # w => worker'[v] = worker[v]
          /\ worker'[w] \in {"check", "scan"}
      BY <1>11, <3>2 DEF TypeOK
    <3>5. /\ \A v \in Attempts : worker'[v] = "none" <=> v > launched
          /\ \A v \in Attempts : lock' = v <=> worker'[v] \in {"check", "claim", "end", "scan"}
      BY <3>1, <3>3, <3>4 DEF TypeOK
    <3>6. QED
      BY <1>11, <2>5, <3>1, <3>4, <3>5 DEF Complete, TypeOK
  <2>6. CASE CheckWinner(w)
    <3>1. w # 0
      BY ConstantsAssumption DEF Attempts
    <3>2. QED
      BY <1>11, <2>6, <3>1 DEF CheckWinner, Goto, TypeOK
  <2>7. CASE Claim(w)
    <3>1. w \in Candidates
      BY <1>11, <2>7, ConstantsAssumption DEF Claim, TypeOK, Attempts
    <3>2. QED
      BY <1>11, <2>7, <3>1 DEF Claim, Goto, TypeOK
  <2>8. CASE End(w)
    <3>1. w # 0
      BY ConstantsAssumption DEF Attempts
    <3>2. QED
      BY <1>11, <2>8, <3>1 DEF End, Goto, TypeOK
  <2>9. CASE Scan(w)
    <3>1. w # 0
      BY ConstantsAssumption DEF Attempts
    <3>2. QED
      BY <1>11, <2>9, <3>1 DEF Scan, Goto, TypeOK
  <2>10. CASE LastFailed(w)
    BY <1>11, <2>10, CommonErrorType DEF LastFailed, Goto, TypeOK
  <2>11. QED
    BY <1>11, <2>1, <2>2, <2>3, <2>4, <2>5, <2>6, <2>7, <2>8, <2>9, <2>10 DEF Worker
<1>12. CASE Destroy
  BY <1>12 DEF Destroy, TypeOK
<1>13. CASE CloseSockets
  BY <1>13 DEF CloseSockets, TypeOK
<1>14. CASE UNCHANGED vars
  BY <1>14 DEF vars, TypeOK
<1>15. QED
  BY <1>1, <1>2, <1>3, <1>4, <1>5, <1>6, <1>7, <1>8, <1>9,
     <1>10, <1>11, <1>12, <1>13, <1>14 DEF Next, Main

\* Workers signal their own events in time.
LEMMA NextEvents ==
    ASSUME RaceInv, [Next]_vars
    PROVE  EventsSet'
<1> USE DEF callerVars, candidateVars, contextVars
<1>1. TypeOK
  BY DEF RaceInv
<1>2. \A w \in Attempts : w \in Nat /\ w # 0
  BY ConstantsAssumption DEF Attempts
<1>3. CASE Launch
  BY <1>1, <1>2, <1>3 DEF Launch, RaceInv, TypeOK, EventsSet, Settling, InMutex
<1>4. CASE LaunchFails
  BY <1>1, <1>2, <1>4 DEF LaunchFails, RaceInv, TypeOK, EventsSet, Settling, InMutex
<1>5. CASE Delay
  BY <1>1, <1>2, <1>5 DEF Delay, RaceInv, TypeOK, EventsSet, Settling, InMutex
<1>6. CASE Dispatched
  BY <1>1, <1>2, <1>6 DEF Dispatched, RaceInv, TypeOK, EventsSet, Settling, InMutex
<1>7. CASE Try
  BY <1>1, <1>2, <1>7 DEF Try, RaceInv, TypeOK, EventsSet, Settling, InMutex
<1>8. CASE Count
  BY <1>1, <1>2, <1>8 DEF Count, RaceInv, TypeOK, EventsSet, Settling, InMutex
<1>9. CASE Coalesce
  BY <1>1, <1>2, <1>9 DEF Coalesce, RaceInv, TypeOK, EventsSet, Settling, InMutex
<1>10. CASE SignalEnd
  BY <1>1, <1>2, <1>10 DEF SignalEnd, RaceInv, TypeOK, EventsSet, Settling, InMutex
<1>11. CASE Return
  BY <1>1, <1>2, <1>11 DEF Return, RaceInv, TypeOK, EventsSet, Settling, InMutex
<1>12. CASE Timeout
  BY <1>1, <1>2, <1>12 DEF Timeout, RaceInv, TypeOK, EventsSet, Settling, InMutex
<1>13. ASSUME NEW w \in Attempts, Worker(w)
      PROVE  EventsSet'
  <2>1. CASE Exit(w)
    BY <1>1, <1>2, <1>13, <2>1 DEF Exit, Goto, RaceInv, TypeOK, EventsSet, Settling, InMutex
  <2>2. CASE Connect(w)
    BY <1>1, <1>2, <1>13, <2>2 DEF Connect, Goto, RaceInv, TypeOK, EventsSet, Settling, InMutex
  <2>3. CASE Connected(w)
    BY <1>1, <1>2, <1>13, <2>3 DEF Connected, Goto, RaceInv, TypeOK, EventsSet, Settling, InMutex
  <2>4. CASE ConnectFails(w)
    BY <1>1, <1>2, <1>13, <2>4 DEF ConnectFails, Goto, RaceInv, TypeOK, EventsSet, Settling, InMutex
  <2>5. CASE Complete(w)
    BY <1>1, <1>2, <1>13, <2>5 DEF Complete, Goto, RaceInv, TypeOK, EventsSet, Settling, InMutex
  <2>6. CASE CheckWinner(w)
    BY <1>1, <1>2, <1>13, <2>6 DEF CheckWinner, Goto, RaceInv, TypeOK, EventsSet, Settling, InMutex
  <2>7. CASE Claim(w)
    BY <1>1, <1>2, <1>13, <2>7 DEF Claim, Goto, RaceInv, TypeOK, EventsSet, Settling, InMutex
  <2>8. CASE End(w)
    BY <1>1, <1>2, <1>13, <2>8 DEF End, Goto, RaceInv, TypeOK, EventsSet, Settling, InMutex
  <2>9. CASE Scan(w)
    BY <1>1, <1>2, <1>13, <2>9 DEF Scan, Goto, RaceInv, TypeOK, EventsSet, Settling, InMutex
  <2>10. CASE LastFailed(w)
    BY <1>1, <1>2, <1>13, <2>10 DEF LastFailed, Goto, RaceInv, TypeOK, EventsSet, Settling, InMutex
  <2>11. QED
    BY <1>13, <2>1, <2>2, <2>3, <2>4, <2>5, <2>6, <2>7, <2>8, <2>9, <2>10 DEF Worker
<1>14. CASE Destroy
  BY <1>1, <1>2, <1>14 DEF Destroy, RaceInv, TypeOK, EventsSet, Settling, InMutex
<1>15. CASE CloseSockets
  BY <1>1, <1>2, <1>15 DEF CloseSockets, RaceInv, TypeOK, EventsSet, Settling, InMutex
<1>16. CASE UNCHANGED vars
  BY <1>16 DEF vars, RaceInv, EventsSet, Settling, InMutex
<1>17. QED
  BY <1>3, <1>4, <1>5, <1>6, <1>7, <1>8, <1>9, <1>10, <1>11,
     <1>12, <1>13, <1>14, <1>15, <1>16 DEF Next, Main

\* The mutex keeps a second worker from claiming the race.
LEMMA NextWinner ==
    ASSUME RaceInv, [Next]_vars
    PROVE  OneWinner'
<1> USE DEF callerVars, candidateVars, contextVars
<1>1. TypeOK
  BY DEF RaceInv
<1>2. \A w \in Attempts : w \in Nat /\ w # 0
  BY ConstantsAssumption DEF Attempts
<1>3. CASE Launch
  BY <1>1, <1>2, <1>3 DEF Launch, RaceInv, TypeOK, OneWinner
<1>4. CASE LaunchFails
  BY <1>1, <1>2, <1>4 DEF LaunchFails, RaceInv, TypeOK, OneWinner
<1>5. CASE Delay
  BY <1>1, <1>2, <1>5 DEF Delay, RaceInv, TypeOK, OneWinner
<1>6. CASE Dispatched
  BY <1>1, <1>2, <1>6 DEF Dispatched, RaceInv, TypeOK, OneWinner
<1>7. CASE Try
  BY <1>1, <1>2, <1>7 DEF Try, RaceInv, TypeOK, OneWinner
<1>8. CASE Count
  BY <1>1, <1>2, <1>8 DEF Count, RaceInv, TypeOK, OneWinner
<1>9. CASE Coalesce
  BY <1>1, <1>2, <1>9 DEF Coalesce, RaceInv, TypeOK, OneWinner
<1>10. CASE SignalEnd
  BY <1>1, <1>2, <1>10 DEF SignalEnd, RaceInv, TypeOK, OneWinner
<1>11. CASE Return
  BY <1>1, <1>2, <1>11 DEF Return, RaceInv, TypeOK, OneWinner
<1>12. CASE Timeout
  BY <1>1, <1>2, <1>12 DEF Timeout, RaceInv, TypeOK, OneWinner
<1>13. ASSUME NEW w \in Attempts, Worker(w)
      PROVE  OneWinner'
  <2>1. CASE Exit(w)
    BY <1>1, <1>2, <1>13, <2>1 DEF Exit, Goto, RaceInv, TypeOK, OneWinner
  <2>2. CASE Connect(w)
    BY <1>1, <1>2, <1>13, <2>2 DEF Connect, Goto, RaceInv, TypeOK, OneWinner
  <2>3. CASE Connected(w)
    BY <1>1, <1>2, <1>13, <2>3 DEF Connected, Goto, RaceInv, TypeOK, OneWinner
  <2>4. CASE ConnectFails(w)
    BY <1>1, <1>2, <1>13, <2>4 DEF ConnectFails, Goto, RaceInv, TypeOK, OneWinner
  <2>5. CASE Complete(w)
    BY <1>1, <1>2, <1>13, <2>5 DEF Complete, Goto, RaceInv, TypeOK, OneWinner
  <2>6. CASE CheckWinner(w)
    <3>1. CASE race
      BY <1>1, <1>13, <2>6, <3>1 DEF CheckWinner, Goto, RaceInv, TypeOK, OneWinner
    <3>2. CASE ~race
      <4>1. socket = 0
        <5>1. SUFFICES ASSUME socket # 0 PROVE FALSE
          OBVIOUS
        <5>2. worker[socket] = "end"
          BY <3>2, <5>1 DEF RaceInv, OneWinner
        <5>3. socket \in Attempts
          BY <1>1, <5>1, WorkerForEach DEF TypeOK
        <5>4. lock = socket /\ lock = w
          BY <1>1, <1>13, <2>6, <5>2, <5>3 DEF CheckWinner, TypeOK
        <5>5. QED
          BY <2>6, <5>2, <5>4 DEF CheckWinner
      <4>2. socket' = 0
        BY <2>6, <4>1 DEF CheckWinner
      <4>3. QED
        BY <4>2 DEF OneWinner
    <3>3. QED
      BY <3>1, <3>2
  <2>7. CASE Claim(w)
    BY <1>1, <1>2, <1>13, <2>7 DEF Claim, Goto, RaceInv, TypeOK, OneWinner
  <2>8. CASE End(w)
    BY <1>1, <1>2, <1>13, <2>8 DEF End, Goto, RaceInv, TypeOK, OneWinner
  <2>9. CASE Scan(w)
    BY <1>1, <1>2, <1>13, <2>9 DEF Scan, Goto, RaceInv, TypeOK, OneWinner
  <2>10. CASE LastFailed(w)
    <3>1. PICK place \in {"gone", "endFailed"} : worker' = [worker EXCEPT ![w] = place]
      BY <2>10 DEF LastFailed, Goto
    <3>2. UNCHANGED <<socket, race>> /\ worker[w] = "last"
      BY <2>10 DEF LastFailed
    <3>3. QED
      BY <1>1, <1>13, <3>1, <3>2 DEF RaceInv, TypeOK, OneWinner
  <2>11. QED
    BY <1>13, <2>1, <2>2, <2>3, <2>4, <2>5, <2>6, <2>7, <2>8, <2>9, <2>10 DEF Worker
<1>14. CASE Destroy
  BY <1>1, <1>2, <1>14 DEF Destroy, RaceInv, TypeOK, OneWinner
<1>15. CASE CloseSockets
  BY <1>1, <1>2, <1>15 DEF CloseSockets, RaceInv, TypeOK, OneWinner
<1>16. CASE UNCHANGED vars
  BY <1>16 DEF vars, RaceInv, OneWinner
<1>17. QED
  BY <1>3, <1>4, <1>5, <1>6, <1>7, <1>8, <1>9, <1>10, <1>11,
     <1>12, <1>13, <1>14, <1>15, <1>16 DEF Next, Main

\* A socket in use stays open.
LEMMA NextSockets ==
    ASSUME RaceInv, [Next]_vars
    PROVE  SocketsOpen'
<1> USE DEF callerVars, candidateVars, contextVars
<1>1. TypeOK
  BY DEF RaceInv
<1>2. \A w \in Attempts : w \in Nat /\ w # 0
  BY ConstantsAssumption DEF Attempts
<1>3. CASE Launch
  BY <1>1, <1>2, <1>3 DEF Launch, RaceInv, TypeOK, SocketsOpen, Candidates
<1>4. CASE LaunchFails
  BY <1>1, <1>2, <1>4 DEF LaunchFails, RaceInv, TypeOK, SocketsOpen, Candidates
<1>5. CASE Delay
  BY <1>1, <1>2, <1>5 DEF Delay, RaceInv, TypeOK, SocketsOpen, Candidates
<1>6. CASE Dispatched
  BY <1>1, <1>2, <1>6 DEF Dispatched, RaceInv, TypeOK, SocketsOpen, Candidates
<1>7. CASE Try
  BY <1>1, <1>2, <1>7 DEF Try, RaceInv, TypeOK, SocketsOpen, Candidates
<1>8. CASE Count
  BY <1>1, <1>2, <1>8 DEF Count, RaceInv, TypeOK, SocketsOpen, Candidates
<1>9. CASE Coalesce
  BY <1>1, <1>2, <1>9 DEF Coalesce, RaceInv, TypeOK, SocketsOpen, Candidates
<1>10. CASE SignalEnd
  BY <1>1, <1>2, <1>10 DEF SignalEnd, RaceInv, TypeOK, SocketsOpen, Candidates
<1>11. CASE Return
  BY <1>1, <1>2, <1>11 DEF Return, RaceInv, TypeOK, SocketsOpen, Candidates
<1>12. CASE Timeout
  BY <1>1, <1>2, <1>12 DEF Timeout, RaceInv, TypeOK, SocketsOpen, Candidates
<1>13. ASSUME NEW w \in Attempts, Worker(w)
      PROVE  SocketsOpen'
  <2>1. CASE Exit(w)
    BY <1>1, <1>2, <1>13, <2>1 DEF Exit, Goto, RaceInv, TypeOK, SocketsOpen, Candidates
  <2>2. CASE Connect(w)
    BY <1>1, <1>2, <1>13, <2>2 DEF Connect, Goto, RaceInv, TypeOK, SocketsOpen, Candidates
  <2>3. CASE Connected(w)
    BY <1>1, <1>2, <1>13, <2>3 DEF Connected, Goto, RaceInv, TypeOK, SocketsOpen, Candidates
  <2>4. CASE ConnectFails(w)
    BY <1>1, <1>2, <1>13, <2>4 DEF ConnectFails, Goto, RaceInv, TypeOK, SocketsOpen, Candidates
  <2>5. CASE Complete(w)
    BY <1>1, <1>2, <1>13, <2>5 DEF Complete, Goto, RaceInv, TypeOK, SocketsOpen, Candidates
  <2>6. CASE CheckWinner(w)
    BY <1>1, <1>2, <1>13, <2>6 DEF CheckWinner, Goto, RaceInv, TypeOK, SocketsOpen, Candidates
  <2>7. CASE Claim(w)
    <3>1. worker[w] = "claim" /\ socket' = w /\ UNCHANGED <<main, launched, open, used, destroy>>
      BY <2>7 DEF Claim
    <3>2. w \in Candidates
      BY <1>1, <1>2, <1>13, <3>1, ConstantsAssumption DEF TypeOK, Candidates, Attempts
    <3>3. destroy # "done" /\ w \in open
      BY <3>1, <3>2 DEF RaceInv, SocketsOpen
    <3>4. used = 0
      BY <1>13, <3>1 DEF RaceInv, SocketsOpen, OneWinner
    <3>5. QED
      BY <3>1, <3>3, <3>4 DEF RaceInv, SocketsOpen, Candidates
  <2>8. CASE End(w)
    BY <1>1, <1>2, <1>13, <2>8 DEF End, Goto, RaceInv, TypeOK, SocketsOpen, Candidates
  <2>9. CASE Scan(w)
    BY <1>1, <1>2, <1>13, <2>9 DEF Scan, Goto, RaceInv, TypeOK, SocketsOpen, Candidates
  <2>10. CASE LastFailed(w)
    BY <1>1, <1>2, <1>13, <2>10 DEF LastFailed, Goto, RaceInv, TypeOK, SocketsOpen, Candidates
  <2>11. QED
    BY <1>13, <2>1, <2>2, <2>3, <2>4, <2>5, <2>6, <2>7, <2>8, <2>9, <2>10 DEF Worker
<1>14. CASE Destroy
  BY <1>1, <1>2, <1>14 DEF Destroy, RaceInv, TypeOK, SocketsOpen, Candidates
<1>15. CASE CloseSockets
  <2>1. /\ \A c \in Candidates : worker[c] = "gone"
        /\ open' = open \ (Candidates \ {socket}) /\ destroy' = "done" /\ destroy = "join"
        /\ UNCHANGED <<main, launched, worker, socket, used>>
    BY <1>15 DEF CloseSockets, Joined
  <2>2. QED
    BY <2>1 DEF RaceInv, SocketsOpen, Candidates
<1>16. CASE UNCHANGED vars
  BY <1>16 DEF vars, RaceInv, SocketsOpen, Candidates
<1>17. QED
  BY <1>3, <1>4, <1>5, <1>6, <1>7, <1>8, <1>9, <1>10, <1>11,
     <1>12, <1>13, <1>14, <1>15, <1>16 DEF Next, Main

\* An error leads to the end of the race.
LEMMA NextErrors ==
    ASSUME RaceInv, [Next]_vars
    PROVE  ErrorEnds'
<1> USE DEF callerVars, candidateVars, contextVars
<1>1. TypeOK
  BY DEF RaceInv
<1>2. \A w \in Attempts : w \in Nat /\ w # 0
  BY ConstantsAssumption DEF Attempts
<1>3. CASE Launch
  BY <1>1, <1>2, <1>3 DEF Launch, RaceInv, TypeOK, ErrorEnds
<1>4. CASE LaunchFails
  BY <1>1, <1>2, <1>4 DEF LaunchFails, RaceInv, TypeOK, ErrorEnds
<1>5. CASE Delay
  BY <1>1, <1>2, <1>5 DEF Delay, RaceInv, TypeOK, ErrorEnds
<1>6. CASE Dispatched
  BY <1>1, <1>2, <1>6 DEF Dispatched, RaceInv, TypeOK, ErrorEnds
<1>7. CASE Try
  BY <1>1, <1>2, <1>7 DEF Try, RaceInv, TypeOK, ErrorEnds
<1>8. CASE Count
  BY <1>1, <1>2, <1>8 DEF Count, RaceInv, TypeOK, ErrorEnds
<1>9. CASE Coalesce
  BY <1>1, <1>2, <1>9 DEF Coalesce, RaceInv, TypeOK, ErrorEnds
<1>10. CASE SignalEnd
  BY <1>1, <1>2, <1>10 DEF SignalEnd, RaceInv, TypeOK, ErrorEnds
<1>11. CASE Return
  BY <1>1, <1>2, <1>11 DEF Return, RaceInv, TypeOK, ErrorEnds
<1>12. CASE Timeout
  BY <1>1, <1>2, <1>12 DEF Timeout, RaceInv, TypeOK, ErrorEnds
<1>13. ASSUME NEW w \in Attempts, Worker(w)
      PROVE  ErrorEnds'
  <2>1. CASE Exit(w)
    BY <1>1, <1>2, <1>13, <2>1 DEF Exit, Goto, RaceInv, TypeOK, ErrorEnds
  <2>2. CASE Connect(w)
    BY <1>1, <1>2, <1>13, <2>2 DEF Connect, Goto, RaceInv, TypeOK, ErrorEnds
  <2>3. CASE Connected(w)
    BY <1>1, <1>2, <1>13, <2>3 DEF Connected, Goto, RaceInv, TypeOK, ErrorEnds
  <2>4. CASE ConnectFails(w)
    BY <1>1, <1>2, <1>13, <2>4 DEF ConnectFails, Goto, RaceInv, TypeOK, ErrorEnds
  <2>5. CASE Complete(w)
    BY <1>1, <1>2, <1>13, <2>5 DEF Complete, Goto, RaceInv, TypeOK, ErrorEnds
  <2>6. CASE CheckWinner(w)
    BY <1>1, <1>2, <1>13, <2>6 DEF CheckWinner, Goto, RaceInv, TypeOK, ErrorEnds
  <2>7. CASE Claim(w)
    BY <1>1, <1>2, <1>13, <2>7 DEF Claim, Goto, RaceInv, TypeOK, ErrorEnds
  <2>8. CASE End(w)
    BY <1>1, <1>2, <1>13, <2>8 DEF End, Goto, RaceInv, TypeOK, ErrorEnds
  <2>9. CASE Scan(w)
    BY <1>1, <1>2, <1>13, <2>9 DEF Scan, Goto, RaceInv, TypeOK, ErrorEnds
  <2>10. CASE LastFailed(w)
    BY <1>1, <1>2, <1>13, <2>10 DEF LastFailed, Goto, RaceInv, TypeOK, ErrorEnds
  <2>11. QED
    BY <1>13, <2>1, <2>2, <2>3, <2>4, <2>5, <2>6, <2>7, <2>8, <2>9, <2>10 DEF Worker
<1>14. CASE Destroy
  BY <1>1, <1>2, <1>14 DEF Destroy, RaceInv, TypeOK, ErrorEnds
<1>15. CASE CloseSockets
  BY <1>1, <1>2, <1>15 DEF CloseSockets, RaceInv, TypeOK, ErrorEnds
<1>16. CASE UNCHANGED vars
  BY <1>16 DEF vars, RaceInv, ErrorEnds
<1>17. QED
  BY <1>3, <1>4, <1>5, <1>6, <1>7, <1>8, <1>9, <1>10, <1>11,
     <1>12, <1>13, <1>14, <1>15, <1>16 DEF Next, Main

\* The wait of RTMP_Connect has somebody to end it.
LEMMA NextLeft ==
    ASSUME RaceInv, [Next]_vars
    PROVE  SomebodyLeft'
<1> USE DEF callerVars, candidateVars, contextVars
<1>1. TypeOK
  BY DEF RaceInv
<1>2. \A w \in Attempts : w \in Nat /\ w # 0
  BY ConstantsAssumption DEF Attempts
<1>3. CASE Launch
  BY <1>1, <1>2, <1>3 DEF Launch, RaceInv, TypeOK, SomebodyLeft, Settling, InMutex
<1>4. CASE LaunchFails
  BY <1>1, <1>2, <1>4 DEF LaunchFails, RaceInv, TypeOK, SomebodyLeft, Settling, InMutex
<1>5. CASE Delay
  BY <1>1, <1>2, <1>5 DEF Delay, RaceInv, TypeOK, SomebodyLeft, Settling, InMutex
<1>6. CASE Dispatched
  BY <1>1, <1>2, <1>6 DEF Dispatched, RaceInv, TypeOK, SomebodyLeft, Settling, InMutex
<1>7. CASE Try
  BY <1>1, <1>2, <1>7 DEF Try, RaceInv, TypeOK, SomebodyLeft, Settling, InMutex
<1>8. CASE Count
  <2>1. UNCHANGED <<starting, worker, launched, completed, race, error>>
    BY <1>8 DEF Count
  <2>2. ~starting
    BY <1>8 DEF Count, RaceInv, SomebodyLeft
  <2>3. CASE main' = "coalesce"
    BY <2>1, <2>2, <2>3 DEF SomebodyLeft
  <2>4. CASE main' = "return" /\ race
    BY <2>1, <2>2, <2>4 DEF SomebodyLeft
  <2>5. CASE main' = "return" /\ Active
    <3>1. PICK c \in Candidates : ~completed[c]
      BY <2>5 DEF Active
    <3>2. c \in Attempts /\ c <= launched
      BY <1>1, WorkerForEach DEF Candidates
    <3>3. QED
      BY <2>1, <2>2, <3>1, <3>2 DEF SomebodyLeft
  <2>6. QED
    BY <1>8, <2>3, <2>4, <2>5 DEF Count
<1>9. CASE Coalesce
  BY <1>1, <1>2, <1>9 DEF Coalesce, RaceInv, TypeOK, SomebodyLeft, Settling, InMutex
<1>10. CASE SignalEnd
  BY <1>1, <1>2, <1>10 DEF SignalEnd, RaceInv, TypeOK, SomebodyLeft, Settling, InMutex
<1>11. CASE Return
  BY <1>1, <1>2, <1>11 DEF Return, RaceInv, TypeOK, SomebodyLeft, Settling, InMutex
<1>12. CASE Timeout
  BY <1>1, <1>2, <1>12 DEF Timeout, RaceInv, TypeOK, SomebodyLeft, Settling, InMutex
<1>13. ASSUME NEW w \in Attempts, Worker(w)
      PROVE  SomebodyLeft'
  <2>1. CASE Exit(w)
    BY <1>1, <1>2, <1>13, <2>1 DEF Exit, Goto, RaceInv, TypeOK, SomebodyLeft, Settling, InMutex
  <2>2. CASE Connect(w)
    BY <1>1, <1>2, <1>13, <2>2 DEF Connect, Goto, RaceInv, TypeOK, SomebodyLeft, Settling, InMutex
  <2>3. CASE Connected(w)
    BY <1>1, <1>2, <1>13, <2>3 DEF Connected, Goto, RaceInv, TypeOK, SomebodyLeft, Settling, InMutex
  <2>4. CASE ConnectFails(w)
    BY <1>1, <1>2, <1>13, <2>4 DEF ConnectFails, Goto, RaceInv, TypeOK, SomebodyLeft, Settling, InMutex
  <2>5. CASE Complete(w)
    BY <1>1, <1>2, <1>13, <2>5 DEF Complete, Goto, RaceInv, TypeOK, SomebodyLeft, Settling, InMutex
  <2>6. CASE CheckWinner(w)
    BY <1>1, <1>2, <1>13, <2>6 DEF CheckWinner, Goto, RaceInv, TypeOK, SomebodyLeft, Settling, InMutex
  <2>7. CASE Claim(w)
    BY <1>1, <1>2, <1>13, <2>7 DEF Claim, Goto, RaceInv, TypeOK, SomebodyLeft, Settling, InMutex
  <2>8. CASE End(w)
    BY <1>1, <1>2, <1>13, <2>8 DEF End, Goto, RaceInv, TypeOK, SomebodyLeft, Settling, InMutex
  <2>9. CASE Scan(w)
    <3>1. /\ UNCHANGED <<main, starting, launched, completed, race, error>>
          /\ worker' = [worker EXCEPT ![w] = IF Starting \/ Active THEN "gone" ELSE "last"]
          /\ worker[w] = "scan"
      BY <2>9 DEF Scan, Goto
    <3>2. w <= launched
      BY <1>1, <1>2, <1>13, <3>1, WorkerForEach DEF TypeOK
    <3>3. CASE ~ (Starting \/ Active)
      BY <1>1, <1>13, <3>1, <3>2, <3>3 DEF RaceInv, TypeOK, SomebodyLeft, Settling
    <3>4. CASE Starting
      BY <3>1, <3>4 DEF RaceInv, SomebodyLeft, Starting
    <3>5. CASE Active
      <4>1. PICK c \in Candidates : ~completed[c]
        BY <3>5 DEF Active
      <4>2. c \in Attempts /\ c <= launched
        BY <1>1, WorkerForEach DEF Candidates
      <4>3. QED
        BY <3>1, <4>1, <4>2 DEF RaceInv, SomebodyLeft
    <3>6. QED
      BY <3>3, <3>4, <3>5
  <2>10. CASE LastFailed(w)
    <3>1. /\ UNCHANGED <<main, starting, launched, completed, race>> /\ worker[w] = "last"
          /\ \/ /\ worker' = [worker EXCEPT ![w] = "gone"] /\ error' = error
                /\ error # 0 \/ starting \/ race
             \/ worker' = [worker EXCEPT ![w] = "endFailed"]
      BY <2>10 DEF LastFailed, Goto, Starting
    <3>2. w <= launched
      BY <1>1, <1>2, <1>13, <3>1, WorkerForEach DEF TypeOK
    <3>3. CASE worker' = [worker EXCEPT ![w] = "endFailed"]
      BY <1>1, <1>13, <3>1, <3>2, <3>3 DEF RaceInv, TypeOK, SomebodyLeft, Settling
    <3>4. CASE starting \/ race
      BY <3>1, <3>4 DEF RaceInv, SomebodyLeft
    <3>5. CASE ~starting /\ ~race /\ error # 0 /\ worker' = [worker EXCEPT ![w] = "gone"]
               /\ error' = error
      <4>1. CASE main = "wait"
        <5>1. PICK v \in Attempts : worker[v] = "endFailed"
          BY <3>5, <4>1 DEF RaceInv, ErrorEnds
        <5>2. v # w /\ worker'[v] = "endFailed" /\ v <= launched
          BY <1>1, <1>2, <1>13, <3>1, <3>5, <5>1, WorkerForEach DEF TypeOK
        <5>3. QED
          BY <3>1, <3>5, <5>2 DEF SomebodyLeft, Settling
      <4>2. CASE main # "wait"
        BY <3>1, <3>5, <4>2 DEF SomebodyLeft
      <4>3. QED
        BY <4>1, <4>2
    <3>6. QED
      BY <3>1, <3>3, <3>4, <3>5
  <2>11. QED
    BY <1>13, <2>1, <2>2, <2>3, <2>4, <2>5, <2>6, <2>7, <2>8, <2>9, <2>10 DEF Worker
<1>14. CASE Destroy
  BY <1>1, <1>2, <1>14 DEF Destroy, RaceInv, TypeOK, SomebodyLeft, Settling, InMutex
<1>15. CASE CloseSockets
  BY <1>1, <1>2, <1>15 DEF CloseSockets, RaceInv, TypeOK, SomebodyLeft, Settling, InMutex
<1>16. CASE UNCHANGED vars
  BY <1>16 DEF vars, RaceInv, SomebodyLeft, Settling, InMutex
<1>17. QED
  BY <1>3, <1>4, <1>5, <1>6, <1>7, <1>8, <1>9, <1>10, <1>11,
     <1>12, <1>13, <1>14, <1>15, <1>16 DEF Next, Main

-----------------------------------------------------------------------------
\* Every step keeps the invariant.
LEMMA NextRace == RaceInv /\ [Next]_vars => RaceInv'
<1> SUFFICES ASSUME RaceInv, [Next]_vars PROVE RaceInv'
  OBVIOUS
<1>1. TypeOK'
  BY NextTypes DEF RaceInv
<1>2. QED
  BY <1>1, NextEvents, NextWinner, NextSockets, NextErrors, NextLeft DEF RaceInv

\* Main loop, workers and destroy_thread stay where the model has places for them, and winner_mutex
\* excludes.
THEOREM RaceTypes == Spec => []TypeOK
<1>1. RaceInv => TypeOK
  BY DEF RaceInv
<1>2. QED
  BY <1>1, InitRace, NextRace, PTL DEF Spec

\* The socket that RTMP_Connect goes on with is never replaced by a later winner, nor closed by
\* destroy_thread.
THEOREM WinnerStays == Spec => []UsedStaysOpen
<1>1. RaceInv => UsedStaysOpen
  BY DEF RaceInv, SocketsOpen, UsedStaysOpen
<1>2. QED
  BY <1>1, InitRace, NextRace, PTL DEF Spec

\* While RTMP_Connect waits for the race, some worker has still to run: with any number of addresses
\* and any order of steps, the last to fail ends the race.
THEOREM NeverAlone == Spec => []NobodyLeft
<1>1. RaceInv => NobodyLeft
  <2> SUFFICES ASSUME RaceInv, main = "wait", \A c \in Candidates : worker[c] = "gone", ~race
               PROVE  FALSE
    BY DEF NobodyLeft
  <2>1. PICK w \in Attempts : w <= launched /\ (worker[w] \in Settling \/ ~completed[w])
    BY DEF RaceInv, SomebodyLeft
  <2>2. w \in Candidates
    BY <2>1, WorkerForEach, ConstantsAssumption DEF RaceInv, Candidates, Attempts
  <2>3. worker[w] = "gone" /\ ~completed[w]
    BY <2>1, <2>2 DEF Settling, InMutex
  <2>4. QED
    BY <2>3 DEF RaceInv, EventsSet
<1>2. QED
  BY <1>1, InitRace, NextRace, PTL DEF Spec

-----------------------------------------------------------------------------
\* build_addr_list

Families == {IPv4, IPv6}

\* If two neighbours at the head are of one family, all addresses are.
Separated(list) ==
    Len(list) >= 2 /\ list[1] = list[2] => \A k \in 1 .. Len(list) : list[k] = list[1]

\* A step of the loop leaves the number of the addresses, and separates the head if it is its turn;
\* a head that is separated stays.
LEMMA AlternateSeparates ==
    ASSUME NEW list \in Seq(Families), NEW i \in Nat \ {0}, i = 1 \/ Separated(list)
    PROVE  /\ Alternate(list, i) \in Seq(Families) /\ Len(Alternate(list, i)) = Len(list)
           /\ Separated(Alternate(list, i))
<1> DEFINE n == Len(list)
<1>1. n \in Nat /\ \A k \in 1 .. n : list[k] \in Families
  BY LenProperties, ElementOfSeq
<1>2. CASE i >= n \/ list[i] # list[i + 1] \/ Others(list, i) = {}
  <2>1. Alternate(list, i) = list
    BY <1>2 DEF Alternate
  <2>2. ASSUME n >= 2, list[1] = list[2], i = 1
        PROVE  \A k \in 1 .. n : list[k] = list[1]
    <3>1. Others(list, 1) = {}
      BY <1>1, <1>2, <2>2
    <3>2. \A k \in 3 .. n : list[k] = list[1]
      BY <3>1 DEF Others
    <3>3. QED
      BY <1>1, <2>2, <3>2
  <2>3. QED
    BY <2>1, <2>2 DEF Separated
<1>3. CASE ~ (i >= n \/ list[i] # list[i + 1] \/ Others(list, i) = {})
  <2> DEFINE j == CHOOSE k \in Others(list, i) : \A m \in Others(list, i) : k <= m
             q == RemoveAt(list, j)
             r == InsertAt(q, i + 1, list[j])
  <2>1. j \in i + 2 .. n /\ list[j] # list[i]
    <3>1. Others(list, i) \subseteq Nat /\ Others(list, i) # {}
      BY <1>1, <1>3 DEF Others
    <3>2. PICK x \in Others(list, i) : \A y \in Others(list, i) : ~ (<<y, x>> \in OpToRel(<, Nat))
      BY <3>1, NatLessThanWellFounded, WFMin
    <3>3. \A y \in Others(list, i) : x \in Nat /\ y \in Nat /\ ~ (y < x)
      BY <3>1, <3>2 DEF OpToRel
    <3>4. \A y \in Others(list, i) : x <= y
      BY <3>3
    <3>5. j \in Others(list, i)
      BY <3>4
    <3>6. QED
      BY <3>5 DEF Others
  <2>2. Alternate(list, i) = r
    BY <1>3 DEF Alternate
  <2> HIDE DEF j
  <2>3. /\ q \in Seq(Families) /\ Len(q) = n - 1
        /\ \A k \in 1 .. i : q[k] = list[k]
    <3> DEFINE a == SubSeq(list, 1, j - 1)
               b == SubSeq(list, j + 1, n)
    <3>1. a \in Seq(Families) /\ Len(a) = j - 1 /\ \A k \in 1 .. j - 1 : a[k] = list[k]
      <4>1. 1 \in Int /\ j - 1 \in Int /\ \A k \in 1 .. j - 1 : list[k] \in Families
        BY <1>1, <2>1
      <4>2. QED
        BY <1>1, <2>1, <4>1, SubSeqProperties
    <3>2. b \in Seq(Families) /\ Len(b) = n - j
      <4>1. j + 1 \in Int /\ n \in Int /\ \A k \in j + 1 .. n : list[k] \in Families
        BY <1>1, <2>1
      <4>2. QED
        BY <1>1, <2>1, <4>1, SubSeqProperties
    <3>3. q = a \o b
      BY DEF RemoveAt
    <3> HIDE DEF a, b, q
    <3>4. /\ q \in Seq(Families) /\ Len(q) = Len(a) + Len(b)
          /\ \A k \in 1 .. Len(a) + Len(b) : q[k] = IF k <= Len(a) THEN a[k] ELSE b[k - Len(a)]
      BY <3>1, <3>2, <3>3, ConcatProperties
    <3>5. Len(q) = n - 1
      BY <1>1, <2>1, <3>1, <3>2, <3>4
    <3>6. ASSUME NEW k \in 1 .. i
          PROVE  q[k] = list[k]
      <4>1. k \in 1 .. j - 1 /\ k \in 1 .. Len(a) + Len(b) /\ k <= Len(a)
        BY <1>1, <2>1, <3>1, <3>2
      <4>2. QED
        BY <3>1, <3>4, <4>1
    <3>7. QED
      BY <3>4, <3>5, <3>6
  <2> HIDE DEF q
  <2>4. /\ r \in Seq(Families) /\ Len(r) = n /\ r[i + 1] = list[j]
        /\ \A k \in 1 .. i : r[k] = list[k]
    <3> DEFINE a == SubSeq(q, 1, (i + 1) - 1)
               b == SubSeq(q, i + 1, Len(q))
               c == a \o <<list[j]>>
    <3>0. Len(q) \in Nat /\ \A k \in 1 .. Len(q) : q[k] \in Families
      BY <2>3, LenProperties, ElementOfSeq
    <3>1. a \in Seq(Families) /\ Len(a) = i /\ \A k \in 1 .. i : a[k] = list[k]
      <4>1. 1 \in Int /\ i \in Int /\ (i + 1) - 1 = i /\ \A k \in 1 .. i : q[k] \in Families
        BY <1>1, <1>3, <2>1, <2>3, <3>0
      <4>2. QED
        BY <2>3, <4>1, SubSeqProperties
    <3>2. b \in Seq(Families) /\ Len(b) = n - 1 - i
      <4>1. i + 1 \in Int /\ Len(q) \in Int /\ \A k \in i + 1 .. Len(q) : q[k] \in Families
        BY <3>0
      <4>2. QED
        BY <1>1, <2>1, <2>3, <4>1, SubSeqProperties
    <3>3. r = c \o b
      BY DEF InsertAt
    <3>4. list[j] \in Families
      BY <1>1, <2>1
    <3>5. <<list[j]>> \in Seq(Families) /\ Len(<<list[j]>>) = 1 /\ <<list[j]>>[1] = list[j]
      BY <3>4
    <3>6. c = a \o <<list[j]>>
      OBVIOUS
    <3> HIDE DEF a, b, c, r
    <3>7. /\ c \in Seq(Families) /\ Len(c) = i + 1 /\ c[i + 1] = list[j]
          /\ \A k \in 1 .. i : c[k] = list[k]
      <4>1. /\ c \in Seq(Families) /\ Len(c) = Len(a) + 1
            /\ \A k \in 1 .. Len(a) + 1 :
                  c[k] = IF k <= Len(a) THEN a[k] ELSE <<list[j]>>[k - Len(a)]
        BY <3>1, <3>5, <3>6, ConcatProperties
      <4>2. i + 1 \in 1 .. i + 1 /\ ~ (i + 1 <= i) /\ (i + 1) - i = 1
        OBVIOUS
      <4>3. \A k \in 1 .. i : k \in 1 .. i + 1 /\ k <= i
        OBVIOUS
      <4>4. QED
        BY <3>1, <3>5, <4>1, <4>2, <4>3
    <3>8. /\ r \in Seq(Families) /\ Len(r) = Len(c) + Len(b)
          /\ \A k \in 1 .. Len(c) + Len(b) : r[k] = IF k <= Len(c) THEN c[k] ELSE b[k - Len(c)]
      BY <3>2, <3>3, <3>7, ConcatProperties
    <3>9. Len(r) = n
      BY <1>1, <2>1, <3>2, <3>7, <3>8
    <3>10. \A k \in 1 .. i + 1 : k \in 1 .. Len(c) + Len(b) /\ k <= Len(c)
      BY <1>1, <2>1, <3>2, <3>7
    <3>11. \A k \in 1 .. i + 1 : r[k] = c[k]
      BY <3>8, <3>10
    <3>12. QED
      BY <3>7, <3>8, <3>9, <3>11
  <2>5. Separated(r)
    <3>1. CASE i = 1
      <4>1. r[1] = list[1] /\ r[2] = list[j] /\ list[j] # list[1]
        BY <2>1, <2>4, <3>1
      <4>2. QED
        BY <4>1 DEF Separated
    <3>2. CASE i # 1
      <4>1. r[1] = list[1] /\ r[2] = list[2] /\ n >= 2
        BY <1>1, <1>3, <2>4, <3>2
      <4>2. list[1] # list[2]
        <5>1. i \in 1 .. n /\ j \in 1 .. n
          BY <1>1, <1>3, <2>1
        <5>2. QED
          BY <2>1, <3>2, <4>1, <5>1 DEF Separated
      <4>3. QED
        BY <4>1, <4>2 DEF Separated
    <3>3. QED
      BY <3>1, <3>2
  <2>6. QED
    BY <2>2, <2>4, <2>5
<1>4. QED
  BY <1>2, <1>3

Pass(list, p, i) == IF i = 0 THEN list ELSE Alternate(p[i - 1], i)

\* The passes of the loop are what their recursive definition says.
LEMMA PassesDefined ==
    ASSUME NEW list, NEW n \in Nat, n = Len(list)
    PROVE  \E p : p = [i \in 0 .. n |-> Pass(list, p, i)] /\ Alternated(list) = p[n]
<1>1. \A k \in Nat : \E p : p = [i \in 0 .. k |-> Pass(list, p, i)]
  <2> DEFINE Bad == {k \in Nat : ~ \E p : p = [i \in 0 .. k |-> Pass(list, p, i)]}
  <2>1. SUFFICES ASSUME Bad # {} PROVE FALSE
    OBVIOUS
  <2>2. PICK k \in Bad : \A l \in Bad : ~ (<<l, k>> \in OpToRel(<, Nat))
    BY <2>1, NatLessThanWellFounded, WFMin, Zenon
  <2>3. k \in Nat /\ \A l \in Nat : l < k => l \notin Bad
    BY <2>2 DEF OpToRel
  <2>4. CASE k = 0
    <3> DEFINE q == [i \in 0 .. 0 |-> list]
    <3>1. q = [i \in 0 .. 0 |-> Pass(list, q, i)]
      BY DEF Pass
    <3>2. QED
      BY <2>2, <2>4, <3>1
  <2>5. CASE k # 0
    <3>1. k - 1 \in Nat /\ k - 1 < k
      BY <2>3, <2>5
    <3>2. PICK p : p = [i \in 0 .. k - 1 |-> Pass(list, p, i)]
      BY <2>3, <3>1
    <3> DEFINE q == [i \in 0 .. k |-> Pass(list, p, i)]
    <3>3. \A i \in 0 .. k - 1 : q[i] = p[i]
      <4>1. SUFFICES ASSUME NEW i \in 0 .. k - 1 PROVE q[i] = p[i]
        OBVIOUS
      <4>2. p[i] = Pass(list, p, i)
        BY <3>2
      <4>3. i \in 0 .. k
        BY <2>3
      <4>4. QED
        BY <4>2, <4>3
    <3>4. ASSUME NEW i \in 0 .. k
          PROVE  Pass(list, p, i) = Pass(list, q, i)
      <4>1. i # 0 => i - 1 \in 0 .. k - 1
        BY <2>3
      <4> HIDE DEF q
      <4>2. QED
        BY <3>3, <4>1 DEF Pass
    <3>5. q = [i \in 0 .. k |-> Pass(list, q, i)]
      BY <3>4
    <3>6. QED
      BY <2>2, <3>5
  <2>6. QED
    BY <2>4, <2>5
<1> DEFINE passes[i \in 0 .. Len(list)] == IF i = 0 THEN list ELSE Alternate(passes[i - 1], i)
<1>2. Alternated(list) = passes[Len(list)]
  BY DEF Alternated
<1>3. passes = CHOOSE p : p = [i \in 0 .. n |-> Pass(list, p, i)]
  BY DEF Pass
<1>4. passes = [i \in 0 .. n |-> Pass(list, passes, i)]
  <2> HIDE DEF passes
  <2>1. QED
    BY <1>1, <1>3
<1>5. QED
  BY <1>2, <1>4

\* However many addresses getaddrinfo returns: if they are of two families, the first two are.
LEMMA AlternatedSeparates ==
    ASSUME NEW list \in Seq(Families), Len(list) > 0
    PROVE  Separated(Alternated(list))
<1>1. Len(list) \in Nat
  BY LenProperties
<1>2. PICK p : p = [i \in 0 .. Len(list) |-> Pass(list, p, i)] /\ Alternated(list) = p[Len(list)]
  BY <1>1, PassesDefined
<1> DEFINE Good(i) == p[i] \in Seq(Families) /\ (i > 0 => Separated(p[i]))
           Bad == {i \in 0 .. Len(list) : ~ Good(i)}
<1>3. SUFFICES ASSUME Bad # {} PROVE FALSE
  BY <1>1, <1>2
<1>4. PICK k \in Bad : \A l \in Bad : ~ (<<l, k>> \in OpToRel(<, Nat))
  <2>1. Bad \subseteq Nat
    BY <1>1
  <2>2. QED
    BY <1>3, <2>1, NatLessThanWellFounded, WFMin, Zenon
<1>5. k \in 0 .. Len(list) /\ \A l \in 0 .. Len(list) : l < k => Good(l)
  <2>1. \A l \in 0 .. Len(list) : l \in Nat
    BY <1>1
  <2>2. QED
    BY <1>4, <2>1 DEF OpToRel
<1>6. p[k] = Pass(list, p, k)
  BY <1>2, <1>5
<1>7. CASE k = 0
  <2>1. p[k] = list /\ ~ (k > 0)
    BY <1>6, <1>7 DEF Pass
  <2>2. Good(k)
    BY <2>1
  <2>3. QED
    BY <1>4, <2>2
<1>8. CASE k # 0
  <2>1. k - 1 \in 0 .. Len(list) /\ k - 1 < k /\ k \in Nat \ {0}
    BY <1>1, <1>5, <1>8
  <2>2. Good(k - 1)
    BY <1>5, <2>1
  <2>3. k = 1 \/ Separated(p[k - 1])
    BY <2>1, <2>2
  <2>4. p[k] = Alternate(p[k - 1], k)
    BY <1>6, <1>8 DEF Pass
  <2>5. Good(k)
    BY <2>1, <2>2, <2>3, <2>4, AlternateSeparates
  <2>6. QED
    BY <1>4, <2>5
<1>9. QED
  BY <1>7, <1>8

-----------------------------------------------------------------------------
\* A worker knows how its connection ended before it signals its own event, and the one that ends
\* the race as its winner has claimed it.
EndsInOrder ==
    \A w \in Attempts :
        /\ worker[w] \in {"none", "start", "connecting", "won", "lost"} => ~completed[w]
        /\ worker[w] = "end" => socket = w

\* Somebody has decided that the race has failed, or is about to.
Failing ==
    \/ main \in {"coalesce", "signal"} \/ error \in Errors \/ (race /\ socket = 0)
    \/ \E w \in Attempts : worker[w] \in {"last", "endFailed"}

\* Nobody decides that before all candidates are there, and done.
AllDone ==
    /\ main \in {"dispatch", "delay", "dispatched"} => starting
    /\ Failing => ~starting /\ ~Active

\* The loop that dispatches ends for want of an address, or because somebody has won.
TriedAll ==
    /\ main = "dispatched" => race /\ socket # 0
    /\ ~starting => ~MoreToTry \/ (race /\ socket # 0)

\* The error of the context is counted among the candidates.
Counted == error \in Errors => IsMode(error)

DecisionInv == EndsInOrder /\ AllDone /\ TriedAll /\ Counted

\* coalesce_errors takes an error that no other outnumbers.
LEMMA CommonErrorMode ==
    ASSUME TypeOK, CommonError \in Errors
    PROVE  IsMode(CommonError)
<1>1. ModeIndex \subseteq Attempts
  BY WorkerForEach DEF ModeIndex
<1>2. ModeIndex # {}
  BY ConstantsAssumption DEF CommonError
<1>3. \E c \in ModeIndex : \A d \in ModeIndex : c <= d
  <2>1. ModeIndex \subseteq Nat
    BY <1>1, ConstantsAssumption DEF Attempts
  <2>2. PICK x \in ModeIndex : \A y \in ModeIndex : ~ (<<y, x>> \in OpToRel(<, Nat))
    BY <1>2, <2>1, NatLessThanWellFounded, WFMin
  <2>3. \A y \in ModeIndex : x \in Nat /\ y \in Nat /\ ~ (y < x)
    BY <2>1, <2>2 DEF OpToRel
  <2>4. \A y \in ModeIndex : x <= y
    BY <2>3
  <2>5. QED
    BY <2>4
<1>4. (CHOOSE c \in ModeIndex : \A d \in ModeIndex : c <= d) \in ModeIndex
  BY <1>3
<1>5. QED
  BY <1>2, <1>4 DEF CommonError, ModeIndex

\* The places of a worker that has been launched are its own.
LEMMA NextOrder ==
    ASSUME RaceInv, EndsInOrder, [Next]_vars
    PROVE  EndsInOrder'
<1> USE DEF callerVars, candidateVars, contextVars
<1>1. TypeOK
  BY DEF RaceInv
<1>2. CASE Launch
  BY <1>1, <1>2 DEF Launch, TypeOK, EndsInOrder
<1>3. CASE \/ LaunchFails \/ Delay \/ Dispatched \/ Try \/ Count \/ Coalesce \/ SignalEnd
           \/ Return \/ Timeout \/ Destroy \/ CloseSockets \/ UNCHANGED vars
  <2>1. UNCHANGED <<worker, completed, socket>>
    BY <1>3 DEF LaunchFails, Delay, Dispatched, Try, Count, Coalesce, SignalEnd, Return, Timeout,
       Destroy, CloseSockets, vars
  <2>2. QED
    BY <2>1 DEF EndsInOrder
<1>4. ASSUME NEW w \in Attempts, Worker(w)
      PROVE  EndsInOrder'
  <2>1. CASE Claim(w)
    <3>1. \A v \in Attempts : worker[v] = "end" => v = w
      BY <1>1, <1>4, <2>1 DEF Claim, TypeOK
    <3>2. /\ worker' = [worker EXCEPT ![w] = "end"] /\ socket' = w /\ completed' = completed
          /\ worker[w] = "claim" /\ DOMAIN worker = Attempts
      BY <1>1, <2>1 DEF Claim, Goto, TypeOK
    <3>3. QED
      BY <1>4, <3>1, <3>2 DEF EndsInOrder
  <2>2. CASE Exit(w) \/ Connect(w) \/ Connected(w) \/ ConnectFails(w)
    BY <1>1, <1>4, <2>2 DEF Exit, Connect, Connected, ConnectFails, Goto, TypeOK, EndsInOrder
  <2>3. CASE Complete(w) \/ CheckWinner(w) \/ End(w) \/ Scan(w) \/ LastFailed(w)
    BY <1>1, <1>4, <2>3 DEF Complete, CheckWinner, End, Scan, LastFailed, Goto, TypeOK, EndsInOrder
  <2>4. QED
    BY <1>4, <2>1, <2>2, <2>3 DEF Worker
<1>5. QED
  BY <1>2, <1>3, <1>4 DEF Next, Main

\* The end of the race is decided under winner_mutex, or by the loop when it has ended, from the
\* events of all candidates.
LEMMA NextDone ==
    ASSUME RaceInv, EndsInOrder, AllDone, [Next]_vars
    PROVE  AllDone'
<1> USE DEF callerVars, candidateVars, contextVars
<1>1. TypeOK
  BY DEF RaceInv
<1>2. CASE Launch
  BY <1>1, <1>2 DEF Launch, TypeOK, AllDone, Failing
<1>3. CASE LaunchFails
  BY <1>1, <1>3, ConstantsAssumption DEF LaunchFails, AllDone, Failing
<1>4. CASE Delay \/ Dispatched \/ Try \/ Return \/ Timeout
  BY <1>4 DEF Delay, Dispatched, Try, Return, Timeout, AllDone, Failing, Active, Candidates
<1>5. CASE Count
  BY <1>5 DEF Count, RaceInv, SomebodyLeft, AllDone, Failing, Active, Candidates
<1>6. CASE Coalesce \/ SignalEnd
  BY <1>6 DEF Coalesce, SignalEnd, AllDone, Failing, Active, Candidates
<1>7. CASE Destroy \/ CloseSockets \/ UNCHANGED vars
  BY <1>7 DEF Destroy, CloseSockets, vars, AllDone, Failing, Active, Candidates
<1>8. ASSUME NEW w \in Attempts, Worker(w)
      PROVE  AllDone'
  <2>0. w # 0
    BY ConstantsAssumption DEF Attempts
  <2>1. UNCHANGED <<main, starting, launched>>
    BY <1>8 DEF Worker, Exit, Connect, Connected, ConnectFails, Complete, CheckWinner, Claim, End,
       Scan, LastFailed
  <2>2. Active' => Active
    <3>1. completed' \in {completed, [completed EXCEPT ![w] = TRUE]}
      BY <1>8 DEF Worker, Exit, Connect, Connected, ConnectFails, Complete, CheckWinner, Claim,
         End, Scan, LastFailed
    <3>2. DOMAIN completed = Attempts /\ Candidates \subseteq Attempts
      BY <1>1, WorkerForEach DEF TypeOK
    <3>3. \A c \in Candidates : completed[c] => completed'[c]
      BY <3>1, <3>2
    <3>4. QED
      BY <2>1, <3>3 DEF Active, Candidates
  <2>3. Failing' => Failing \/ (~starting /\ ~Active)
    <3>1. CASE Exit(w) \/ Connect(w) \/ Connected(w) \/ ConnectFails(w) \/ Complete(w)
      BY <1>1, <2>1, <3>1 DEF Exit, Connect, Connected, ConnectFails, Complete, Goto, TypeOK,
         Failing
    <3>2. CASE CheckWinner(w) \/ Claim(w)
      BY <1>1, <2>0, <2>1, <3>2 DEF CheckWinner, Claim, Goto, TypeOK, Failing
    <3>3. CASE End(w)
      BY <1>1, <1>8, <2>0, <2>1, <3>3 DEF End, Goto, TypeOK, EndsInOrder, Failing
    <3>4. CASE Scan(w)
      BY <1>1, <2>1, <3>4 DEF Scan, Starting, Goto, TypeOK, Failing
    <3>5. CASE LastFailed(w)
      BY <1>8, <3>5 DEF LastFailed, Failing
    <3>6. QED
      BY <1>8, <3>1, <3>2, <3>3, <3>4, <3>5 DEF Worker
  <2>4. QED
    BY <2>1, <2>2, <2>3 DEF AllDone
<1>9. QED
  BY <1>2, <1>3, <1>4, <1>5, <1>6, <1>7, <1>8 DEF Next, Main

\* The loop is left when it has nothing more to try, or has been told of a winner.
LEMMA NextTried ==
    ASSUME RaceInv, AllDone, TriedAll, [Next]_vars
    PROVE  TriedAll'
<1> USE DEF callerVars, candidateVars, contextVars
<1>1. CASE Launch \/ LaunchFails
  BY <1>1 DEF Launch, LaunchFails, AllDone, TriedAll
<1>2. CASE Delay
  BY <1>2 DEF Delay, AllDone, Failing, TriedAll, MoreToTry
<1>3. CASE Dispatched
  BY <1>3 DEF Dispatched, TriedAll, MoreToTry
<1>4. CASE Try \/ Count \/ Coalesce \/ SignalEnd \/ Return \/ Timeout
  BY <1>4 DEF Try, Count, Coalesce, SignalEnd, Return, Timeout, TriedAll, MoreToTry
<1>5. CASE Destroy \/ CloseSockets \/ UNCHANGED vars
  BY <1>5 DEF Destroy, CloseSockets, vars, TriedAll, MoreToTry
<1>6. ASSUME NEW w \in Attempts, Worker(w)
      PROVE  TriedAll'
  <2>1. /\ UNCHANGED <<main, starting, launched, addresses>>
        /\ race => race' /\ (socket # 0 => socket' # 0)
    BY <1>6, ConstantsAssumption DEF Worker, Exit, Connect, Connected, ConnectFails, Complete,
       CheckWinner, Claim, End, Scan, LastFailed, Attempts
  <2>2. QED
    BY <2>1 DEF TriedAll, MoreToTry
<1>7. QED
  BY <1>1, <1>2, <1>3, <1>4, <1>5, <1>6 DEF Next, Main

\* Once an error has been taken from the candidates, theirs do not change any more.
LEMMA NextCounted ==
    ASSUME RaceInv, EndsInOrder, AllDone, Counted, [Next]_vars
    PROVE  Counted'
<1> USE DEF callerVars, candidateVars, contextVars
<1>1. TypeOK
  BY DEF RaceInv
<1>2. CASE Launch \/ LaunchFails
  BY <1>2, ConstantsAssumption DEF Launch, LaunchFails, AllDone, Failing, Counted
<1>3. CASE Coalesce
  <2>1. error' = CommonError /\ UNCHANGED <<err, launched>>
    BY <1>3 DEF Coalesce
  <2>2. QED
    BY <1>1, <2>1, CommonErrorMode DEF Counted, IsMode, Failed, Candidates
<1>4. ASSUME UNCHANGED <<error, err, launched>>
      PROVE  Counted'
  BY <1>4 DEF Counted, IsMode, Failed, Candidates
<1>5. CASE \/ Delay \/ Dispatched \/ Try \/ Count \/ SignalEnd \/ Return \/ Timeout
           \/ Destroy \/ CloseSockets \/ UNCHANGED vars
  BY <1>4, <1>5 DEF Delay, Dispatched, Try, Count, SignalEnd, Return, Timeout, Destroy,
     CloseSockets, vars
<1>6. ASSUME NEW w \in Attempts, Worker(w)
      PROVE  Counted'
  <2>1. CASE ConnectFails(w)
    <3>1. ~completed[w] /\ worker[w] # "none" /\ error' = error
      BY <1>6, <2>1 DEF ConnectFails, EndsInOrder
    <3>2. w \in Candidates
      BY <1>1, <1>6, <3>1, WorkerForEach, ConstantsAssumption DEF TypeOK, Candidates, Attempts
    <3>3. Active
      BY <3>1, <3>2 DEF Active
    <3>4. QED
      BY <3>1, <3>3 DEF AllDone, Failing, Counted
  <2>2. CASE LastFailed(w)
    <3>1. error' \in {error, CommonError} /\ UNCHANGED <<err, launched>>
      BY <2>2 DEF LastFailed
    <3>2. QED
      BY <1>1, <1>4, <3>1, CommonErrorMode DEF Counted, IsMode, Failed, Candidates
  <2>3. CASE ~ConnectFails(w) /\ ~LastFailed(w)
    BY <1>4, <1>6, <2>3 DEF Worker, Exit, Connect, Connected, Complete, CheckWinner, Claim, End,
       Scan
  <2>4. QED
    BY <2>1, <2>2, <2>3
<1>7. QED
  BY <1>2, <1>3, <1>5, <1>6 DEF Next, Main

\* The race begins with everything still to be decided, and its addresses in order.
LEMMA InitDecision == Init => DecisionInv /\ Separated(addresses)
<1> SUFFICES ASSUME Init PROVE DecisionInv /\ Separated(addresses)
  OBVIOUS
<1>1. DecisionInv
  BY ConstantsAssumption DEF Init, DecisionInv, EndsInOrder, AllDone, Failing, TriedAll, Counted,
     Candidates
<1>2. PICK n \in Attempts : \E list \in [1 .. n -> Families] : addresses = Alternated(list)
  BY DEF Init, Families
<1>3. PICK list \in [1 .. n -> Families] : addresses = Alternated(list)
  BY <1>2
<1>4. n \in Nat /\ n > 0
  BY ConstantsAssumption DEF Attempts
<1>5. list \in Seq(Families) /\ Len(list) = n
  BY <1>3, <1>4, LenProperties, SeqDef
<1>6. QED
  BY <1>1, <1>3, <1>4, <1>5, AlternatedSeparates

\* Every step keeps both.
LEMMA NextDecision ==
    ASSUME RaceInv, DecisionInv, Separated(addresses), [Next]_vars
    PROVE  DecisionInv' /\ Separated(addresses)'
<1>1. DecisionInv'
  BY NextOrder, NextDone, NextTried, NextCounted DEF DecisionInv
<1>2. addresses' = addresses
  BY DEF Next, Main, Launch, LaunchFails, Delay, Dispatched, Try, Count, Coalesce, SignalEnd,
     Return, Timeout, Worker, Exit, Connect, Connected, ConnectFails, Complete, CheckWinner, Claim,
     End, Scan, LastFailed, Destroy, CloseSockets, vars
<1>3. QED
  BY <1>1, <1>2

\* A loop that had nothing more to try has tried both families, if there are two.
LEMMA BothTried ==
    ASSUME TypeOK, Separated(addresses), ~MoreToTry
    PROVE  \A i \in 1 .. Len(addresses) : \E c \in Candidates : addresses[c] = addresses[i]
<1>1. PICK n \in Attempts : addresses \in [1 .. n -> Families]
  BY DEF TypeOK, Families
<1>2. n \in Nat /\ n > 0 /\ Len(addresses) = n
  BY <1>1, ConstantsAssumption, LenProperties, SeqDef DEF Attempts
<1>3. launched \in 0 .. n
  BY <1>2 DEF TypeOK
<1>4. launched > 0
  BY <1>2, <1>3, ConstantsAssumption DEF MoreToTry
<1>5. CASE launched = 1
  <2>1. n = 1 \/ addresses[2] = addresses[1]
    BY <1>2, <1>5, ConstantsAssumption DEF MoreToTry
  <2>2. \A i \in 1 .. n : addresses[i] = addresses[1]
    BY <1>2, <2>1 DEF Separated
  <2>3. 1 \in Candidates
    BY <1>5 DEF Candidates
  <2>4. QED
    BY <1>2, <2>2, <2>3
<1>6. CASE launched > 1
  <2>1. 1 \in Candidates /\ 2 \in Candidates /\ 1 \in 1 .. n /\ 2 \in 1 .. n
    BY <1>2, <1>3, <1>6 DEF Candidates
  <2>2. CASE addresses[1] = addresses[2]
    BY <1>2, <1>6, <1>3, <2>1, <2>2 DEF Separated
  <2>3. CASE addresses[1] # addresses[2]
    <3>1. \A i \in 1 .. n : addresses[i] \in {IPv4, IPv6}
      BY <1>1 DEF Families
    <3>2. QED
      BY <1>2, <2>1, <2>3, <3>1
  <2>4. QED
    BY <2>2, <2>3
<1>7. QED
  BY <1>3, <1>4, <1>5, <1>6

\* A race ends, and it fails only when every candidate of both families has failed, with an error
\* that is the commonest of theirs: for any number of addresses, in any order, and whatever the
\* dispatching loop and the workers see of each other.
THEOREM DecidesRightly == Spec => []RaceDecided
<1>1. RaceInv /\ DecisionInv /\ Separated(addresses) => FailureUnanimous /\ ErrorCommon
  <2> SUFFICES ASSUME RaceInv, DecisionInv, Separated(addresses)
               PROVE  FailureUnanimous /\ ErrorCommon
    OBVIOUS
  <2>1. ErrorCommon
    BY DEF DecisionInv, Counted, ErrorCommon
  <2>2. race /\ socket = 0 => ~starting /\ ~Active
    BY DEF DecisionInv, AllDone, Failing
  <2>3. race /\ socket = 0 => ~MoreToTry
    BY <2>2 DEF DecisionInv, TriedAll
  <2>4. FailureUnanimous
    BY <2>2, <2>3, BothTried DEF RaceInv, FailureUnanimous
  <2>5. QED
    BY <2>1, <2>4
<1>2. RaceInv /\ DecisionInv /\ Separated(addresses) /\ [Next]_vars
        => RaceInv' /\ DecisionInv' /\ Separated(addresses)'
  BY NextRace, NextDecision
<1>3. Init => RaceInv /\ DecisionInv /\ Separated(addresses)
  BY InitRace, InitDecision
<1>4. NobodyLeft /\ FailureUnanimous /\ ErrorCommon => RaceDecided
  BY DEF RaceDecided
<1>5. QED
  BY <1>1, <1>2, <1>3, <1>4, NeverAlone, PTL DEF Spec

-----------------------------------------------------------------------------
\* A worker carries the result of its connection; the last one to fail has left an error before it
\* ends the race.
ResultKnown ==
    \A w \in Attempts :
        /\ worker[w] \in {"none", "start", "connecting", "won", "check", "claim", "end"} => err[w] = 0
        /\ worker[w] \in {"lost", "scan", "last", "endFailed"} => err[w] # 0
        /\ worker[w] = "endFailed" => error # 0

\* The winner has connected.
WinnerConnected == socket # 0 => completed[socket] /\ err[socket] = 0

\* A race that ends without a socket and without an error is one in which nobody failed.
Unfailed ==
    (main = "signal" \/ (race /\ socket = 0)) /\ error = 0 => \A c \in Candidates : err[c] = 0

\* The loop is not left before an address has been tried.
SomeTried == main \notin {"dispatch", "failed"} => launched > 0

ResultInv == ResultKnown /\ WinnerConnected /\ Unfailed /\ SomeTried /\ SuccessConnected

\* If a candidate has failed, some error is the commonest.
LEMMA ModeExists ==
    ASSUME TypeOK, NEW c \in Candidates, err[c] # 0
    PROVE  ModeIndex # {}
<1> DEFINE Seen == {err[k] : k \in Candidates} \ {0}
           Missed(e) == launched - Cardinality(Failed(e))
<1>1. Candidates \subseteq Attempts /\ launched \in Nat
  BY WorkerForEach
<1>2. Seen \subseteq Errors /\ Errors \subseteq Nat \ {0}
  BY <1>1, ConstantsAssumption DEF TypeOK
<1>3. IsFiniteSet(Candidates) /\ Cardinality(Candidates) = launched
  BY <1>1, FS_Interval DEF Candidates
<1>4. \A e : /\ IsFiniteSet(Failed(e)) /\ Cardinality(Failed(e)) \in Nat
             /\ Missed(e) \in Nat
  <2>1. SUFFICES ASSUME NEW e
                 PROVE  /\ IsFiniteSet(Failed(e)) /\ Cardinality(Failed(e)) \in Nat
                        /\ Missed(e) \in Nat
    OBVIOUS
  <2>2. Failed(e) \subseteq Candidates
    BY DEF Failed
  <2>3. IsFiniteSet(Failed(e)) /\ Cardinality(Failed(e)) <= Cardinality(Candidates)
    BY <1>3, <2>2, FS_Subset
  <2>4. Cardinality(Failed(e)) \in Nat
    BY <2>3, FS_CardinalityType
  <2>5. QED
    BY <1>1, <1>3, <2>3, <2>4
<1> DEFINE Counts == {Missed(e) : e \in Seen}
<1>5. Counts \subseteq Nat /\ Counts # {}
  <2>1. err[c] \in Seen
    OBVIOUS
  <2>2. Counts \subseteq Nat
    BY <1>4
  <2>3. QED
    BY <2>1, <2>2
<1>6. PICK m \in Counts : \A n \in Counts : ~ (<<n, m>> \in OpToRel(<, Nat))
  <2> HIDE DEF Counts
  <2>1. QED
    BY <1>5, NatLessThanWellFounded, WFMin
<1>7. PICK e \in Seen : m = Missed(e)
  OBVIOUS
<1>8. \A d \in Seen : Missed(e) <= Missed(d)
  <2>1. \A n \in Counts : m \in Nat /\ n \in Nat /\ ~ (n < m)
    <3> HIDE DEF Counts
    <3>1. QED
      BY <1>5, <1>6 DEF OpToRel
  <2>2. SUFFICES ASSUME NEW d \in Seen PROVE Missed(e) <= Missed(d)
    OBVIOUS
  <2>3. Missed(d) \in Counts
    OBVIOUS
  <2>4. ~ (Missed(d) < m)
    BY <2>1, <2>3
  <2> HIDE DEF Counts, Missed
  <2>5. QED
    BY <1>4, <1>7, <2>4
<1>9. Failed(e) # {} /\ \E k \in Candidates : err[k] = e
  BY DEF Failed
<1>10. \A d \in Errors : Cardinality(Failed(d)) <= Cardinality(Failed(e))
  <2>1. SUFFICES ASSUME NEW d \in Errors PROVE Cardinality(Failed(d)) <= Cardinality(Failed(e))
    OBVIOUS
  <2>2. CASE d \in Seen
    <3>1. Missed(e) <= Missed(d)
      BY <1>8, <2>2
    <3> HIDE DEF Seen
    <3>2. QED
      BY <1>1, <1>4, <3>1
  <2>3. CASE d \notin Seen
    <3>1. d # 0
      BY <1>2
    <3>2. Failed(d) = {}
      BY <2>3, <3>1 DEF Failed
    <3>3. Cardinality(Failed(d)) = 0
      BY <3>2, FS_EmptySet
    <3>4. QED
      BY <1>4, <3>3
  <2>4. QED
    BY <2>2, <2>3
<1>11. PICK k \in Candidates : err[k] = e
  BY <1>9
<1>12. IsMode(e) /\ e # 0
  BY <1>9, <1>10 DEF IsMode
<1>13. k \in ModeIndex
  BY <1>11, <1>12 DEF ModeIndex
<1>14. QED
  BY <1>13

\* coalesce_errors finds no error only when no candidate has failed.
LEMMA CommonErrorNone ==
    ASSUME TypeOK, NEW c \in Candidates, err[c] # 0
    PROVE  CommonError # 0
<1>1. ModeIndex # {}
  BY ModeExists
<1>2. ModeIndex \subseteq Nat
  BY WorkerForEach, ConstantsAssumption DEF ModeIndex, Attempts
<1>3. PICK x \in ModeIndex : \A y \in ModeIndex : ~ (<<y, x>> \in OpToRel(<, Nat))
  BY <1>1, <1>2, NatLessThanWellFounded, WFMin
<1>4. \A y \in ModeIndex : x \in Nat /\ y \in Nat /\ ~ (y < x)
  BY <1>2, <1>3 DEF OpToRel
<1>5. \A y \in ModeIndex : x <= y
  BY <1>4
<1>6. (CHOOSE k \in ModeIndex : \A d \in ModeIndex : k <= d) \in ModeIndex
  BY <1>5
<1>7. QED
  BY <1>1, <1>6 DEF CommonError, ModeIndex

\* No result changes after the worker has it.
LEMMA NextResults ==
    ASSUME RaceInv, DecisionInv, ResultInv, [Next]_vars
    PROVE  ResultKnown' /\ WinnerConnected'
<1> USE DEF callerVars, candidateVars, contextVars
<1>1. TypeOK /\ ResultKnown /\ WinnerConnected
  BY DEF RaceInv, ResultInv
<1>2. CASE Launch
  BY <1>1, <1>2 DEF Launch, TypeOK, ResultKnown, WinnerConnected
<1>3. CASE LaunchFails
  BY <1>1, <1>3, ConstantsAssumption DEF LaunchFails, ResultKnown, WinnerConnected
<1>4. CASE \/ Delay \/ Dispatched \/ Try \/ Count \/ SignalEnd \/ Return \/ Timeout
           \/ Destroy \/ CloseSockets \/ UNCHANGED vars
  <2>1. UNCHANGED <<worker, err, completed, socket, error>>
    BY <1>4 DEF Delay, Dispatched, Try, Count, SignalEnd, Return, Timeout, Destroy, CloseSockets,
       vars
  <2>2. QED
    BY <1>1, <2>1 DEF ResultKnown, WinnerConnected
<1>5. CASE Coalesce
  <2>1. UNCHANGED <<worker, err, completed, socket>> /\ error' = CommonError
    BY <1>5 DEF Coalesce
  <2>2. ASSUME NEW w \in Attempts, worker[w] = "endFailed"
        PROVE  CommonError # 0
    <3>1. w \in Candidates
      BY <1>1, <2>2, WorkerForEach, ConstantsAssumption DEF TypeOK, Candidates, Attempts
    <3>2. err[w] # 0
      BY <1>1, <2>2 DEF ResultKnown
    <3>3. QED
      BY <1>1, <3>1, <3>2, CommonErrorNone
  <2>3. QED
    BY <1>1, <2>1, <2>2 DEF ResultKnown, WinnerConnected
<1>6. ASSUME NEW w \in Attempts, Worker(w)
      PROVE  ResultKnown' /\ WinnerConnected'
  <2>0. w \in Nat /\ w # 0 /\ (worker[w] # "none" => w \in Candidates)
    BY <1>1, <1>6, WorkerForEach, ConstantsAssumption DEF TypeOK, Candidates, Attempts
  <2>1. CASE Exit(w) \/ Connect(w) \/ Connected(w)
    BY <1>1, <1>6, <2>1 DEF Exit, Connect, Connected, Goto, TypeOK, ResultKnown, WinnerConnected
  <2>2. CASE ConnectFails(w)
    <3>1. PICK e \in Errors : err' = [err EXCEPT ![w] = e]
      BY <2>2 DEF ConnectFails
    <3>2. /\ worker[w] = "connecting" /\ worker' = [worker EXCEPT ![w] = "lost"] /\ e # 0
          /\ UNCHANGED <<completed, socket, error>>
      BY <2>2, ConstantsAssumption DEF ConnectFails, Goto
    <3>3. socket # w
      BY <1>1, <1>6, <2>0, <3>2 DEF WinnerConnected, DecisionInv, EndsInOrder
    <3>4. ResultKnown'
      BY <1>1, <1>6, <3>1, <3>2 DEF TypeOK, ResultKnown
    <3>5. socket # 0 => socket \in Attempts
      BY <1>1, WorkerForEach DEF TypeOK
    <3>6. WinnerConnected'
      BY <1>1, <3>1, <3>2, <3>3, <3>5 DEF TypeOK, WinnerConnected
    <3>7. QED
      BY <3>4, <3>6
  <2>3. CASE Complete(w)
    <3>1. ResultKnown'
      BY <1>1, <1>6, <2>3 DEF Complete, Goto, TypeOK, ResultKnown
    <3>2. socket # 0 => socket \in Attempts
      BY <1>1, WorkerForEach DEF TypeOK
    <3>3. WinnerConnected'
      BY <1>1, <2>3, <3>2 DEF Complete, TypeOK, WinnerConnected
    <3>4. QED
      BY <3>1, <3>3
  <2>4. CASE CheckWinner(w) \/ End(w) \/ Scan(w)
    BY <1>1, <1>6, <2>4 DEF CheckWinner, End, Scan, Goto, TypeOK, ResultKnown, WinnerConnected
  <2>5. CASE Claim(w)
    <3>1. completed[w] /\ err[w] = 0
      BY <1>1, <1>6, <2>5 DEF Claim, RaceInv, EventsSet, Settling, InMutex, ResultKnown
    <3>2. ResultKnown'
      BY <1>1, <1>6, <2>5 DEF Claim, Goto, TypeOK, ResultKnown
    <3>3. WinnerConnected'
      BY <2>5, <3>1 DEF Claim, WinnerConnected
    <3>4. QED
      BY <3>2, <3>3
  <2>6. CASE LastFailed(w)
    <3>1. worker[w] = "last" /\ UNCHANGED <<err, completed, socket>>
      BY <2>6 DEF LastFailed
    <3>2. \/ worker' = [worker EXCEPT ![w] = "gone"] /\ error' = error
          \/ worker' = [worker EXCEPT ![w] = "endFailed"] /\ error' = CommonError
      BY <2>6 DEF LastFailed, Goto
    <3>3. w \in Candidates /\ err[w] # 0
      BY <1>1, <1>6, <2>0, <3>1 DEF ResultKnown
    <3>4. CommonError # 0
      BY <1>1, <3>3, CommonErrorNone
    <3>5. ResultKnown'
      BY <1>1, <1>6, <3>1, <3>2, <3>3, <3>4 DEF TypeOK, ResultKnown
    <3>6. QED
      BY <1>1, <3>1, <3>5 DEF WinnerConnected
  <2>7. QED
    BY <1>6, <2>1, <2>2, <2>3, <2>4, <2>5, <2>6 DEF Worker
<1>7. QED
  BY <1>2, <1>3, <1>4, <1>5, <1>6 DEF Next, Main

\* The loop ends a race only when it has tried an address, and without an error only when nobody
\* has failed.
LEMMA NextUnfailed ==
    ASSUME RaceInv, DecisionInv, ResultInv, [Next]_vars
    PROVE  Unfailed' /\ SomeTried'
<1> USE DEF callerVars, candidateVars, contextVars
<1>1. TypeOK /\ Unfailed /\ SomeTried
  BY DEF RaceInv, ResultInv
<1>2. \A n \in Nat : n + 1 > 0
  OBVIOUS
<1>3. CASE Launch
  <2>1. starting /\ main = "dispatch"
    BY <1>3 DEF Launch, DecisionInv, AllDone
  <2>2. ~ (race /\ socket = 0)
    BY <2>1 DEF DecisionInv, AllDone, Failing
  <2>3. launched' > 0 /\ main' = "delay" /\ UNCHANGED <<race, socket>>
    BY <1>1, <1>2, <1>3, WorkerForEach DEF Launch
  <2>4. QED
    BY <2>2, <2>3 DEF Unfailed, SomeTried
<1>4. CASE LaunchFails
  BY <1>4, ConstantsAssumption DEF LaunchFails, Unfailed, SomeTried
<1>5. CASE Dispatched
  <2>1. launched > 0
    <3>1. CASE main = "dispatched"
      BY <1>1, <3>1 DEF SomeTried
    <3>2. CASE main = "dispatch"
      <4>1. ~MoreToTry
        BY <1>5, <3>2 DEF Dispatched
      <4>2. PICK n \in Attempts : addresses \in [1 .. n -> Families]
        BY <1>1 DEF TypeOK, Families
      <4>3. n \in Nat /\ n > 0 /\ Len(addresses) = n
        BY <4>2, ConstantsAssumption, LenProperties, SeqDef DEF Attempts
      <4>4. launched \in Nat
        BY <1>1, WorkerForEach
      <4>5. QED
        BY <4>1, <4>3, <4>4, ConstantsAssumption DEF MoreToTry
    <3>3. QED
      BY <1>5, <3>1, <3>2 DEF Dispatched
  <2>2. main' = "try" /\ UNCHANGED <<launched, race, socket, error, err>>
    BY <1>5 DEF Dispatched
  <2>3. QED
    BY <1>1, <2>1, <2>2 DEF Unfailed, SomeTried, Candidates
<1>6. CASE Delay \/ Try \/ Count \/ Return \/ Timeout
  <2>1. /\ UNCHANGED <<launched, race, socket, error, err>> /\ main' # "signal"
        /\ main \notin {"dispatch", "failed"}
    BY <1>6 DEF Delay, Try, Count, Return, Timeout
  <2>2. QED
    BY <1>1, <2>1 DEF Unfailed, SomeTried, Candidates
<1>7. CASE Coalesce
  <2>1. /\ UNCHANGED <<launched, race, socket, err>> /\ error' = CommonError
        /\ main = "coalesce"
    BY <1>7 DEF Coalesce
  <2>2. CommonError = 0 => \A c \in Candidates : err[c] = 0
    BY <1>1, CommonErrorNone
  <2>3. QED
    BY <1>1, <2>1, <2>2 DEF Unfailed, SomeTried, Candidates
<1>8. CASE SignalEnd
  BY <1>1, <1>8 DEF SignalEnd, Unfailed, SomeTried, Candidates
<1>9. CASE Destroy \/ CloseSockets \/ UNCHANGED vars
  BY <1>1, <1>9 DEF Destroy, CloseSockets, vars, Unfailed, SomeTried, Candidates
<1>10. ASSUME NEW w \in Attempts, Worker(w)
       PROVE  Unfailed' /\ SomeTried'
  <2>0. w # 0 /\ (worker[w] # "none" => w \in Candidates)
    BY <1>1, <1>10, WorkerForEach, ConstantsAssumption DEF TypeOK, Candidates, Attempts
  <2>1. UNCHANGED <<main, launched>> /\ SomeTried'
    BY <1>1, <1>10 DEF Worker, Exit, Connect, Connected, ConnectFails, Complete, CheckWinner,
       Claim, End, Scan, LastFailed, SomeTried
  <2>2. CASE Exit(w) \/ Connect(w) \/ Connected(w) \/ Complete(w) \/ CheckWinner(w) \/ Scan(w)
    <3>1. UNCHANGED <<main, launched, race, socket, error, err>>
      BY <2>2 DEF Exit, Connect, Connected, Complete, CheckWinner, Scan
    <3>2. QED
      BY <1>1, <2>1, <3>1 DEF Unfailed, Candidates
  <2>3. CASE ConnectFails(w)
    <3>1. worker[w] = "connecting" /\ UNCHANGED <<main, launched, race, socket, error>>
      BY <2>3 DEF ConnectFails
    <3>2. ~completed[w] /\ w \in Candidates
      BY <1>10, <2>0, <3>1 DEF DecisionInv, EndsInOrder
    <3>3. Active
      BY <3>2 DEF Active
    <3>4. main # "signal" /\ ~ (race /\ socket = 0)
      BY <3>3 DEF DecisionInv, AllDone, Failing
    <3>5. QED
      BY <2>1, <3>1, <3>4 DEF Unfailed
  <2>4. CASE Claim(w)
    <3>1. socket' # 0 /\ UNCHANGED <<main, launched, error, err>>
      BY <2>0, <2>4 DEF Claim
    <3>2. QED
      BY <1>1, <2>1, <3>1 DEF Unfailed, Candidates
  <2>5. CASE End(w)
    <3>1. UNCHANGED <<main, launched, socket, error, err>>
      BY <2>5 DEF End
    <3>2. CASE worker[w] = "end"
      <4>1. socket # 0
        BY <1>10, <2>0, <3>2 DEF DecisionInv, EndsInOrder
      <4>2. QED
        BY <1>1, <2>1, <3>1, <4>1 DEF Unfailed, Candidates
    <3>3. CASE worker[w] = "endFailed"
      <4>1. error # 0
        BY <1>10, <3>3 DEF ResultInv, ResultKnown
      <4>2. QED
        BY <2>1, <3>1, <4>1 DEF Unfailed
    <3>4. QED
      BY <2>5, <3>2, <3>3 DEF End
  <2>6. CASE LastFailed(w)
    <3>1. worker[w] = "last" /\ UNCHANGED <<main, launched, race, socket, err>>
      BY <2>6 DEF LastFailed
    <3>2. error' = error \/ error' = CommonError
      BY <2>6 DEF LastFailed
    <3>3. w \in Candidates /\ err[w] # 0
      BY <1>10, <2>0, <3>1 DEF ResultInv, ResultKnown
    <3>4. CommonError # 0
      BY <1>1, <3>3, CommonErrorNone
    <3>5. QED
      BY <1>1, <2>1, <3>1, <3>2, <3>4 DEF Unfailed, Candidates
  <2>7. QED
    BY <1>10, <2>2, <2>3, <2>4, <2>5, <2>6 DEF Worker
<1>11. QED
  BY <1>3, <1>4, <1>5, <1>6, <1>7, <1>8, <1>9, <1>10 DEF Next, Main

\* Who goes on with a connection has one, or gets it from a candidate that has connected.
LEMMA NextSuccess ==
    ASSUME RaceInv, DecisionInv, ResultInv, [Next]_vars
    PROVE  SuccessConnected'
<1> USE DEF callerVars, candidateVars, contextVars
<1>1. TypeOK /\ SuccessConnected
  BY DEF RaceInv, ResultInv
<1>2. CASE Return
  <2>1. UNCHANGED <<launched, completed, err, socket, error, race>>
    BY <1>2 DEF Return
  <2> SUFFICES ASSUME main' = "connected"
               PROVE  \E c \in Candidates : completed[c] /\ err[c] = 0 /\ (used' # 0 => c = used')
    BY <2>1 DEF SuccessConnected, Candidates
  <2>2. race /\ error = 0 /\ used' = socket /\ main \notin {"dispatch", "failed"}
    BY <1>2 DEF Return
  <2>3. CASE socket # 0
    <3>1. socket \in Candidates /\ completed[socket] /\ err[socket] = 0
      BY <1>1, <2>3 DEF TypeOK, ResultInv, WinnerConnected
    <3>2. QED
      BY <2>2, <3>1
  <2>4. CASE socket = 0
    <3>1. ~Active /\ \A c \in Candidates : err[c] = 0
      BY <2>2, <2>4 DEF DecisionInv, AllDone, Failing, ResultInv, Unfailed
    <3>2. launched \in Nat /\ launched > 0
      BY <1>1, <2>2, WorkerForEach DEF ResultInv, SomeTried
    <3>3. launched \in Candidates
      BY <3>2 DEF Candidates
    <3>4. completed[launched] /\ err[launched] = 0
      BY <3>1, <3>3 DEF Active
    <3>5. QED
      BY <2>2, <2>4, <3>3, <3>4
  <2>5. QED
    BY <2>3, <2>4
<1>3. CASE \/ Launch \/ LaunchFails \/ Delay \/ Dispatched \/ Try \/ Count \/ Coalesce
           \/ SignalEnd \/ Timeout
  BY <1>3 DEF Launch, LaunchFails, Delay, Dispatched, Try, Count, Coalesce, SignalEnd, Timeout,
     SuccessConnected
<1>4. CASE Destroy \/ CloseSockets \/ UNCHANGED vars
  BY <1>1, <1>4 DEF Destroy, CloseSockets, vars, SuccessConnected, Candidates
<1>5. ASSUME NEW w \in Attempts, Worker(w)
      PROVE  SuccessConnected'
  <2>1. UNCHANGED <<main, launched, used>>
    BY <1>5 DEF Worker, Exit, Connect, Connected, ConnectFails, Complete, CheckWinner, Claim, End,
       Scan, LastFailed
  <2>2. ASSUME NEW c \in Candidates, completed[c]
        PROVE  completed'[c] /\ err'[c] = err[c]
    <3>0. c \in Attempts /\ DOMAIN completed = Attempts /\ DOMAIN err = Attempts
      BY <1>1, <2>2, WorkerForEach DEF TypeOK
    <3>1. CASE ConnectFails(w)
      <4>1. ~completed[w] /\ completed' = completed
        BY <1>5, <3>1 DEF ConnectFails, DecisionInv, EndsInOrder
      <4>2. PICK e \in Errors : err' = [err EXCEPT ![w] = e]
        BY <3>1 DEF ConnectFails
      <4>3. QED
        BY <2>2, <3>0, <4>1, <4>2
    <3>2. CASE ~ConnectFails(w)
      <4>1. /\ completed' \in {completed, [completed EXCEPT ![w] = TRUE]}
            /\ err' = err
        BY <1>5, <3>2 DEF Worker, Exit, Connect, Connected, Complete, CheckWinner, Claim, End,
           Scan, LastFailed
      <4>2. QED
        BY <2>2, <3>0, <4>1
    <3>3. QED
      BY <3>1, <3>2
  <2>3. QED
    BY <1>1, <2>1, <2>2 DEF SuccessConnected, Candidates
<1>6. QED
  BY <1>2, <1>3, <1>4, <1>5 DEF Next, Main

\* Before anything is tried nothing has a result.
LEMMA InitResults == Init => ResultInv
<1> SUFFICES ASSUME Init PROVE ResultInv
  OBVIOUS
<1>1. \A w \in Attempts : worker[w] = "none" /\ err[w] = 0
  BY DEF Init
<1>2. QED
  BY <1>1 DEF Init, ResultInv, ResultKnown, WinnerConnected, Unfailed, SomeTried, SuccessConnected

\* RTMP_Connect is never told of a connection when every attempt has failed: with any number of
\* addresses, the socket it uses is of a candidate that has connected, and when it gets none, because
\* the winner had signalled its own event but not the race, there is one that has connected.
THEOREM SuccessIsConnection == Spec => []SuccessConnected
<1>1. RaceInv /\ DecisionInv /\ Separated(addresses) /\ ResultInv /\ [Next]_vars
        => RaceInv' /\ DecisionInv' /\ Separated(addresses)' /\ ResultInv'
  <2> SUFFICES ASSUME RaceInv, DecisionInv, Separated(addresses), ResultInv, [Next]_vars
               PROVE  RaceInv' /\ DecisionInv' /\ Separated(addresses)' /\ ResultInv'
    OBVIOUS
  <2>1. ResultInv'
    BY NextResults, NextUnfailed, NextSuccess DEF ResultInv
  <2>2. QED
    BY <2>1, NextRace, NextDecision
<1>2. Init => RaceInv /\ DecisionInv /\ Separated(addresses) /\ ResultInv
  BY InitRace, InitDecision, InitResults
<1>3. ResultInv => SuccessConnected
  BY DEF ResultInv
<1>4. QED
  BY <1>1, <1>2, <1>3, PTL DEF Spec

\* The sockets that are open are those of the candidates, and the one of a launch that failed.
OpenKnown == open \subseteq Candidates \cup {launched + 1}

\* destroy_thread closes the socket of every attempt but the winner's, however many there were and
\* however they ended; only the socket of a worker that could not be launched may be left.
THEOREM ClosesLosers == Spec => []LosersClosed
<1> DEFINE Inv == RaceInv /\ OpenKnown /\ LosersClosed
<1>1. Init => Inv
  BY InitRace DEF Init, OpenKnown, LosersClosed
<1>2. Inv /\ [Next]_vars => Inv'
  <2> SUFFICES ASSUME Inv, [Next]_vars PROVE Inv'
    OBVIOUS
  <2> USE DEF callerVars, candidateVars, contextVars
  <2>1. RaceInv' /\ TypeOK
    BY NextRace DEF RaceInv
  <2>2. destroy # "no" => main \in {"connected", "failed"}
    BY DEF RaceInv, SocketsOpen
  <2>3. CASE Launch
    <3>1. launched \in Nat /\ launched' = launched + 1 /\ open' = open \cup {launched + 1}
      BY <2>1, <2>3, WorkerForEach DEF Launch
    <3>2. destroy = "no" /\ destroy' = destroy
      BY <2>1, <2>2, <2>3 DEF Launch, TypeOK
    <3>3. open' \subseteq 1 .. launched'
      BY <3>1 DEF OpenKnown, Candidates
    <3>4. QED
      BY <2>1, <3>2, <3>3 DEF OpenKnown, LosersClosed, Candidates
  <2>4. CASE LaunchFails
    <3>1. destroy = "no" /\ destroy' = destroy
      BY <2>1, <2>2, <2>4 DEF LaunchFails, TypeOK
    <3>2. QED
      BY <2>1, <2>4, <3>1 DEF LaunchFails, OpenKnown, LosersClosed, Candidates
  <2>5. CASE \/ Delay \/ Dispatched \/ Try \/ Count \/ Coalesce \/ SignalEnd \/ Return \/ Timeout
             \/ Destroy \/ UNCHANGED vars
    <3>1. UNCHANGED <<open, launched, socket>> /\ (destroy' = "done" => destroy = "done")
      BY <2>5 DEF Delay, Dispatched, Try, Count, Coalesce, SignalEnd, Return, Timeout, Destroy, vars
    <3>2. QED
      BY <2>1, <3>1 DEF OpenKnown, LosersClosed, Candidates
  <2>6. CASE CloseSockets
    <3>1. open' = open \ (Candidates \ {socket}) /\ UNCHANGED <<launched, socket>>
      BY <2>6 DEF CloseSockets
    <3>2. QED
      BY <2>1, <3>1 DEF OpenKnown, LosersClosed, Candidates
  <2>7. ASSUME NEW w \in Attempts, Worker(w)
        PROVE  Inv'
    <3>1. UNCHANGED <<open, launched, destroy>>
      BY <2>7 DEF Worker, Exit, Connect, Connected, ConnectFails, Complete, CheckWinner, Claim,
         End, Scan, LastFailed
    <3>2. CASE Claim(w)
      <4>1. worker[w] = "claim" /\ w \in Candidates
        BY <2>1, <2>7, <3>2, WorkerForEach, ConstantsAssumption DEF Claim, TypeOK, Candidates,
           Attempts
      <4>2. destroy # "done"
        BY <4>1 DEF RaceInv, SocketsOpen
      <4>3. QED
        BY <2>1, <3>1, <4>2 DEF OpenKnown, LosersClosed, Candidates
    <3>3. CASE ~Claim(w)
      <4>1. socket' = socket
        BY <2>7, <3>3 DEF Worker, Exit, Connect, Connected, ConnectFails, Complete, CheckWinner,
           End, Scan, LastFailed
      <4>2. QED
        BY <2>1, <3>1, <4>1 DEF OpenKnown, LosersClosed, Candidates
    <3>4. QED
      BY <3>2, <3>3
  <2>8. QED
    BY <2>3, <2>4, <2>5, <2>6, <2>7 DEF Next, Main
<1>3. Inv => LosersClosed
  OBVIOUS
<1>4. QED
  BY <1>1, <1>2, <1>3, PTL DEF Spec

=============================================================================
