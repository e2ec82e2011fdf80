--------------------------- MODULE HappyEyeballs ---------------------------
(***************************************************************************)
(* The connection race of shared/happy-eyeballs.c, as RTMP_Connect runs    *)
(* it: addresses of alternating families are tried one after the other,    *)
(* 200 ms apart, each by a worker thread of its own; the first connection  *)
(* wins, and the race fails when all have failed.                          *)
(*                                                                         *)
(* A worker is the number of its attempt, and so is its socket; 0 is no    *)
(* socket, no error, nobody.  An event is a Boolean that is set once.      *)
(***************************************************************************)
EXTENDS Integers, FiniteSets, Sequences, SequencesExt

CONSTANTS
    MaxAddresses,   \* addresses getaddrinfo may return
    MaxAttempts,    \* HAPPY_EYEBALLS_MAX_ATTEMPTS
    Errors,         \* what a connect may fail with
    LaunchError     \* what socket() or pthread_create() fails with

ASSUME ConstantsAssumption ==
    /\ MaxAddresses \in Nat \ {0}
    /\ MaxAttempts \in Nat /\ MaxAttempts >= 2     \* one for each family; it is 6
    /\ Errors \subseteq Nat \ {0} /\ LaunchError \in Nat \ ({0} \cup Errors)

VARIABLES
    addresses,   \* the families of the addresses, in the order they are tried
    main,        \* where RTMP_Connect, and happy_eyeballs_connect below it, is
    launched,    \* number of workers: candidates
    starting,    \* is_starting
    worker,      \* where each worker is
    completed,   \* socket_completed_event of each candidate
    err,         \* error of each candidate
    lock,        \* who holds winner_mutex
    race,        \* race_completed_event
    error,       \* error of the context
    socket,      \* socket_fd of the context
    open,        \* the sockets that are open
    used,        \* the socket RTMP_Connect goes on with
    destroy      \* where destroy_thread is

candidateVars == <<worker, completed, err, lock>>
contextVars   == <<race, error, socket>>
callerVars    == <<main, launched, starting, used>>
vars == <<addresses, callerVars, candidateVars, contextVars, open, destroy>>

Attempts   == 1 .. MaxAddresses
Candidates == 1 .. launched

-----------------------------------------------------------------------------
\* build_addr_list: if an address has the family of the one before it, the next one of the other
\* family is moved in front of it.
IPv4 == 4
IPv6 == 6

Others(list, i) == {j \in i + 2 .. Len(list) : list[j] # list[i]}

Alternate(list, i) ==
    IF i >= Len(list) \/ list[i] # list[i + 1] \/ Others(list, i) = {} THEN list
    ELSE LET j == CHOOSE k \in Others(list, i) : \A m \in Others(list, i) : k <= m
         IN  InsertAt(RemoveAt(list, j), i + 1, list[j])

Alternated(list) ==
    LET passes[i \in 0 .. Len(list)] == IF i = 0 THEN list ELSE Alternate(passes[i - 1], i)
    IN  passes[Len(list)]

-----------------------------------------------------------------------------
\* What several threads do

\* Mutant: is_starting is not looked at.
StartingNot == FALSE

Starting == starting

\* Somebody is still trying to connect: os_event_try of all candidates gives EAGAIN for one.
Active == \E c \in Candidates : ~completed[c]

\* The error most candidates failed with, the first of them in a tie: coalesce_errors.
Failed(e)   == {c \in Candidates : err[c] = e}
IsMode(e)   == /\ Failed(e) # {}
               /\ \A d \in Errors : Cardinality(Failed(d)) <= Cardinality(Failed(e))
ModeIndex   == {c \in Candidates : err[c] # 0 /\ IsMode(err[c])}

CommonError ==
    IF ModeIndex = {} THEN 0
    ELSE err[CHOOSE c \in ModeIndex : \A d \in ModeIndex : c <= d]

-----------------------------------------------------------------------------
\* RTMP_Connect and happy_eyeballs_connect

\* The loop goes on: attempts are left, and the next address is of another family.
MoreToTry ==
    /\ launched < MaxAttempts /\ launched < Len(addresses)
    /\ launched > 0 => addresses[launched + 1] # addresses[launched]

\* launch_worker.
Launch ==
    /\ main = "dispatch" /\ MoreToTry
    /\ launched' = launched + 1
    /\ open' = open \cup {launched'}
    /\ worker' = [worker EXCEPT ![launched'] = "start"]
    /\ main' = "delay"
    /\ UNCHANGED <<addresses, starting, used, completed, err, lock, contextVars, destroy>>

\* launch_worker without a socket, or without a thread: then the socket is left open.  connect
\* returns, with is_starting set.
LaunchFails ==
    /\ main = "dispatch" /\ MoreToTry
    /\ error' = LaunchError
    /\ open' \in {open, open \cup {launched + 1}}
    /\ main' = "failed"
    /\ UNCHANGED <<addresses, launched, starting, used, candidateVars, race, socket, destroy>>

\* os_event_timedwait on race_completed_event.
Delay ==
    /\ main = "delay"
    /\ main' = IF race THEN "dispatched" ELSE "dispatch"
    /\ UNCHANGED <<addresses, launched, starting, used, candidateVars, contextVars, open, destroy>>

Dispatched ==
    /\ \/ main = "dispatched"
       \/ main = "dispatch" /\ ~MoreToTry
    /\ starting' = FALSE
    /\ main' = "try"
    /\ UNCHANGED <<addresses, launched, used, candidateVars, contextVars, open, destroy>>

\* If the race is on, the candidates are counted, without winner_mutex.
Try ==
    /\ main = "try"
    /\ main' = IF ~race /\ error = 0 THEN "count" ELSE "return"
    /\ UNCHANGED <<addresses, launched, starting, used, candidateVars, contextVars, open, destroy>>

Count ==
    /\ main = "count"
    /\ main' = IF Active \/ race THEN "return" ELSE "coalesce"
    /\ UNCHANGED <<addresses, launched, starting, used, candidateVars, contextVars, open, destroy>>

Coalesce ==
    /\ main = "coalesce"
    /\ error' = CommonError
    /\ main' = "signal"
    /\ UNCHANGED <<addresses, launched, starting, used, candidateVars, race, socket, open, destroy>>

SignalEnd ==
    /\ main = "signal"
    /\ race' = TRUE
    /\ main' = "return"
    /\ UNCHANGED <<addresses, launched, starting, used, candidateVars, error, socket, open, destroy>>

\* The last happy_eyeballs_try of connect, and happy_eyeballs_timedwait, which gives up after 25
\* seconds: RTMP_Connect goes on with socket_fd, or fails.
Return ==
    /\ \/ main = "return"
       \/ main = "wait" /\ (race \/ error # 0)
    /\ main' = IF error # 0 THEN "failed" ELSE IF race THEN "connected" ELSE "wait"
    /\ used' = IF main' = "connected" THEN socket ELSE used
    /\ UNCHANGED <<addresses, launched, starting, candidateVars, contextVars, open, destroy>>

Timeout ==
    /\ main = "wait" /\ ~race
    /\ main' = "failed"
    /\ UNCHANGED <<addresses, launched, starting, used, candidateVars, contextVars, open, destroy>>

Main ==
    \/ Launch \/ LaunchFails \/ Delay \/ Dispatched \/ Try
    \/ Count \/ Coalesce \/ SignalEnd \/ Return \/ Timeout

-----------------------------------------------------------------------------
\* happy_connect_worker

Goto(w, place) == worker' = [worker EXCEPT ![w] = place]

Exit(w) ==
    /\ worker[w] = "start" /\ race
    /\ Goto(w, "gone")
    /\ UNCHANGED <<addresses, callerVars, completed, err, lock, contextVars, open, destroy>>

Connect(w) ==
    /\ worker[w] = "start" /\ ~race
    /\ Goto(w, "connecting")
    /\ UNCHANGED <<addresses, callerVars, completed, err, lock, contextVars, open, destroy>>

\* bind and connect, which may take any time and end either way, even after a shutdown.
Connected(w) ==
    /\ worker[w] = "connecting"
    /\ Goto(w, "won")
    /\ UNCHANGED <<addresses, callerVars, completed, err, lock, contextVars, open, destroy>>

ConnectFails(w) ==
    /\ worker[w] = "connecting"
    /\ \E e \in Errors : err' = [err EXCEPT ![w] = e]
    /\ Goto(w, "lost")
    /\ UNCHANGED <<addresses, callerVars, completed, lock, contextVars, open, destroy>>

\* winner_mutex is taken, and the worker's own event signalled.
Complete(w) ==
    /\ worker[w] \in {"won", "lost"} /\ lock = 0
    /\ lock' = w
    /\ completed' = [completed EXCEPT ![w] = TRUE]
    /\ Goto(w, IF worker[w] = "won" THEN "check" ELSE "scan")
    /\ UNCHANGED <<addresses, callerVars, err, contextVars, open, destroy>>

\* Mutant: whoever connects takes the race.
CheckWinnerNot(w) ==
    /\ worker[w] = "check"
    /\ Goto(w, "claim") /\ UNCHANGED lock
    /\ UNCHANGED <<addresses, callerVars, completed, err, contextVars, open, destroy>>

CheckWinner(w) ==
    /\ worker[w] = "check"
    /\ IF race THEN Goto(w, "gone") /\ lock' = 0
       ELSE Goto(w, "claim") /\ UNCHANGED lock
    /\ UNCHANGED <<addresses, callerVars, completed, err, contextVars, open, destroy>>

Claim(w) ==
    /\ worker[w] = "claim"
    /\ socket' = w
    /\ Goto(w, "end")
    /\ UNCHANGED <<addresses, callerVars, completed, err, lock, race, error, open, destroy>>

\* signal_end, of a winner and of the last worker to fail.
End(w) ==
    /\ worker[w] \in {"end", "endFailed"}
    /\ race' = TRUE
    /\ lock' = IF worker[w] = "end" THEN 0 ELSE lock
    /\ Goto(w, "gone")
    /\ UNCHANGED <<addresses, callerVars, completed, err, error, socket, open, destroy>>

\* Mutant: the mutex is kept when others are active.
ScanKeepsLock(w) ==
    /\ worker[w] = "scan"
    /\ lock' = IF Starting \/ Active THEN lock ELSE 0
    /\ Goto(w, IF Starting \/ Active THEN "gone" ELSE "last")
    /\ UNCHANGED <<addresses, callerVars, completed, err, contextVars, open, destroy>>

\* Is this the last worker?
Scan(w) ==
    /\ worker[w] = "scan"
    /\ lock' = 0
    /\ Goto(w, IF Starting \/ Active THEN "gone" ELSE "last")
    /\ UNCHANGED <<addresses, callerVars, completed, err, contextVars, open, destroy>>

\* The last one ends the race with the common error.
LastFailed(w) ==
    /\ worker[w] = "last"
    /\ IF error # 0 \/ Starting \/ race
       THEN Goto(w, "gone") /\ UNCHANGED error
       ELSE Goto(w, "endFailed") /\ error' = CommonError
    /\ UNCHANGED <<addresses, callerVars, completed, err, lock, race, socket, open, destroy>>

Worker(w) ==
    \/ Exit(w) \/ Connect(w) \/ Connected(w) \/ ConnectFails(w) \/ Complete(w)
    \/ CheckWinner(w) \/ Claim(w) \/ End(w) \/ Scan(w) \/ LastFailed(w)

-----------------------------------------------------------------------------
\* happy_eyeballs_destroy and destroy_thread: shutdown and joins, then the sockets are closed.

Destroy ==
    /\ destroy = "no" /\ main \in {"connected", "failed"}
    /\ destroy' = "join"
    /\ UNCHANGED <<addresses, callerVars, candidateVars, contextVars, open>>

Joined == destroy = "join" /\ \A c \in Candidates : worker[c] = "gone"

CloseSockets ==
    /\ Joined
    /\ open' = open \ (Candidates \ {socket})
    /\ destroy' = "done"
    /\ UNCHANGED <<addresses, callerVars, candidateVars, contextVars>>

-----------------------------------------------------------------------------
Init ==
    /\ \E n \in Attempts : \E list \in [1 .. n -> {IPv4, IPv6}] :
          addresses = Alternated(list) /\ addresses \in [1 .. n -> {IPv4, IPv6}]
    /\ main = "dispatch" /\ launched = 0 /\ starting = TRUE /\ used = 0
    /\ worker = [a \in Attempts |-> "none"] /\ completed = [a \in Attempts |-> FALSE]
    /\ err = [a \in Attempts |-> 0] /\ lock = 0
    /\ race = FALSE /\ error = 0 /\ socket = 0
    /\ open = {} /\ destroy = "no"

Next == Main \/ (\E w \in Attempts : Worker(w)) \/ Destroy \/ CloseSockets

\* Threads run on, and connect returns some day.
Fairness ==
    /\ WF_vars(Main) /\ WF_vars(Destroy \/ CloseSockets)
    /\ \A w \in Attempts : WF_vars(Worker(w))

Spec == Init /\ [][Next]_vars /\ Fairness

-----------------------------------------------------------------------------
\* Every variable in its domain; the mutex is held by the worker that is between its locks.
TypeOK ==
    /\ addresses \in UNION {[1 .. n -> {IPv4, IPv6}] : n \in Attempts}
    /\ main \in {"dispatch", "delay", "dispatched", "try", "count", "coalesce", "signal",
                 "return", "wait", "connected", "failed"}
    /\ launched \in 0 .. Len(addresses)
    /\ starting \in BOOLEAN /\ race \in BOOLEAN
    /\ worker \in [Attempts -> {"none", "start", "connecting", "won", "lost", "check", "claim",
                                "end", "endFailed", "scan", "last", "gone"}]
    /\ \A w \in Attempts : worker[w] = "none" <=> w > launched
    /\ \A w \in Attempts : lock = w <=> worker[w] \in {"check", "claim", "end", "scan"}
    /\ completed \in [Attempts -> BOOLEAN] /\ err \in [Attempts -> Errors \cup {0}]
    /\ lock \in Attempts \cup {0} /\ error \in Errors \cup {0, LaunchError}
    /\ socket \in Candidates \cup {0} /\ used \in Candidates \cup {0}
    /\ open \subseteq Attempts /\ destroy \in {"no", "join", "done"}

\* happy-eyeballs.h of happy_eyeballs_try and happy_eyeballs_timedwait: "0 on successful
\* completion. You may use context.socket_fd."
SuccessHasSocket == main = "connected" => used # 0

\* The socket the caller goes on with is the race's for good: no later connection replaces it,
\* and destroy_thread, which closes all sockets but socket_fd, never closes it.
UsedStaysOpen == used # 0 => socket = used /\ used \in open

\* When all workers are gone the race is over: whoever of the dispatching loop and the last
\* worker to fail comes later sees that, or RTMP_Connect would wait its 25 seconds for nobody.
NobodyLeft == (main = "wait" /\ \A c \in Candidates : worker[c] = "gone") => race

\* A race that ends without a socket has tried both families, and all candidates are done.
FailureUnanimous ==
    (race /\ socket = 0) =>
        /\ ~Active
        /\ \A i \in 1 .. Len(addresses) : \E c \in Candidates : addresses[c] = addresses[i]

\* The error reported for a race is one that no other candidate error outnumbers.
ErrorCommon == (main = "failed" /\ error \in Errors) => IsMode(error)

\* A race always ends, as a failure only when it has to, and with an error that is common.
RaceDecided == NobodyLeft /\ FailureUnanimous /\ ErrorCommon

\* happy_eyeballs_try and happy_eyeballs_timedwait succeed only when some candidate has connected: it
\* is the one whose socket is used, or, in the race that ends without a socket, one that comes late.
SuccessConnected ==
    main = "connected" =>
        \E c \in Candidates : completed[c] /\ err[c] = 0 /\ (used # 0 => c = used)

\* destroy_thread leaves nothing open but the socket of the race, and one that never had a thread.
LosersClosed == destroy = "done" => open \subseteq {socket, launched + 1}

\* What destroy_thread waits for comes, and everything else is closed then.
EndsClosed ==
    /\ main \in {"connected", "failed"} ~> destroy = "done"
    /\ []LosersClosed

=============================================================================
