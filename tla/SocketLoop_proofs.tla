------------------------- MODULE SocketLoop_proofs -------------------------
(***************************************************************************)
(* Theorems about the socket loop: the write buffer is never written past  *)
(* its end, the two threads implement a pipe, and no wake-up is lost.      *)
(***************************************************************************)
EXTENDS SocketLoop, SequenceTheorems, TLAPS

Blocks == Nat \X Nat

\* What flows is sequences of blocks.
Streams ==
    /\ buffer \in Seq(Blocks) /\ kernel \in Seq(Blocks) /\ received \in Seq(Blocks)
    /\ written \in Nat /\ len \in 0 .. MaxWrite /\ connection \in Nat
    /\ stale \in BOOLEAN /\ broken \in BOOLEAN

\* What the sender has seen of the buffer under the mutex still holds when it copies.
RoomToCopy == sender = "copy" => Fits /\ len > 0
Writing == sender \in {"connected?", "lock", "wait", "copy"} => len > 0

\* The loop gives up only what is broken, and ends before the sender has ended.
FatalBroken ==
    /\ "close" \in flags => broken
    /\ loop \in {"fatal", "clear", "fatalSignal"} => broken
EndInOrder == sender = "over" => loop = "over"

PipeInv == Streams /\ RoomToCopy /\ Writing /\ FatalBroken /\ EndInOrder

\* The buffer never holds more than it has room for (socket_queue_data).
NeverOverrun == Len(buffer) <= Size

-----------------------------------------------------------------------------
\* It holds at the start: nothing is anywhere yet.
LEMMA InitPipe == Init => PipeInv /\ NeverOverrun
<1> SUFFICES ASSUME Init PROVE PipeInv /\ NeverOverrun
  OBVIOUS
<1>1. <<>> \in Seq(Blocks) /\ Len(<<>>) = 0
  OBVIOUS
<1>2. buffer = <<>> /\ kernel = <<>> /\ received = <<>>
  BY DEF Init
<1>3. buffer \in Seq(Blocks) /\ kernel \in Seq(Blocks) /\ received \in Seq(Blocks)
  BY <1>1, <1>2
<1>4. written \in Nat /\ len \in 0 .. MaxWrite /\ connection \in Nat
  BY ConstantsAssumption DEF Init
<1>5. stale \in BOOLEAN /\ broken \in BOOLEAN
  BY DEF Init
<1>6. NeverOverrun
  BY <1>1, <1>2, ConstantsAssumption DEF NeverOverrun
<1>7. QED
  BY <1>3, <1>4, <1>5, <1>6
     DEF Init, PipeInv, Streams, RoomToCopy, Writing, FatalBroken, EndInOrder

\* The thread that writes keeps the invariant: it puts whole blocks behind the others, and leaves
\* room and flags as they are.
LEMMA SenderPipe ==
    ASSUME PipeInv, Sender
    PROVE  PipeInv'
<1> USE ConstantsAssumption
<1>1. CASE Write
  <2>1. len' \in 1 .. MaxWrite
    BY <1>1 DEF Write
  <2>2. QED
    BY <1>1, <2>1 DEF Write, PipeInv, Streams, RoomToCopy, Writing, FatalBroken, EndInOrder,
       eventVars, loopVars, netVars, sessionVars
<1>2. CASE CheckConnected
  BY <1>2 DEF CheckConnected, PipeInv, Streams, RoomToCopy, Writing, FatalBroken, EndInOrder,
     eventVars, loopVars, netVars, sessionVars
<1>3. CASE CheckSpace
  BY <1>3 DEF CheckSpace, Fits, PipeInv, Streams, RoomToCopy, Writing, FatalBroken, EndInOrder,
     eventVars, loopVars, netVars, sessionVars
<1>4. CASE WaitForSpace
  BY <1>4 DEF WaitForSpace, PipeInv, Streams, RoomToCopy, Writing, FatalBroken, EndInOrder,
     loopVars, netVars, sessionVars
<1>5. CASE Copy
  <2> DEFINE block == [k \in 1 .. len |-> <<connection, written + k>>]
  <2>1. block \in Seq(Blocks)
    <3>1. len \in Nat
      BY DEF PipeInv, Streams
    <3>2. \A k \in 1 .. len : <<connection, written + k>> \in Blocks
      BY DEF PipeInv, Streams, Blocks
    <3>3. block \in [1 .. len -> Blocks]
      BY <3>2
    <3>4. QED
      BY <3>1, <3>3, SeqDef
  <2>2. buffer' \in Seq(Blocks)
    BY <1>5, <2>1, ConcatProperties DEF Copy, PipeInv, Streams
  <2>3. written' \in Nat
    BY <1>5 DEF Copy, PipeInv, Streams
  <2>4. QED
    BY <1>5, <2>2, <2>3 DEF Copy, PipeInv, Streams, RoomToCopy, Writing, FatalBroken, EndInOrder,
       eventVars, loopVars, netVars, sessionVars
<1>6. CASE SignalData
  BY <1>6 DEF SignalData, PipeInv, Streams, RoomToCopy, Writing, FatalBroken, EndInOrder,
     loopVars, netVars, sessionVars
<1>7. CASE SignalExit
  BY <1>7 DEF SignalExit, PipeInv, Streams, RoomToCopy, Writing, FatalBroken, EndInOrder,
     loopVars, netVars, sessionVars
<1>8. CASE WakeLoop
  BY <1>8 DEF WakeLoop, PipeInv, Streams, RoomToCopy, Writing, FatalBroken, EndInOrder,
     loopVars, netVars, sessionVars
<1>9. CASE Join
  BY <1>9 DEF Join, PipeInv, Streams, RoomToCopy, Writing, FatalBroken, EndInOrder,
     eventVars, loopVars, netVars, sessionVars
<1>10. QED
  BY <1>1, <1>2, <1>3, <1>4, <1>5, <1>6, <1>7, <1>8, <1>9 DEF Sender

\* A part taken from the front of the buffer goes to the end of what is under way.
LEMMA TakenParts ==
    ASSUME PipeInv, NEW n \in Taken
    PROVE  /\ n \in 1 .. Len(buffer)
           /\ SubSeq(buffer, 1, n) \in Seq(Blocks)
           /\ SubSeq(buffer, n + 1, Len(buffer)) \in Seq(Blocks)
           /\ Len(SubSeq(buffer, n + 1, Len(buffer))) = Len(buffer) - n
<1>1. buffer \in Seq(Blocks) /\ Len(buffer) \in Nat /\ n \in 1 .. Len(buffer)
  BY LenProperties DEF Taken, PipeInv, Streams
<1>2. \A i \in 1 .. Len(buffer) : buffer[i] \in Blocks
  BY <1>1, ElementOfSeq
<1>3. SubSeq(buffer, 1, n) \in Seq(Blocks)
  BY <1>1, <1>2, SubSeqProperties
<1>4. /\ SubSeq(buffer, n + 1, Len(buffer)) \in Seq(Blocks)
      /\ Len(SubSeq(buffer, n + 1, Len(buffer))) =
            IF n + 1 <= Len(buffer) THEN Len(buffer) - (n + 1) + 1 ELSE 0
  <2>1. n + 1 \in Int /\ Len(buffer) \in Int /\ \A i \in n + 1 .. Len(buffer) : buffer[i] \in Blocks
    BY <1>1, <1>2
  <2>2. QED
    BY <2>1, SubSeqProperties
<1>5. QED
  BY <1>1, <1>3, <1>4

\* So does the socket thread, which cannot take from the buffer while the other copies.
LEMMA LoopPipe ==
    ASSUME PipeInv, Loop
    PROVE  PipeInv'
<1>1. CASE LoopStart
  BY <1>1 DEF LoopStart, LoopGoes, PipeInv, Streams, RoomToCopy, Writing, Fits, FatalBroken,
     EndInOrder, senderVars, sessionVars
<1>2. CASE LoopTop
  BY <1>2 DEF LoopTop, LoopGoes, PipeInv, Streams, RoomToCopy, Writing, Fits, FatalBroken,
     EndInOrder, senderVars, sessionVars, netVars
<1>3. CASE WaitData
  BY <1>3 DEF WaitData, LoopGoes, ToWrite, PipeInv, Streams, RoomToCopy, Writing, Fits,
     FatalBroken, EndInOrder, senderVars, sessionVars, netVars
<1>4. CASE WaitSocket
  BY <1>4 DEF WaitSocket, LoopGoes, PipeInv, Streams, RoomToCopy, Writing, Fits, FatalBroken,
     EndInOrder, senderVars, sessionVars, netVars
<1>5. CASE SocketEvent
  BY <1>5 DEF SocketEvent, LoopGoes, ToWrite, PipeInv, Streams, RoomToCopy, Writing, Fits,
     FatalBroken, EndInOrder, senderVars, sessionVars, eventVars
<1>6. CASE WriteNothing
  BY <1>6 DEF WriteNothing, LoopGoes, PipeInv, Streams, RoomToCopy, Writing, Fits, FatalBroken,
     EndInOrder, senderVars, sessionVars, eventVars, netVars
<1>7. CASE WriteData
  <2>1. PICK n \in Taken : /\ kernel' = kernel \o SubSeq(buffer, 1, n)
                           /\ buffer' = SubSeq(buffer, n + 1, Len(buffer))
    BY <1>7 DEF WriteData
  <2>2. buffer' \in Seq(Blocks)
    BY <2>1, TakenParts
  <2>3. kernel' \in Seq(Blocks)
    BY <2>1, TakenParts, ConcatProperties DEF PipeInv, Streams
  <2>4. sender # "copy"
    BY <1>7 DEF WriteData, Unlocked
  <2>5. QED
    BY <1>7, <2>2, <2>3, <2>4 DEF WriteData, LoopGoes, PipeInv, Streams, RoomToCopy, Writing,
       FatalBroken, EndInOrder, senderVars, sessionVars
<1>8. CASE WriteBlocked
  BY <1>8 DEF WriteBlocked, LoopGoes, PipeInv, Streams, RoomToCopy, Writing, Fits, FatalBroken,
     EndInOrder, senderVars, sessionVars, eventVars
<1>9. CASE WriteFails
  BY <1>9 DEF WriteFails, LoopGoes, PipeInv, Streams, RoomToCopy, Writing, Fits, FatalBroken,
     EndInOrder, senderVars, sessionVars, eventVars, netVars
<1>10. CASE FatalClose
  BY <1>10 DEF FatalClose, LoopGoes, PipeInv, Streams, RoomToCopy, Writing, Fits, FatalBroken,
     EndInOrder, senderVars, sessionVars, eventVars, netVars
<1>11. CASE FatalClear
  <2>1. buffer' = <<>> \/ buffer' = buffer
    BY <1>11 DEF FatalClear
  <2>2. buffer' \in Seq(Blocks) /\ Len(buffer') \in Nat /\ Len(buffer') <= Len(buffer)
    <3>1. buffer \in Seq(Blocks) /\ Len(buffer) \in Nat /\ Len(buffer) <= Len(buffer)
      BY LenProperties DEF PipeInv, Streams
    <3>2. <<>> \in Seq(Blocks) /\ Len(<<>>) = 0
      OBVIOUS
    <3>3. CASE buffer' = <<>>
      BY <3>1, <3>2, <3>3
    <3>4. CASE buffer' = buffer
      BY <3>1, <3>4
    <3>5. QED
      BY <2>1, <3>3, <3>4
  <2>3. sender = "copy" => Len(buffer') + len <= Size
    BY <2>2, LenProperties, ConstantsAssumption DEF PipeInv, Streams, RoomToCopy, Fits
  <2>4. QED
    BY <1>11, <2>2, <2>3 DEF FatalClear, LoopGoes, PipeInv, Streams, RoomToCopy, Writing, Fits,
       FatalBroken, EndInOrder, senderVars, sessionVars, eventVars, netVars
<1>12. CASE FatalSignal
  BY <1>12 DEF FatalSignal, LoopGoes, PipeInv, Streams, RoomToCopy, Writing, Fits, FatalBroken,
     EndInOrder, senderVars, sessionVars, netVars
<1>13. QED
  BY <1>1, <1>2, <1>3, <1>4, <1>5, <1>6, <1>7, <1>8, <1>9, <1>10, <1>11, <1>12 DEF Loop

\* What the server receives leaves the sequence of all that was sent as it is.
LEMMA DeliverPipe ==
    ASSUME PipeInv, Deliver
    PROVE  PipeInv' /\ received' \o kernel' = received \o kernel
<1>1. /\ kernel \in Seq(Blocks) /\ kernel # <<>> /\ received \in Seq(Blocks)
      /\ Head(kernel) \in Blocks /\ Tail(kernel) \in Seq(Blocks)
  BY HeadTailProperties DEF Deliver, PipeInv, Streams
<1>2. received' = received \o <<Head(kernel)>> /\ <<Head(kernel)>> \in Seq(Blocks)
  BY <1>1 DEF Deliver
<1>3. kernel' = Tail(kernel) /\ kernel' \in Seq(Blocks) /\ received' \in Seq(Blocks)
  BY <1>1, <1>2, ConcatProperties DEF Deliver
<1>4. kernel = <<Head(kernel)>> \o Tail(kernel)
  BY <1>1
<1>5. received' \o kernel' = received \o (<<Head(kernel)>> \o Tail(kernel))
  BY <1>1, <1>2, <1>3, ConcatAssociative
<1>6. PipeInv'
  BY <1>3 DEF Deliver, PipeInv, Streams, RoomToCopy, Writing, Fits, FatalBroken, EndInOrder,
     senderVars, loopVars, sessionVars
<1>7. QED
  BY <1>4, <1>5, <1>6

\* Every step keeps the invariant.
LEMMA NextPipe ==
    ASSUME PipeInv, [Next]_vars
    PROVE  PipeInv'
<1>1. CASE Answer
  BY <1>1 DEF Answer, PipeInv, Streams, RoomToCopy, Writing, Fits, FatalBroken, EndInOrder,
     senderVars, loopVars, sessionVars
<1>2. CASE BreakConnection
  BY <1>2 DEF BreakConnection, PipeInv, Streams, RoomToCopy, Writing, Fits, FatalBroken,
     EndInOrder, senderVars, loopVars, sessionVars
<1>3. CASE Start
  <2>1. buffer' \in Seq(Blocks) /\ kernel' \in Seq(Blocks) /\ received' \in Seq(Blocks)
    BY <1>3 DEF Start, PipeInv, Streams
  <2>2. written' \in Nat /\ len' \in 0 .. MaxWrite /\ connection' \in Nat
    BY <1>3, ConstantsAssumption DEF Start, PipeInv, Streams
  <2>3. stale' \in BOOLEAN /\ broken' \in BOOLEAN
    BY <1>3, ZenonT(30) DEF Start, PipeInv, Streams
  <2>4. QED
    BY <1>3, <2>1, <2>2, <2>3
       DEF Start, PipeInv, Streams, RoomToCopy, Writing, FatalBroken, EndInOrder
<1>4. CASE UNCHANGED vars
  BY <1>4 DEF vars, PipeInv, Streams, RoomToCopy, Writing, Fits, FatalBroken, EndInOrder,
     eventVars, senderVars, loopVars, netVars, sessionVars
<1>5. QED
  BY <1>1, <1>2, <1>3, <1>4, SenderPipe, LoopPipe, DeliverPipe DEF Next

-----------------------------------------------------------------------------
\* Only the copy makes the buffer longer, and it has looked for room under the same mutex.
LEMMA NextFits ==
    ASSUME PipeInv, NeverOverrun, [Next]_vars
    PROVE  NeverOverrun'
<1>1. buffer \in Seq(Blocks) /\ Len(buffer) \in Nat
  BY LenProperties DEF PipeInv, Streams
<1>2. CASE Copy
  <2> DEFINE block == [k \in 1 .. len |-> <<connection, written + k>>]
  <2>1. len \in Nat /\ Len(buffer) + len <= Size
    BY <1>2 DEF Copy, PipeInv, Streams, RoomToCopy, Fits
  <2>2. block \in Seq(Blocks) /\ Len(block) = len
    <3>1. \A k \in 1 .. len : <<connection, written + k>> \in Blocks
      BY DEF PipeInv, Streams, Blocks
    <3>2. block \in [1 .. len -> Blocks]
      BY <3>1
    <3>3. block \in Seq(Blocks)
      BY <2>1, <3>2, SeqDef
    <3>4. QED
      BY <2>1, <3>3, LenProperties
  <2>3. Len(buffer') = Len(buffer) + len
    <3>1. buffer' = buffer \o block
      BY <1>2 DEF Copy
    <3>2. QED
      BY <1>1, <2>2, <3>1, ConcatProperties
  <2>4. QED
    BY <2>1, <2>3 DEF NeverOverrun
<1>3. CASE WriteData
  <2>1. PICK n \in Taken : buffer' = SubSeq(buffer, n + 1, Len(buffer))
    BY <1>3 DEF WriteData
  <2>2. n \in 1 .. Len(buffer) /\ Len(buffer') = Len(buffer) - n
    BY <2>1, TakenParts
  <2>3. QED
    BY <1>1, <2>2, ConstantsAssumption DEF NeverOverrun
<1>4. CASE FatalClear
  <2>1. buffer' = <<>> \/ buffer' = buffer
    BY <1>4 DEF FatalClear
  <2>2. Len(<<>>) = 0
    OBVIOUS
  <2>3. CASE buffer' = <<>>
    BY <2>2, <2>3, ConstantsAssumption DEF NeverOverrun
  <2>4. CASE buffer' = buffer
    BY <2>4 DEF NeverOverrun
  <2>5. QED
    BY <2>1, <2>3, <2>4
<1>5. CASE ~Copy /\ ~WriteData /\ ~FatalClear
  <2>1. buffer' = buffer
    BY <1>5 DEF Next, Sender, Write, CheckConnected, CheckSpace, WaitForSpace, SignalData,
       SignalExit, WakeLoop, Join, Loop, LoopStart, LoopTop, WaitData, WaitSocket, SocketEvent,
       WriteNothing, WriteBlocked, WriteFails, FatalClose, FatalSignal, Deliver, Answer,
       BreakConnection, Start, vars
  <2>2. QED
    BY <2>1 DEF NeverOverrun
<1>6. QED
  BY <1>2, <1>3, <1>4, <1>5

-----------------------------------------------------------------------------
\* Every switch is on or off, and both threads are somewhere.
Switches ==
    /\ valid \in BOOLEAN /\ space \in BOOLEAN /\ hasData \in BOOLEAN /\ socketEvent \in BOOLEAN
    /\ exit \in BOOLEAN /\ canWrite \in BOOLEAN /\ blocked \in BOOLEAN /\ broken \in BOOLEAN
    /\ stale \in BOOLEAN /\ lowLatency \in BOOLEAN
Places ==
    /\ sender \in {"idle", "connected?", "lock", "wait", "copy", "signal", "ending", "exiting",
                   "join", "over"}
    /\ loop \in {"start", "top", "wait", "event", "write", "fatal", "clear", "fatalSignal", "over"}
    /\ flags \subseteq {"read", "write", "close"}

\* A write that has begun does not go beyond the last block.
Counts ==
    /\ len \in 0 .. MaxWrite /\ written \in 0 .. MaxBlocks /\ connection \in 0 .. MaxConnections
    /\ sender \in {"connected?", "lock", "wait", "copy"} => written + len <= MaxBlocks

\* The socket takes no more than it has room for.
KernelFits == Len(kernel) <= Kernel

\* No step turns a switch into anything else.
LEMMA NextSwitches ==
    ASSUME Switches, [Next]_vars
    PROVE  Switches'
<1>1. CASE Sender
  <2>1. UNCHANGED <<loopVars, netVars, sessionVars, socketEvent>>
    BY <1>1 DEF Sender, Write, CheckConnected, CheckSpace, WaitForSpace, Copy, SignalData,
       SignalExit, WakeLoop, Join, eventVars
  <2>2. valid' \in BOOLEAN /\ space' \in BOOLEAN /\ hasData' \in BOOLEAN /\ exit' \in BOOLEAN
    BY <1>1, Zenon DEF Sender, Write, CheckConnected, CheckSpace, WaitForSpace, Copy, SignalData,
       SignalExit, WakeLoop, Join, Switches, eventVars
  <2>3. QED
    BY <2>1, <2>2, Zenon DEF Switches, loopVars, netVars, sessionVars
<1>2. CASE Loop
  <2>1. canWrite' \in BOOLEAN
    BY <1>2, Zenon DEF Loop, LoopStart, LoopTop, WaitData, WaitSocket, SocketEvent, WriteNothing,
       WriteData, WriteBlocked, WriteFails, FatalClose, FatalClear, FatalSignal, Switches
  <2>2. QED
    BY <1>2, <2>1, Zenon DEF Loop, LoopStart, LoopTop, WaitData, WaitSocket, SocketEvent, WriteNothing,
       WriteData, WriteBlocked, WriteFails, FatalClose, FatalClear, FatalSignal, LoopGoes, Switches,
       eventVars, netVars, sessionVars
<1>3. CASE Deliver \/ Answer \/ BreakConnection
  BY <1>3, Zenon DEF Deliver, Answer, BreakConnection, Switches, loopVars, sessionVars
<1>4. CASE Start
  BY <1>4, Zenon DEF Start, Switches
<1>5. CASE UNCHANGED vars
  BY <1>5 DEF vars, Switches, eventVars, loopVars, netVars, sessionVars
<1>6. QED
  BY <1>1, <1>2, <1>3, <1>4, <1>5 DEF Next

\* Nor takes a thread anywhere else.
LEMMA NextPlaces ==
    ASSUME Places, [Next]_vars
    PROVE  Places'
<1>1. CASE Sender
  BY <1>1 DEF Sender, Write, CheckConnected, CheckSpace, WaitForSpace, Copy, SignalData,
     SignalExit, WakeLoop, Join, Places, loopVars, netVars
<1>2. CASE Loop
  BY <1>2 DEF Loop, LoopStart, LoopTop, WaitData, WaitSocket, SocketEvent, WriteNothing,
     WriteData, WriteBlocked, WriteFails, FatalClose, FatalClear, FatalSignal, LoopGoes, ToWrite,
     Places, netVars, senderVars
<1>3. CASE Deliver \/ Answer \/ BreakConnection
  BY <1>3 DEF Deliver, Answer, BreakConnection, Places, loopVars, senderVars
<1>4. CASE Start
  BY <1>4 DEF Start, Places
<1>5. CASE UNCHANGED vars
  BY <1>5 DEF vars, Places, senderVars, loopVars, netVars
<1>6. QED
  BY <1>1, <1>2, <1>3, <1>4, <1>5 DEF Next

\* A write begins within the bound, and counts when it is copied.
LEMMA NextCounts ==
    ASSUME Counts, [Next]_vars
    PROVE  Counts'
<1> USE ConstantsAssumption
<1>1. CASE Write
  <2>1. PICK n \in 1 .. MaxWrite : written + n <= MaxBlocks /\ len' = n
    BY <1>1 DEF Write
  <2>2. QED
    BY <1>1, <2>1 DEF Write, Counts, sessionVars
<1>2. CASE Sender /\ ~Write
  BY <1>2 DEF Sender, CheckConnected, CheckSpace, WaitForSpace, Copy, SignalData, SignalExit,
     WakeLoop, Join, Counts, sessionVars
<1>3. CASE Start
  BY <1>3 DEF Start, Counts
<1>4. CASE Loop
  BY <1>4 DEF Loop, LoopStart, LoopTop, WaitData, WaitSocket, SocketEvent, WriteNothing,
     WriteData, WriteBlocked, WriteFails, FatalClose, FatalClear, FatalSignal, LoopGoes, Counts,
     senderVars, sessionVars
<1>5. CASE Deliver \/ Answer \/ BreakConnection \/ UNCHANGED vars
  BY <1>5 DEF Deliver, Answer, BreakConnection, vars, Counts, senderVars, sessionVars
<1>6. QED
  BY <1>1, <1>2, <1>3, <1>4, <1>5 DEF Next

\* Only write_data fills the socket, and send() has told how much it took.
LEMMA NextKernel ==
    ASSUME PipeInv, KernelFits, [Next]_vars
    PROVE  KernelFits'
<1>1. kernel \in Seq(Blocks) /\ Len(kernel) \in Nat
  BY LenProperties DEF PipeInv, Streams
<1>2. CASE WriteData
  <2>1. PICK n \in Taken : kernel' = kernel \o SubSeq(buffer, 1, n)
    BY <1>2 DEF WriteData
  <2>2. n \in 1 .. Len(buffer) /\ SubSeq(buffer, 1, n) \in Seq(Blocks)
    BY <2>1, TakenParts
  <2>3. buffer \in Seq(Blocks) /\ Len(buffer) \in Nat
    BY LenProperties DEF PipeInv, Streams
  <2>4. Len(SubSeq(buffer, 1, n)) = n
    BY <2>2, <2>3
  <2>5. Len(kernel') = Len(kernel) + n
    BY <1>1, <2>1, <2>2, <2>4, ConcatProperties
  <2>6. QED
    BY <1>1, <2>1, <2>3, <2>5, ConstantsAssumption DEF Taken, KernelFits
<1>3. CASE Deliver
  <2>1. Len(kernel') = Len(kernel) - 1
    BY <1>1, <1>3, HeadTailProperties DEF Deliver
  <2>2. QED
    BY <1>1, <2>1, ConstantsAssumption DEF KernelFits
<1>4. CASE Start
  <2>1. kernel' = <<>> /\ Len(<<>>) = 0
    BY <1>4 DEF Start
  <2>2. QED
    BY <2>1, ConstantsAssumption DEF KernelFits
<1>5. CASE ~WriteData /\ ~Deliver /\ ~Start
  <2>1. kernel' = kernel
    BY <1>5 DEF Next, Sender, Write, CheckConnected, CheckSpace, WaitForSpace, Copy, SignalData,
       SignalExit, WakeLoop, Join, Loop, LoopStart, LoopTop, WaitData, WaitSocket, SocketEvent,
       WriteNothing, WriteBlocked, WriteFails, FatalClose, FatalClear, FatalSignal, Answer,
       BreakConnection, vars, netVars
  <2>2. QED
    BY <2>1 DEF KernelFits
<1>6. QED
  BY <1>2, <1>3, <1>4, <1>5

-----------------------------------------------------------------------------
\* What the pipe sees: its state, what is inside, what has come out.
Ended == loop \in {"clear", "fatalSignal", "over"}
PipeState ==
    IF stale \/ loop \notin {"clear", "fatalSignal", "over"} THEN "open"
    ELSE IF broken THEN "broken" ELSE "closed"
PipeInside == IF stale \/ loop \in {"clear", "fatalSignal", "over"} THEN <<>> ELSE buffer
PipeOut == IF stale THEN <<>> ELSE received \o kernel
Stutters == PipeState' = PipeState /\ PipeInside' = PipeInside /\ PipeOut' = PipeOut

PipeStep == Pipe!Next \/ Stutters

\* Most steps of the two threads leave the data where it is, and do not end the loop.
LEMMA KeepsPipe ==
    ASSUME UNCHANGED <<buffer, kernel, received, broken, stale>>, Ended' = Ended
    PROVE  Stutters
  BY DEF Stutters, PipeState, PipeInside, PipeOut, Ended

\* After a connection has begun with old data, the refinement says nothing any more.
LEMMA StalePipe ==
    ASSUME stale, Next
    PROVE  Stutters
<1>1. stale'
  BY DEF Next, Sender, Write, CheckConnected, CheckSpace, WaitForSpace, Copy, SignalData,
     SignalExit, WakeLoop, Join, Loop, LoopStart, LoopTop, WaitData, WaitSocket, SocketEvent,
     WriteNothing, WriteData, WriteBlocked, WriteFails, FatalClose, FatalClear, FatalSignal,
     LoopGoes, Deliver, Answer, BreakConnection, Start, sessionVars
<1>2. QED
  BY <1>1 DEF Stutters, PipeState, PipeInside, PipeOut

\* Of the sender only the copy is a step of the pipe: it puts in.
LEMMA SenderSteps ==
    ASSUME PipeInv, ~stale, Sender
    PROVE  PipeStep
<1>1. CASE Copy
  <2> DEFINE block == [k \in 1 .. len |-> <<connection, written + k>>]
  <2>1. len \in Nat /\ len > 0 /\ buffer \in Seq(Blocks)
    BY <1>1 DEF Copy, PipeInv, Streams, RoomToCopy
  <2>2. block \in Seq(Blocks) /\ Len(block) = len
    <3>1. \A k \in 1 .. len : <<connection, written + k>> \in Blocks
      BY DEF PipeInv, Streams, Blocks
    <3>2. block \in [1 .. len -> Blocks]
      BY <3>1
    <3>3. block \in Seq(Blocks)
      BY <2>1, <3>2, SeqDef
    <3>4. QED
      BY <2>1, <3>3, LenProperties
  <2>3. buffer' = buffer \o block
    BY <1>1 DEF Copy
  <2>4. Len(buffer') > Len(buffer)
    BY <2>1, <2>2, <2>3, ConcatProperties, LenProperties
  <2>5. SubSeq(buffer', 1, Len(buffer)) = buffer
    <3>1. Len(buffer) \in 0 .. Len(buffer)
      BY <2>1, LenProperties
    <3>2. SubSeq(buffer \o block, 1, Len(buffer)) = SubSeq(buffer, 1, Len(buffer))
      BY <2>1, <2>2, <3>1, SubSeqOfConcat1
    <3>3. QED
      BY <2>1, <2>3, <3>2, SubSeqFull
  <2>6. UNCHANGED <<loop, broken, stale, kernel, received>>
    BY <1>1 DEF Copy, loopVars, netVars, sessionVars
  <2>7. CASE Ended
    BY <2>6, <2>7 DEF PipeStep, Stutters, PipeState, PipeInside, PipeOut, Ended
  <2>8. CASE ~Ended
    BY <2>4, <2>5, <2>6, <2>8 DEF PipeStep, Pipe!Next, Pipe!Put, Ended
  <2>9. QED
    BY <2>7, <2>8
<1>2. CASE ~Copy
  <2>1. UNCHANGED <<buffer, kernel, received, broken, stale, loop>>
    BY <1>2 DEF Sender, Write, CheckConnected, CheckSpace, WaitForSpace, SignalData, SignalExit,
       WakeLoop, Join, loopVars, netVars, sessionVars
  <2>2. QED
    BY <2>1, KeepsPipe DEF PipeStep, Ended
<1>3. QED
  BY <1>1, <1>2

\* The loop takes out, closes when it leaves with an empty buffer, and breaks when it gives up.
LEMMA LoopSteps ==
    ASSUME PipeInv, ~stale, Loop
    PROVE  PipeStep
<1>1. CASE LoopTop
  <2>1. /\ UNCHANGED <<buffer, kernel, received, broken, stale>>
        /\ loop = "top"
        /\ loop' = "wait" \/ (loop' = "over" /\ buffer = <<>>)
    BY <1>1 DEF LoopTop, LoopGoes, netVars, sessionVars
  <2>2. CASE loop' = "wait"
    BY <2>1, <2>2, KeepsPipe DEF PipeStep, Ended
  <2>3. CASE loop' = "over" /\ broken
    BY <2>1, <2>3 DEF PipeStep, Pipe!Next, Pipe!Break
  <2>4. CASE loop' = "over" /\ ~broken
    BY <2>1, <2>4 DEF PipeStep, Pipe!Next, Pipe!Close
  <2>5. QED
    BY <2>1, <2>2, <2>3, <2>4
<1>2. CASE WriteData
  <2>1. PICK n \in Taken : /\ kernel' = kernel \o SubSeq(buffer, 1, n)
                           /\ buffer' = SubSeq(buffer, n + 1, Len(buffer))
    BY <1>2 DEF WriteData
  <2>2. UNCHANGED <<received, broken, stale>> /\ loop = "write" /\ loop' \in {"top", "write"}
    BY <1>2 DEF WriteData, LoopGoes, sessionVars
  <2>3. n \in 1 .. Len(buffer) /\ SubSeq(buffer, 1, n) \in Seq(Blocks)
    BY <2>1, TakenParts
  <2>4. received' \o kernel' = (received \o kernel) \o SubSeq(buffer, 1, n)
    <3>1. received \in Seq(Blocks) /\ kernel \in Seq(Blocks)
      BY DEF PipeInv, Streams
    <3>2. (received \o kernel) \o SubSeq(buffer, 1, n) = received \o (kernel \o SubSeq(buffer, 1, n))
      BY <2>3, <3>1, ConcatAssociative
    <3>3. received' = received
      BY <2>2
    <3>4. QED
      BY <2>1, <3>2, <3>3
  <2>5. Pipe!Take
    BY <2>1, <2>2, <2>3, <2>4 DEF Pipe!Take
  <2>6. QED
    BY <2>5 DEF PipeStep, Pipe!Next
<1>3. CASE FatalClose
  <2>1. /\ UNCHANGED <<buffer, kernel, received, broken, stale>>
        /\ loop = "fatal" /\ loop' = "clear" /\ broken
    BY <1>3 DEF FatalClose, LoopGoes, netVars, sessionVars, PipeInv, FatalBroken
  <2>2. QED
    BY <2>1 DEF PipeStep, Pipe!Next, Pipe!Break
<1>4. CASE FatalClear
  <2>1. /\ UNCHANGED <<kernel, received, broken, stale>>
        /\ loop = "clear" /\ loop' = "fatalSignal"
    BY <1>4 DEF FatalClear, LoopGoes, netVars, sessionVars
  <2>2. QED
    BY <2>1 DEF PipeStep, Stutters, PipeState, PipeInside, PipeOut
<1>5. CASE FatalSignal
  <2>1. /\ UNCHANGED <<buffer, kernel, received, broken, stale>>
        /\ loop = "fatalSignal" /\ loop' = "over"
    BY <1>5 DEF FatalSignal, LoopGoes, netVars, sessionVars
  <2>2. QED
    BY <2>1, KeepsPipe DEF PipeStep, Ended
<1>6. CASE \/ LoopStart \/ WaitData \/ WaitSocket \/ SocketEvent
           \/ WriteNothing \/ WriteBlocked \/ WriteFails
  <2>1. /\ UNCHANGED <<buffer, kernel, received, broken, stale>>
        /\ loop \in {"start", "wait", "event", "write"}
        /\ loop' \in {"top", "event", "write", "fatal"}
    BY <1>6 DEF LoopStart, WaitData, WaitSocket, SocketEvent, WriteNothing, WriteBlocked,
       WriteFails, LoopGoes, ToWrite, netVars, sessionVars
  <2>2. QED
    BY <2>1, KeepsPipe DEF PipeStep, Ended
<1>7. QED
  BY <1>1, <1>2, <1>3, <1>4, <1>5, <1>6 DEF Loop

\* The network moves data on and reports; the pipe does not see it.
LEMMA NetSteps ==
    ASSUME PipeInv, ~stale, Deliver \/ Answer \/ BreakConnection
    PROVE  PipeStep
<1>1. CASE Deliver
  <2>1. received' \o kernel' = received \o kernel
    BY <1>1, DeliverPipe
  <2>2. UNCHANGED <<buffer, loop, broken, stale>>
    BY <1>1 DEF Deliver, loopVars, sessionVars
  <2>3. QED
    BY <2>1, <2>2 DEF PipeStep, Stutters, PipeState, PipeInside, PipeOut
<1>2. CASE Answer
  <2>1. UNCHANGED <<buffer, kernel, received, broken, stale, loop>>
    BY <1>2 DEF Answer, loopVars, sessionVars
  <2>2. QED
    BY <2>1, KeepsPipe DEF PipeStep, Ended
<1>3. CASE BreakConnection
  <2>1. UNCHANGED <<buffer, kernel, received, stale, loop>> /\ loop # "over" /\ ~broken
    BY <1>3 DEF BreakConnection, loopVars, sessionVars
  <2>2. loop \notin {"clear", "fatalSignal", "over"}
    BY <2>1 DEF PipeInv, FatalBroken
  <2>3. QED
    BY <2>1, <2>2 DEF PipeStep, Stutters, PipeState, PipeInside, PipeOut
<1>4. QED
  BY <1>1, <1>2, <1>3

\* A new connection opens the pipe, if nothing was left in the buffer.
LEMMA StartStep ==
    ASSUME PipeInv, ~stale, Start
    PROVE  PipeStep
<1>1. loop = "over" /\ loop' = "start" /\ kernel' = <<>> /\ received' = <<>> /\ buffer' = buffer
  BY DEF Start, PipeInv, EndInOrder
<1>2. stale' <=> buffer # <<>>
  BY DEF Start
<1>3. <<>> \o <<>> = <<>>
  OBVIOUS
<1>4. Pipe!Open
  BY <1>1, <1>2, <1>3 DEF Pipe!Open
<1>5. QED
  BY <1>4 DEF PipeStep, Pipe!Next

\* The inductive invariant of the loop holds.
THEOREM PipeSafe == Spec => []PipeInv
<1>1. Init => PipeInv
  BY InitPipe
<1>2. PipeInv /\ [Next]_vars => PipeInv'
  BY NextPipe
<1>3. QED
  BY <1>1, <1>2, PTL DEF Spec

\* socket_queue_data never writes past the end of write_buf, whatever the loop does between its
\* looks at the space that is left.
THEOREM NeverOverruns == Spec => []NeverOverrun
<1>1. Init => PipeInv /\ NeverOverrun
  BY InitPipe
<1>2. PipeInv /\ NeverOverrun /\ [Next]_vars => PipeInv' /\ NeverOverrun'
  BY NextPipe, NextFits
<1>3. QED
  BY <1>1, <1>2, PTL DEF Spec

\* Every variable of the two threads and of the socket stays in its domain, and neither the write
\* buffer nor the send buffer of the socket ever holds more than it can.
THEOREM TypeCorrect == Spec => []TypeOK
<1>1. Init => PipeInv /\ NeverOverrun /\ Switches /\ Places /\ Counts /\ KernelFits
  <2> SUFFICES ASSUME Init
      PROVE PipeInv /\ NeverOverrun /\ Switches /\ Places /\ Counts /\ KernelFits
    OBVIOUS
  <2>1. PipeInv /\ NeverOverrun
    BY InitPipe
  <2>2. kernel = <<>> /\ Len(<<>>) = 0
    BY DEF Init
  <2>3. Switches
    BY Zenon DEF Init, Switches
  <2>4. Places /\ Counts /\ KernelFits
    BY <2>2, ConstantsAssumption DEF Init, Places, Counts, KernelFits
  <2>5. QED
    BY <2>1, <2>3, <2>4
<1>2. /\ PipeInv /\ NeverOverrun /\ Switches /\ Places /\ Counts /\ KernelFits
      /\ [Next]_vars
      => (PipeInv /\ NeverOverrun /\ Switches /\ Places /\ Counts /\ KernelFits)'
  BY NextPipe, NextFits, NextSwitches, NextPlaces, NextCounts, NextKernel
<1>3. PipeInv /\ NeverOverrun /\ Switches /\ Places /\ Counts /\ KernelFits => TypeOK
  <2> SUFFICES ASSUME PipeInv, NeverOverrun, Switches, Places, Counts, KernelFits PROVE TypeOK
    OBVIOUS
  <2>1. Len(kernel) \in Nat
    BY LenProperties DEF PipeInv, Streams
  <2>2. Len(kernel) <= Kernel + Size
    BY <2>1, ConstantsAssumption DEF KernelFits
  <2>3. QED
    BY <2>2 DEF TypeOK, NeverOverrun, Switches, Places, Counts
<1>4. QED
  BY <1>1, <1>2, <1>3, PTL DEF Spec

(* Through partial and blocked sends, broken connections and any interleaving
   of the sender and socket_thread_windows, the write buffer is a pipe. *)
THEOREM BufferIsPipe == Spec => ImplementsPipe
<1>1. Init => Pipe!Init
  BY DEF Init, Pipe!Init
<1>2. PipeInv /\ [Next]_vars => [Pipe!Next]_(Pipe!vars)
  <2> SUFFICES ASSUME PipeInv, [Next]_vars PROVE [Pipe!Next]_(Pipe!vars)
    OBVIOUS
  <2>1. CASE UNCHANGED vars
    BY <2>1 DEF vars, loopVars, netVars, sessionVars, Pipe!vars
  <2>2. CASE Next
    <3>1. PipeStep
      BY <2>2, StalePipe, SenderSteps, LoopSteps, NetSteps, StartStep DEF Next, PipeStep
    <3>2. QED
      BY <3>1 DEF PipeStep, Stutters, PipeState, PipeInside, PipeOut, Pipe!vars
  <2>3. QED
    BY <2>1, <2>2
<1>3. QED
  BY <1>1, <1>2, PipeSafe, PTL DEF Spec, ImplementsPipe, Pipe!Spec

-----------------------------------------------------------------------------
(***************************************************************************)
(* No wake-up is lost.  Liveness is for TLC; what can be proved is that    *)
(* whoever waits has somebody left to wake him.                            *)
(***************************************************************************)

\* Windows tells the loop what it has to know of the socket: that it can be written to again,
\* that there is something to report, and that the connection is broken.
WritableKnown == ~canWrite /\ loop \notin {"start", "over"} => blocked \/ "write" \in flags
FlagsSignalled == flags # {} => socketEvent \/ loop = "event"
BreakKnown == broken => "close" \in flags \/ loop \in {"fatal", "clear", "fatalSignal", "over"}
BlockedFull == blocked => Len(kernel) > 0

\* A loop that could write rests with a short tail at most, or is being told of more.
DataSignalled ==
    loop \in {"top", "wait"} /\ canWrite /\ ~hasData => sender = "signal" \/ Len(buffer) <= Rest

\* Who waits for room without a signal has none, or is about to be signalled.
RoomSignalled == sender = "wait" /\ ~space => ~Fits \/ loop = "fatalSignal"

\* When the loop has ended, nobody waits for it to make room.
GoneSignalled ==
    /\ loop = "over" /\ sender \in {"lock", "wait"} => space
    /\ loop \in {"clear", "fatalSignal", "over"} => ~valid \/ sender \in {"exiting", "join", "over"}

\* The wish to exit is seen before the loop goes to sleep, or the sender signals it afterwards.
ExitKnown ==
    /\ exit => sender \in {"exiting", "join", "over"}
    /\ sender \in {"exiting", "join"} => exit \/ loop = "over"
    /\ exit /\ loop = "wait" /\ buffer = <<>> => sender = "exiting" \/ hasData

NetKnown == WritableKnown /\ FlagsSignalled /\ BreakKnown /\ BlockedFull

WakeInv == PipeInv /\ NetKnown /\ DataSignalled /\ RoomSignalled /\ GoneSignalled /\ ExitKnown

\* In the beginning nobody waits.
LEMMA InitWake == Init => WakeInv
<1> SUFFICES ASSUME Init PROVE WakeInv
  OBVIOUS
<1>1. PipeInv
  BY InitPipe
<1>2. NetKnown
  BY DEF Init, NetKnown, WritableKnown, FlagsSignalled, BreakKnown, BlockedFull
<1>3. DataSignalled /\ RoomSignalled /\ GoneSignalled /\ ExitKnown
  BY DEF Init, DataSignalled, RoomSignalled, GoneSignalled, ExitKnown
<1>4. QED
  BY <1>1, <1>2, <1>3 DEF WakeInv

\* The socket takes what it can, and refuses only when its send buffer is full.
LEMMA RefusedWhenFull ==
    ASSUME PipeInv, WriteBlocked
    PROVE  Len(kernel) > 0
<1>1. kernel \in Seq(Blocks) /\ Len(kernel) \in Nat /\ buffer \in Seq(Blocks) /\ Len(buffer) \in Nat
  BY LenProperties DEF PipeInv, Streams
<1>2. buffer # <<>> /\ Taken = {}
  BY DEF WriteBlocked
<1>3. Len(buffer) > 0
  BY <1>1, <1>2, EmptySeq
<1>4. 1 \notin Taken
  BY <1>2
<1>5. QED
  BY <1>1, <1>3, <1>4, ConstantsAssumption DEF Taken

\* What the kernel holds is only taken by the server.
LEMMA KernelGrows ==
    ASSUME PipeInv, WriteData
    PROVE  Len(kernel') > 0
<1>1. PICK n \in Taken : kernel' = kernel \o SubSeq(buffer, 1, n)
  BY DEF WriteData
<1>2. n \in 1 .. Len(buffer) /\ SubSeq(buffer, 1, n) \in Seq(Blocks)
  BY <1>1, TakenParts
<1>3. kernel \in Seq(Blocks) /\ Len(kernel) \in Nat /\ buffer \in Seq(Blocks) /\ Len(buffer) \in Nat
  BY LenProperties DEF PipeInv, Streams
<1>4. Len(SubSeq(buffer, 1, n)) = n
  BY <1>2, <1>3
<1>5. Len(kernel') = Len(kernel) + n
  BY <1>1, <1>2, <1>3, <1>4, ConcatProperties
<1>6. QED
  BY <1>2, <1>3, <1>5

\* What Windows reports is never forgotten: the loop learns of it, or the event stays signalled.
LEMMA NextNet ==
    ASSUME WakeInv, Next
    PROVE  NetKnown'
<1> USE DEF WakeInv, NetKnown
<1>1. CASE Sender
  <2>1. UNCHANGED <<loopVars, netVars, socketEvent>>
    BY <1>1 DEF Sender, Write, CheckConnected, CheckSpace, WaitForSpace, Copy, SignalData,
       SignalExit, WakeLoop, Join, eventVars
  <2>2. QED
    BY <2>1 DEF loopVars, netVars, WritableKnown, FlagsSignalled, BreakKnown, BlockedFull
<1>2. CASE LoopStart
  BY <1>2 DEF LoopStart, LoopGoes, WritableKnown, FlagsSignalled, BreakKnown, BlockedFull
<1>3. CASE LoopTop \/ WaitData \/ WaitSocket
  BY <1>3 DEF LoopTop, WaitData, WaitSocket, LoopGoes, ToWrite, netVars,
     WritableKnown, FlagsSignalled, BreakKnown, BlockedFull
<1>4. CASE SocketEvent
  BY <1>4 DEF SocketEvent, LoopGoes, ToWrite, WritableKnown, FlagsSignalled, BreakKnown, BlockedFull
<1>5. CASE WriteNothing \/ WriteFails \/ FatalClose \/ FatalClear \/ FatalSignal
  BY <1>5 DEF WriteNothing, WriteFails, FatalClose, FatalClear, FatalSignal, LoopGoes, netVars,
     eventVars, WritableKnown, FlagsSignalled, BreakKnown, BlockedFull
<1>6. CASE WriteData
  <2>1. Len(kernel') > 0
    BY <1>6, KernelGrows
  <2>2. QED
    BY <1>6, <2>1 DEF WriteData, LoopGoes, WritableKnown, FlagsSignalled, BreakKnown, BlockedFull
<1>7. CASE WriteBlocked
  <2>1. Len(kernel) > 0 /\ kernel' = kernel
    BY <1>7, RefusedWhenFull DEF WriteBlocked
  <2>2. QED
    BY <1>7, <2>1 DEF WriteBlocked, LoopGoes, eventVars, WritableKnown, FlagsSignalled, BreakKnown,
       BlockedFull
<1>8. CASE Deliver
  <2>1. ~blocked' \/ UNCHANGED <<flags, socketEvent, blocked>>
    BY <1>8 DEF Deliver
  <2>2. BlockedFull'
    BY <1>8 DEF Deliver, BlockedFull
  <2>3. WritableKnown' /\ FlagsSignalled' /\ BreakKnown'
    BY <1>8 DEF Deliver, loopVars, WritableKnown, FlagsSignalled, BreakKnown
  <2>4. QED
    BY <2>2, <2>3
<1>9. CASE Answer \/ BreakConnection
  BY <1>9 DEF Answer, BreakConnection, loopVars, WritableKnown, FlagsSignalled, BreakKnown,
     BlockedFull
<1>10. CASE Start
  BY <1>10 DEF Start, WritableKnown, FlagsSignalled, BreakKnown, BlockedFull
<1>11. QED
  BY <1>1, <1>2, <1>3, <1>4, <1>5, <1>6, <1>7, <1>8, <1>9, <1>10 DEF Next, Loop

\* The loop goes to sleep on a short tail, or with an event to come for what was added since.
LEMMA NextData ==
    ASSUME WakeInv, Next
    PROVE  DataSignalled'
<1> USE DEF WakeInv, DataSignalled
<1>1. CASE Sender
  BY <1>1 DEF Sender, Write, CheckConnected, CheckSpace, WaitForSpace, Copy, SignalData,
     SignalExit, WakeLoop, Join, eventVars, loopVars
<1>2. CASE LoopStart \/ LoopTop \/ WaitData \/ WaitSocket
  BY <1>2 DEF LoopStart, LoopTop, WaitData, WaitSocket, LoopGoes, ToWrite, senderVars, netVars
<1>3. CASE SocketEvent
  BY <1>3 DEF SocketEvent, LoopGoes, ToWrite, senderVars
<1>4. CASE WriteNothing
  <2>1. buffer' = <<>> /\ Len(<<>>) = 0
    BY <1>4 DEF WriteNothing
  <2>2. QED
    BY <2>1, ConstantsAssumption
<1>5. CASE WriteData
  BY <1>5 DEF WriteData, LoopGoes
<1>6. CASE WriteBlocked \/ WriteFails \/ FatalClose \/ FatalClear \/ FatalSignal
  BY <1>6 DEF WriteBlocked, WriteFails, FatalClose, FatalClear, FatalSignal, LoopGoes
<1>7. CASE Deliver \/ Answer \/ BreakConnection
  BY <1>7 DEF Deliver, Answer, BreakConnection, senderVars, loopVars
<1>8. CASE Start
  BY <1>8 DEF Start
<1>9. QED
  BY <1>1, <1>2, <1>3, <1>4, <1>5, <1>6, <1>7, <1>8 DEF Next, Loop

\* The loop signals whenever it makes room, and room is only looked for under the mutex.
LEMMA NextRoom ==
    ASSUME WakeInv, Next
    PROVE  RoomSignalled'
<1> USE DEF WakeInv, RoomSignalled
<1>1. CASE Sender
  BY <1>1 DEF Sender, Write, CheckConnected, CheckSpace, WaitForSpace, Copy, SignalData,
     SignalExit, WakeLoop, Join, Fits, eventVars, loopVars
<1>2. CASE LoopStart \/ LoopTop \/ WaitData \/ WaitSocket \/ SocketEvent
  BY <1>2 DEF LoopStart, LoopTop, WaitData, WaitSocket, SocketEvent, LoopGoes, ToWrite, Fits,
     senderVars, eventVars, netVars
<1>3. CASE WriteNothing \/ WriteBlocked \/ WriteFails
  BY <1>3 DEF WriteNothing, WriteBlocked, WriteFails, LoopGoes, Fits, senderVars, eventVars
<1>4. CASE WriteData \/ FatalSignal
  BY <1>4 DEF WriteData, FatalSignal
<1>5. CASE FatalClose
  BY <1>5 DEF FatalClose, LoopGoes, Fits, senderVars, eventVars
<1>6. CASE FatalClear
  BY <1>6 DEF FatalClear, LoopGoes
<1>7. CASE Deliver \/ Answer \/ BreakConnection
  BY <1>7 DEF Deliver, Answer, BreakConnection, Fits, senderVars, loopVars
<1>8. CASE Start
  BY <1>8 DEF Start
<1>9. QED
  BY <1>1, <1>2, <1>3, <1>4, <1>5, <1>6, <1>7, <1>8 DEF Next, Loop

\* A loop that gives up has closed the socket and signals, so that nobody waits for it again.
LEMMA NextGone ==
    ASSUME WakeInv, Next
    PROVE  GoneSignalled'
<1> USE DEF WakeInv, GoneSignalled
<1>1. CASE Sender
  BY <1>1 DEF Sender, Write, CheckConnected, CheckSpace, WaitForSpace, Copy, SignalData,
     SignalExit, WakeLoop, Join, eventVars, loopVars
<1>2. CASE LoopTop
  BY <1>2 DEF LoopTop, LoopGoes, senderVars, ExitKnown
<1>3. CASE LoopStart \/ WaitData \/ WaitSocket \/ SocketEvent
  BY <1>3 DEF LoopStart, WaitData, WaitSocket, SocketEvent, LoopGoes, ToWrite
<1>4. CASE WriteNothing \/ WriteData \/ WriteBlocked \/ WriteFails
  BY <1>4 DEF WriteNothing, WriteData, WriteBlocked, WriteFails, LoopGoes
<1>5. CASE FatalClose \/ FatalClear \/ FatalSignal
  BY <1>5 DEF FatalClose, FatalClear, FatalSignal, LoopGoes, senderVars
<1>6. CASE Deliver \/ Answer \/ BreakConnection
  BY <1>6 DEF Deliver, Answer, BreakConnection, senderVars, loopVars
<1>7. CASE Start
  BY <1>7 DEF Start
<1>8. QED
  BY <1>1, <1>2, <1>3, <1>4, <1>5, <1>6, <1>7 DEF Next, Loop

\* The loop that sleeps on an empty buffer has not seen the wish to exit, so that it is yet to be
\* woken.
LEMMA NextExit ==
    ASSUME WakeInv, Next
    PROVE  ExitKnown'
<1> USE DEF WakeInv, ExitKnown
<1>1. CASE Copy
  BY <1>1 DEF Copy, eventVars, loopVars
<1>2. CASE Sender /\ ~Copy
  BY <1>2 DEF Sender, Write, CheckConnected, CheckSpace, WaitForSpace, SignalData,
     SignalExit, WakeLoop, Join, eventVars, loopVars, PipeInv, EndInOrder
<1>3. CASE LoopTop
  BY <1>3 DEF LoopTop, LoopGoes, senderVars, netVars
<1>4. CASE LoopStart \/ WaitData \/ WaitSocket \/ SocketEvent
  BY <1>4 DEF LoopStart, WaitData, WaitSocket, SocketEvent, LoopGoes, ToWrite, senderVars,
     eventVars
<1>5. CASE WriteNothing \/ WriteData \/ WriteBlocked \/ WriteFails
  BY <1>5 DEF WriteNothing, WriteData, WriteBlocked, WriteFails, LoopGoes, senderVars, eventVars
<1>6. CASE FatalClose \/ FatalClear \/ FatalSignal
  BY <1>6 DEF FatalClose, FatalClear, FatalSignal, LoopGoes, senderVars, eventVars
<1>7. CASE Deliver \/ Answer \/ BreakConnection
  BY <1>7 DEF Deliver, Answer, BreakConnection, senderVars, loopVars
<1>8. CASE Start
  BY <1>8 DEF Start
<1>9. QED
  BY <1>1, <1>2, <1>3, <1>4, <1>5, <1>6, <1>7, <1>8 DEF Next, Loop

\* A step that changes nothing.
LEMMA StutterWake ==
    ASSUME WakeInv, UNCHANGED vars
    PROVE  WakeInv'
<1>1. PipeInv'
  BY NextPipe DEF WakeInv
<1>2. NetKnown'
  BY DEF vars, eventVars, loopVars, netVars, WakeInv, NetKnown, WritableKnown, FlagsSignalled,
     BreakKnown, BlockedFull
<1>3. DataSignalled' /\ RoomSignalled'
  BY DEF vars, eventVars, loopVars, senderVars, WakeInv, DataSignalled, RoomSignalled, Fits
<1>4. GoneSignalled' /\ ExitKnown'
  BY DEF vars, eventVars, loopVars, senderVars, WakeInv, GoneSignalled, ExitKnown
<1>5. QED
  BY <1>1, <1>2, <1>3, <1>4 DEF WakeInv

\* A sleeping loop has been told everything, so that it can be writing only if a send was refused.
LEMMA SleeperKnows ==
    ASSUME WakeInv, Asleep
    PROVE  canWrite \/ WritableToCome
<1>1. flags = {}
  BY DEF WakeInv, NetKnown, FlagsSignalled, Asleep
<1>2. ~broken
  BY <1>1 DEF WakeInv, NetKnown, BreakKnown, Asleep
<1>3. canWrite \/ blocked
  BY <1>1 DEF WakeInv, NetKnown, WritableKnown, Asleep
<1>4. blocked => kernel # <<>>
  <2>1. kernel = <<>> => Len(kernel) = 0
    OBVIOUS
  <2>2. QED
    BY <2>1 DEF WakeInv, NetKnown, BlockedFull
<1>5. QED
  BY <1>2, <1>3, <1>4 DEF WritableToCome

\* The invariant is what was promised: room for one more write is more than the tail the loop
\* rests on.
LEMMA WakeEnough == WakeInv => NoLostWakeUp
<1> SUFFICES ASSUME WakeInv PROVE NoLostWakeUp
  OBVIOUS
<1>1. buffer \in Seq(Blocks) /\ Len(buffer) \in Nat /\ len \in 0 .. MaxWrite
  BY LenProperties DEF WakeInv, PipeInv, Streams
<1>2. ASSUME sender = "wait", ~space PROVE loop # "over" /\ (Asleep => WritableToCome)
  <2>1. loop # "over"
    BY <1>2 DEF WakeInv, GoneSignalled
  <2>2. ASSUME Asleep, canWrite PROVE FALSE
    <3>1. ~Fits
      BY <1>2, <2>2 DEF WakeInv, RoomSignalled, Asleep
    <3>2. Len(buffer) <= Rest
      BY <1>2, <2>2 DEF WakeInv, DataSignalled, Asleep
    <3>3. QED
      BY <1>1, <3>1, <3>2, ConstantsAssumption DEF Fits
  <2>3. QED
    BY <2>1, <2>2, SleeperKnows
<1>3. ASSUME sender = "join", Asleep PROVE WritableToCome \/ ShortTail
  <2>1. CASE canWrite
    <3>1. Len(buffer) <= Rest
      BY <1>3, <2>1 DEF WakeInv, DataSignalled, Asleep
    <3>2. buffer # <<>>
      BY <1>3 DEF WakeInv, ExitKnown, Asleep
    <3>3. Len(buffer) \in 1 .. Rest
      BY <1>1, <3>1, <3>2, EmptySeq, ConstantsAssumption
    <3>4. QED
      BY <1>3, <2>1, <3>3 DEF ShortTail
  <2>2. QED
    BY <1>3, <2>1, SleeperKnows
<1>4. QED
  BY <1>2, <1>3 DEF NoLostWakeUp

(* Whatever the order in which sender, socket thread and Windows take their steps, a sender that
   waits for room or for the end of socket_thread_windows has somebody left to wake it: this is
   the safety part of WakeUpsArrive, and it needs that the buffer is longer than one write and the
   tail the loop rests on. *)
THEOREM WakeUpsPending == Spec => []NoLostWakeUp
<1>1. Init => WakeInv
  BY InitWake
<1>2. WakeInv /\ [Next]_vars => WakeInv'
  <2> SUFFICES ASSUME WakeInv, [Next]_vars PROVE WakeInv'
    OBVIOUS
  <2>1. CASE Next
    <3>1. PipeInv'
      BY <2>1, NextPipe DEF WakeInv
    <3>2. QED
      BY <2>1, <3>1, NextNet, NextData, NextRoom, NextGone, NextExit DEF WakeInv
  <2>2. QED
    BY <2>1, StutterWake
<1>3. QED
  BY <1>1, <1>2, WakeEnough, PTL DEF Spec

=============================================================================
