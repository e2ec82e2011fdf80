------------------------ MODULE RtmpSession_proofs ------------------------
(***************************************************************************)
(* Theorems about the conversation with the server: a stream that was      *)
(* announced is taken back, only silence leaves a socket open, and what    *)
(* the server hears is a conversation, whatever fails on the way.          *)
(***************************************************************************)
EXTENDS RtmpSession, SequenceTheorems, WellFoundedInduction, TLAPS

Fields == {"socket", "nStreams", "curStreamIdx", "id", "calls", "invokes", "playing", "bwChecks",
           "unacked", "flags", "app", "sent", "failedAt", "credit"}

IsSeq(q) == \E S : q \in Seq(S)
Says(q, kind) == \E i \in DOMAIN q : q[i].kind = kind
Waits(q, name) == \E i \in DOMAIN q : q[i].name = name

\* The shape of struct RTMP.
Shaped(s) ==
    /\ DOMAIN s = Fields
    /\ IsSeq(s.sent) /\ IsSeq(s.calls)
    /\ s.id \in Int /\ s.nStreams \in Nat /\ s.curStreamIdx \in Nat

\* The farewell of an orderly end, or nothing more after a failed send.
Told(s) ==
    IF s.failedAt = Never THEN Says(s.sent, "FCUnpublish") /\ Says(s.sent, "deleteStream")
    ELSE Len(s.sent) = s.failedAt

\* While a connection is open: a stream that is published has the number that RTMP_Close asks for;
\* and the connect is answered before anything else is asked.
OpenSane(s) ==
    /\ s.failedAt = Never
    /\ Says(s.sent, "publish") \/ s.curStreamIdx # 0 => s.id > 0 /\ s.nStreams > 0
    /\ Waits(s.calls, "createStream") => s.nStreams > 0
    /\ Waits(s.calls, "connect") => Len(s.calls) = 1 /\ s.curStreamIdx = 0

ClosedSane(s) == s.calls = <<>> /\ (Says(s.sent, "publish") => Told(s))

Sane(s) ==
    /\ Shaped(s)
    /\ \/ s.socket = "open" /\ OpenSane(s)
       \/ s.socket = "closed" /\ ClosedSane(s)

-----------------------------------------------------------------------------
\* Sequences

\* What a message that is added says.
LEMMA Appended ==
    ASSUME NEW q, NEW m, IsSeq(q)
    PROVE  /\ IsSeq(Append(q, m)) /\ Len(q) \in Nat /\ Len(Append(q, m)) = Len(q) + 1
           /\ \A k : Says(Append(q, m), k) <=> Says(q, k) \/ m.kind = k
           /\ \A n : Waits(Append(q, m), n) <=> Waits(q, n) \/ m.name = n
<1>1. PICK S : q \in Seq(S)
  BY DEF IsSeq
<1>2. q \in Seq(S \cup {m}) /\ m \in S \cup {m}
  BY <1>1, SeqMonotonic
<1>3. /\ Append(q, m) \in Seq(S \cup {m}) /\ Len(q) \in Nat /\ DOMAIN q = 1 .. Len(q)
      /\ Len(Append(q, m)) = Len(q) + 1 /\ DOMAIN Append(q, m) = 1 .. Len(q) + 1
      /\ \A i \in 1 .. Len(q) : Append(q, m)[i] = q[i]
      /\ Append(q, m)[Len(q) + 1] = m
  BY <1>2, AppendProperties, LenProperties
<1>4. \A k : Says(Append(q, m), k) <=> Says(q, k) \/ m.kind = k
  BY <1>3 DEF Says
<1>5. \A n : Waits(Append(q, m), n) <=> Waits(q, n) \/ m.name = n
  BY <1>3 DEF Waits
<1>6. QED
  BY <1>3, <1>4, <1>5 DEF IsSeq

\* There is a first among the calls that match.
LEMMA LeastIn ==
    ASSUME NEW I, I \subseteq Nat, I # {}
    PROVE  Least(I) \in I
<1>1. PICK x \in I : \A y \in I : ~ (<<y, x>> \in OpToRel(<, Nat))
  BY NatLessThanWellFounded, WFMin
<1>2. \A y \in I : x \in Nat /\ y \in Nat /\ ~ (y < x)
  BY <1>1 DEF OpToRel
<1>3. \A y \in I : x <= y
  BY <1>2
<1>4. QED
  BY <1>3 DEF Least

\* A call that is erased was there, and the others stay.
LEMMA ErasedAt ==
    ASSUME NEW q, IsSeq(q), NEW i \in DOMAIN q
    PROVE  LET r == SubSeq(q, 1, i - 1) \o SubSeq(q, i + 1, Len(q))
           IN  /\ IsSeq(r) /\ Len(q) \in Nat /\ Len(r) = Len(q) - 1
               /\ \A n : Waits(r, n) => Waits(q, n)
<1> DEFINE a == SubSeq(q, 1, i - 1)
           b == SubSeq(q, i + 1, Len(q))
<1>1. PICK S : q \in Seq(S)
  BY DEF IsSeq
<1>2. Len(q) \in Nat /\ DOMAIN q = 1 .. Len(q) /\ i \in 1 .. Len(q)
  BY <1>1, LenProperties
<1>3. \A j \in 1 .. Len(q) : q[j] \in S
  BY <1>1, ElementOfSeq
<1>4. a \in Seq(S) /\ Len(a) = i - 1 /\ \A j \in 1 .. i - 1 : a[j] = q[j]
  <2>1. 1 \in Int /\ i - 1 \in Int /\ \A j \in 1 .. i - 1 : q[j] \in S
    BY <1>2, <1>3
  <2>2. QED
    BY <1>2, <2>1, SubSeqProperties
<1>5. b \in Seq(S) /\ Len(b) = Len(q) - i /\ \A j \in 1 .. Len(q) - i : b[j] = q[i + j]
  <2>1. i + 1 \in Int /\ Len(q) \in Int /\ \A j \in i + 1 .. Len(q) : q[j] \in S
    BY <1>2, <1>3
  <2>2. QED
    BY <1>2, <2>1, SubSeqProperties
<1>6. /\ a \o b \in Seq(S) /\ Len(a \o b) = Len(q) - 1
      /\ \A j \in 1 .. Len(q) - 1 : (a \o b)[j] = IF j <= i - 1 THEN a[j] ELSE b[j - (i - 1)]
  <2>1. Len(a) + Len(b) = Len(q) - 1
    BY <1>2, <1>4, <1>5
  <2>2. /\ a \o b \in Seq(S) /\ Len(a \o b) = Len(a) + Len(b)
        /\ \A j \in 1 .. Len(a) + Len(b) : (a \o b)[j] = IF j <= Len(a) THEN a[j] ELSE b[j - Len(a)]
    BY <1>4, <1>5, ConcatProperties
  <2>3. QED
    BY <1>4, <2>1, <2>2
<1>7. DOMAIN (a \o b) = 1 .. Len(q) - 1
  BY <1>6, LenProperties
<1>8. ASSUME NEW n, Waits(a \o b, n)
      PROVE  Waits(q, n)
  <2>1. PICK j \in 1 .. Len(q) - 1 : (a \o b)[j].name = n
    BY <1>7, <1>8 DEF Waits
  <2>2. \E k \in 1 .. Len(q) : (a \o b)[j] = q[k]
    <3>1. CASE j <= i - 1
      BY <1>2, <1>4, <1>6, <3>1
    <3>2. CASE j > i - 1
      <4>1. j - (i - 1) \in 1 .. Len(q) - i /\ i + (j - (i - 1)) = j + 1 /\ j + 1 \in 1 .. Len(q)
        BY <1>2, <3>2
      <4>2. QED
        <5>1. (a \o b)[j] = b[j - (i - 1)]
          <6>1. ~ (j <= i - 1)
            BY <1>2, <3>2
          <6>2. QED
            BY <1>6, <6>1
        <5>2. b[j - (i - 1)] = q[j + 1]
          BY <1>5, <4>1
        <5>3. QED
          BY <4>1, <5>1, <5>2
    <3>3. QED
      <4>1. j <= i - 1 \/ j > i - 1
        BY <1>2
      <4>2. QED
        BY <3>1, <3>2, <4>1
  <2>3. QED
    BY <1>2, <2>1, <2>2 DEF Waits
<1>9. QED
  BY <1>2, <1>6, <1>8 DEF IsSeq

-----------------------------------------------------------------------------
\* Sending and closing

\* RTMP_Close leaves nothing of the connection but what was said on it.
LEMMA Forgotten ==
    ASSUME NEW s, Shaped(s)
    PROVE  /\ Shaped(Forget(s)) /\ Forget(s).socket = "closed" /\ Forget(s).calls = <<>>
           /\ Forget(s).sent = s.sent /\ Forget(s).failedAt = s.failedAt
           /\ Forget(s).curStreamIdx \in {0, s.curStreamIdx} /\ Forget(s).playing = FALSE
<1>1. IsSeq(<<>>)
  BY EmptySeq DEF IsSeq
<1>2. DOMAIN Forget(s) = Fields
  BY DEF Shaped, Forget
<1>3. Forget(s).socket = "closed" /\ Forget(s).calls = <<>> /\ Forget(s).sent = s.sent
  BY DEF Shaped, Forget, Fields
<1>4. Forget(s).failedAt = s.failedAt /\ Forget(s).playing = FALSE /\ Forget(s).id = -1
  BY DEF Shaped, Forget, Fields, NoId
<1>5. Forget(s).nStreams \in {0, s.nStreams} /\ Forget(s).curStreamIdx \in {0, s.curStreamIdx}
  BY DEF Shaped, Forget, Fields
<1>6. QED
  BY <1>1, <1>2, <1>3, <1>4, <1>5 DEF Shaped

\* A message is added to what was said if the connection is open.
LEMMA PutAdds ==
    ASSUME NEW s, NEW m, Shaped(s)
    PROVE  /\ Shaped(Put(s, m))
           /\ Put(s, m).sent = IF s.socket = "open" THEN Append(s.sent, m) ELSE s.sent
           /\ \A f \in Fields \ {"sent", "credit"} : Put(s, m)[f] = s[f]
<1>1. IsSeq(Append(s.sent, m))
  BY Appended DEF Shaped
<1>2. QED
  BY <1>1 DEF Shaped, Put, Fields

\* WriteN on an error: the connection is closed, and nothing more is said.
LEMMA Aborted ==
    ASSUME NEW s, Shaped(s)
    PROVE  /\ Shaped(Abort(s)) /\ Abort(s).socket = "closed" /\ Abort(s).calls = <<>>
           /\ Abort(s).sent = s.sent /\ Abort(s).failedAt = Len(s.sent)
           /\ Abort(s).curStreamIdx \in {0, s.curStreamIdx}
           /\ Sane(Abort(s))
<1> DEFINE a == [s EXCEPT !.socket = "shut", !.failedAt = Len(s.sent)]
           b == [a EXCEPT !.id = 0]
           c == Put(b, FCUnpublish)
           d == Put(c, DeleteStream(a.id))
<1>1. Shaped(a) /\ a.socket = "shut" /\ a.failedAt = Len(s.sent) /\ a.sent = s.sent
      /\ a.curStreamIdx = s.curStreamIdx
  BY DEF Shaped, Fields
<1>2. Shaped(b) /\ b.socket = "shut" /\ b.failedAt = Len(s.sent) /\ b.sent = s.sent
      /\ b.curStreamIdx = s.curStreamIdx
  BY <1>1 DEF Shaped, Fields
<1>3. Shaped(d) /\ d.failedAt = Len(s.sent) /\ d.sent = s.sent /\ d.curStreamIdx = s.curStreamIdx
  <2>0. c = Put(b, FCUnpublish) /\ d = Put(c, DeleteStream(a.id))
    OBVIOUS
  <2> HIDE DEF a, b, c, d
  <2>1. Shaped(c) /\ c.socket = "shut" /\ c.failedAt = Len(s.sent) /\ c.sent = s.sent
        /\ c.curStreamIdx = s.curStreamIdx
    BY <1>2, <2>0, PutAdds DEF Fields
  <2>2. QED
    BY <2>0, <2>1, PutAdds DEF Fields
<1>4. Abort(s) = Forget(d) \/ Abort(s) = Forget(a)
  BY DEF Abort, CloseSaying
<1>5. /\ Shaped(Abort(s)) /\ Abort(s).socket = "closed" /\ Abort(s).calls = <<>>
      /\ Abort(s).sent = s.sent /\ Abort(s).failedAt = Len(s.sent)
      /\ Abort(s).curStreamIdx \in {0, s.curStreamIdx}
  <2> HIDE DEF a, d
  <2>1. CASE Abort(s) = Forget(a)
    BY <1>1, <2>1, Forgotten
  <2>2. CASE Abort(s) = Forget(d)
    BY <1>3, <2>2, Forgotten
  <2>3. QED
    BY <1>4, <2>1, <2>2
<1>6. Len(s.sent) # Never
  <2>1. Len(s.sent) \in Nat
    BY LenProperties DEF Shaped, IsSeq
  <2>2. QED
    BY <2>1 DEF Never
<1>7. QED
  BY <1>5, <1>6 DEF Sane, ClosedSane, Told

\* What a send does to an open connection: it fails and closes it, or adds the message.
Failed(s, t) ==
    /\ t.socket = "closed" /\ t.calls = <<>> /\ t.sent = s.sent /\ t.failedAt = Len(s.sent)
    /\ Sane(t)

Added(s, m, t) ==
    /\ t.sent = Append(s.sent, m)
    /\ \A f \in Fields \ {"sent", "credit"} : t[f] = s[f]

\* A send that fails closes the connection, one that does not adds its message.
LEMMA SendsOrFails ==
    ASSUME NEW s, NEW m, Shaped(s)
    PROVE  /\ Shaped(Send(s, m)) /\ Send(s, m).curStreamIdx \in {0, s.curStreamIdx}
           /\ \/ s.socket # "open" /\ Send(s, m) = s
              \/ s.socket = "open" /\ Failed(s, Send(s, m))
              \/ s.socket = "open" /\ Added(s, m, Send(s, m))
<1>1. CASE s.socket # "open"
  <2>1. Send(s, m) = s
    BY <1>1 DEF Send, Put
  <2>2. QED
    BY <1>1, <2>1
<1>2. CASE s.socket = "open" /\ s.credit = 0
  <2>1. Send(s, m) = Abort(s)
    BY <1>2 DEF Send
  <2>2. QED
    BY <1>2, <2>1, Aborted DEF Failed
<1>3. CASE s.socket = "open" /\ s.credit # 0
  <2>1. Send(s, m) = Put(s, m)
    BY <1>3 DEF Send
  <2>2. Shaped(Put(s, m)) /\ Added(s, m, Put(s, m))
    BY <1>3, PutAdds DEF Added
  <2>3. Put(s, m).curStreamIdx = s.curStreamIdx
    BY <2>2 DEF Added, Fields
  <2>4. QED
    BY <1>3, <2>1, <2>2, <2>3
<1>4. QED
  BY <1>1, <1>2, <1>3

\* Only these fields matter.
LEMMA Kept ==
    ASSUME NEW s, NEW t, Sane(s), Shaped(t),
           t.socket = s.socket, t.sent = s.sent, t.calls = s.calls, t.id = s.id,
           t.nStreams = s.nStreams, t.curStreamIdx = s.curStreamIdx, t.failedAt = s.failedAt
    PROVE  Sane(t)
BY DEF Sane, OpenSane, ClosedSane, Told

-----------------------------------------------------------------------------
\* RTMP_Close

\* A connection that is closed: what it said it has taken back.
LEMMA Closes ==
    ASSUME NEW s, Sane(s)
    PROVE  /\ Sane(Close(s)) /\ Close(s).socket = "closed" /\ Close(s).calls = <<>>
           /\ Close(s).curStreamIdx \in {0, s.curStreamIdx}
<1>1. Shaped(s)
  BY DEF Sane
<1>2. CASE s.socket # "closed" /\ s.nStreams > 0 /\ s.id > 0
  <2> DEFINE b == [s EXCEPT !.id = 0]
             c == Send(b, FCUnpublish)
             d == Send(c, DeleteStream(s.id))
  <2>1. Close(s) = Forget(d)
    BY <1>2 DEF Close, CloseSaying
  <2>2. /\ Shaped(b) /\ b.socket = "open" /\ b.sent = s.sent /\ b.failedAt = Never
        /\ b.curStreamIdx = s.curStreamIdx
    <3>1. s.socket = "open" /\ s.failedAt = Never
      BY <1>2 DEF Sane, OpenSane
    <3>2. QED
      BY <1>1, <3>1 DEF Shaped, Fields
  <2>3. c = Send(b, FCUnpublish) /\ d = Send(c, DeleteStream(s.id))
    OBVIOUS
  <2>4. FCUnpublish.kind = "FCUnpublish" /\ DeleteStream(s.id).kind = "deleteStream"
    BY DEF FCUnpublish, DeleteStream
  <2> HIDE DEF b, c, d
  <2>5. Shaped(c) /\ c.curStreamIdx \in {0, s.curStreamIdx}
        /\ (Failed(b, c) \/ Added(b, FCUnpublish, c))
    BY <2>2, <2>3, SendsOrFails
  <2>6. Shaped(d) /\ d.curStreamIdx \in {0, s.curStreamIdx} /\ (Says(d.sent, "publish") => Told(d))
    <3>1. CASE Failed(b, c)
      <4>1. c.socket = "closed" /\ Sane(c)
        BY <3>1 DEF Failed
      <4>2. d = c
        BY <2>3, <2>5, <4>1, SendsOrFails
      <4>3. QED
        BY <2>5, <4>1, <4>2 DEF Sane, ClosedSane
    <3>2. CASE Added(b, FCUnpublish, c)
      <4>1. c.socket = "open" /\ c.failedAt = Never /\ Says(c.sent, "FCUnpublish")
        <5>1. c.socket = b.socket /\ c.failedAt = b.failedAt /\ c.sent = Append(b.sent, FCUnpublish)
          BY <3>2 DEF Added, Fields
        <5>2. Says(Append(b.sent, FCUnpublish), "FCUnpublish")
          BY <2>2, <2>4, Appended DEF Shaped
        <5>3. QED
          BY <2>2, <5>1, <5>2
      <4>2. /\ Shaped(d) /\ d.curStreamIdx \in {0, c.curStreamIdx}
            /\ Failed(c, d) \/ Added(c, DeleteStream(s.id), d)
        BY <2>3, <2>5, <4>1, SendsOrFails
      <4>3. CASE Failed(c, d)
        BY <2>5, <4>2, <4>3 DEF Failed, Sane, ClosedSane
      <4>4. CASE Added(c, DeleteStream(s.id), d)
        <5>1. d.failedAt = c.failedAt /\ d.sent = Append(c.sent, DeleteStream(s.id))
          BY <4>4 DEF Added, Fields
        <5>2. Says(d.sent, "FCUnpublish") /\ Says(d.sent, "deleteStream")
          BY <2>4, <2>5, <4>1, <5>1, Appended DEF Shaped
        <5>3. QED
          BY <2>5, <4>1, <4>2, <5>1, <5>2 DEF Told
      <4>5. QED
        BY <4>2, <4>3, <4>4
    <3>3. QED
      BY <2>5, <3>1, <3>2
  <2>7. QED
    BY <2>1, <2>6, Forgotten DEF Sane, ClosedSane, Told
<1>3. CASE ~ (s.socket # "closed" /\ s.nStreams > 0 /\ s.id > 0)
  <2>1. Close(s) = Forget(s)
    BY <1>3 DEF Close, CloseSaying
  <2>2. Says(s.sent, "publish") => Told(s)
    BY <1>3 DEF Sane, OpenSane, ClosedSane
  <2>3. QED
    BY <1>1, <2>1, <2>2, Forgotten DEF Sane, ClosedSane, Told
<1>4. QED
  BY <1>2, <1>3

-----------------------------------------------------------------------------
\* What the client says

\* A step of the connection that keeps its stream.
Goes(s, t) ==
    /\ Sane(t) /\ t.curStreamIdx \in {0, s.curStreamIdx}
    /\ t.socket = "open" =>
          /\ s.socket = "open" /\ t.id = s.id /\ t.nStreams = s.nStreams
          /\ t.curStreamIdx = s.curStreamIdx

\* Steps that keep the stream compose.
LEMMA GoesOn ==
    ASSUME NEW s, NEW t, NEW u, Goes(s, t), Goes(t, u)
    PROVE  Goes(s, u)
BY DEF Goes

\* A message that is sent: only a publish needs a stream that has a number.
LEMMA Sends ==
    ASSUME NEW s, NEW m, Sane(s),
           s.socket = "open" /\ m.kind = "publish" => s.id > 0 /\ s.nStreams > 0
    PROVE  /\ Goes(s, Send(s, m))
           /\ Send(s, m).socket = "open" => Send(s, m).calls = s.calls
<1> DEFINE t == Send(s, m)
<1>1. Shaped(s)
  BY DEF Sane
<1>2. t = Send(s, m)
  OBVIOUS
<1> HIDE DEF t
<1>3. /\ Shaped(t) /\ t.curStreamIdx \in {0, s.curStreamIdx}
      /\ \/ s.socket # "open" /\ t = s
         \/ s.socket = "open" /\ Failed(s, t)
         \/ s.socket = "open" /\ Added(s, m, t)
  BY <1>1, <1>2, SendsOrFails
<1>4. CASE s.socket # "open" /\ t = s
  BY <1>2, <1>4 DEF Goes
<1>5. CASE s.socket = "open" /\ Failed(s, t)
  BY <1>2, <1>3, <1>5 DEF Goes, Failed
<1>6. CASE s.socket = "open" /\ Added(s, m, t)
  <2>1. /\ t.socket = "open" /\ t.id = s.id /\ t.nStreams = s.nStreams /\ t.calls = s.calls
        /\ t.curStreamIdx = s.curStreamIdx /\ t.failedAt = s.failedAt
        /\ t.sent = Append(s.sent, m)
    BY <1>6 DEF Added, Fields
  <2>2. Says(t.sent, "publish") <=> Says(s.sent, "publish") \/ m.kind = "publish"
    BY <1>1, <2>1, Appended DEF Shaped
  <2>3. OpenSane(s)
    BY <1>6 DEF Sane
  <2>4. OpenSane(t)
    BY <1>6, <2>1, <2>2, <2>3 DEF OpenSane
  <2>5. QED
    BY <1>2, <1>3, <1>6, <2>1, <2>4 DEF Goes, Sane
<1>7. QED
  BY <1>3, <1>4, <1>5, <1>6

\* A command takes the next number.
LEMMA Invokes ==
    ASSUME NEW s, NEW m, Sane(s), "kind" \in DOMAIN m,
           s.socket = "open" /\ m.kind = "publish" => s.id > 0 /\ s.nStreams > 0
    PROVE  /\ Goes(s, Invoke(s, m))
           /\ Invoke(s, m).socket = "open" => Invoke(s, m).calls = s.calls
<1> DEFINE n == [m EXCEPT !.txn = s.invokes + 1]
           t == Send(s, n)
           u == [t EXCEPT !.invokes = @ + 1]
<1>1. n.kind = m.kind
  OBVIOUS
<1>2. Goes(s, t) /\ (t.socket = "open" => t.calls = s.calls)
  <2>1. t = Send(s, n)
    OBVIOUS
  <2> HIDE DEF n, t
  <2>2. QED
    BY <1>1, <2>1, Sends
<1>3. Invoke(s, m) = IF t.socket = "open" THEN u ELSE t
  BY DEF Invoke
<1>4. u = [t EXCEPT !.invokes = @ + 1]
  OBVIOUS
<1> HIDE DEF n, t, u
<1>5. CASE t.socket = "open"
  <2>1. Shaped(t)
    BY <1>2 DEF Goes, Sane
  <2>2. /\ Shaped(u) /\ u.socket = t.socket /\ u.sent = t.sent /\ u.calls = t.calls /\ u.id = t.id
        /\ u.nStreams = t.nStreams /\ u.curStreamIdx = t.curStreamIdx /\ u.failedAt = t.failedAt
    BY <1>4, <2>1 DEF Shaped, Fields
  <2>3. Sane(u)
    BY <1>2, <2>2, Kept DEF Goes
  <2>4. QED
    BY <1>2, <1>3, <1>5, <2>2, <2>3 DEF Goes
<1>6. CASE t.socket # "open"
  BY <1>2, <1>3, <1>6
<1>7. QED
  BY <1>5, <1>6

\* A command whose answer is awaited.
LEMMA Queues ==
    ASSUME NEW s, NEW m, Sane(s), "kind" \in DOMAIN m,
           s.socket = "open" /\ m.kind = "publish" => s.id > 0 /\ s.nStreams > 0,
           s.socket = "open" /\ m.kind = "createStream" => s.nStreams > 0,
           s.socket = "open" => IF m.kind = "connect" THEN s.calls = <<>> /\ s.curStreamIdx = 0
                                ELSE ~ Waits(s.calls, "connect")
    PROVE  /\ Goes(s, InvokeQueued(s, m))
           /\ /\ InvokeQueued(s, m).socket = "open"
              /\ m.kind # "connect"
              => ~ Waits(InvokeQueued(s, m).calls, "connect")
<1> DEFINE t == Invoke(s, m)
           c == [name |-> m.kind, txn |-> t.invokes]
           u == [t EXCEPT !.calls = Append(@, c)]
<1>1. Goes(s, t) /\ (t.socket = "open" => t.calls = s.calls)
  BY Invokes
<1>2. InvokeQueued(s, m) = IF t.socket = "open" THEN u ELSE t
  BY DEF InvokeQueued
<1>3. u = [t EXCEPT !.calls = Append(@, c)] /\ c.name = m.kind
  OBVIOUS
<1> HIDE DEF t, c, u
<1>4. CASE t.socket = "open"
  <2>1. Shaped(t) /\ OpenSane(t) /\ t.calls = s.calls /\ s.socket = "open"
    BY <1>1, <1>4 DEF Goes, Sane
  <2>2. /\ IsSeq(Append(t.calls, c)) /\ Len(Append(t.calls, c)) = Len(t.calls) + 1
        /\ \A n : Waits(Append(t.calls, c), n) <=> Waits(t.calls, n) \/ m.kind = n
    BY <1>3, <2>1, Appended DEF Shaped
  <2>3. /\ u.socket = t.socket /\ u.sent = t.sent /\ u.calls = Append(t.calls, c) /\ u.id = t.id
        /\ u.nStreams = t.nStreams /\ u.curStreamIdx = t.curStreamIdx /\ u.failedAt = t.failedAt
        /\ DOMAIN u = Fields
    BY <1>3, <2>1 DEF Shaped, Fields
  <2>4. Shaped(u)
    BY <2>1, <2>2, <2>3 DEF Shaped
  <2>5. t.nStreams = s.nStreams /\ t.curStreamIdx = s.curStreamIdx
    BY <1>1, <1>4 DEF Goes
  <2>6. Waits(u.calls, "createStream") => u.nStreams > 0
    BY <2>1, <2>2, <2>3, <2>5 DEF OpenSane
  <2>7. Waits(u.calls, "connect") => m.kind = "connect" /\ Len(u.calls) = 1 /\ u.curStreamIdx = 0
    <3>1. CASE m.kind = "connect"
      <4>1. t.calls = <<>> /\ Len(<<>>) = 0
        BY <2>1, <3>1
      <4>2. QED
        BY <2>1, <2>2, <2>3, <2>5, <3>1, <4>1
    <3>2. CASE m.kind # "connect"
      BY <2>1, <2>2, <2>3, <3>2
    <3>3. QED
      BY <3>1, <3>2
  <2>8. OpenSane(u)
    BY <2>1, <2>3, <2>6, <2>7 DEF OpenSane
  <2>9. QED
    BY <1>1, <1>2, <1>4, <2>3, <2>4, <2>7, <2>8 DEF Goes, Sane
<1>5. CASE t.socket # "open"
  BY <1>1, <1>2, <1>5
<1>6. QED
  BY <1>4, <1>5

\* The connect and what comes before it.
LEMMA Connects ==
    ASSUME NEW s, Sane(s), s.socket = "open" => s.calls = <<>> /\ s.curStreamIdx = 0
    PROVE  Sane(SendConnectPacket(s))
<1> DEFINE t == Send(s, ChunkSize)
<1>1. ChunkSize.kind = "chunkSize"
  BY DEF ChunkSize
<1>2. Goes(s, t) /\ (t.socket = "open" => t.calls = s.calls)
  BY <1>1, Sends
<1>3. /\ SendConnectPacket(s) =
            IF t.socket = "open" THEN InvokeQueued(t, Connect(t)) ELSE t
      /\ Connect(t).kind = "connect" /\ "kind" \in DOMAIN Connect(t)
  BY DEF SendConnectPacket, Connect
<1> HIDE DEF t
<1>4. CASE t.socket = "open"
  <2>1. Sane(t) /\ t.calls = <<>> /\ t.curStreamIdx = 0
    BY <1>2, <1>4 DEF Goes
  <2>2. Goes(t, InvokeQueued(t, Connect(t)))
    BY <1>3, <2>1, Queues
  <2>3. QED
    BY <1>3, <1>4, <2>2 DEF Goes
<1>5. CASE t.socket # "open"
  BY <1>2, <1>3, <1>5 DEF Goes
<1>6. QED
  BY <1>4, <1>5

\* Once nothing is known of a connect, the stream is asked for.
LEMMA AsksForStream ==
    ASSUME NEW s, Sane(s), s.socket = "open" => ~ Waits(s.calls, "connect")
    PROVE  Goes(s, Connected(s))
<1> DEFINE a == ForStreams(SendReleaseStream, s)
           b == ForStreams(SendFCPublish, a)
           c == ForStreams(SendCreateStream, b)
<1>0. /\ Command("releaseStream").kind = "releaseStream"
      /\ Command("FCPublish").kind = "FCPublish"
      /\ Command("createStream").kind = "createStream"
      /\ \A k : "kind" \in DOMAIN Command(k)
  BY DEF Command
<1>1. Goes(s, s)
  BY DEF Goes
<1>2. Goes(s, a) /\ (a.socket = "open" => a.calls = s.calls)
  <2>1. a = IF s.nStreams > 0 THEN Invoke(s, Command("releaseStream")) ELSE s
    BY DEF ForStreams, SendReleaseStream
  <2> HIDE DEF a
  <2>2. QED
    BY <1>0, <1>1, <2>1, Invokes
<1>3. Goes(a, b) /\ (b.socket = "open" => b.calls = a.calls)
  <2>1. b = IF a.nStreams > 0 THEN Invoke(a, Command("FCPublish")) ELSE a
    BY DEF ForStreams, SendFCPublish
  <2> HIDE DEF a, b
  <2>2. Sane(a) /\ Goes(a, a)
    BY <1>2 DEF Goes
  <2>3. QED
    BY <1>0, <2>1, <2>2, Invokes
<1>4. Goes(b, c)
  <2>1. c = IF b.nStreams > 0 THEN InvokeQueued(b, Command("createStream")) ELSE b
    BY DEF ForStreams, SendCreateStream
  <2> HIDE DEF a, b, c
  <2>2. Sane(b) /\ Goes(b, b)
    BY <1>3 DEF Goes
  <2>3. b.socket = "open" => ~ Waits(b.calls, "connect")
    BY <1>2, <1>3 DEF Goes
  <2>4. CASE b.nStreams > 0
    BY <1>0, <2>1, <2>2, <2>3, <2>4, Queues
  <2>5. CASE ~ (b.nStreams > 0)
    BY <2>1, <2>2, <2>5
  <2>6. QED
    BY <2>4, <2>5
<1>5. Connected(s) = c
  BY DEF Connected
<1> HIDE DEF a, b, c
<1>6. QED
  BY <1>2, <1>3, <1>4, <1>5, GoesOn

\* A stream that has a number is published under it.
LEMMA Publishes ==
    ASSUME NEW s, NEW id, Sane(s), s.socket = "open",
           id \in Nat \ {0}, s.nStreams > 0, ~ Waits(s.calls, "connect")
    PROVE  Sane(StreamCreated(s, id))
<1> DEFINE u == [s EXCEPT !.id = IF s.curStreamIdx = 0 THEN id ELSE @]
           t == InvokeQueued(u, Publish(u))
           v == [t EXCEPT !.curStreamIdx = @ + 1]
<1>1. Shaped(s) /\ OpenSane(s)
  BY DEF Sane
<1>2. /\ u.socket = s.socket /\ u.sent = s.sent /\ u.calls = s.calls /\ u.nStreams = s.nStreams
      /\ u.curStreamIdx = s.curStreamIdx /\ u.failedAt = s.failedAt /\ DOMAIN u = Fields
      /\ u.id = IF s.curStreamIdx = 0 THEN id ELSE s.id
  BY <1>1 DEF Shaped, Fields
<1>3. StreamCreated(s, id) = v /\ v = [t EXCEPT !.curStreamIdx = @ + 1]
  BY DEF StreamCreated, SendPublish
<1>4. t = InvokeQueued(u, Publish(u)) /\ Publish(u).kind = "publish"
      /\ "kind" \in DOMAIN Publish(u)
  BY DEF Publish
<1> HIDE DEF u, t, v
<1>5. u.id \in Int /\ u.id > 0
  BY <1>1, <1>2 DEF Shaped, OpenSane
<1>6. Shaped(u) /\ OpenSane(u)
  BY <1>1, <1>2, <1>5 DEF Shaped, OpenSane
<1>7. Goes(u, t) /\ (t.socket = "open" => ~ Waits(t.calls, "connect"))
  <2>1. Sane(u)
    BY <1>2, <1>6 DEF Sane
  <2>2. QED
    BY <1>2, <1>4, <1>5, <2>1, Queues
<1>8. Shaped(t)
  BY <1>7 DEF Goes, Sane
<1>9. /\ v.socket = t.socket /\ v.sent = t.sent /\ v.calls = t.calls /\ v.nStreams = t.nStreams
      /\ v.failedAt = t.failedAt /\ v.id = t.id /\ DOMAIN v = Fields
      /\ v.curStreamIdx = t.curStreamIdx + 1
  BY <1>3, <1>8 DEF Shaped, Fields
<1>10. Shaped(v)
  BY <1>8, <1>9 DEF Shaped
<1>11. CASE t.socket = "open"
  <2>1. OpenSane(t) /\ t.id > 0 /\ t.nStreams > 0 /\ ~ Waits(t.calls, "connect")
    BY <1>2, <1>5, <1>7, <1>11 DEF Goes, Sane
  <2>2. OpenSane(v)
    BY <1>9, <2>1 DEF OpenSane
  <2>3. QED
    BY <1>3, <1>9, <1>10, <1>11, <2>2 DEF Sane
<1>12. CASE t.socket # "open"
  <2>1. t.socket = "closed" /\ ClosedSane(t)
    BY <1>7, <1>12 DEF Goes, Sane
  <2>2. ClosedSane(v)
    BY <1>9, <2>1 DEF ClosedSane, Told
  <2>3. QED
    BY <1>3, <1>9, <1>10, <2>1, <2>2 DEF Sane
<1>13. QED
  BY <1>11, <1>12

\* ReadN acknowledges what it has read.
LEMMA Counts ==
    ASSUME NEW s, Sane(s)
    PROVE  /\ Goes(s, Count(s))
           /\ Count(s).socket = "open" => Count(s).calls = s.calls
<1> DEFINE z == [s EXCEPT !.unacked = 0]
           o == [s EXCEPT !.unacked = @ + 1]
<1>1. Shaped(s)
  BY DEF Sane
<1>2. /\ Shaped(z) /\ z.socket = s.socket /\ z.sent = s.sent /\ z.calls = s.calls /\ z.id = s.id
      /\ z.nStreams = s.nStreams /\ z.curStreamIdx = s.curStreamIdx /\ z.failedAt = s.failedAt
  BY <1>1 DEF Shaped, Fields
<1>3. /\ Shaped(o) /\ o.socket = s.socket /\ o.sent = s.sent /\ o.calls = s.calls /\ o.id = s.id
      /\ o.nStreams = s.nStreams /\ o.curStreamIdx = s.curStreamIdx /\ o.failedAt = s.failedAt
  BY <1>1 DEF Shaped, Fields
<1>4. Count(s) = Send(z, BytesReceived) \/ Count(s) = o
  BY DEF Count
<1>5. BytesReceived.kind = "ack"
  BY DEF BytesReceived
<1> HIDE DEF z, o
<1>6. Sane(z) /\ Sane(o)
  BY <1>2, <1>3, Kept
<1>7. CASE Count(s) = o
  BY <1>3, <1>6, <1>7 DEF Goes
<1>8. CASE Count(s) = Send(z, BytesReceived)
  <2>1. Goes(z, Send(z, BytesReceived))
        /\ (Send(z, BytesReceived).socket = "open" => Send(z, BytesReceived).calls = z.calls)
    BY <1>5, <1>6, Sends
  <2>2. QED
    BY <1>2, <1>8, <2>1 DEF Goes
<1>9. QED
  BY <1>4, <1>7, <1>8

-----------------------------------------------------------------------------
\* What the client hears

\* A call that is answered is erased, and no connect waits any longer.
LEMMA Erases ==
    ASSUME NEW s, NEW I, Sane(s), s.socket = "open", I \subseteq DOMAIN s.calls, I # {}
    PROVE  LET t == Erase(s, I)
           IN  /\ Sane(t) /\ t.socket = "open" /\ Least(I) \in I
               /\ t.id = s.id /\ t.nStreams = s.nStreams /\ t.curStreamIdx = s.curStreamIdx
               /\ ~ Waits(t.calls, "connect")
<1> DEFINE i == Least(I)
           r == SubSeq(s.calls, 1, i - 1) \o SubSeq(s.calls, i + 1, Len(s.calls))
           t == Erase(s, I)
<1>1. Shaped(s) /\ OpenSane(s)
  BY DEF Sane
<1>2. i \in I
  <2>1. I \subseteq Nat
    BY <1>1, LenProperties DEF Shaped, IsSeq
  <2>2. QED
    BY <2>1, LeastIn
<1>3. t = [s EXCEPT !.calls = r]
  BY DEF Erase, EraseAt
<1>4. /\ IsSeq(r) /\ Len(s.calls) \in Nat /\ Len(r) = Len(s.calls) - 1
      /\ \A n : Waits(r, n) => Waits(s.calls, n)
  BY <1>1, <1>2, ErasedAt DEF Shaped
<1> HIDE DEF i, r, t
<1>5. /\ t.socket = s.socket /\ t.sent = s.sent /\ t.calls = r /\ t.nStreams = s.nStreams
      /\ t.failedAt = s.failedAt /\ t.id = s.id /\ DOMAIN t = Fields
      /\ t.curStreamIdx = s.curStreamIdx
  BY <1>1, <1>3 DEF Shaped, Fields
<1>6. ~ Waits(r, "connect")
  <2>1. SUFFICES ASSUME Waits(r, "connect")
                 PROVE  FALSE
    OBVIOUS
  <2>2. Len(r) = 0
    BY <1>1, <1>4, <2>1 DEF OpenSane
  <2>3. DOMAIN r = {}
    <3>1. DOMAIN r = 1 .. 0
      BY <1>4, <2>2, LenProperties DEF IsSeq
    <3>2. QED
      BY <3>1
  <2>4. QED
    BY <2>1, <2>3 DEF Waits
<1>7. Shaped(t) /\ OpenSane(t)
  BY <1>1, <1>4, <1>5, <1>6 DEF Shaped, OpenSane
<1>8. QED
  BY <1>2, <1>5, <1>6, <1>7 DEF t, i, Sane

\* The call that an answer is for.
LEMMA Answers ==
    ASSUME NEW s, NEW txn, Sane(s), s.socket = "open"
    PROVE  LET I == Matches(s, txn)
           IN  \/ I = {} /\ Call(s, txn) = "none" /\ Erase(s, I) = s
               \/ /\ I # {} /\ I \subseteq DOMAIN s.calls /\ Call(s, txn) = s.calls[Least(I)].name
                  /\ Waits(s.calls, Call(s, txn))
<1>1. Matches(s, txn) \subseteq DOMAIN s.calls
  BY DEF Matches
<1>2. CASE Matches(s, txn) = {}
  BY <1>2 DEF Call, Erase
<1>3. CASE Matches(s, txn) # {}
  <2>1. Least(Matches(s, txn)) \in DOMAIN s.calls
    BY <1>1, <1>3, Erases
  <2>2. Call(s, txn) = s.calls[Least(Matches(s, txn))].name
    BY <1>3 DEF Call
  <2>3. QED
    BY <1>1, <1>3, <2>1, <2>2 DEF Waits
<1>4. QED
  BY <1>2, <1>3

\* A login changes the application and the flags only.
LEMMA LoginKeeps ==
    ASSUME NEW s, NEW d, Sane(s)
    PROVE  Sane(PublisherAuth(s, d))
           /\ PublisherAuth(s, d).curStreamIdx = s.curStreamIdx
<1> DEFINE SameBut(t) ==
             /\ Shaped(t) /\ t.socket = s.socket /\ t.sent = s.sent /\ t.calls = s.calls
             /\ t.id = s.id /\ t.nStreams = s.nStreams /\ t.curStreamIdx = s.curStreamIdx
             /\ t.failedAt = s.failedAt
<1>1. Shaped(s)
  BY DEF Sane
<1>2. SameBut(s) /\ SameBut(AddName(s, d)) /\ SameBut(Answer(s, d))
  BY <1>1 DEF AddName, Answer, Shaped, Fields
<1>3. SameBut([s EXCEPT !.flags = @ \cup {"CLEAN"}])
  BY <1>1 DEF Shaped, Fields
<1>4. PublisherAuth(s, d)
          \in {s, AddName(s, d), Answer(s, d), [s EXCEPT !.flags = @ \cup {"CLEAN"}]}
  BY DEF PublisherAuth
<1>5. SameBut(PublisherAuth(s, d))
  <2> HIDE DEF SameBut
  <2>1. QED
    BY <1>2, <1>3, <1>4
<1>6. QED
  BY <1>5, Kept

\* For a login the connection is closed.
LEMMA ClosesForLogin ==
    ASSUME NEW s, Sane(s)
    PROVE  /\ Sane(CloseForLogin(s)) /\ CloseForLogin(s).socket = "closed"
           /\ CloseForLogin(s).calls = <<>>
           /\ CloseForLogin(s).curStreamIdx \in {0, s.curStreamIdx}
<1> DEFINE t == Close(s)
           u == [t EXCEPT !.flags = @ \cup {"CLEAN"}]
<1>1. Sane(t) /\ t.socket = "closed" /\ t.calls = <<>> /\ t.curStreamIdx \in {0, s.curStreamIdx}
  BY Closes
<1>2. CloseForLogin(s) = u \/ CloseForLogin(s) = t
  BY DEF CloseForLogin
<1>3. u = [t EXCEPT !.flags = @ \cup {"CLEAN"}]
  OBVIOUS
<1> HIDE DEF t, u
<1>4. Shaped(t)
  BY <1>1 DEF Sane
<1>5. /\ Shaped(u) /\ u.socket = t.socket /\ u.sent = t.sent /\ u.calls = t.calls /\ u.id = t.id
      /\ u.nStreams = t.nStreams /\ u.curStreamIdx = t.curStreamIdx /\ u.failedAt = t.failedAt
  BY <1>3, <1>4 DEF Shaped, Fields
<1>6. Sane(u)
  BY <1>1, <1>5, Kept
<1>7. QED
  BY <1>1, <1>2, <1>5, <1>6

\* Everything the server may say leaves the structure sane; after a login is asked for it is closed,
\* and ready for the next connection.
LEMMA Heard ==
    ASSUME NEW s, NEW m, Sane(s), s.socket = "open",
           m.kind = "_result" => m.id \in Nat \ {0}
    PROVE  /\ Sane(ClientPacket(s, m))
           /\ LogsIn(s, m) => /\ ClientPacket(s, m).socket = "closed"
                              /\ ClientPacket(s, m).calls = <<>>
                              /\ ClientPacket(s, m).curStreamIdx = 0
<1> DEFINE t == ClientPacket(s, m)
<1>1. Shaped(s) /\ OpenSane(s)
  BY DEF Sane
<1>2. CASE m.kind \in {"media", "control"}
  <2>1. SendPong(s) = Send(s, [kind |-> "pong"]) /\ [kind |-> "pong"].kind = "pong"
    BY DEF SendPong
  <2>2. Sane(SendPong(s))
    BY <2>1, Sends DEF Goes
  <2>3. t = s \/ t = SendPong(s)
    BY <1>2 DEF ClientPacket
  <2>4. ~ LogsIn(s, m)
    BY <1>2 DEF LogsIn
  <2>5. QED
    BY <2>2, <2>3, <2>4
<1>3. CASE m.kind = "_result"
  <2> DEFINE e == Erase(s, Matches(s, m.txn))
  <2>1. t = HandleResult(s, m) /\ ~ LogsIn(s, m)
    BY <1>3 DEF ClientPacket, HandleInvoke, LogsIn
  <2>2. CASE Matches(s, m.txn) = {} /\ Call(s, m.txn) = "none" /\ e = s
    <3>1. t = s
      BY <2>1, <2>2 DEF HandleResult
    <3>2. QED
      BY <2>1, <3>1
  <2>3. CASE /\ Matches(s, m.txn) # {} /\ Matches(s, m.txn) \subseteq DOMAIN s.calls
             /\ Waits(s.calls, Call(s, m.txn))
    <3>1. /\ Sane(e) /\ e.socket = "open" /\ ~ Waits(e.calls, "connect")
          /\ e.nStreams = s.nStreams /\ e.curStreamIdx = s.curStreamIdx
      BY <2>3, Erases
    <3>2. CASE Call(s, m.txn) = "connect"
      <4>1. t = Connected(e)
        BY <2>1, <3>2 DEF HandleResult
      <4> HIDE DEF e
      <4>2. QED
        BY <2>1, <3>1, <4>1, AsksForStream DEF Goes
    <3>3. CASE Call(s, m.txn) = "createStream"
      <4>1. t = StreamCreated(e, m.id)
        BY <2>1, <3>3 DEF HandleResult
      <4> HIDE DEF e
      <4>2. e.nStreams > 0
        BY <1>1, <2>3, <3>1, <3>3 DEF OpenSane
      <4>3. QED
        BY <1>3, <2>1, <3>1, <4>1, <4>2, Publishes
    <3>4. CASE Call(s, m.txn) \notin {"connect", "createStream"}
      <4> DEFINE p == [e EXCEPT !.playing = TRUE]
      <4>1. (t = p \/ t = e) /\ p = [e EXCEPT !.playing = TRUE]
        BY <2>1, <3>4 DEF HandleResult
      <4> HIDE DEF e, p
      <4>2. Shaped(e)
        BY <3>1 DEF Sane
      <4>3. /\ Shaped(p) /\ p.socket = e.socket /\ p.sent = e.sent /\ p.calls = e.calls
            /\ p.id = e.id /\ p.nStreams = e.nStreams /\ p.curStreamIdx = e.curStreamIdx
            /\ p.failedAt = e.failedAt
        BY <4>1, <4>2 DEF Shaped, Fields
      <4>4. Sane(p)
        BY <3>1, <4>3, Kept
      <4>5. QED
        BY <2>1, <3>1, <4>1, <4>4
    <3>5. QED
      BY <3>2, <3>3, <3>4
  <2>4. QED
    BY <2>2, <2>3, Answers
<1>4. CASE m.kind = "_error"
  <2> DEFINE e == Erase(s, Matches(s, m.txn))
             a == PublisherAuth(e, m.reason)
  <2>1. /\ t = HandleError(s, m)
        /\ HandleError(s, m) \in {e, CloseForLogin(a), a}
        /\ LogsIn(s, m) => HandleError(s, m) = CloseForLogin(a) /\ Call(s, m.txn) = "connect"
    BY <1>4 DEF ClientPacket, HandleInvoke, HandleError, LogsIn
  <2>2. Sane(e) /\ (Call(s, m.txn) = "connect" => e.curStreamIdx = 0)
    <3>1. CASE Matches(s, m.txn) = {} /\ Call(s, m.txn) = "none" /\ e = s
      BY <3>1
    <3>2. CASE /\ Matches(s, m.txn) # {} /\ Matches(s, m.txn) \subseteq DOMAIN s.calls
               /\ Waits(s.calls, Call(s, m.txn))
      <4>1. Sane(e) /\ e.curStreamIdx = s.curStreamIdx
        BY <3>2, Erases
      <4>2. Call(s, m.txn) = "connect" => s.curStreamIdx = 0
        BY <1>1, <3>2 DEF OpenSane
      <4>3. QED
        BY <4>1, <4>2
    <3>3. QED
      BY <3>1, <3>2, Answers
  <2>3. a = PublisherAuth(e, m.reason)
    OBVIOUS
  <2> HIDE DEF e, a
  <2>4. Sane(a) /\ a.curStreamIdx = e.curStreamIdx
    BY <2>2, <2>3, LoginKeeps
  <2>5. /\ Sane(CloseForLogin(a)) /\ CloseForLogin(a).socket = "closed"
        /\ CloseForLogin(a).calls = <<>>
        /\ CloseForLogin(a).curStreamIdx \in {0, a.curStreamIdx}
    BY <2>4, ClosesForLogin
  <2>6. QED
    BY <2>1, <2>2, <2>4, <2>5
<1>5. CASE m.kind = "onStatus"
  <2> DEFINE p == [s EXCEPT !.playing = TRUE]
  <2>1. ~ LogsIn(s, m) /\ t = HandleStatus(s, m.code)
    BY <1>5 DEF ClientPacket, HandleInvoke, LogsIn
  <2>2. HandleStatus(s, m.code) \in {Close(s), s, Erase(p, Named(s, "publish"))}
    BY DEF HandleStatus
  <2>3. /\ Shaped(p) /\ p.socket = s.socket /\ p.sent = s.sent /\ p.calls = s.calls
        /\ p.id = s.id /\ p.nStreams = s.nStreams /\ p.curStreamIdx = s.curStreamIdx
        /\ p.failedAt = s.failedAt
    BY <1>1 DEF Shaped, Fields
  <2> HIDE DEF p
  <2>4. Sane(p)
    BY <2>3, Kept
  <2>5. Sane(Erase(p, Named(s, "publish")))
    <3>1. Named(s, "publish") \subseteq DOMAIN p.calls
      BY <2>3 DEF Named
    <3>2. CASE Named(s, "publish") = {}
      BY <2>4, <3>2 DEF Erase
    <3>3. CASE Named(s, "publish") # {}
      BY <2>3, <2>4, <3>1, <3>3, Erases
    <3>4. QED
      BY <3>2, <3>3
  <2>6. Sane(Close(s))
    BY Closes
  <2>7. QED
    BY <2>1, <2>2, <2>5, <2>6
<1>6. CASE m.kind = "onBWDone"
  <2>1. ~ LogsIn(s, m) /\ (t = SendCheckBW(s) \/ t = s)
    BY <1>6 DEF ClientPacket, HandleInvoke, LogsIn
  <2>2. /\ SendCheckBW(s) = Invoke(s, Command("_checkbw"))
        /\ Command("_checkbw").kind = "_checkbw" /\ "kind" \in DOMAIN Command("_checkbw")
    BY DEF SendCheckBW, Command
  <2>3. QED
    BY <2>1, <2>2, Invokes DEF Goes
<1>7. CASE m.kind = "_onbwcheck"
  <2> DEFINE r == Send(s, [kind |-> "_result"])
             p == [r EXCEPT !.bwChecks = @ + 1]
  <2>1. ~ LogsIn(s, m) /\ (t = p \/ t = r)
    BY <1>7 DEF ClientPacket, HandleInvoke, LogsIn, SendCheckBWResult
  <2>2. [kind |-> "_result"].kind = "_result" /\ p = [r EXCEPT !.bwChecks = @ + 1]
    OBVIOUS
  <2>3. Sane(r)
    BY <2>2, Sends DEF Goes
  <2> HIDE DEF r, p
  <2>4. Shaped(r)
    BY <2>3 DEF Sane
  <2>5. /\ Shaped(p) /\ p.socket = r.socket /\ p.sent = r.sent /\ p.calls = r.calls
        /\ p.id = r.id /\ p.nStreams = r.nStreams /\ p.curStreamIdx = r.curStreamIdx
        /\ p.failedAt = r.failedAt
    BY <2>2, <2>4 DEF Shaped, Fields
  <2>6. QED
    BY <2>1, <2>3, <2>5, Kept
<1>8. CASE m.kind = "_onbwdone"
  <2>1. ~ LogsIn(s, m) /\ t = Erase(s, Named(s, "_checkbw"))
    BY <1>8 DEF ClientPacket, HandleInvoke, LogsIn
  <2>2. Named(s, "_checkbw") \subseteq DOMAIN s.calls
    BY DEF Named
  <2>3. CASE Named(s, "_checkbw") = {}
    BY <2>1, <2>3 DEF Erase
  <2>4. CASE Named(s, "_checkbw") # {}
    BY <2>1, <2>2, <2>4, Erases
  <2>5. QED
    BY <2>3, <2>4
<1>9. CASE m.kind = "ping"
  <2>1. ~ LogsIn(s, m) /\ t = Send(s, [kind |-> "pong"]) /\ [kind |-> "pong"].kind = "pong"
    BY <1>9 DEF ClientPacket, HandleInvoke, LogsIn, SendPong
  <2>2. QED
    BY <2>1, Sends DEF Goes
<1>10. CASE m.kind \in {"close", "onFCUnsubscribe"}
  <2>1. ~ LogsIn(s, m) /\ t = Close(s)
    BY <1>10 DEF ClientPacket, HandleInvoke, LogsIn
  <2>2. QED
    BY <2>1, Closes
<1>11. CASE m.kind \notin {"media", "control", "_result", "_error", "onStatus", "onBWDone",
                           "_onbwcheck", "_onbwdone", "ping", "close", "onFCUnsubscribe"}
  <2>1. ~ LogsIn(s, m) /\ t = s
    BY <1>11 DEF ClientPacket, HandleInvoke, LogsIn
  <2>2. QED
    BY <2>1
<1>12. QED
  BY <1>2, <1>3, <1>4, <1>5, <1>6, <1>7, <1>8, <1>9, <1>10, <1>11

-----------------------------------------------------------------------------
\* The states of the session

\* The number that a result gives to a stream
Numbered(ms) == \A i \in DOMAIN ms : ms[i].kind = "_result" => ms[i].id \in Nat \ {0}

(* The structure is sane; a connection is dialled, and greeted, with nothing of
   the one before it left; and without a connection in use there is no socket,
   but for the silence. *)
SessionInv ==
    /\ Sane(rtmp)
    /\ connection \in Nat /\ (rtmp.socket = "open" => connection > 0)
    /\ client = "dialling" =>
          rtmp.socket = "closed" /\ rtmp.calls = <<>> /\ rtmp.curStreamIdx = 0
    /\ client = "handshake" /\ rtmp.socket = "open" => rtmp.calls = <<>> /\ rtmp.curStreamIdx = 0
    /\ client = "idle" /\ rtmp.socket = "open" => silent
    /\ IsSeq(toClient) /\ Numbered(toClient)

\* Whether a send will fail is not part of the structure.
LEMMA Credited ==
    ASSUME NEW s, Sane(s), NEW n
    PROVE  LET t == [s EXCEPT !.credit = n]
           IN  /\ Sane(t) /\ t.socket = s.socket /\ t.calls = s.calls
               /\ t.curStreamIdx = s.curStreamIdx /\ t.playing = s.playing
<1> DEFINE t == [s EXCEPT !.credit = n]
<1>1. Shaped(s)
  BY DEF Sane
<1>2. /\ Shaped(t) /\ t.socket = s.socket /\ t.sent = s.sent /\ t.calls = s.calls
      /\ t.id = s.id /\ t.nStreams = s.nStreams /\ t.curStreamIdx = s.curStreamIdx
      /\ t.failedAt = s.failedAt /\ t.playing = s.playing
  BY <1>1 DEF Shaped, Fields
<1>3. t = [s EXCEPT !.credit = n]
  OBVIOUS
<1> HIDE DEF t
<1>4. Sane(t)
  BY <1>2, Kept
<1>5. QED
  BY <1>2, <1>3, <1>4

\* A step tries its sends on the same structure.
LEMMA Tried ==
    ASSUME NEW s, Sane(s), NEW t \in Trying(s)
    PROVE  /\ Sane(t) /\ t.socket = s.socket /\ t.calls = s.calls
           /\ t.curStreamIdx = s.curStreamIdx
<1>1. PICK n \in 0 .. MostSends : t = [s EXCEPT !.credit = n]
  BY DEF Trying
<1>2. QED
  BY <1>1, Credited

\* What is left after the sends of a step is the same structure.
LEMMA Settles ==
    ASSUME NEW s, Sane(s)
    PROVE  /\ Sane(Settled(s)) /\ Settled(s).socket = s.socket /\ Settled(s).calls = s.calls
           /\ Settled(s).curStreamIdx = s.curStreamIdx
BY Credited DEF Settled

\* The messages on their way: some are read, some are added.
LEMMA Delivered ==
    ASSUME NEW q, IsSeq(q), Numbered(q), q # <<>>
    PROVE  /\ IsSeq(Tail(q)) /\ Numbered(Tail(q))
           /\ Head(q).kind = "_result" => Head(q).id \in Nat \ {0}
<1>1. PICK S : q \in Seq(S)
  BY DEF IsSeq
<1>2. Len(q) \in Nat /\ Len(q) # 0 /\ DOMAIN q = 1 .. Len(q)
  BY <1>1, EmptySeq, LenProperties
<1>3. /\ Tail(q) \in Seq(S) /\ Len(Tail(q)) = Len(q) - 1 /\ Head(q) = q[1]
      /\ \A i \in 1 .. Len(Tail(q)) : Tail(q)[i] = q[i + 1]
  BY <1>1, HeadTailProperties
<1>4. DOMAIN Tail(q) = 1 .. Len(q) - 1
  BY <1>3, LenProperties
<1>5. Numbered(Tail(q))
  BY <1>2, <1>3, <1>4 DEF Numbered
<1>6. QED
  BY <1>2, <1>3, <1>5 DEF Numbered, IsSeq

\* A message that the server adds keeps the numbers of the others.
LEMMA OneMoreTold ==
    ASSUME NEW q, IsSeq(q), Numbered(q), NEW m, m.kind = "_result" => m.id \in Nat \ {0}
    PROVE  IsSeq(q \o <<m>>) /\ Numbered(q \o <<m>>)
<1>1. PICK S : q \in Seq(S)
  BY DEF IsSeq
<1>2. q \in Seq(S \cup {m}) /\ <<m>> \in Seq(S \cup {m})
  BY <1>1, SeqMonotonic
<1>3. /\ q \o <<m>> \in Seq(S \cup {m}) /\ Len(q \o <<m>>) = Len(q) + Len(<<m>>)
      /\ \A i \in 1 .. Len(q) + Len(<<m>>) :
            (q \o <<m>>)[i] = IF i <= Len(q) THEN q[i] ELSE <<m>>[i - Len(q)]
  BY <1>2, ConcatProperties
<1>4. Len(<<m>>) = 1 /\ <<m>>[1] = m
  OBVIOUS
<1>5. Len(q) \in Nat /\ DOMAIN q = 1 .. Len(q) /\ DOMAIN (q \o <<m>>) = 1 .. Len(q) + 1
  BY <1>1, <1>3, <1>4, LenProperties
<1>6. ASSUME NEW i \in 1 .. Len(q) + 1
      PROVE  (q \o <<m>>)[i] = m \/ (i \in DOMAIN q /\ (q \o <<m>>)[i] = q[i])
  <2>1. CASE i <= Len(q)
    BY <1>3, <1>4, <1>5, <2>1
  <2>2. CASE i = Len(q) + 1
    BY <1>3, <1>4, <1>5, <2>2
  <2>3. QED
    BY <1>5, <1>6, <2>1, <2>2
<1>7. QED
  BY <1>3, <1>5, <1>6 DEF IsSeq, Numbered

\* RTMP_Init leaves a structure without a connection.
LEMMA SessionStarts == Init => SessionInv
<1>1. IsSeq(<<>>) /\ Len(<<>>) = 0 /\ DOMAIN <<>> = {}
  BY EmptySeq DEF IsSeq
<1>2. Numbered(<<>>) /\ ~ Says(<<>>, "publish")
  BY <1>1 DEF Numbered, Says
<1>3. Shaped(Fresh)
  BY <1>1 DEF Shaped, Fresh, Fields
<1>4. Fresh.socket = "closed" /\ Fresh.calls = <<>> /\ Fresh.sent = <<>>
  BY DEF Fresh
<1>5. Sane(Fresh)
  BY <1>2, <1>3, <1>4 DEF Sane, ClosedSane
<1>6. QED
  BY <1>1, <1>2, <1>4, <1>5 DEF Init, SessionInv

\* One fact for each action.
LEMMA SessionGoesOn == SessionInv /\ [Next]_vars => SessionInv'
<1> SUFFICES ASSUME SessionInv, [Next]_vars
             PROVE  SessionInv'
  OBVIOUS
<1>1. /\ Sane(rtmp) /\ Shaped(rtmp) /\ connection \in Nat
      /\ rtmp.socket = "open" => connection > 0
      /\ IsSeq(toClient) /\ Numbered(toClient)
  BY DEF SessionInv, Sane
<1>2. IsSeq(<<>>) /\ Numbered(<<>>) /\ (\A k : ~ Says(<<>>, k)) /\ (\A k : ~ Waits(<<>>, k))
  <2>1. DOMAIN <<>> = {} /\ IsSeq(<<>>)
    BY EmptySeq DEF IsSeq
  <2>2. QED
    BY <2>1 DEF Numbered, Says, Waits
<1>3. CASE TryConnect
  <2> DEFINE u == AddStream(SetupURL(Fresh))
  <2>1. /\ DOMAIN u = Fields /\ u.socket = "closed" /\ u.calls = <<>> /\ u.sent = <<>>
        /\ u.curStreamIdx = 0 /\ u.nStreams = 1 /\ u.id = -1
    BY DEF AddStream, SetupURL, Fresh, Fields, NoId
  <2>2. rtmp' = u /\ client' = "dialling" /\ toClient' = <<>> /\ connection' = connection
    BY <1>3 DEF TryConnect, NewServer
  <2> HIDE DEF u
  <2>3. Sane(u)
    BY <1>2, <2>1 DEF Sane, Shaped, ClosedSane
  <2>4. QED
    BY <1>1, <1>2, <2>1, <2>2, <2>3 DEF SessionInv
<1>4. CASE Dial
  <2> DEFINE u == [rtmp EXCEPT !.socket = "open", !.sent = <<>>, !.failedAt = Never]
  <2>1. /\ rtmp' = u /\ client' = "handshake" /\ toClient' = <<>>
        /\ connection' = connection + 1 /\ client = "dialling"
    BY <1>4 DEF Dial, NewServer
  <2>2. rtmp.calls = <<>> /\ rtmp.curStreamIdx = 0
    BY <2>1 DEF SessionInv
  <2>3. /\ DOMAIN u = Fields /\ u.socket = "open" /\ u.sent = <<>> /\ u.failedAt = Never
        /\ u.calls = <<>> /\ u.curStreamIdx = 0 /\ u.id = rtmp.id /\ u.nStreams = rtmp.nStreams
    BY <1>1, <2>2 DEF Shaped, Fields
  <2> HIDE DEF u
  <2>4. Shaped(u) /\ OpenSane(u)
    BY <1>1, <1>2, <2>3 DEF Shaped, OpenSane
  <2>5. QED
    BY <1>1, <1>2, <2>1, <2>3, <2>4 DEF SessionInv, Sane
<1>5. ASSUME NEW s, Sane(s), rtmp' = s, s.socket = "open" => rtmp.socket = "open", Proceed(s),
             connection' = connection, IsSeq(toClient'), Numbered(toClient')
      PROVE  SessionInv'
  <2>1. /\ client' \in {"starting", "idle", "reading"}
        /\ client' = "idle" => s.socket = "closed"
    BY <1>5 DEF Proceed
  <2>2. QED
    BY <1>1, <1>5, <2>1 DEF SessionInv
<1>6. CASE DialFails \/ HandShakeFails
  <2>1. rtmp' = Close(rtmp) /\ Proceed(rtmp') /\ connection' = connection /\ toClient' = toClient
    BY <1>6 DEF DialFails, HandShakeFails, serverVars
  <2>2. Sane(Close(rtmp)) /\ Close(rtmp).socket = "closed"
    BY <1>1, Closes
  <2>3. QED
    BY <1>1, <1>5, <2>1, <2>2
<1>7. CASE HandShake
  <2>1. PICK s \in Trying(rtmp) : rtmp' = Settled(SendConnectPacket(s))
    BY <1>7 DEF HandShake
  <2>2. Proceed(rtmp') /\ connection' = connection /\ toClient' = toClient /\ client = "handshake"
    BY <1>7 DEF HandShake, serverVars
  <2>3. rtmp.socket = "open" => rtmp.calls = <<>> /\ rtmp.curStreamIdx = 0
    BY <2>2 DEF SessionInv
  <2>4. Sane(SendConnectPacket(s))
    BY <1>1, <2>3, Tried, Connects
  <2>5. Sane(rtmp')
    BY <2>1, <2>4, Settles
  <2>6. rtmp.socket = "closed" => rtmp'.socket = "closed"
    <3>1. SUFFICES ASSUME rtmp.socket = "closed" PROVE rtmp'.socket = "closed"
      OBVIOUS
    <3>2. s.socket = "closed"
      BY <1>1, <3>1, Tried
    <3>3. Send(s, ChunkSize) = s
      BY <3>2 DEF Send, Put
    <3>4. SendConnectPacket(s) = s
      BY <3>2, <3>3 DEF SendConnectPacket
    <3>5. QED
      BY <2>1, <2>4, <3>2, <3>4, Settles
  <2>7. rtmp'.socket = "open" => rtmp.socket = "open"
    BY <1>1, <2>5, <2>6 DEF Sane
  <2>8. QED
    BY <1>1, <1>5, <2>2, <2>5, <2>7
<1>8. CASE Read
  <2> DEFINE m == Head(toClient)
  <2>1. toClient # <<>> /\ toClient' = Tail(toClient) /\ connection' = connection
    BY <1>8 DEF Read
  <2>2. /\ IsSeq(toClient') /\ Numbered(toClient')
        /\ m.kind = "_result" => m.id \in Nat \ {0}
    BY <1>1, <2>1, Delivered
  <2>3. PICK s \in Trying(rtmp) :
          IF Count(s).socket = "open" /\ LogsIn(Count(s), m)
          THEN rtmp' = Settled(ClientPacket(Count(s), m)) /\ client' = "dialling"
          ELSE /\ rtmp' = Settled(IF Count(s).socket = "open" THEN ClientPacket(Count(s), m)
                                  ELSE Count(s))
               /\ Proceed(rtmp')
    BY <1>8 DEF Read
  <2> DEFINE c == Count(s)
             h == ClientPacket(c, m)
  <2> HIDE DEF m
  <2>4. Sane(c) /\ (c.socket = "open" => rtmp.socket = "open")
    BY <1>1, Tried, Counts DEF Goes
  <2>5. c.socket = "open" =>
          /\ Sane(h)
          /\ LogsIn(c, m) => h.socket = "closed" /\ h.calls = <<>> /\ h.curStreamIdx = 0
    <3> HIDE DEF c
    <3>1. QED
      BY <2>2, <2>4, Heard
  <2>6. CASE c.socket = "open" /\ LogsIn(c, m)
    <3>1. rtmp' = Settled(h) /\ client' = "dialling"
      BY <2>3, <2>6
    <3> HIDE DEF c, h
    <3>2. /\ Sane(rtmp') /\ rtmp'.socket = "closed" /\ rtmp'.calls = <<>>
          /\ rtmp'.curStreamIdx = 0
      BY <2>5, <2>6, <3>1, Settles
    <3>3. QED
      BY <1>1, <2>1, <2>2, <3>1, <3>2 DEF SessionInv
  <2>7. CASE ~ (c.socket = "open" /\ LogsIn(c, m))
    <3> DEFINE r == IF c.socket = "open" THEN h ELSE c
    <3>1. rtmp' = Settled(r) /\ Proceed(rtmp')
      BY <2>3, <2>7
    <3>2. Sane(r) /\ (r.socket = "open" => rtmp.socket = "open")
      <4> HIDE DEF c, h
      <4>1. QED
        BY <2>4, <2>5
    <3> HIDE DEF r
    <3>3. Sane(rtmp') /\ (rtmp'.socket = "open" => rtmp.socket = "open")
      BY <3>1, <3>2, Settles
    <3>4. QED
      BY <1>5, <2>1, <2>2, <3>1, <3>3
  <2>8. QED
    BY <2>6, <2>7
<1>9. ASSUME NEW s \in Trying(rtmp)
      PROVE  /\ Sane(Settled(Close(s))) /\ Settled(Close(s)).socket = "closed"
  BY <1>1, <1>9, Tried, Closes, Settles
<1>10. CASE ReadEnds
  <2>1. PICK s \in Trying(rtmp) : rtmp' = Settled(Close(s))
    BY <1>10 DEF ReadEnds
  <2>2. Proceed(rtmp') /\ connection' = connection /\ toClient' = toClient
    BY <1>10 DEF ReadEnds, serverVars
  <2>3. QED
    BY <1>1, <1>5, <1>9, <2>1, <2>2
<1>11. CASE InitSendFails \/ EndStream
  <2>1. PICK s \in Trying(rtmp) : rtmp' = Settled(Close(s))
    BY <1>11 DEF InitSendFails, EndStream
  <2>2. client' = "idle" /\ connection' = connection /\ toClient' = toClient
    BY <1>11 DEF InitSendFails, EndStream, serverVars
  <2>3. QED
    BY <1>1, <1>9, <2>1, <2>2 DEF SessionInv
<1>12. CASE ReadTimesOut
  <2>1. /\ rtmp' = rtmp /\ connection' = connection /\ toClient' = toClient
        /\ (client' = client /\ client = "reading") \/ (client' = "idle" /\ silent' = TRUE)
    BY <1>12 DEF ReadTimesOut, serverVars
  <2>2. QED
    BY <1>1, <2>1 DEF SessionInv
<1>13. ASSUME NEW s, NEW m, Sane(s), s.socket = "open" => rtmp.socket = "open",
              m.kind # "publish", rtmp' = Settled(Send(s, m)),
              client' = IF Send(s, m).socket = "open" THEN "streaming" ELSE "idle",
              connection' = connection, IsSeq(toClient'), Numbered(toClient')
       PROVE  SessionInv'
  <2>1. Sane(Send(s, m)) /\ (Send(s, m).socket = "open" => rtmp.socket = "open")
    BY <1>13, Sends DEF Goes
  <2>2. Sane(rtmp') /\ rtmp'.socket = Send(s, m).socket
    BY <1>13, <2>1, Settles
  <2>3. QED
    BY <1>1, <1>13, <2>1, <2>2 DEF SessionInv
<1>14. \A kind, s : Media(kind, s).kind = kind
  BY DEF Media
<1>15. CASE InitSend
  <2>1. PICK s \in Trying(rtmp) :
          /\ rtmp' = Settled(Send(s, Media("metadata", s)))
          /\ client' = IF Send(s, Media("metadata", s)).socket = "open" THEN "streaming" ELSE "idle"
    BY <1>15 DEF InitSend
  <2>2. connection' = connection /\ toClient' = toClient
    BY <1>15 DEF InitSend, serverVars
  <2>3. Sane(s) /\ s.socket = rtmp.socket
    BY <1>1, Tried
  <2>4. QED
    BY <1>1, <1>13, <1>14, <2>1, <2>2, <2>3
<1>16. CASE SendMedia
  <2>1. PICK s \in Trying(rtmp) :
          LET read == IF toClient = <<>> THEN s ELSE Count(s)
              t == Send(read, Media("media", read))
          IN  /\ rtmp' = Settled(t)
              /\ client' = IF t.socket = "open" THEN "streaming" ELSE "idle"
    BY <1>16 DEF SendMedia
  <2> DEFINE read == IF toClient = <<>> THEN s ELSE Count(s)
  <2>2. /\ connection' = connection
        /\ toClient' = IF toClient = <<>> THEN <<>> ELSE Tail(toClient)
    BY <1>16 DEF SendMedia
  <2>3. Sane(read) /\ (read.socket = "open" => rtmp.socket = "open")
    BY <1>1, Tried, Counts DEF Goes
  <2>4. /\ rtmp' = Settled(Send(read, Media("media", read)))
        /\ client' = IF Send(read, Media("media", read)).socket = "open" THEN "streaming" ELSE "idle"
    BY <2>1
  <2> HIDE DEF read
  <2>5. IsSeq(toClient') /\ Numbered(toClient')
    BY <1>1, <1>2, <2>2, Delivered
  <2>6. QED
    BY <1>13, <1>14, <2>2, <2>3, <2>4, <2>5
<1>17. ASSUME UNCHANGED clientVars, IsSeq(toClient'), Numbered(toClient')
       PROVE  SessionInv'
  BY <1>17 DEF SessionInv, clientVars
<1>18. CASE ServerAnswer
  <2>1. rtmp.socket = "open" /\ UNCHANGED clientVars
    BY <1>18 DEF ServerAnswer
  <2>2. connection > 0
    BY <1>1, <2>1
  <2>3. \/ toClient' = toClient \/ Tell(<<>>)
        \/ \E m : Tell(<<Result(m)>>)
        \/ \E m, reason : Tell(<<Refusal(m, reason)>>)
        \/ \E code : Tell(<<Status(code)>>)
    BY <1>18 DEF ServerAnswer
  <2>4. /\ \A m : Result(m).kind = "_result" /\ Result(m).id = connection
        /\ \A m, reason : Refusal(m, reason).kind = "_error"
        /\ \A code : Status(code).kind = "onStatus"
    BY DEF Result, Refusal, Status
  <2>5. CASE toClient' = toClient \/ Tell(<<>>)
    <3>1. toClient \o <<>> = toClient
      BY <1>1, ConcatEmptySeq DEF IsSeq
    <3>2. QED
      BY <1>1, <1>17, <2>1, <2>5, <3>1 DEF Tell
  <2>6. CASE \E m : Tell(<<Result(m)>>)
    <3>1. PICK m : toClient' = toClient \o <<Result(m)>>
      BY <2>6 DEF Tell
    <3>2. Result(m).id \in Nat \ {0}
      BY <1>1, <2>2, <2>4
    <3>3. QED
      BY <1>1, <1>17, <2>1, <3>1, <3>2, OneMoreTold
  <2>7. CASE \E m, reason : Tell(<<Refusal(m, reason)>>)
    <3>1. PICK m, reason : toClient' = toClient \o <<Refusal(m, reason)>>
      BY <2>7 DEF Tell
    <3>2. QED
      BY <1>1, <1>17, <2>1, <2>4, <3>1, OneMoreTold
  <2>8. CASE \E code : Tell(<<Status(code)>>)
    <3>1. PICK code : toClient' = toClient \o <<Status(code)>>
      BY <2>8 DEF Tell
    <3>2. QED
      BY <1>1, <1>17, <2>1, <2>4, <3>1, OneMoreTold
  <2>9. QED
    BY <2>3, <2>5, <2>6, <2>7, <2>8
<1>19. CASE ServerSpeak
  <2>1. PICK m \in Unasked : toClient' = toClient \o <<m>>
    BY <1>19 DEF ServerSpeak, Tell
  <2>2. UNCHANGED clientVars
    BY <1>19 DEF ServerSpeak
  <2>3. m.kind # "_result"
    BY DEF Unasked, Status
  <2>4. QED
    BY <1>1, <1>17, <2>1, <2>2, <2>3, OneMoreTold
<1>20. CASE ServerCloses
  BY <1>1, <1>17, <1>20 DEF ServerCloses
<1>21. CASE UNCHANGED vars
  <2>1. UNCHANGED clientVars /\ toClient' = toClient
    BY <1>21 DEF vars, serverVars
  <2>2. QED
    BY <1>1, <1>17, <2>1
<1>22. QED
  BY <1>3, <1>4, <1>6, <1>7, <1>8, <1>10, <1>11, <1>12, <1>15, <1>16, <1>18, <1>19, <1>20,
     <1>21 DEF Next, ClientNext

\* Whatever the server does, the state of the session stays sane.
THEOREM SessionSane == Spec => []SessionInv
<1>1. Init => SessionInv
  BY SessionStarts
<1>2. SessionInv /\ [Next]_vars => SessionInv'
  BY SessionGoesOn
<1>3. QED
  BY <1>1, <1>2, PTL DEF Spec

\* A stream that was published is unpublished and deleted when its connection is closed in an
\* orderly way, and nothing is said after a send that failed (RTMP_Close, WriteN).
THEOREM FarewellSaid == Spec => []EndIsTold
<1>1. SessionInv => EndIsTold
  <2>1. \A kind : Said(kind) <=> Says(rtmp.sent, kind)
    BY DEF Said, Says
  <2>2. QED
    BY <2>1 DEF SessionInv, EndIsTold, Sane, ClosedSane, Told
<1>2. QED
  BY <1>1, SessionSane, PTL

\* An output at rest holds a socket only after an attempt that was given up in silence.
THEOREM NoOtherLeak == Spec => []OnlySilenceLeaks
<1>1. SessionInv => OnlySilenceLeaks
  BY DEF SessionInv, OnlySilenceLeaks
<1>2. QED
  BY <1>1, SessionSane, PTL

-----------------------------------------------------------------------------
(***************************************************************************)
(* The conversation.  Types of struct RTMP, and what has been said on its  *)
(* connection: v is the server, c the number of the connection.            *)
(***************************************************************************)

Kinds == FirstOf(10)
AllSaid(q) == {q[j].kind : j \in DOMAIN q} \cap Kinds
Follows(q) == \A i \in DOMAIN q : q[i].kind \in Kinds => SaidBefore(q, i) \in Preludes(q[i].kind)

\* An application that a connect may name: its response is the one the server expects.
AppFits(app, v) ==
    /\ app.stage # "freed"
    /\ app.stage = "answered" => app.response = Expected(v.challenge)

\* A message that is right whenever it comes, and a conversation
Fits(m, v, c) ==
    /\ m.kind = "connect" => AppFits(m.app, v)
    /\ m.kind \in {"publish", "metadata", "media", "deleteStream"} => m.stream = c /\ v.assigned = c
    /\ m.kind = "metadata" => v.accepted
Speech(q, v, c) == Follows(q) /\ \A i \in DOMAIN q : Fits(q[i], v, c)

\* Every command has a number of its own, and the connect names the application.
Commands == {"connect", "releaseStream", "FCPublish", "createStream", "publish", "_checkbw"}
Numbering(s) ==
    /\ \A i \in DOMAIN s.sent :
          /\ s.sent[i].kind \in Commands => s.sent[i].txn \in 1 .. s.invokes
          /\ s.sent[i].kind = "connect" => s.sent[i].app = s.app
    /\ \A i, j \in DOMAIN s.sent :
          s.sent[i].kind \in Commands /\ s.sent[j].kind \in Commands
          /\ s.sent[i].txn = s.sent[j].txn => i = j

AllFlags == {"NAME", "RESP", "ALLOC", "CLEAN", "CLATE"}
Stages == {"none", "plain", "named", "answered", "freed"}
Form(s) ==
    /\ Shaped(s) /\ s.invokes \in Nat
    /\ s.nStreams \in 0 .. 1 /\ s.curStreamIdx \in 0 .. 1 /\ s.unacked \in 0 .. Window
    /\ s.flags \subseteq AllFlags /\ s.app.stage \in Stages

\* What has been said stays said.
Extends(p, q) == \A i \in DOMAIN p : i \in DOMAIN q /\ q[i] = p[i]

\* What RTMP_Close leaves of s
Left(s, t) ==
    /\ Form(t) /\ t.socket = "closed" /\ t.calls = <<>> /\ t.id = NoId /\ t.invokes = 0
    /\ t.playing = FALSE /\ t.flags = s.flags
    /\ "CLEAN" \notin s.flags => t.app = s.app
    /\ t.curStreamIdx \in {0, s.curStreamIdx}
Ended(s, t, v, c) == Left(s, t) /\ Extends(s.sent, t.sent) /\ Speech(t.sent, v, c)

\* An open connection on which the kinds W have been said, and one that goes on from s
Talked(s, W, v, c) ==
    /\ Form(s) /\ s.socket = "open"
    /\ AllSaid(s.sent) = W /\ Speech(s.sent, v, c) /\ Numbering(s)
SameStream(s, t) ==
    /\ t.id = s.id /\ t.nStreams = s.nStreams /\ t.curStreamIdx = s.curStreamIdx
    /\ t.playing = s.playing /\ t.flags = s.flags /\ t.app = s.app
Stays(s, t, W, v, c) == SameStream(s, t) /\ Extends(s.sent, t.sent) /\ Talked(t, W, v, c)

-----------------------------------------------------------------------------
\* What has been said

\* The order of the conversation, written out.
LEMMA Orders ==
    /\ FirstOf(0) = {} /\ FirstOf(1) = {"chunkSize"} /\ FirstOf(2) = {"chunkSize", "connect"}
    /\ FirstOf(3) = FirstOf(2) \cup {"releaseStream"} /\ FirstOf(4) = FirstOf(3) \cup {"FCPublish"}
    /\ FirstOf(5) = FirstOf(4) \cup {"createStream"} /\ FirstOf(6) = FirstOf(5) \cup {"publish"}
    /\ FirstOf(7) = FirstOf(6) \cup {"metadata"} /\ FirstOf(8) = FirstOf(7) \cup {"media"}
    /\ Kinds = FirstOf(8) \cup {"FCUnpublish", "deleteStream"}
<1>1. /\ Order[1] = "chunkSize" /\ Order[2] = "connect" /\ Order[3] = "releaseStream"
      /\ Order[4] = "FCPublish" /\ Order[5] = "createStream" /\ Order[6] = "publish"
      /\ Order[7] = "metadata" /\ Order[8] = "media" /\ Order[9] = "FCUnpublish"
      /\ Order[10] = "deleteStream"
  BY DEF Order
<1>2. ASSUME NEW n \in Nat
      PROVE  FirstOf(n + 1) = FirstOf(n) \cup {Order[n + 1]}
  BY DEF FirstOf
<1>3. FirstOf(0) = {}
  BY DEF FirstOf
<1>4. /\ FirstOf(1) = FirstOf(0) \cup {Order[1]} /\ FirstOf(2) = FirstOf(1) \cup {Order[2]}
      /\ FirstOf(3) = FirstOf(2) \cup {Order[3]} /\ FirstOf(4) = FirstOf(3) \cup {Order[4]}
      /\ FirstOf(5) = FirstOf(4) \cup {Order[5]} /\ FirstOf(6) = FirstOf(5) \cup {Order[6]}
      /\ FirstOf(7) = FirstOf(6) \cup {Order[7]} /\ FirstOf(8) = FirstOf(7) \cup {Order[8]}
      /\ FirstOf(9) = FirstOf(8) \cup {Order[9]} /\ FirstOf(10) = FirstOf(9) \cup {Order[10]}
  <2>1. \A n \in 0 .. 9 : FirstOf(n + 1) = FirstOf(n) \cup {Order[n + 1]}
    BY <1>2
  <2>2. /\ FirstOf(0 + 1) = FirstOf(0) \cup {Order[0 + 1]}
        /\ FirstOf(1 + 1) = FirstOf(1) \cup {Order[1 + 1]}
        /\ FirstOf(2 + 1) = FirstOf(2) \cup {Order[2 + 1]}
        /\ FirstOf(3 + 1) = FirstOf(3) \cup {Order[3 + 1]}
        /\ FirstOf(4 + 1) = FirstOf(4) \cup {Order[4 + 1]}
        /\ FirstOf(5 + 1) = FirstOf(5) \cup {Order[5 + 1]}
        /\ FirstOf(6 + 1) = FirstOf(6) \cup {Order[6 + 1]}
        /\ FirstOf(7 + 1) = FirstOf(7) \cup {Order[7 + 1]}
        /\ FirstOf(8 + 1) = FirstOf(8) \cup {Order[8 + 1]}
        /\ FirstOf(9 + 1) = FirstOf(9) \cup {Order[9 + 1]}
    BY <2>1
  <2>3. QED
    BY <2>2
<1>5. QED
  BY <1>1, <1>3, <1>4 DEF Kinds

\* What may come when.
LEMMA Openings ==
    /\ FirstOf(0) \in Preludes("chunkSize") /\ FirstOf(1) \in Preludes("connect")
    /\ FirstOf(2) \in Preludes("releaseStream") /\ FirstOf(3) \in Preludes("FCPublish")
    /\ FirstOf(4) \in Preludes("createStream") /\ FirstOf(5) \in Preludes("publish")
    /\ FirstOf(6) \in Preludes("metadata")
    /\ FirstOf(7) \in Preludes("media") /\ FirstOf(8) \in Preludes("media")
    /\ \A n \in 6 .. 8 : /\ FirstOf(n) \in Preludes("FCUnpublish")
                         /\ FirstOf(n) \cup {"FCUnpublish"} \in Preludes("deleteStream")
<1>1. ASSUME NEW n \in 1 .. 7
      PROVE  FirstOf(n - 1) \in Preludes(Order[n])
  <2>1. Order[n] \notin {"media", "FCUnpublish", "deleteStream"}
    BY DEF Order
  <2>2. Preludes(Order[n]) = {FirstOf(k - 1) : k \in {j \in 1 .. 7 : Order[j] = Order[n]}}
    BY <2>1 DEF Preludes
  <2>3. n \in {j \in 1 .. 7 : Order[j] = Order[n]}
    OBVIOUS
  <2>4. QED
    BY <2>2, <2>3
<1>2. /\ FirstOf(1 - 1) \in Preludes(Order[1]) /\ FirstOf(2 - 1) \in Preludes(Order[2])
      /\ FirstOf(3 - 1) \in Preludes(Order[3]) /\ FirstOf(4 - 1) \in Preludes(Order[4])
      /\ FirstOf(5 - 1) \in Preludes(Order[5]) /\ FirstOf(6 - 1) \in Preludes(Order[6])
      /\ FirstOf(7 - 1) \in Preludes(Order[7])
  BY <1>1
<1>3. /\ FirstOf(0) \in Preludes(Order[1]) /\ FirstOf(1) \in Preludes(Order[2])
      /\ FirstOf(2) \in Preludes(Order[3]) /\ FirstOf(3) \in Preludes(Order[4])
      /\ FirstOf(4) \in Preludes(Order[5]) /\ FirstOf(5) \in Preludes(Order[6])
      /\ FirstOf(6) \in Preludes(Order[7])
  BY <1>2
<1>4. /\ FirstOf(7) \in Preludes("media") /\ FirstOf(8) \in Preludes("media")
      /\ \A n \in 6 .. 8 : /\ FirstOf(n) \in Preludes("FCUnpublish")
                           /\ FirstOf(n) \cup {"FCUnpublish"} \in Preludes("deleteStream")
  BY DEF Preludes
<1>5. /\ Order[1] = "chunkSize" /\ Order[2] = "connect" /\ Order[3] = "releaseStream"
      /\ Order[4] = "FCPublish" /\ Order[5] = "createStream" /\ Order[6] = "publish"
      /\ Order[7] = "metadata"
  BY DEF Order
<1>6. QED
  BY <1>3, <1>4, <1>5

\* The connect and the request for a stream come once.
LEMMA ConnectOnce ==
    ASSUME NEW q, IsSeq(q), Follows(q), NEW i \in DOMAIN q, NEW j \in DOMAIN q,
           q[i].kind = "connect", q[j].kind = "connect"
    PROVE  i = j
<1>1. DOMAIN q \subseteq Nat
  BY LenProperties DEF IsSeq
<1>2. "connect" \in Kinds /\ FirstOf(1) = {"chunkSize"}
  BY Orders
<1>3. ASSUME NEW k \in DOMAIN q, NEW l \in DOMAIN q, k < l, q[k].kind = "connect",
             q[l].kind = "connect"
      PROVE  FALSE
  <2>1. SaidBefore(q, l) \in Preludes("connect")
    BY <1>2, <1>3 DEF Follows
  <2>2. "connect" \in SaidBefore(q, l)
    <3>1. k \in 1 .. l - 1
      <4>1. k \in 1 .. Len(q) /\ l \in 1 .. Len(q) /\ Len(q) \in Nat
        BY LenProperties DEF IsSeq
      <4>2. QED
        BY <1>3, <4>1
    <3>2. QED
      BY <1>2, <1>3, <3>1 DEF SaidBefore, Kinds
  <2>3. Preludes("connect") = {FirstOf(1)}
    <3>1. Preludes("connect") = {FirstOf(n - 1) : n \in {k_1 \in 1 .. 7 : Order[k_1] = "connect"}}
      BY DEF Preludes
    <3>2. {k_1 \in 1 .. 7 : Order[k_1] = "connect"} = {2}
      BY DEF Order
    <3>3. QED
      BY <3>1, <3>2
  <2>4. QED
    BY <1>2, <2>1, <2>2, <2>3
<1>4. i \in Nat /\ j \in Nat
  BY <1>1
<1>5. QED
  BY <1>3, <1>4

\* Where a message is that is added.
LEMMA AppendedAt ==
    ASSUME NEW q, NEW m, IsSeq(q)
    PROVE  /\ \A i \in DOMAIN Append(q, m) :
                 (Append(q, m)[i] = m /\ i = Len(q) + 1) \/ (i \in DOMAIN q /\ Append(q, m)[i] = q[i])
           /\ Len(q) + 1 \in DOMAIN Append(q, m) /\ Append(q, m)[Len(q) + 1] = m
           /\ \A i \in DOMAIN q : i \in DOMAIN Append(q, m) /\ Append(q, m)[i] = q[i]
<1>1. PICK S : q \in Seq(S)
  BY DEF IsSeq
<1>2. q \in Seq(S \cup {m}) /\ m \in S \cup {m}
  BY <1>1, SeqMonotonic
<1>3. /\ Len(q) \in Nat /\ DOMAIN q = 1 .. Len(q) /\ DOMAIN Append(q, m) = 1 .. Len(q) + 1
      /\ Append(q, m)[Len(q) + 1] = m /\ \A i \in 1 .. Len(q) : Append(q, m)[i] = q[i]
  BY <1>2, AppendProperties, LenProperties
<1>4. /\ \A i \in 1 .. Len(q) + 1 : i \in 1 .. Len(q) \/ i = Len(q) + 1
      /\ \A i \in 1 .. Len(q) : i \in 1 .. Len(q) + 1
      /\ Len(q) + 1 \in 1 .. Len(q) + 1
  BY <1>3
<1> DEFINE r == Append(q, m)
           k == Len(q) + 1
<1>5. DOMAIN q = 1 .. Len(q) /\ DOMAIN r = 1 .. k /\ r[k] = m /\ \A i \in 1 .. Len(q) : r[i] = q[i]
  BY <1>3
<1> HIDE DEF r
<1>6. ASSUME NEW i \in DOMAIN r
      PROVE  (r[i] = m /\ i = k) \/ (i \in DOMAIN q /\ r[i] = q[i])
  <2>1. CASE i = k
    BY <1>5, <2>1
  <2>2. CASE i \in 1 .. Len(q)
    BY <1>5, <2>2
  <2>3. QED
    BY <1>4, <1>5, <2>1, <2>2
<1>7. k \in DOMAIN r /\ \A i \in DOMAIN q : i \in DOMAIN r /\ r[i] = q[i]
  BY <1>4, <1>5
<1>8. QED
  BY <1>5, <1>6, <1>7 DEF r

\* A message that may come, and is right, continues a conversation.
LEMMA SpeechGrows ==
    ASSUME NEW q, IsSeq(q), NEW v, NEW c, Speech(q, v, c), NEW m, Fits(m, v, c),
           m.kind \in Kinds => AllSaid(q) \in Preludes(m.kind)
    PROVE  /\ Speech(Append(q, m), v, c) /\ Extends(q, Append(q, m))
           /\ AllSaid(Append(q, m)) = AllSaid(q) \cup ({m.kind} \cap Kinds)
<1> DEFINE r == Append(q, m)
           n == Len(q)
<1>1. n \in Nat /\ DOMAIN q = 1 .. n
  BY LenProperties DEF IsSeq
<1>2. /\ \A i \in DOMAIN r : (r[i] = m /\ i = n + 1) \/ (i \in DOMAIN q /\ r[i] = q[i])
      /\ n + 1 \in DOMAIN r /\ r[n + 1] = m
      /\ \A i \in DOMAIN q : i \in DOMAIN r /\ r[i] = q[i]
  BY AppendedAt
<1> HIDE DEF n, r
<1>4. Extends(q, r)
  BY <1>2 DEF Extends
<1>5. AllSaid(r) = AllSaid(q) \cup ({m.kind} \cap Kinds)
  <2>1. ASSUME NEW k
        PROVE  k \in {r[j].kind : j \in DOMAIN r} <=> k \in {q[j].kind : j \in DOMAIN q} \cup {m.kind}
    BY <1>2
  <2>2. QED
    BY <2>1 DEF AllSaid
<1>6. \A i \in 1 .. n : SaidBefore(r, i) = SaidBefore(q, i)
  <2>1. \A i \in 1 .. n : \A j \in 1 .. i - 1 : j \in 1 .. n
    BY <1>1
  <2>2. QED
    BY <1>1, <1>2, <2>1 DEF SaidBefore
<1>7. SaidBefore(r, n + 1) = AllSaid(q)
  <2>1. (n + 1) - 1 = n
    BY <1>1
  <2>2. QED
    BY <1>1, <1>2, <2>1 DEF SaidBefore, AllSaid, Kinds
<1>8. Follows(r)
  BY <1>1, <1>2, <1>6, <1>7 DEF Follows, Speech
<1>9. \A i \in DOMAIN r : Fits(r[i], v, c)
  BY <1>2 DEF Speech
<1>10. QED
  BY <1>4, <1>5, <1>8, <1>9 DEF Speech, r

-----------------------------------------------------------------------------
\* Sending and closing

\* What has been said stays said through several steps.
LEMMA ExtendsOn ==
    ASSUME NEW p, NEW q, NEW r, Extends(p, q), Extends(q, r)
    PROVE  Extends(p, r)
BY DEF Extends

\* RTMP_Close forgets the connection; an application that a login made up is freed with it only
\* when it is to be cleaned up.
LEMMA Leaves ==
    ASSUME NEW s, NEW t, Form(t), t.flags = s.flags, "CLEAN" \notin s.flags => t.app = s.app,
           t.curStreamIdx \in {0, s.curStreamIdx}
    PROVE  Left(s, Forget(t)) /\ Forget(t).sent = t.sent
<1>1. Shaped(t)
  BY DEF Form
<1>2. Shaped(Forget(t)) /\ Forget(t).socket = "closed" /\ Forget(t).calls = <<>>
      /\ Forget(t).sent = t.sent /\ Forget(t).playing = FALSE
      /\ Forget(t).curStreamIdx \in {0, t.curStreamIdx}
  BY <1>1, Forgotten
<1>3. Forget(t).id = NoId /\ Forget(t).invokes = 0 /\ Forget(t).unacked = 0
  BY <1>1 DEF Shaped, Forget, Fields
<1>4. Forget(t).flags = t.flags /\ Forget(t).nStreams \in {0, t.nStreams}
  BY <1>1 DEF Shaped, Forget, Fields
<1>5. Forget(t).app = IF "CLEAN" \in t.flags /\ "ALLOC" \in t.flags THEN App("freed") ELSE t.app
  BY <1>1 DEF Shaped, Forget, Fields
<1>6. App("freed").stage = "freed"
  BY DEF App
<1>7. Window \in Nat /\ 0 \in 0 .. Window
  BY ConstantsAssumption
<1>8. Forget(t).app.stage \in Stages
  BY <1>5, <1>6 DEF Form, Stages
<1>9. Form(Forget(t))
  <2>1. /\ Forget(t).nStreams \in 0 .. 1 /\ Forget(t).curStreamIdx \in 0 .. 1
        /\ Forget(t).unacked \in 0 .. Window /\ Forget(t).flags \subseteq AllFlags
        /\ Forget(t).invokes \in Nat
    BY <1>2, <1>3, <1>4, <1>7 DEF Form
  <2>2. QED
    BY <1>2, <1>8, <2>1 DEF Form
<1>10. "CLEAN" \notin s.flags => Forget(t).app = s.app
  BY <1>5
<1>11. QED
  BY <1>2, <1>3, <1>4, <1>9, <1>10 DEF Left

\* WriteN on an error leaves what RTMP_Close leaves, and says nothing.
LEMMA AbortLeaves ==
    ASSUME NEW s, Form(s)
    PROVE  Left(s, Abort(s)) /\ Abort(s).sent = s.sent
<1> DEFINE a == [s EXCEPT !.socket = "shut", !.failedAt = Len(s.sent)]
           b == [a EXCEPT !.id = 0]
<1>1. Form(a) /\ a.socket = "shut" /\ a.sent = s.sent /\ a.flags = s.flags /\ a.app = s.app
      /\ a.curStreamIdx = s.curStreamIdx
  BY DEF Form, Shaped, Fields
<1>2. Form(b) /\ b.socket = "shut" /\ b.sent = s.sent /\ b.flags = s.flags /\ b.app = s.app
      /\ b.curStreamIdx = s.curStreamIdx
  BY <1>1 DEF Form, Shaped, Fields
<1>3. Abort(s) = Forget(a) \/ Abort(s) = Forget(Put(Put(b, FCUnpublish), DeleteStream(a.id)))
  BY DEF Abort, CloseSaying
<1> HIDE DEF a, b
<1>4. \A m : Put(b, m) = b
  BY <1>2 DEF Put
<1>5. Abort(s) = Forget(a) \/ Abort(s) = Forget(b)
  BY <1>3, <1>4
<1>6. QED
  BY <1>1, <1>2, <1>5, Leaves

\* Nothing is sent on a connection that is closed.
LEMMA ClosedSilent ==
    ASSUME NEW s, NEW m, s.socket = "closed"
    PROVE  Send(s, m) = s /\ Invoke(s, m) = s /\ InvokeQueued(s, m) = s
<1>1. \A n : Send(s, n) = s
  BY DEF Send, Put
<1>2. Invoke(s, m) = s
  BY <1>1 DEF Invoke
<1>3. QED
  BY <1>1, <1>2 DEF InvokeQueued

\* Only these fields say what has been talked about.
LEMMA TalkedKept ==
    ASSUME NEW s, NEW t, NEW W, NEW v, NEW c, Talked(s, W, v, c), Shaped(t),
           t.socket = s.socket, t.sent = s.sent, t.invokes = s.invokes, t.unacked \in 0 .. Window,
           t.nStreams = s.nStreams, t.curStreamIdx = s.curStreamIdx, t.flags = s.flags,
           t.app = s.app
    PROVE  Talked(t, W, v, c)
BY DEF Talked, Form, Numbering

\* An end that follows other steps of the connection is an end of it.
LEMMA EndsOn ==
    ASSUME NEW s, NEW t, NEW u, NEW W, NEW v, NEW c, Stays(s, t, W, v, c), Ended(t, u, v, c)
    PROVE  Ended(s, u, v, c)
BY ExtendsOn DEF Stays, SameStream, Ended, Left

\* One connection through several steps
LEMMA StaysOn ==
    ASSUME NEW s, NEW t, NEW u, NEW W, NEW X, NEW v, NEW c,
           Stays(s, t, W, v, c), Stays(t, u, X, v, c)
    PROVE  Stays(s, u, X, v, c)
BY ExtendsOn DEF Stays, SameStream

\* A send that fails ends the connection.
LEMMA SendOutcome ==
    ASSUME NEW s, NEW W, NEW v, NEW c, Talked(s, W, v, c), NEW m
    PROVE  \/ Ended(s, Send(s, m), v, c)
           \/ /\ Shaped(Send(s, m)) /\ Send(s, m).sent = Append(s.sent, m)
              /\ \A f \in Fields \ {"sent", "credit"} : Send(s, m)[f] = s[f]
<1>1. Form(s) /\ Shaped(s) /\ s.socket = "open"
  BY DEF Talked, Form
<1>2. CASE s.credit = 0
  <2>1. Send(s, m) = Abort(s)
    BY <1>1, <1>2 DEF Send
  <2>2. Left(s, Abort(s)) /\ Abort(s).sent = s.sent
    BY <1>1, AbortLeaves
  <2>3. Extends(s.sent, s.sent) /\ Speech(s.sent, v, c)
    BY DEF Extends, Talked
  <2>4. QED
    BY <2>1, <2>2, <2>3 DEF Ended
<1>3. CASE s.credit # 0
  <2>1. Send(s, m) = Put(s, m)
    BY <1>3 DEF Send
  <2>2. QED
    BY <1>1, <2>1, PutAdds
<1>4. QED
  BY <1>2, <1>3

\* A message that is no command continues the conversation, unless its send fails.
LEMMA SendGrows ==
    ASSUME NEW s, NEW W, NEW v, NEW c, Talked(s, W, v, c),
           NEW m, Fits(m, v, c), m.kind \notin Commands, m.kind \in Kinds => W \in Preludes(m.kind)
    PROVE  \/ Ended(s, Send(s, m), v, c)
           \/ /\ Stays(s, Send(s, m), W \cup ({m.kind} \cap Kinds), v, c)
              /\ Send(s, m).calls = s.calls
<1> DEFINE t == Send(s, m)
<1>1. SUFFICES ASSUME Shaped(t), t.sent = Append(s.sent, m),
                      \A f \in Fields \ {"sent", "credit"} : t[f] = s[f]
               PROVE  Stays(s, t, W \cup ({m.kind} \cap Kinds), v, c) /\ t.calls = s.calls
  BY SendOutcome
<1> HIDE DEF t
<1>2. /\ t.socket = s.socket /\ t.invokes = s.invokes /\ t.unacked = s.unacked
      /\ t.nStreams = s.nStreams /\ t.curStreamIdx = s.curStreamIdx /\ t.flags = s.flags
      /\ t.app = s.app /\ t.id = s.id /\ t.playing = s.playing /\ t.calls = s.calls
  BY <1>1 DEF Fields
<1>3. Form(s) /\ s.socket = "open" /\ Speech(s.sent, v, c) /\ Numbering(s) /\ AllSaid(s.sent) = W
      /\ IsSeq(s.sent)
  BY DEF Talked, Form, Shaped
<1>4. /\ Speech(t.sent, v, c) /\ Extends(s.sent, t.sent)
      /\ AllSaid(t.sent) = W \cup ({m.kind} \cap Kinds)
  BY <1>1, <1>3, SpeechGrows
<1>5. Numbering(t)
  <2>1. \A i \in DOMAIN t.sent : t.sent[i] = m \/ (i \in DOMAIN s.sent /\ t.sent[i] = s.sent[i])
    BY <1>1, <1>3, AppendedAt
  <2>2. "connect" \in Commands
    BY DEF Commands
  <2>3. QED
    BY <1>2, <1>3, <2>1, <2>2 DEF Numbering
<1>6. Form(t)
  BY <1>1, <1>2, <1>3 DEF Form
<1>7. QED
  BY <1>2, <1>3, <1>4, <1>5, <1>6 DEF Stays, SameStream, Talked

\* A command has been sent under this number.
SentAs(s, kind, txn) == \E i \in DOMAIN s.sent : s.sent[i].kind = kind /\ s.sent[i].txn = txn

\* A command that continues the conversation
MayInvoke(s, m, W, v, c) ==
    /\ Fits(m, v, c) /\ m.kind \in Commands /\ (m.kind \in Kinds => W \in Preludes(m.kind))
    /\ {"kind", "txn"} \subseteq DOMAIN m
    /\ m.kind = "connect" => "app" \in DOMAIN m /\ m.app = s.app
    /\ m.kind = "publish" => "stream" \in DOMAIN m

\* A command takes the next number, which no other has.
LEMMA InvokeGrows ==
    ASSUME NEW s, NEW W, NEW v, NEW c, Talked(s, W, v, c),
           NEW m, MayInvoke(s, m, W, v, c)
    PROVE  \/ Ended(s, Invoke(s, m), v, c)
           \/ /\ Stays(s, Invoke(s, m), W \cup ({m.kind} \cap Kinds), v, c)
              /\ Invoke(s, m).calls = s.calls
              /\ SentAs(Invoke(s, m), m.kind, Invoke(s, m).invokes)
<1> DEFINE n == [m EXCEPT !.txn = s.invokes + 1]
           t == Send(s, n)
           u == [t EXCEPT !.invokes = @ + 1]
<1>1. /\ n.kind = m.kind /\ n.txn = s.invokes + 1
      /\ m.kind = "connect" => n.app = s.app /\ n.app = m.app
      /\ m.kind = "publish" => n.stream = m.stream
  BY DEF MayInvoke
<1>2. /\ Fits(n, v, c)
      /\ m.kind \in Commands /\ (m.kind \in Kinds => W \in Preludes(m.kind))
  BY <1>1 DEF Fits, Commands, MayInvoke
<1>3. Invoke(s, m) = IF t.socket = "open" THEN u ELSE t
  BY DEF Invoke
<1>4. u = [t EXCEPT !.invokes = @ + 1] /\ t = Send(s, n)
  OBVIOUS
<1> HIDE DEF n, t, u
<1>5. CASE Ended(s, t, v, c)
  BY <1>3, <1>5 DEF Ended, Left
<1>6. CASE Shaped(t) /\ t.sent = Append(s.sent, n)
           /\ \A f \in Fields \ {"sent", "credit"} : t[f] = s[f]
  <2>1. /\ t.socket = s.socket /\ t.invokes = s.invokes /\ t.unacked = s.unacked
        /\ t.nStreams = s.nStreams /\ t.curStreamIdx = s.curStreamIdx /\ t.flags = s.flags
        /\ t.app = s.app /\ t.id = s.id /\ t.playing = s.playing /\ t.calls = s.calls
    BY <1>6 DEF Fields
  <2>2. Form(s) /\ s.socket = "open" /\ Speech(s.sent, v, c) /\ Numbering(s) /\ AllSaid(s.sent) = W
        /\ IsSeq(s.sent) /\ s.invokes \in Nat
    BY DEF Talked, Form, Shaped
  <2>3. /\ Shaped(u) /\ u.socket = s.socket /\ u.invokes = s.invokes + 1 /\ u.unacked = s.unacked
        /\ u.nStreams = s.nStreams /\ u.curStreamIdx = s.curStreamIdx /\ u.flags = s.flags
        /\ u.app = s.app /\ u.id = s.id /\ u.playing = s.playing /\ u.calls = s.calls
        /\ u.sent = Append(s.sent, n)
    BY <1>4, <1>6, <2>1 DEF Shaped, Fields
  <2>4. Form(u)
    BY <2>2, <2>3 DEF Form
  <2>5. /\ Speech(u.sent, v, c) /\ Extends(s.sent, u.sent)
        /\ AllSaid(u.sent) = W \cup ({m.kind} \cap Kinds)
    BY <1>1, <1>2, <2>2, <2>3, SpeechGrows
  <2>6. /\ \A i \in DOMAIN u.sent : \/ u.sent[i] = n /\ i = Len(s.sent) + 1
                                    \/ i \in DOMAIN s.sent /\ u.sent[i] = s.sent[i]
        /\ Len(s.sent) + 1 \in DOMAIN u.sent /\ u.sent[Len(s.sent) + 1] = n
    BY <2>2, <2>3, AppendedAt
  <2>7. Numbering(u)
    <3>1. \A k \in 1 .. s.invokes : k \in 1 .. u.invokes /\ k # u.invokes
      BY <2>2, <2>3
    <3>2. u.invokes \in 1 .. u.invokes /\ n.txn = u.invokes
      BY <1>1, <2>2, <2>3
    <3>3. ASSUME NEW i \in DOMAIN u.sent
          PROVE  /\ u.sent[i].kind \in Commands => u.sent[i].txn \in 1 .. u.invokes
                 /\ u.sent[i].kind = "connect" => u.sent[i].app = u.app
      BY <1>1, <2>2, <2>3, <2>6, <3>1, <3>2 DEF Numbering
    <3>4. ASSUME NEW i \in DOMAIN u.sent, NEW j \in DOMAIN u.sent,
                 u.sent[i].kind \in Commands, u.sent[j].kind \in Commands,
                 u.sent[i].txn = u.sent[j].txn
          PROVE  i = j
      <4>1. CASE i \in DOMAIN s.sent /\ u.sent[i] = s.sent[i] /\ j \in DOMAIN s.sent
                 /\ u.sent[j] = s.sent[j]
        BY <2>2, <3>4, <4>1 DEF Numbering
      <4>2. CASE i \in DOMAIN s.sent /\ u.sent[i] = s.sent[i] /\ u.sent[j] = n
        <5>1. s.sent[i].txn \in 1 .. s.invokes
          BY <2>2, <3>4, <4>2 DEF Numbering
        <5>2. QED
          BY <3>1, <3>2, <3>4, <4>2, <5>1
      <4>3. CASE j \in DOMAIN s.sent /\ u.sent[j] = s.sent[j] /\ u.sent[i] = n
        <5>1. s.sent[j].txn \in 1 .. s.invokes
          BY <2>2, <3>4, <4>3 DEF Numbering
        <5>2. QED
          BY <3>1, <3>2, <3>4, <4>3, <5>1
      <4>4. QED
        BY <2>6, <3>4, <4>1, <4>2, <4>3
    <3>5. QED
      BY <3>3, <3>4 DEF Numbering
  <2>8. Stays(s, u, W \cup ({m.kind} \cap Kinds), v, c)
    BY <2>2, <2>3, <2>4, <2>5, <2>7 DEF Stays, SameStream, Talked
  <2>9. Invoke(s, m) = u
    BY <1>3, <2>1, <2>2
  <2>10. u.sent[Len(s.sent) + 1].kind = m.kind /\ u.sent[Len(s.sent) + 1].txn = u.invokes
    BY <1>1, <2>3, <2>6
  <2>11. SentAs(u, m.kind, u.invokes)
    BY <2>6, <2>10 DEF SentAs
  <2>12. QED
    BY <2>3, <2>8, <2>9, <2>11
<1>7. QED
  BY <1>4, <1>5, <1>6, SendOutcome

\* The client waits for the answer to a command that it has sent.
Waiting(s, name) ==
    \E txn : s.calls = <<[name |-> name, txn |-> txn]>> /\ SentAs(s, name, txn)

\* Before its stream has a number, and after
NoStream(s) == s.id = NoId /\ s.curStreamIdx = 0
HasStream(s, v, c) == s.id = c /\ v.assigned = c /\ s.nStreams = 1 /\ s.curStreamIdx = 1

\* A connection on which the first n kinds have been said
Opened(s, n, v, c) ==
    Talked(s, FirstOf(n), v, c) /\ IF n >= 6 THEN HasStream(s, v, c) ELSE NoStream(s)

\* A command whose answer is awaited: the client waits for nothing else.
LEMMA QueueGrows ==
    ASSUME NEW s, NEW W, NEW v, NEW c, Talked(s, W, v, c), s.calls = <<>>,
           NEW m, MayInvoke(s, m, W, v, c)
    PROVE  \/ Ended(s, InvokeQueued(s, m), v, c)
           \/ /\ Stays(s, InvokeQueued(s, m), W \cup ({m.kind} \cap Kinds), v, c)
              /\ Waiting(InvokeQueued(s, m), m.kind)
<1> DEFINE t == Invoke(s, m)
           call == [name |-> m.kind, txn |-> t.invokes]
           u == [t EXCEPT !.calls = Append(@, call)]
           X == W \cup ({m.kind} \cap Kinds)
<1>1. \/ Ended(s, t, v, c)
      \/ /\ Stays(s, t, X, v, c) /\ t.calls = s.calls
         /\ SentAs(t, m.kind, t.invokes)
  BY InvokeGrows
<1>2. InvokeQueued(s, m) = IF t.socket = "open" THEN u ELSE t
  BY DEF InvokeQueued
<1>3. u = [t EXCEPT !.calls = Append(@, call)]
  OBVIOUS
<1>4. CASE Ended(s, t, v, c)
  <2>1. t.socket = "closed"
    BY <1>4 DEF Ended, Left
  <2>2. QED
    BY <1>2, <1>4, <2>1
<1>5. ASSUME Stays(s, t, X, v, c), t.calls = s.calls,
             SentAs(t, m.kind, t.invokes)
      PROVE  Stays(s, u, X, v, c) /\ Waiting(u, m.kind) /\ t.socket = "open"
  <2>1. call.name = m.kind /\ call = [name |-> m.kind, txn |-> t.invokes]
    OBVIOUS
  <2> HIDE DEF t, u, call, X
  <2>2. Talked(t, X, v, c) /\ Shaped(t) /\ t.socket = "open" /\ t.calls = <<>>
    BY <1>5 DEF Stays, Talked, Form
  <2>3. u.calls = <<call>> /\ IsSeq(u.calls)
    <3>1. u.calls = Append(t.calls, call)
      BY <1>3, <2>2 DEF Shaped, Fields
    <3>2. IsSeq(Append(t.calls, call))
      BY <2>2, Appended DEF Shaped
    <3>3. Append(<<>>, call) = <<call>>
      OBVIOUS
    <3>4. QED
      BY <2>2, <3>1, <3>2, <3>3
  <2>4. /\ u.socket = t.socket /\ u.sent = t.sent /\ u.invokes = t.invokes
        /\ u.unacked = t.unacked /\ u.nStreams = t.nStreams /\ u.curStreamIdx = t.curStreamIdx
        /\ u.flags = t.flags /\ u.app = t.app /\ u.id = t.id /\ u.playing = t.playing
    BY <1>3, <2>2 DEF Shaped, Fields
  <2>5. Shaped(u)
    BY <1>3, <2>2, <2>3, <2>4 DEF Shaped, Fields
  <2>6. Talked(u, X, v, c)
    <3>1. u.unacked \in 0 .. Window
      BY <2>2, <2>4 DEF Talked, Form
    <3>2. QED
      BY <2>2, <2>4, <2>5, <3>1, TalkedKept
  <2>7. Stays(s, u, X, v, c)
    BY <1>5, <2>4, <2>6 DEF Stays, SameStream
  <2>8. Waiting(u, m.kind)
    BY <1>5, <2>1, <2>3, <2>4 DEF Waiting, SentAs
  <2>9. QED
    BY <2>2, <2>7, <2>8
<1>6. QED
  <2> HIDE DEF t, u, X
  <2>1. CASE Stays(s, t, X, v, c) /\ t.calls = s.calls /\ SentAs(t, m.kind, t.invokes)
    BY <1>2, <1>5, <2>1 DEF X
  <2>2. QED
    BY <1>1, <1>4, <2>1 DEF t

\* A message outside the conversation leaves it where it is.
LEMMA Mentions ==
    ASSUME NEW s, NEW W, NEW v, NEW c, Talked(s, W, v, c),
           NEW m, m.kind \notin Kinds \cup Commands
    PROVE  \/ Ended(s, Send(s, m), v, c)
           \/ Stays(s, Send(s, m), W, v, c) /\ Send(s, m).calls = s.calls
<1>1. Fits(m, v, c)
  BY Orders DEF Fits
<1>2. W \cup ({m.kind} \cap Kinds) = W
  OBVIOUS
<1>3. QED
  BY <1>1, <1>2, SendGrows

\* Nothing changes.
LEMMA StaysSame ==
    ASSUME NEW s, NEW W, NEW v, NEW c, Talked(s, W, v, c)
    PROVE  Stays(s, s, W, v, c)
BY DEF Stays, SameStream, Extends

\* ReadN: what has been read is counted, and acknowledged.
LEMMA CountGoesOn ==
    ASSUME NEW s, NEW W, NEW v, NEW c, Talked(s, W, v, c)
    PROVE  \/ Ended(s, Count(s), v, c)
           \/ Stays(s, Count(s), W, v, c) /\ Count(s).calls = s.calls
<1> DEFINE z == [s EXCEPT !.unacked = 0]
           o == [s EXCEPT !.unacked = @ + 1]
<1>1. Shaped(s) /\ s.unacked \in 0 .. Window /\ Window \in Nat
  BY ConstantsAssumption DEF Talked, Form
<1>2. /\ Shaped(z) /\ z.unacked = 0 /\ z.socket = s.socket /\ z.sent = s.sent
      /\ z.invokes = s.invokes /\ z.nStreams = s.nStreams /\ z.curStreamIdx = s.curStreamIdx
      /\ z.flags = s.flags /\ z.app = s.app /\ z.id = s.id /\ z.playing = s.playing
      /\ z.calls = s.calls
  BY <1>1 DEF Shaped, Fields
<1>3. /\ Shaped(o) /\ o.unacked = s.unacked + 1 /\ o.socket = s.socket /\ o.sent = s.sent
      /\ o.invokes = s.invokes /\ o.nStreams = s.nStreams /\ o.curStreamIdx = s.curStreamIdx
      /\ o.flags = s.flags /\ o.app = s.app /\ o.id = s.id /\ o.playing = s.playing
      /\ o.calls = s.calls
  BY <1>1 DEF Shaped, Fields
<1>4. Count(s) = IF s.unacked + 1 > Window THEN Send(z, BytesReceived) ELSE o
  BY DEF Count
<1> HIDE DEF z, o
<1>5. Talked(z, W, v, c) /\ Stays(s, z, W, v, c)
  <2>1. z.unacked \in 0 .. Window
    BY <1>1, <1>2
  <2>2. Talked(z, W, v, c)
    BY <1>2, <2>1, TalkedKept
  <2>3. QED
    BY <1>2, <2>2 DEF Stays, SameStream, Extends
<1>6. CASE s.unacked + 1 > Window
  <2>1. Count(s) = Send(z, BytesReceived)
    BY <1>4, <1>6
  <2>2. BytesReceived.kind \notin Kinds \cup Commands
    BY Orders DEF BytesReceived, Commands
  <2>3. \/ Ended(z, Send(z, BytesReceived), v, c)
        \/ /\ Stays(z, Send(z, BytesReceived), W, v, c)
           /\ Send(z, BytesReceived).calls = z.calls
    BY <1>5, <2>2, Mentions
  <2>4. CASE Ended(z, Send(z, BytesReceived), v, c)
    BY <1>5, <2>1, <2>4, EndsOn
  <2>5. CASE Stays(z, Send(z, BytesReceived), W, v, c)
             /\ Send(z, BytesReceived).calls = z.calls
    BY <1>2, <1>5, <2>1, <2>5, StaysOn
  <2>6. QED
    BY <2>3, <2>4, <2>5
<1>7. CASE ~ (s.unacked + 1 > Window)
  <2>1. Count(s) = o
    BY <1>4, <1>7
  <2>2. o.unacked \in 0 .. Window
    BY <1>1, <1>3, <1>7
  <2>3. Talked(o, W, v, c)
    BY <1>3, <2>2, TalkedKept
  <2>4. QED
    BY <1>3, <2>1, <2>3 DEF Stays, SameStream, Extends
<1>8. QED
  BY <1>6, <1>7

\* Whatever went before, RTMP_Close ends the connection.
LEMMA ForgetEnds ==
    ASSUME NEW s, NEW t, NEW W, NEW v, NEW c, Ended(s, t, v, c) \/ Stays(s, t, W, v, c)
    PROVE  Ended(s, Forget(t), v, c)
<1>1. /\ Form(t) /\ t.flags = s.flags /\ ("CLEAN" \notin s.flags => t.app = s.app)
      /\ t.curStreamIdx \in {0, s.curStreamIdx}
      /\ Extends(s.sent, t.sent) /\ Speech(t.sent, v, c)
  <2>1. CASE Ended(s, t, v, c)
    BY <2>1 DEF Ended, Left
  <2>2. CASE Stays(s, t, W, v, c)
    BY <2>2 DEF Stays, SameStream, Talked
  <2>3. QED
    BY <2>1, <2>2
<1>2. QED
  BY <1>1, Leaves DEF Ended

\* RTMP_Close: a stream that was published is taken back under its number.
LEMMA CloseEnds ==
    ASSUME NEW s, NEW n \in 0 .. 8, NEW v, NEW c \in Nat \ {0}, Opened(s, n, v, c)
    PROVE  Ended(s, Close(s), v, c)
<1>1. Talked(s, FirstOf(n), v, c) /\ Shaped(s) /\ s.socket = "open"
  BY DEF Opened, Talked, Form
<1>2. CASE n < 6
  <2>1. s.id = -1
    BY <1>2 DEF Opened, NoStream, NoId
  <2>2. Close(s) = Forget(s)
    BY <2>1 DEF Close, CloseSaying
  <2>3. QED
    BY <1>1, <2>2, StaysSame, ForgetEnds
<1>3. CASE n >= 6
  <2> DEFINE b == [s EXCEPT !.id = 0]
             d == Send(b, FCUnpublish)
             e == Send(d, DeleteStream(s.id))
             X == FirstOf(n) \cup {"FCUnpublish"}
  <2>1. s.id = c /\ v.assigned = c /\ s.nStreams = 1
    BY <1>3 DEF Opened, HasStream
  <2>2. Close(s) = Forget(e)
    BY <1>1, <2>1 DEF Close, CloseSaying
  <2>3. /\ Shaped(b) /\ b.socket = s.socket /\ b.sent = s.sent /\ b.invokes = s.invokes
        /\ b.unacked = s.unacked /\ b.nStreams = s.nStreams /\ b.curStreamIdx = s.curStreamIdx
        /\ b.flags = s.flags /\ b.app = s.app
    BY <1>1 DEF Shaped, Fields
  <2>4. n \in 6 .. 8
    BY <1>3
  <2>5. /\ FCUnpublish.kind = "FCUnpublish" /\ Fits(FCUnpublish, v, c)
        /\ FirstOf(n) \in Preludes("FCUnpublish")
        /\ FirstOf(n) \cup ({"FCUnpublish"} \cap Kinds) = X
    BY <2>4, Orders, Openings DEF FCUnpublish, Fits
  <2>6. /\ DeleteStream(s.id).kind = "deleteStream" /\ Fits(DeleteStream(s.id), v, c)
        /\ X \in Preludes("deleteStream")
    BY <2>1, <2>4, Openings DEF DeleteStream, Fits
  <2>7. {"FCUnpublish", "deleteStream"} \cap Commands = {}
    BY DEF Commands
  <2>8. d = Send(b, FCUnpublish) /\ e = Send(d, DeleteStream(s.id))
    OBVIOUS
  <2> HIDE DEF b, d, e, X
  <2>9. Talked(b, FirstOf(n), v, c)
    <3>1. b.unacked \in 0 .. Window
      BY <1>1, <2>3 DEF Talked, Form
    <3>2. QED
      BY <1>1, <2>3, <3>1, TalkedKept
  <2>10. Ended(b, d, v, c) \/ Stays(b, d, X, v, c)
    BY <2>5, <2>7, <2>8, <2>9, SendGrows
  <2>11. Ended(b, Forget(e), v, c)
    <3>1. CASE Ended(b, d, v, c)
      <4>1. d.socket = "closed"
        BY <3>1 DEF Ended, Left
      <4>2. e = d
        BY <2>8, <4>1, ClosedSilent
      <4>3. QED
        BY <3>1, <4>2, ForgetEnds
    <3>2. CASE Stays(b, d, X, v, c)
      <4>1. Talked(d, X, v, c)
        BY <3>2 DEF Stays
      <4>2. \/ Ended(d, e, v, c)
            \/ Stays(d, e, X \cup ({DeleteStream(s.id).kind} \cap Kinds), v, c)
        BY <2>6, <2>7, <2>8, <4>1, SendGrows
      <4>3. CASE Ended(d, e, v, c)
        BY <3>2, <4>3, EndsOn, ForgetEnds
      <4>4. CASE Stays(d, e, X \cup ({DeleteStream(s.id).kind} \cap Kinds), v, c)
        BY <3>2, <4>4, StaysOn, ForgetEnds
      <4>5. QED
        BY <4>2, <4>3, <4>4
    <3>3. QED
      BY <2>10, <3>1, <3>2
  <2>12. QED
    BY <2>2, <2>3, <2>11 DEF Ended, Left
<1>4. QED
  BY <1>2, <1>3

-----------------------------------------------------------------------------
\* What the client says, and what it waits for

\* RTMP_Connect1: the connect names an application that is right.
LEMMA ConnectSaid ==
    ASSUME NEW s, NEW v, NEW c, Talked(s, FirstOf(0), v, c), s.calls = <<>>, AppFits(s.app, v)
    PROVE  \/ Ended(s, SendConnectPacket(s), v, c)
           \/ /\ Stays(s, SendConnectPacket(s), FirstOf(2), v, c)
              /\ Waiting(SendConnectPacket(s), "connect")
<1> DEFINE t == Send(s, ChunkSize)
           m == Connect(t)
<1>1. SendConnectPacket(s) = IF t.socket = "open" THEN InvokeQueued(t, m) ELSE t
  BY DEF SendConnectPacket
<1>2. ChunkSize.kind = "chunkSize" /\ Fits(ChunkSize, v, c) /\ "chunkSize" \notin Commands
      /\ FirstOf(0) \cup ({"chunkSize"} \cap Kinds) = FirstOf(1)
      /\ FirstOf(0) \in Preludes("chunkSize")
  BY Orders, Openings DEF ChunkSize, Fits, Commands
<1>3. /\ m.kind = "connect" /\ m.app = t.app /\ {"kind", "txn", "app"} \subseteq DOMAIN m
  BY DEF Connect
<1>4. \/ Ended(s, t, v, c)
      \/ Stays(s, t, FirstOf(1), v, c) /\ t.calls = s.calls
  BY <1>2, SendGrows
<1> HIDE DEF t, m
<1>5. CASE Ended(s, t, v, c)
  BY <1>1, <1>5 DEF Ended, Left
<1>6. CASE Stays(s, t, FirstOf(1), v, c) /\ t.calls = s.calls
  <2>1. Talked(t, FirstOf(1), v, c) /\ t.socket = "open" /\ t.calls = <<>> /\ AppFits(t.app, v)
    BY <1>6 DEF Stays, SameStream, Talked
  <2>2. FirstOf(1) \cup ({"connect"} \cap Kinds) = FirstOf(2)
    BY Orders
  <2>3. MayInvoke(t, m, FirstOf(1), v, c)
    BY <1>3, <2>1, Openings DEF MayInvoke, Fits, Commands
  <2>4. \/ Ended(t, InvokeQueued(t, m), v, c)
        \/ Stays(t, InvokeQueued(t, m), FirstOf(2), v, c) /\ Waiting(InvokeQueued(t, m), "connect")
    BY <1>3, <2>1, <2>2, <2>3, QueueGrows
  <2>5. QED
    BY <1>1, <1>6, <2>1, <2>4, EndsOn, StaysOn
<1>7. QED
  BY <1>4, <1>5, <1>6

\* The stream is announced and asked for.
LEMMA StreamAsked ==
    ASSUME NEW s, NEW v, NEW c, Talked(s, FirstOf(2), v, c), s.calls = <<>>, s.nStreams > 0
    PROVE  \/ Ended(s, Connected(s), v, c)
           \/ Stays(s, Connected(s), FirstOf(5), v, c) /\ Waiting(Connected(s), "createStream")
<1> DEFINE a == ForStreams(SendReleaseStream, s)
           b == ForStreams(SendFCPublish, a)
           d == ForStreams(SendCreateStream, b)
<1>1. /\ a = IF s.nStreams > 0 THEN Invoke(s, Command("releaseStream")) ELSE s
      /\ b = IF a.nStreams > 0 THEN Invoke(a, Command("FCPublish")) ELSE a
      /\ d = IF b.nStreams > 0 THEN InvokeQueued(b, Command("createStream")) ELSE b
      /\ Connected(s) = d
  BY DEF ForStreams, SendReleaseStream, SendFCPublish, SendCreateStream, Connected
<1>2. \A k : Command(k).kind = k /\ {"kind", "txn"} \subseteq DOMAIN Command(k)
  BY DEF Command
<1> HIDE DEF a, b, d
<1>3. /\ FirstOf(2) \cup ({"releaseStream"} \cap Kinds) = FirstOf(3)
      /\ FirstOf(3) \cup ({"FCPublish"} \cap Kinds) = FirstOf(4)
      /\ FirstOf(4) \cup ({"createStream"} \cap Kinds) = FirstOf(5)
  BY Orders
<1>4. \A t, k, W : k \in {"releaseStream", "FCPublish", "createStream"} /\ W \in Preludes(k)
                      => MayInvoke(t, Command(k), W, v, c)
  BY <1>2 DEF MayInvoke, Fits, Commands
<1>5. \/ Ended(s, a, v, c)
      \/ Stays(s, a, FirstOf(3), v, c) /\ a.calls = <<>>
  <2>1. a = Invoke(s, Command("releaseStream"))
    BY <1>1
  <2>2. MayInvoke(s, Command("releaseStream"), FirstOf(2), v, c)
    BY <1>4, Openings
  <2>3. QED
    BY <1>2, <1>3, <2>1, <2>2, InvokeGrows
<1>6. CASE Ended(s, a, v, c)
  <2>1. a.socket = "closed"
    BY <1>6 DEF Ended, Left
  <2>2. b = a
    BY <1>1, <2>1, ClosedSilent
  <2>3. d = a
    BY <1>1, <2>1, <2>2, ClosedSilent
  <2>4. QED
    BY <1>1, <1>6, <2>3
<1>7. CASE Stays(s, a, FirstOf(3), v, c) /\ a.calls = <<>>
  <2>1. Talked(a, FirstOf(3), v, c) /\ a.nStreams = s.nStreams
    BY <1>7 DEF Stays, SameStream
  <2>2. b = Invoke(a, Command("FCPublish"))
    BY <1>1, <2>1
  <2>3. MayInvoke(a, Command("FCPublish"), FirstOf(3), v, c)
    BY <1>4, Openings
  <2>4. \/ Ended(a, b, v, c)
        \/ Stays(a, b, FirstOf(4), v, c) /\ b.calls = <<>>
    BY <1>2, <1>3, <1>7, <2>1, <2>2, <2>3, InvokeGrows
  <2>5. CASE Ended(a, b, v, c)
    <3>1. b.socket = "closed"
      BY <2>5 DEF Ended, Left
    <3>2. d = b
      BY <1>1, <3>1, ClosedSilent
    <3>3. QED
      BY <1>1, <1>7, <2>5, <3>2, EndsOn
  <2>6. CASE Stays(a, b, FirstOf(4), v, c) /\ b.calls = <<>>
    <3>1. Talked(b, FirstOf(4), v, c) /\ b.nStreams = s.nStreams
      BY <2>1, <2>6 DEF Stays, SameStream
    <3>2. d = InvokeQueued(b, Command("createStream"))
      BY <1>1, <3>1
    <3>3. MayInvoke(b, Command("createStream"), FirstOf(4), v, c)
      BY <1>4, Openings
    <3>4. \/ Ended(b, d, v, c)
          \/ Stays(b, d, FirstOf(5), v, c) /\ Waiting(d, "createStream")
      <4> DEFINE n == Command("createStream")
      <4>1. n.kind = "createStream"
        BY <1>2
      <4> HIDE DEF n
      <4>2. \/ Ended(b, InvokeQueued(b, n), v, c)
            \/ /\ Stays(b, InvokeQueued(b, n), FirstOf(4) \cup ({n.kind} \cap Kinds), v, c)
               /\ Waiting(InvokeQueued(b, n), n.kind)
        BY <2>6, <3>1, <3>3, QueueGrows DEF n
      <4>3. QED
        BY <1>3, <3>2, <4>1, <4>2 DEF n
    <3>5. Stays(s, b, FirstOf(4), v, c)
      BY <1>7, <2>6, StaysOn
    <3>6. QED
      BY <1>1, <3>4, <3>5, EndsOn, StaysOn
  <2>7. QED
    BY <2>4, <2>5, <2>6
<1>8. QED
  BY <1>5, <1>6, <1>7

\* What is over, and may leave its stream counted
Over(s, t, v, c) ==
    /\ Form(t) /\ t.socket = "closed" /\ t.id = NoId /\ t.playing = FALSE
    /\ Extends(s.sent, t.sent) /\ Speech(t.sent, v, c)

\* The number of the stream is the one it is published under.
LEMMA StreamPublished ==
    ASSUME NEW s, NEW v, NEW c, Opened(s, 5, v, c), s.calls = <<>>, s.nStreams = 1,
           v.assigned = c, c \in Int
    PROVE  \/ Over(s, StreamCreated(s, c), v, c)
           \/ /\ Opened(StreamCreated(s, c), 6, v, c) /\ Waiting(StreamCreated(s, c), "publish")
              /\ Extends(s.sent, StreamCreated(s, c).sent)
              /\ StreamCreated(s, c).playing = s.playing
<1> DEFINE u == [s EXCEPT !.id = IF s.curStreamIdx = 0 THEN c ELSE @]
           m == Publish(u)
           t == InvokeQueued(u, m)
           r == [t EXCEPT !.curStreamIdx = @ + 1]
<1>1. Talked(s, FirstOf(5), v, c) /\ s.curStreamIdx = 0 /\ Shaped(s)
  BY DEF Opened, NoStream, Talked, Form
<1>2. /\ Shaped(u) /\ u.socket = s.socket /\ u.sent = s.sent /\ u.invokes = s.invokes
      /\ u.unacked = s.unacked /\ u.nStreams = s.nStreams /\ u.curStreamIdx = s.curStreamIdx
      /\ u.flags = s.flags /\ u.app = s.app /\ u.id = c /\ u.calls = s.calls
      /\ u.playing = s.playing
  BY <1>1 DEF Shaped, Fields
<1>3. StreamCreated(s, c) = r /\ r = [t EXCEPT !.curStreamIdx = @ + 1] /\ t = InvokeQueued(u, m)
  BY DEF StreamCreated, SendPublish
<1>4. m.kind = "publish" /\ m.stream = u.id /\ {"kind", "txn", "stream"} \subseteq DOMAIN m
  BY DEF Publish
<1> HIDE DEF u, m, t, r
<1>5. Talked(u, FirstOf(5), v, c)
  <2>1. u.unacked \in 0 .. Window
    BY <1>1, <1>2 DEF Talked, Form
  <2>2. QED
    BY <1>1, <1>2, <2>1, TalkedKept
<1>6. MayInvoke(u, m, FirstOf(5), v, c)
  BY <1>2, <1>4, Openings DEF MayInvoke, Fits, Commands
<1>7. FirstOf(5) \cup ({"publish"} \cap Kinds) = FirstOf(6)
  BY Orders
<1>8. \/ Ended(u, t, v, c)
      \/ Stays(u, t, FirstOf(6), v, c) /\ Waiting(t, "publish")
  <2>1. u.calls = <<>>
    BY <1>2
  <2>2. \/ Ended(u, InvokeQueued(u, m), v, c)
        \/ /\ Stays(u, InvokeQueued(u, m), FirstOf(5) \cup ({m.kind} \cap Kinds), v, c)
           /\ Waiting(InvokeQueued(u, m), m.kind)
    BY <1>5, <1>6, <2>1, QueueGrows
  <2>3. QED
    BY <1>3, <1>4, <1>7, <2>2
<1>9. t.curStreamIdx = 0 /\ Form(t) /\ Shaped(t)
  BY <1>1, <1>2, <1>8 DEF Ended, Left, Stays, SameStream, Talked, Form
<1>10. /\ Shaped(r) /\ r.socket = t.socket /\ r.sent = t.sent /\ r.invokes = t.invokes
       /\ r.unacked = t.unacked /\ r.nStreams = t.nStreams /\ r.curStreamIdx = 1
       /\ r.flags = t.flags /\ r.app = t.app /\ r.id = t.id /\ r.calls = t.calls
       /\ r.playing = t.playing
  BY <1>3, <1>9 DEF Shaped, Fields
<1>11. Form(r)
  BY <1>9, <1>10 DEF Form
<1>12. CASE Ended(u, t, v, c)
  BY <1>2, <1>3, <1>10, <1>11, <1>12 DEF Over, Ended, Left
<1>13. CASE Stays(u, t, FirstOf(6), v, c) /\ Waiting(t, "publish")
  <2>1. Talked(r, FirstOf(6), v, c)
    BY <1>10, <1>11, <1>13 DEF Stays, Talked, Numbering
  <2>2. HasStream(r, v, c)
    BY <1>2, <1>10, <1>13 DEF Stays, SameStream, HasStream
  <2>3. Waiting(r, "publish")
    BY <1>10, <1>13 DEF Waiting, SentAs
  <2>4. Extends(s.sent, r.sent) /\ r.playing = s.playing
    BY <1>2, <1>10, <1>13 DEF Stays, SameStream
  <2>5. Opened(r, 6, v, c)
    BY <2>1, <2>2 DEF Opened
  <2>6. QED
    BY <1>3, <2>3, <2>4, <2>5
<1>14. QED
  BY <1>8, <1>12, <1>13

\* The only call a client waits for is answered, or another.
LEMMA OneCall ==
    ASSUME NEW s, Shaped(s), NEW name, NEW n, s.calls = <<[name |-> name, txn |-> n]>>
    PROVE  LET e == [s EXCEPT !.calls = <<>>]
           IN  /\ \A txn : IF txn = n
                           THEN Call(s, txn) = name /\ Erase(s, Matches(s, txn)) = e
                           ELSE Call(s, txn) = "none" /\ Erase(s, Matches(s, txn)) = s
               /\ \A t, x : t.calls = s.calls =>
                     Erase(t, Named(s, x)) = IF x = name THEN [t EXCEPT !.calls = <<>>] ELSE t
<1> DEFINE q == <<[name |-> name, txn |-> n]>>
<1>1. DOMAIN q = {1} /\ q[1].name = name /\ q[1].txn = n /\ Len(q) = 1
  OBVIOUS
<1>2. Least({1}) = 1
  BY LeastIn
<1>3. SubSeq(q, 1, 0) \o SubSeq(q, 2, 1) = <<>>
  <2>1. IsSeq(q)
    BY DEF Shaped
  <2>2. 1 \in DOMAIN q
    BY <1>1
  <2> HIDE DEF q
  <2>3. /\ IsSeq(SubSeq(q, 1, 1 - 1) \o SubSeq(q, 1 + 1, Len(q)))
        /\ Len(SubSeq(q, 1, 1 - 1) \o SubSeq(q, 1 + 1, Len(q))) = Len(q) - 1
    BY <2>1, <2>2, ErasedAt
  <2>4. /\ IsSeq(SubSeq(q, 1, 0) \o SubSeq(q, 2, 1))
        /\ Len(SubSeq(q, 1, 0) \o SubSeq(q, 2, 1)) = 0
    BY <1>1, <2>3
  <2>5. QED
    BY <2>4, EmptySeq DEF IsSeq
<1>4. \A t : t.calls = q => EraseAt(t, 1) = [t EXCEPT !.calls = <<>>]
  BY <1>1, <1>3 DEF EraseAt
<1>5. \A txn : Matches(s, txn) = IF txn = n THEN {1} ELSE {}
  BY <1>1 DEF Matches
<1>6. \A x : Named(s, x) = IF x = name THEN {1} ELSE {}
  BY <1>1 DEF Named
<1>7. s.calls = q
  OBVIOUS
<1> HIDE DEF q
<1>8. ASSUME NEW txn
      PROVE  IF txn = n
             THEN Call(s, txn) = name /\ Erase(s, Matches(s, txn)) = [s EXCEPT !.calls = <<>>]
             ELSE Call(s, txn) = "none" /\ Erase(s, Matches(s, txn)) = s
  <2>1. CASE txn = n
    <3>1. Matches(s, txn) = {1}
      BY <1>5, <2>1
    <3>2. Call(s, txn) = name
      BY <1>1, <1>2, <1>7, <3>1 DEF Call
    <3>3. Erase(s, Matches(s, txn)) = [s EXCEPT !.calls = <<>>]
      BY <1>2, <1>4, <1>7, <3>1 DEF Erase
    <3>4. QED
      BY <2>1, <3>2, <3>3
  <2>2. CASE txn # n
    BY <1>5, <2>2 DEF Call, Erase
  <2>3. QED
    BY <2>1, <2>2
<1>9. ASSUME NEW t, NEW x, t.calls = s.calls
      PROVE  Erase(t, Named(s, x)) = IF x = name THEN [t EXCEPT !.calls = <<>>] ELSE t
  BY <1>2, <1>4, <1>6, <1>7, <1>9 DEF Erase
<1>10. QED
  BY <1>8, <1>9

\* A client that waits for nothing ignores answers.
LEMMA NoCall ==
    ASSUME NEW s, s.calls = <<>>
    PROVE  /\ \A txn : Call(s, txn) = "none" /\ Erase(s, Matches(s, txn)) = s
           /\ \A t, x : Erase(t, Named(s, x)) = t
<1>1. DOMAIN s.calls = {}
  OBVIOUS
<1>2. (\A txn : Matches(s, txn) = {}) /\ (\A x : Named(s, x) = {})
  BY <1>1 DEF Matches, Named
<1>3. QED
  BY <1>2 DEF Call, Erase

-----------------------------------------------------------------------------
\* A conversation that waits for the server

\* The next close cleans up only when the response has been added.
CleanLate(s) == s.flags \cap {"CLEAN", "CLATE"} # {} => s.app.stage = "answered"

\* What a client waits for that has said the first n kinds
Awaits(s, n) ==
    \/ s.calls = <<>>
    \/ n = 2 /\ Waiting(s, "connect") /\ CleanLate(s)
    \/ n = 5 /\ Waiting(s, "createStream") /\ s.nStreams = 1
    \/ n = 6 /\ Waiting(s, "publish")
Turns == {2, 5, 6}
TalksAt(s, n, v, c) == Opened(s, n, v, c) /\ Awaits(s, n)

\* What the server says is an answer to what it was asked.
ResultOf(m, a, v, c) ==
    /\ a.kind \in {"connect", "createStream", "publish"} /\ a.txn = m.txn /\ m.id = c
    /\ a.kind = "createStream" => v.assigned = c
    /\ a.kind = "publish" => v.accepted
RefusalOf(m, a, v, c) ==
    /\ a.kind \in {"connect", "releaseStream", "FCPublish", "createStream"} /\ a.txn = m.txn
    /\ a.kind = "connect" =>
          m.reason \in Reasons(a.app, c) /\ (m.reason.what = "challenge" => m.reason = v.challenge)
Backed(m, q, h, v, c) ==
    /\ m.kind = "_result" => \E i \in DOMAIN q : i <= h /\ ResultOf(m, q[i], v, c)
    /\ m.kind = "_error" => \E i \in DOMAIN q : i <= h /\ RefusalOf(m, q[i], v, c)
    /\ m.kind = "onStatus" /\ m.code = "Publish.Start" => v.accepted

\* The conversation is over, or goes on; and what plays has been accepted.
GoesOnAt(s, t, n, v, c) ==
    /\ Extends(s.sent, t.sent) /\ TalksAt(t, n, v, c)
    /\ t.playing => v.accepted /\ n = 6
Resumes(s, t, v, c) == Over(s, t, v, c) \/ \E n \in Turns : GoesOnAt(s, t, n, v, c)

\* What has been asked stays asked.
LEMMA BackedOn ==
    ASSUME NEW m, NEW p, NEW q, NEW h, NEW v, NEW c, Backed(m, p, h, v, c), Extends(p, q)
    PROVE  Backed(m, q, h, v, c)
BY DEF Backed, Extends

\* An end is over.
LEMMA EndsOver ==
    ASSUME NEW s, NEW t, NEW v, NEW c, Ended(s, t, v, c)
    PROVE  Over(s, t, v, c)
BY DEF Ended, Left, Over

\* What is said beside the conversation does not move it.
LEMMA OpenedOn ==
    ASSUME NEW s, NEW t, NEW n, NEW v, NEW c, Opened(s, n, v, c), Stays(s, t, FirstOf(n), v, c)
    PROVE  Opened(t, n, v, c)
BY DEF Opened, Stays, SameStream, NoStream, HasStream

\* What is awaited stays awaited.
LEMMA WaitingOn ==
    ASSUME NEW s, NEW t, NEW name, Waiting(s, name), Extends(s.sent, t.sent), t.calls = s.calls
    PROVE  Waiting(t, name)
BY DEF Waiting, SentAs, Extends

\* A step that says nothing new leaves the conversation at its turn.
LEMMA TalksOn ==
    ASSUME NEW s, NEW t, NEW n, NEW v, NEW c, TalksAt(s, n, v, c),
           Stays(s, t, FirstOf(n), v, c), t.calls = s.calls
    PROVE  TalksAt(t, n, v, c)
<1>1. Opened(t, n, v, c)
  BY OpenedOn DEF TalksAt
<1>2. Extends(s.sent, t.sent) /\ t.flags = s.flags /\ t.app = s.app /\ t.nStreams = s.nStreams
  BY DEF Stays, SameStream
<1>3. \A name : Waiting(s, name) => Waiting(t, name)
  BY <1>2, WaitingOn
<1>4. Awaits(t, n)
  BY <1>2, <1>3 DEF TalksAt, Awaits, CleanLate
<1>5. QED
  BY <1>1, <1>4 DEF TalksAt

\* A message beside the conversation: it goes on where it was, unless the send failed.
LEMMA StaysResumes ==
    ASSUME NEW s, NEW t, NEW n \in Turns, NEW v, NEW c, TalksAt(s, n, v, c), s.playing = FALSE,
           Ended(s, t, v, c) \/ (Stays(s, t, FirstOf(n), v, c) /\ t.calls = s.calls)
    PROVE  Resumes(s, t, v, c)
<1>1. CASE Ended(s, t, v, c)
  BY <1>1, EndsOver DEF Resumes
<1>2. CASE Stays(s, t, FirstOf(n), v, c) /\ t.calls = s.calls
  <2>1. TalksAt(t, n, v, c)
    BY <1>2, TalksOn
  <2>2. Extends(s.sent, t.sent) /\ t.playing = FALSE
    BY <1>2 DEF Stays, SameStream
  <2>3. QED
    BY <2>1, <2>2 DEF Resumes, GoesOnAt
<1>3. QED
  BY <1>1, <1>2

\* What the server wants to know beside the conversation
LEMMA BesideResumes ==
    ASSUME NEW s, NEW n \in Turns, NEW v, NEW c, TalksAt(s, n, v, c), s.playing = FALSE
    PROVE  /\ Resumes(s, s, v, c) /\ Resumes(s, SendPong(s), v, c)
           /\ Resumes(s, SendCheckBW(s), v, c) /\ Resumes(s, SendCheckBWResult(s), v, c)
           /\ Resumes(s, Erase(s, Named(s, "_checkbw")), v, c)
<1>1. Talked(s, FirstOf(n), v, c) /\ Shaped(s) /\ s.socket = "open"
  BY DEF TalksAt, Opened, Talked, Form
<1>2. Resumes(s, s, v, c)
  BY <1>1, StaysSame, StaysResumes
<1>3. Resumes(s, SendPong(s), v, c)
  <2>1. [kind |-> "pong"].kind \notin Kinds \cup Commands
    BY Orders DEF Commands
  <2>2. \/ Ended(s, SendPong(s), v, c)
        \/ Stays(s, SendPong(s), FirstOf(n), v, c) /\ SendPong(s).calls = s.calls
    <3> DEFINE m == [kind |-> "pong"]
    <3>1. SendPong(s) = Send(s, m)
      BY DEF SendPong
    <3> HIDE DEF m
    <3>2. QED
      BY <1>1, <2>1, <3>1, Mentions DEF m
  <2>3. QED
    BY <2>2, StaysResumes
<1>4. Resumes(s, SendCheckBW(s), v, c)
  <2> DEFINE m == Command("_checkbw")
  <2>1. m.kind = "_checkbw" /\ {"kind", "txn"} \subseteq DOMAIN m
    BY DEF Command
  <2>2. "_checkbw" \notin Kinds
    BY Orders
  <2>3. SendCheckBW(s) = Invoke(s, m)
    BY DEF SendCheckBW
  <2> HIDE DEF m
  <2>4. MayInvoke(s, m, FirstOf(n), v, c)
    BY <2>1, <2>2 DEF MayInvoke, Fits, Commands
  <2>5. FirstOf(n) \cup ({m.kind} \cap Kinds) = FirstOf(n)
    BY <2>1, <2>2
  <2>6. \/ Ended(s, Invoke(s, m), v, c)
        \/ /\ Stays(s, Invoke(s, m), FirstOf(n) \cup ({m.kind} \cap Kinds), v, c)
           /\ Invoke(s, m).calls = s.calls
    BY <1>1, <2>4, InvokeGrows
  <2>7. QED
    BY <2>3, <2>5, <2>6, StaysResumes
<1>5. Resumes(s, SendCheckBWResult(s), v, c)
  <2> DEFINE m == [kind |-> "_result"]
             t == Send(s, m)
             u == [t EXCEPT !.bwChecks = @ + 1]
  <2>1. m.kind \notin Kinds \cup Commands
    BY Orders DEF Commands
  <2>2. SendCheckBWResult(s) = IF t.socket = "open" THEN u ELSE t
    BY DEF SendCheckBWResult
  <2>3. u = [t EXCEPT !.bwChecks = @ + 1] /\ t = Send(s, m)
    OBVIOUS
  <2> HIDE DEF u, t, m
  <2>4. Ended(s, t, v, c) \/ (Stays(s, t, FirstOf(n), v, c) /\ t.calls = s.calls)
    BY <1>1, <2>1, <2>3, Mentions
  <2>5. CASE Ended(s, t, v, c)
    BY <2>2, <2>5, StaysResumes DEF Ended, Left
  <2>6. CASE Stays(s, t, FirstOf(n), v, c) /\ t.calls = s.calls
    <3>1. Talked(t, FirstOf(n), v, c) /\ Shaped(t) /\ t.socket = "open" /\ t.unacked \in 0 .. Window
      BY <2>6 DEF Stays, Talked, Form
    <3>2. /\ Shaped(u) /\ u.socket = t.socket /\ u.sent = t.sent /\ u.invokes = t.invokes
          /\ u.unacked = t.unacked /\ u.nStreams = t.nStreams /\ u.curStreamIdx = t.curStreamIdx
          /\ u.flags = t.flags /\ u.app = t.app /\ u.id = t.id /\ u.playing = t.playing
          /\ u.calls = t.calls
      BY <2>3, <3>1 DEF Shaped, Fields
    <3>3. Talked(u, FirstOf(n), v, c)
      BY <3>1, <3>2, TalkedKept
    <3>4. Stays(s, u, FirstOf(n), v, c) /\ u.calls = s.calls
      BY <2>6, <3>2, <3>3 DEF Stays, SameStream
    <3>5. QED
      BY <2>2, <3>1, <3>4, StaysResumes
  <2>7. QED
    BY <2>4, <2>5, <2>6
<1>6. Erase(s, Named(s, "_checkbw")) = s
  <2>1. CASE s.calls = <<>>
    BY <2>1, NoCall
  <2>2. CASE s.calls # <<>>
    <3>1. PICK name, txn : name # "_checkbw" /\ s.calls = <<[name |-> name, txn |-> txn]>>
      BY <2>2 DEF TalksAt, Awaits, Waiting
    <3>2. QED
      BY <1>1, <3>1, OneCall
  <2>3. QED
    BY <2>1, <2>2
<1>7. QED
  BY <1>2, <1>3, <1>4, <1>5, <1>6

-----------------------------------------------------------------------------
\* A login

\* What RTMP_Connect is called with again
Redials(t, v) ==
    /\ t.socket = "closed" /\ t.id = NoId /\ t.calls = <<>> /\ t.invokes = 0
    /\ t.playing = FALSE /\ t.curStreamIdx = 0
    /\ AppFits(t.app, v) /\ CleanLate(t)
LoggedIn(s, t, v, c) == Over(s, t, v, c) /\ Redials(t, v)

\* The response to a challenge is the one the server expects.
LEMMA ResponseExpected ==
    ASSUME NEW c \in Nat, NEW mode \in Modes, NEW d \in Challenges(mode, c)
    PROVE  Response(d) = Expected(d) /\ d.mode = mode /\ d.what = "challenge"
<1>1. c # Missing
  BY DEF Missing
<1>2. CASE mode = "llnw"
  <2>1. d = [mode |-> mode, what |-> "challenge", nonce |-> c]
    BY <1>2 DEF Challenges
  <2>2. d.mode = "llnw" /\ d.what = "challenge" /\ d.nonce = c
    BY <1>2, <2>1
  <2>3. QED
    BY <1>2, <2>2 DEF Response, LlnwResponse, Expected
<1>3. CASE mode = "adobe"
  <2>1. PICK o \in {c, Missing} :
          d = [mode |-> mode, what |-> "challenge", salt |-> c, opaque |-> o,
               challenge |-> IF o = Missing THEN c ELSE Missing]
    BY <1>3 DEF Challenges
  <2>2. /\ d.mode = "adobe" /\ d.what = "challenge" /\ d.salt = c /\ d.opaque = o
        /\ d.challenge = IF o = Missing THEN c ELSE Missing
    BY <1>3, <2>1
  <2>3. (CHOOSE n \in {d.opaque, d.challenge} : n # Missing) = c
    <3>1. \A n \in {d.opaque, d.challenge} : n # Missing => n = c
      BY <2>2
    <3>2. c \in {d.opaque, d.challenge}
      BY <2>2
    <3>3. QED
      BY <1>1, <3>1, <3>2
  <2>4. (IF d.opaque # Missing THEN d.opaque ELSE d.challenge) = c
    BY <1>1, <2>2
  <2>5. QED
    BY <1>3, <2>2, <2>3, <2>4 DEF Response, AdobeResponse, Expected
<1>4. QED
  BY <1>2, <1>3 DEF Modes

\* A server challenges a connect that gave a name.
LEMMA ChallengeNamed ==
    ASSUME NEW c, NEW app, NEW d \in Reasons(app, c), d.what = "challenge"
    PROVE  app.stage = "named" /\ d \in Challenges(app.mode, c)
<1>1. /\ \A mode, what : Wants(mode, what).what = what
      /\ Unrelated.what = "unrelated"
  BY DEF Wants, Unrelated
<1>2. CASE app.stage = "plain"
  <2>1. d \in {Wants(mode, "need auth") : mode \in Modes} \cup {Unrelated}
    BY <1>2 DEF Reasons
  <2>2. QED
    BY <1>1, <2>1
<1>3. CASE app.stage = "named"
  <2>1. d \in {Wants(app.mode, "need auth")} \cup Challenges(app.mode, c)
    BY <1>3 DEF Reasons
  <2>2. QED
    BY <1>1, <1>3, <2>1
<1>4. CASE app.stage \notin {"plain", "named"}
  <2>1. d = Wants(app.mode, "failed")
    BY <1>4 DEF Reasons
  <2>2. QED
    BY <1>1, <2>1
<1>5. QED
  BY <1>2, <1>3, <1>4

\* PublisherAuth goes on with a login, and the connection is closed: the next connect names an
\* application that is right, and only a response makes the close after it clean up.
LEMMA LoginStarts ==
    ASSUME NEW s, NEW v, NEW c \in Nat, Opened(s, 2, v, c), s.calls = <<>>,
           s.playing = FALSE, CleanLate(s), NEW d \in Reasons(s.app, c),
           d.what = "challenge" => d = v.challenge, AuthSucceeds(s, d)
    PROVE  LoggedIn(s, CloseForLogin(PublisherAuth(s, d)), v, c)
<1> DEFINE a == PublisherAuth(s, d)
           f == Forget(a)
           r == CloseForLogin(a)
<1>1. Form(s) /\ Shaped(s) /\ s.id = NoId /\ s.curStreamIdx = 0 /\ Speech(s.sent, v, c)
  BY DEF Opened, Talked, NoStream, Form
<1>2. d.mode \in Modes /\ (d.what = "challenge" \/ (d.what = "need auth" /\ AddsName(s, d)))
  BY DEF AuthSucceeds, AddsName
<1>3. s.app.stage # "answered" /\ s.flags \cap {"CLEAN", "CLATE"} = {}
  <2>1. s.app.stage = "answered" => d.what = "failed"
    BY DEF Reasons, Wants
  <2>2. QED
    BY <1>2, <2>1 DEF CleanLate
<1>4. /\ Form(a) /\ a.id = NoId /\ a.curStreamIdx = 0 /\ a.sent = s.sent
      /\ "CLEAN" \notin a.flags /\ AppFits(a.app, v)
      /\ "CLATE" \in a.flags => a.app.stage = "answered"
  <2>1. CASE d.what = "challenge"
    <3>1. s.app.stage = "named" /\ d \in Challenges(s.app.mode, c)
      BY <2>1, ChallengeNamed
    <3>2. s.app.mode \in Modes
      <4>1. CASE s.app.mode = "llnw"
        BY <4>1 DEF Modes
      <4>2. CASE s.app.mode # "llnw"
        <5>1. \E o : d = [mode |-> s.app.mode, what |-> "challenge", salt |-> c,
                         opaque |-> o,
                         challenge |-> IF o = Missing THEN c ELSE Missing]
          BY <3>1, <4>2 DEF Challenges
        <5>2. d.mode = s.app.mode
          BY <5>1
        <5>3. QED
          BY <1>2, <5>2
      <4>3. QED
        BY <4>1, <4>2
    <3>3. a = Answer(s, d)
      <4>1. ~ AddsName(s, d)
        BY <2>1 DEF AddsName
      <4>2. QED
        BY <1>2, <2>1, <4>1 DEF PublisherAuth
    <3> HIDE DEF a
    <3>4. /\ Shaped(a) /\ a.id = s.id /\ a.curStreamIdx = s.curStreamIdx /\ a.sent = s.sent
          /\ a.flags = s.flags \cup {"RESP", "CLATE", "ALLOC"}
          /\ a.app = [stage |-> "answered", mode |-> d.mode, response |-> Response(d)]
          /\ a.invokes = s.invokes /\ a.nStreams = s.nStreams /\ a.unacked = s.unacked
      BY <1>1, <3>3 DEF Answer, Shaped, Fields
    <3>5. a.app.stage = "answered" /\ a.app.response = Response(d)
      BY <3>4
    <3>6. Response(d) = Expected(d)
      BY <3>1, <3>2, ResponseExpected
    <3>7. Form(a)
      BY <1>1, <3>4, <3>5 DEF Form, Stages, AllFlags
    <3>8. QED
      BY <1>1, <1>3, <2>1, <3>4, <3>5, <3>6, <3>7 DEF AppFits
  <2>2. CASE d.what = "need auth" /\ AddsName(s, d)
    <3>1. a = AddName(s, d)
      BY <1>2, <2>2 DEF PublisherAuth
    <3>2. /\ Shaped(a) /\ a.id = s.id /\ a.curStreamIdx = s.curStreamIdx /\ a.sent = s.sent
          /\ a.flags = s.flags \cup {"NAME", "ALLOC"}
          /\ a.app = [stage |-> "named", mode |-> d.mode]
          /\ a.invokes = s.invokes /\ a.nStreams = s.nStreams /\ a.unacked = s.unacked
      BY <1>1, <3>1 DEF AddName, Shaped, Fields
    <3> HIDE DEF a
    <3>3. a.app.stage = "named"
      BY <3>2
    <3>4. Form(a)
      BY <1>1, <3>2, <3>3 DEF Form, Stages, AllFlags
    <3>5. QED
      BY <1>1, <1>3, <3>2, <3>3, <3>4 DEF AppFits
  <2>3. QED
    BY <1>2, <2>1, <2>2
<1>5. Close(a) = f
  <2>1. ~ (a.id > 0)
    BY <1>4 DEF NoId
  <2> HIDE DEF a
  <2>2. QED
    BY <2>1 DEF Close, CloseSaying, f
<1>6. r = IF "CLATE" \in f.flags THEN [f EXCEPT !.flags = @ \cup {"CLEAN"}] ELSE f
  BY <1>5 DEF CloseForLogin
<1> HIDE DEF a, r
<1>7. Left(a, f) /\ f.sent = s.sent /\ f.app = a.app
  <2>1. Left(a, f) /\ f.sent = a.sent
    BY <1>4, Leaves
  <2>2. QED
    BY <1>4, <2>1 DEF Left
<1> HIDE DEF f
<1>8. /\ Form(f) /\ Shaped(f) /\ f.socket = "closed" /\ f.calls = <<>> /\ f.id = NoId
      /\ f.invokes = 0 /\ f.playing = FALSE /\ f.flags = a.flags /\ f.curStreamIdx = 0
  BY <1>4, <1>7 DEF Left, Form
<1>9. /\ Form(r) /\ r.socket = "closed" /\ r.calls = <<>> /\ r.id = NoId /\ r.invokes = 0
      /\ r.playing = FALSE /\ r.curStreamIdx = 0 /\ r.sent = s.sent /\ r.app = a.app
      /\ r.flags = IF "CLATE" \in a.flags THEN a.flags \cup {"CLEAN"} ELSE a.flags
  <2>1. CASE "CLATE" \in f.flags
    <3>1. r = [f EXCEPT !.flags = @ \cup {"CLEAN"}]
      BY <1>6, <2>1
    <3>2. /\ Shaped(r) /\ r.socket = f.socket /\ r.calls = f.calls /\ r.id = f.id
          /\ r.invokes = f.invokes /\ r.playing = f.playing /\ r.curStreamIdx = f.curStreamIdx
          /\ r.sent = f.sent /\ r.app = f.app /\ r.flags = f.flags \cup {"CLEAN"}
          /\ r.nStreams = f.nStreams /\ r.unacked = f.unacked
      BY <1>8, <3>1 DEF Shaped, Fields
    <3>3. Form(r)
      BY <1>8, <3>2 DEF Form, AllFlags
    <3>4. QED
      BY <1>7, <1>8, <2>1, <3>2, <3>3
  <2>2. CASE "CLATE" \notin f.flags
    BY <1>6, <1>7, <1>8, <2>2
  <2>3. QED
    BY <2>1, <2>2
<1>10. CleanLate(r) /\ AppFits(r.app, v)
  BY <1>4, <1>9 DEF CleanLate
<1>11. Extends(s.sent, r.sent) /\ Speech(r.sent, v, c)
  BY <1>1, <1>9 DEF Extends
<1>12. QED
  BY <1>9, <1>10, <1>11 DEF LoggedIn, Over, Redials, r, a

-----------------------------------------------------------------------------
\* What the client does with what the server says

\* No two commands have the same number.
LEMMA SameCommand ==
    ASSUME NEW s, Numbering(s), NEW name \in Commands, NEW txn, SentAs(s, name, txn),
           NEW i \in DOMAIN s.sent, s.sent[i].kind \in Commands, s.sent[i].txn = txn
    PROVE  s.sent[i].kind = name
BY DEF Numbering, SentAs

\* The call that is answered is no longer waited for.
LEMMA Answered ==
    ASSUME NEW s, NEW n \in Turns, NEW v, NEW c, TalksAt(s, n, v, c), s.calls # <<>>
    PROVE  \E name, txn :
              LET e == [s EXCEPT !.calls = <<>>]
              IN  /\ name \in {"connect", "createStream", "publish"}
                  /\ s.calls = <<[name |-> name, txn |-> txn]>> /\ SentAs(s, name, txn)
                  /\ \/ n = 2 /\ name = "connect" /\ CleanLate(s)
                     \/ n = 5 /\ name = "createStream" /\ s.nStreams = 1
                     \/ n = 6 /\ name = "publish"
                  /\ Stays(s, e, FirstOf(n), v, c) /\ TalksAt(e, n, v, c) /\ e.calls = <<>>
<1> DEFINE e == [s EXCEPT !.calls = <<>>]
<1>1. PICK name, txn :
        /\ name \in {"connect", "createStream", "publish"}
        /\ s.calls = <<[name |-> name, txn |-> txn]>> /\ SentAs(s, name, txn)
        /\ \/ n = 2 /\ name = "connect" /\ CleanLate(s)
           \/ n = 5 /\ name = "createStream" /\ s.nStreams = 1
           \/ n = 6 /\ name = "publish"
  <2>1. \/ n = 2 /\ Waiting(s, "connect") /\ CleanLate(s)
        \/ n = 5 /\ Waiting(s, "createStream") /\ s.nStreams = 1
        \/ n = 6 /\ Waiting(s, "publish")
    BY DEF TalksAt, Awaits
  <2>2. \A name : Waiting(s, name) =>
           \E txn : s.calls = <<[name |-> name, txn |-> txn]>> /\ SentAs(s, name, txn)
    BY DEF Waiting
  <2>3. CASE n = 2 /\ Waiting(s, "connect") /\ CleanLate(s)
    <3>1. PICK txn : s.calls = <<[name |-> "connect", txn |-> txn]>> /\ SentAs(s, "connect", txn)
      BY <2>2, <2>3
    <3>2. QED
      BY <2>3, <3>1
  <2>4. CASE n = 5 /\ Waiting(s, "createStream") /\ s.nStreams = 1
    <3>1. PICK txn : s.calls = <<[name |-> "createStream", txn |-> txn]>> /\ SentAs(s, "createStream", txn)
      BY <2>2, <2>4
    <3>2. QED
      BY <2>4, <3>1
  <2>5. CASE n = 6 /\ Waiting(s, "publish")
    <3>1. PICK txn : s.calls = <<[name |-> "publish", txn |-> txn]>> /\ SentAs(s, "publish", txn)
      BY <2>2, <2>5
    <3>2. QED
      BY <2>5, <3>1
  <2>6. QED
    BY <2>1, <2>3, <2>4, <2>5
<1>2. Opened(s, n, v, c) /\ Talked(s, FirstOf(n), v, c) /\ Shaped(s) /\ s.unacked \in 0 .. Window
  BY DEF TalksAt, Opened, Talked, Form
<1>3. IsSeq(<<>>)
  BY EmptySeq DEF IsSeq
<1>4. /\ Shaped(e) /\ e.socket = s.socket /\ e.sent = s.sent /\ e.invokes = s.invokes
      /\ e.unacked = s.unacked /\ e.nStreams = s.nStreams /\ e.curStreamIdx = s.curStreamIdx
      /\ e.flags = s.flags /\ e.app = s.app /\ e.id = s.id /\ e.playing = s.playing
      /\ e.calls = <<>>
  BY <1>2, <1>3 DEF Shaped, Fields
<1>5. e = [s EXCEPT !.calls = <<>>]
  OBVIOUS
<1> HIDE DEF e
<1>6. Talked(e, FirstOf(n), v, c)
  BY <1>2, <1>4, TalkedKept
<1>7. Stays(s, e, FirstOf(n), v, c)
  BY <1>4, <1>6 DEF Stays, SameStream, Extends
<1>8. TalksAt(e, n, v, c)
  BY <1>2, <1>4, <1>7, OpenedOn DEF TalksAt, Awaits
<1>9. QED
  BY <1>1, <1>4, <1>5, <1>7, <1>8

\* An acceptance: the conversation goes on to the next command.
LEMMA ResultResumes ==
    ASSUME NEW s, NEW n \in Turns, NEW v, NEW c \in Nat \ {0}, TalksAt(s, n, v, c),
           s.playing = FALSE, NEW m, m.kind = "_result", NEW h, Backed(m, s.sent, h, v, c)
    PROVE  Resumes(s, HandleResult(s, m), v, c)
<1>1. Shaped(s) /\ Numbering(s) /\ s.nStreams \in 0 .. 1
  BY DEF TalksAt, Opened, Talked, Form
<1>2. CASE s.calls = <<>>
  <2>1. HandleResult(s, m) = s
    BY <1>2, NoCall DEF HandleResult
  <2>2. QED
    BY <2>1, BesideResumes
<1>3. CASE s.calls # <<>>
  <2> DEFINE e == [s EXCEPT !.calls = <<>>]
             t == HandleResult(s, m)
  <2>1. PICK name, txn :
          /\ name \in {"connect", "createStream", "publish"}
          /\ s.calls = <<[name |-> name, txn |-> txn]>> /\ SentAs(s, name, txn)
          /\ \/ n = 2 /\ name = "connect" /\ CleanLate(s)
             \/ n = 5 /\ name = "createStream" /\ s.nStreams = 1
             \/ n = 6 /\ name = "publish"
          /\ Stays(s, e, FirstOf(n), v, c) /\ TalksAt(e, n, v, c) /\ e.calls = <<>>
    BY <1>3, Answered
  <2>2. IF m.txn = txn THEN Call(s, m.txn) = name /\ Erase(s, Matches(s, m.txn)) = e
        ELSE Call(s, m.txn) = "none" /\ Erase(s, Matches(s, m.txn)) = s
    BY <1>1, <2>1, OneCall
  <2>3. CASE m.txn # txn
    <3>1. HandleResult(s, m) = s
      BY <2>2, <2>3 DEF HandleResult
    <3>2. QED
      BY <3>1, BesideResumes
  <2>4. CASE m.txn = txn
    <3>1. t = CASE name = "connect"      -> Connected(e)
                [] name = "createStream" -> StreamCreated(e, m.id)
                [] name = "publish"      -> [e EXCEPT !.playing = TRUE]
                [] OTHER                 -> e
      BY <2>2, <2>4 DEF HandleResult
    <3>2. PICK i \in DOMAIN s.sent : ResultOf(m, s.sent[i], v, c)
      BY DEF Backed
    <3>3. s.sent[i].kind = name
      BY <1>1, <2>1, <2>4, <3>2, SameCommand DEF ResultOf, Commands
    <3>4. /\ Opened(e, n, v, c) /\ Talked(e, FirstOf(n), v, c) /\ Shaped(e)
          /\ e.nStreams = s.nStreams /\ e.playing = FALSE /\ Extends(s.sent, e.sent)
      BY <2>1 DEF TalksAt, Opened, Talked, Form, Stays, SameStream
    <3> SUFFICES Resumes(s, t, v, c)
      OBVIOUS
    <3> HIDE DEF e, t
    <3>5. CASE name = "connect"
      <4>1. n = 2 /\ t = Connected(e)
        BY <2>1, <3>1, <3>5
      <4>2. CASE e.nStreams > 0
        <5>1. \/ Ended(e, Connected(e), v, c)
              \/ /\ Stays(e, Connected(e), FirstOf(5), v, c)
                 /\ Waiting(Connected(e), "createStream")
          BY <2>1, <3>4, <4>1, <4>2, StreamAsked
        <5>2. CASE Ended(e, t, v, c)
          BY <2>1, <4>1, <5>2, EndsOn, EndsOver DEF Resumes
        <5>3. CASE Stays(e, t, FirstOf(5), v, c) /\ Waiting(t, "createStream")
          <6>1. Stays(s, t, FirstOf(5), v, c)
            BY <2>1, <5>3, StaysOn
          <6>2. Opened(t, 5, v, c) /\ t.nStreams = 1 /\ t.playing = FALSE
            BY <1>1, <3>4, <4>1, <4>2, <5>3 DEF Stays, SameStream, Opened, NoStream
          <6>3. GoesOnAt(s, t, 5, v, c)
            BY <5>3, <6>1, <6>2 DEF Stays, GoesOnAt, TalksAt, Awaits
          <6>4. QED
            BY <6>3 DEF Resumes, Turns
        <5>4. QED
          BY <4>1, <5>1, <5>2, <5>3
      <4>3. CASE ~ (e.nStreams > 0)
        <5>1. t = e
          BY <4>1, <4>3 DEF Connected, ForStreams
        <5>2. QED
          BY <2>1, <3>4, <5>1 DEF Resumes, GoesOnAt
      <4>4. QED
        BY <4>2, <4>3
    <3>6. CASE name = "createStream"
      <4>1. n = 5 /\ t = StreamCreated(e, m.id) /\ m.id = c /\ v.assigned = c /\ e.nStreams = 1
        BY <2>1, <3>1, <3>2, <3>3, <3>4, <3>6 DEF ResultOf
      <4>2. \/ Over(e, StreamCreated(e, c), v, c)
            \/ /\ Opened(StreamCreated(e, c), 6, v, c) /\ Waiting(StreamCreated(e, c), "publish")
               /\ Extends(e.sent, StreamCreated(e, c).sent)
               /\ StreamCreated(e, c).playing = e.playing
        <5>1. Opened(e, 5, v, c) /\ e.calls = <<>> /\ c \in Int
          BY <2>1, <3>4, <4>1
        <5>2. QED
          BY <4>1, <5>1, StreamPublished
      <4>3. CASE Over(e, t, v, c)
        BY <3>4, <4>3, ExtendsOn DEF Over, Resumes
      <4>4. CASE /\ Opened(t, 6, v, c) /\ Waiting(t, "publish")
                 /\ Extends(e.sent, t.sent) /\ t.playing = e.playing
        <5>1. Extends(s.sent, t.sent)
          BY <3>4, <4>4, ExtendsOn
        <5>2. GoesOnAt(s, t, 6, v, c)
          BY <3>4, <4>4, <5>1 DEF GoesOnAt, TalksAt, Awaits
        <5>3. QED
          BY <5>2 DEF Resumes, Turns
      <4>5. QED
        BY <4>1, <4>2, <4>3, <4>4
    <3>7. CASE name = "publish"
      <4>1. n = 6 /\ t = [e EXCEPT !.playing = TRUE] /\ v.accepted
        BY <2>1, <3>1, <3>2, <3>3, <3>7 DEF ResultOf
      <4>2. /\ Shaped(t) /\ t.socket = e.socket /\ t.sent = e.sent /\ t.invokes = e.invokes
            /\ t.unacked = e.unacked /\ t.nStreams = e.nStreams
            /\ t.curStreamIdx = e.curStreamIdx /\ t.flags = e.flags /\ t.app = e.app
            /\ t.id = e.id /\ t.calls = e.calls
        BY <3>4, <4>1 DEF Shaped, Fields
      <4>3. e.unacked \in 0 .. Window
        BY <3>4 DEF Talked, Form
      <4>4. Talked(t, FirstOf(n), v, c)
        BY <3>4, <4>2, <4>3, TalkedKept
      <4>5. Opened(t, n, v, c)
        BY <3>4, <4>2, <4>4 DEF Opened, HasStream, NoStream
      <4>6. GoesOnAt(s, t, 6, v, c)
        BY <2>1, <3>4, <4>1, <4>2, <4>5 DEF GoesOnAt, TalksAt, Awaits
      <4>7. QED
        BY <4>6 DEF Resumes, Turns
    <3>8. QED
      BY <2>1, <3>5, <3>6, <3>7
  <2>5. QED
    BY <2>3, <2>4
<1>4. QED
  BY <1>2, <1>3

\* A rejection: the client gives the command up, or logs in.
LEMMA ErrorResumes ==
    ASSUME NEW s, NEW n \in Turns, NEW v, NEW c \in Nat \ {0}, TalksAt(s, n, v, c),
           s.playing = FALSE, NEW m, m.kind = "_error", NEW h, Backed(m, s.sent, h, v, c)
    PROVE  /\ ~ LogsIn(s, m) => Resumes(s, HandleError(s, m), v, c)
           /\ LogsIn(s, m) => LoggedIn(s, HandleError(s, m), v, c)
<1>1. Shaped(s) /\ Numbering(s)
  BY DEF TalksAt, Opened, Talked, Form
<1>2. CASE Call(s, m.txn) = "none" /\ Erase(s, Matches(s, m.txn)) = s
  <2>1. HandleError(s, m) = s /\ ~ LogsIn(s, m)
    BY <1>2 DEF HandleError, LogsIn
  <2>2. QED
    BY <2>1, BesideResumes
<1>3. CASE s.calls = <<>>
  BY <1>2, <1>3, NoCall
<1>4. CASE s.calls # <<>>
  <2> DEFINE e == [s EXCEPT !.calls = <<>>]
             t == HandleError(s, m)
  <2>1. PICK name, txn :
          /\ name \in {"connect", "createStream", "publish"}
          /\ s.calls = <<[name |-> name, txn |-> txn]>> /\ SentAs(s, name, txn)
          /\ \/ n = 2 /\ name = "connect" /\ CleanLate(s)
             \/ n = 5 /\ name = "createStream" /\ s.nStreams = 1
             \/ n = 6 /\ name = "publish"
          /\ Stays(s, e, FirstOf(n), v, c) /\ TalksAt(e, n, v, c) /\ e.calls = <<>>
    BY <1>4, Answered
  <2>2. IF m.txn = txn THEN Call(s, m.txn) = name /\ Erase(s, Matches(s, m.txn)) = e
        ELSE Call(s, m.txn) = "none" /\ Erase(s, Matches(s, m.txn)) = s
    BY <1>1, <2>1, OneCall
  <2>3. CASE m.txn # txn
    BY <1>2, <2>2, <2>3
  <2>4. CASE m.txn = txn
    <3>1. /\ Opened(e, n, v, c) /\ Talked(e, FirstOf(n), v, c) /\ Shaped(e)
          /\ e.playing = FALSE /\ e.app = s.app /\ e.flags = s.flags
          /\ Extends(s.sent, e.sent)
      BY <2>1 DEF TalksAt, Opened, Talked, Form, Stays, SameStream
    <3>2. Resumes(s, e, v, c)
      BY <2>1, <3>1 DEF Resumes, GoesOnAt
    <3>3. CASE name # "connect"
      <4>1. t = e /\ ~ LogsIn(s, m)
        BY <2>2, <2>4, <3>3 DEF HandleError, LogsIn
      <4>2. QED
        BY <3>2, <4>1
    <3>4. CASE name = "connect"
      <4>1. n = 2 /\ CleanLate(s)
        BY <2>1, <3>4
      <4>2. PICK i \in DOMAIN s.sent : RefusalOf(m, s.sent[i], v, c)
        BY DEF Backed
      <4>3. s.sent[i].kind = "connect"
        BY <1>1, <2>1, <2>4, <3>4, <4>2, SameCommand DEF RefusalOf, Commands
      <4>4. /\ m.reason \in Reasons(s.app, c)
            /\ m.reason.what = "challenge" => m.reason = v.challenge
        BY <1>1, <4>2, <4>3 DEF RefusalOf, Numbering
      <4> DEFINE d == m.reason
      <4>5. LogsIn(s, m) <=> AuthSucceeds(s, d)
        BY <2>2, <2>4, <3>4 DEF LogsIn
      <4>6. AuthSucceeds(s, d) <=> AuthSucceeds(e, d)
        BY <3>1 DEF AuthSucceeds, AddsName, Names
      <4>7. t = IF LogsIn(s, m) THEN CloseForLogin(PublisherAuth(e, d)) ELSE PublisherAuth(e, d)
        BY <2>2, <2>4, <3>4 DEF HandleError
      <4> HIDE DEF e, t, d
      <4>8. CASE AuthSucceeds(e, d)
        <5>1. LoggedIn(e, CloseForLogin(PublisherAuth(e, d)), v, c)
          BY <2>1, <3>1, <4>1, <4>4, <4>8, LoginStarts DEF CleanLate, d
        <5>2. LoggedIn(e, t, v, c)
          BY <4>5, <4>6, <4>7, <4>8, <5>1
        <5>3. LoggedIn(s, t, v, c)
          BY <3>1, <5>2, ExtendsOn DEF LoggedIn, Over
        <5>4. QED
          BY <4>5, <4>6, <4>8, <5>3 DEF t
      <4>9. CASE ~ AuthSucceeds(e, d)
        <5> DEFINE r == [e EXCEPT !.flags = @ \cup {"CLEAN"}]
        <5>1. t = e \/ t = r
          <6>1. t = PublisherAuth(e, d)
            <7>1. ~ LogsIn(s, m)
              BY <4>5, <4>6, <4>9
            <7>2. QED
              BY <4>7, <7>1
          <6>2. d.mode \in Modes => ~ AddsName(e, d) /\ d.what # "challenge"
            BY <4>9 DEF AuthSucceeds
          <6>3. CASE d.mode \notin Modes
            <7>1. PublisherAuth(e, d) = e
              BY <6>3 DEF PublisherAuth
            <7>2. QED
              BY <6>1, <7>1
          <6>4. CASE d.mode \in Modes
            <7>1. PublisherAuth(e, d) = r
              BY <6>2, <6>4 DEF PublisherAuth
            <7>2. QED
              BY <6>1, <7>1
          <6>5. QED
            BY <6>3, <6>4
        <5>2. /\ Shaped(r) /\ r.socket = e.socket /\ r.sent = e.sent /\ r.invokes = e.invokes
              /\ r.unacked = e.unacked /\ r.nStreams = e.nStreams
              /\ r.curStreamIdx = e.curStreamIdx /\ r.flags = e.flags \cup {"CLEAN"}
              /\ r.app = e.app /\ r.id = e.id /\ r.calls = e.calls /\ r.playing = e.playing
          BY <3>1 DEF Shaped, Fields
        <5> HIDE DEF r
        <5>3. Talked(r, FirstOf(n), v, c)
          <6>1. Form(r)
            BY <3>1, <5>2 DEF Talked, Form, AllFlags
          <6>2. QED
            BY <3>1, <5>2, <6>1 DEF Talked, Numbering
        <5>4. Opened(r, n, v, c) /\ r.calls = <<>> /\ r.playing = FALSE
          BY <2>1, <3>1, <5>2, <5>3 DEF Opened, NoStream, HasStream
        <5>5. GoesOnAt(s, r, n, v, c)
          BY <3>1, <5>2, <5>4 DEF GoesOnAt, TalksAt, Awaits
        <5>6. Resumes(s, r, v, c)
          BY <5>5 DEF Resumes
        <5>7. Resumes(s, t, v, c)
          BY <3>2, <5>1, <5>6
        <5>8. QED
          BY <4>5, <4>6, <4>9, <5>7 DEF t
      <4>10. QED
        BY <4>8, <4>9
    <3>5. QED
      BY <3>3, <3>4
  <2>5. QED
    BY <2>3, <2>4
<1>5. QED
  BY <1>3, <1>4

\* RTMP_Close in a conversation
LEMMA CloseOver ==
    ASSUME NEW s, NEW n \in 0 .. 8, NEW v, NEW c \in Nat \ {0}, Opened(s, n, v, c)
    PROVE  Over(s, Close(s), v, c)
BY CloseEnds, EndsOver

\* A status: the stream plays once it has been accepted, and it has been published then.
LEMMA StatusResumes ==
    ASSUME NEW s, NEW n \in Turns, NEW v, NEW c \in Nat \ {0}, TalksAt(s, n, v, c),
           s.playing = FALSE, NEW code, code = "Publish.Start" => v.accepted,
           v.accepted => "publish" \in AllSaid(s.sent)
    PROVE  Resumes(s, HandleStatus(s, code), v, c)
<1>1. CASE code \in {"Failed", "Publish.BadName", "Play.Complete"}
  <2>1. HandleStatus(s, code) = Close(s)
    BY <1>1 DEF HandleStatus
  <2>2. Opened(s, n, v, c) /\ n \in 0 .. 8
    BY DEF TalksAt, Turns
  <2>3. QED
    BY <2>1, <2>2, CloseOver DEF Resumes
<1>2. CASE code = "Publish.Start"
  <2> DEFINE p == [s EXCEPT !.playing = TRUE]
             t == HandleStatus(s, code)
  <2>1. t = Erase(p, Named(s, "publish"))
    BY <1>2 DEF HandleStatus
  <2>2. Talked(s, FirstOf(n), v, c) /\ Shaped(s) /\ Opened(s, n, v, c)
    BY DEF TalksAt, Opened, Talked, Form
  <2>3. n = 6
    <3>1. "publish" \in FirstOf(n)
      BY <1>2, <2>2 DEF Talked
    <3>2. "publish" \notin FirstOf(2) /\ "publish" \notin FirstOf(5)
      BY Orders
    <3>3. QED
      BY <3>1, <3>2 DEF Turns
  <2>4. /\ Shaped(p) /\ p.socket = s.socket /\ p.sent = s.sent /\ p.invokes = s.invokes
        /\ p.unacked = s.unacked /\ p.nStreams = s.nStreams
        /\ p.curStreamIdx = s.curStreamIdx /\ p.flags = s.flags /\ p.app = s.app
        /\ p.id = s.id /\ p.calls = s.calls
    BY <2>2 DEF Shaped, Fields
  <2> HIDE DEF p, t
  <2>5. s.calls = <<>> \/ Waiting(s, "publish")
    BY <2>3 DEF TalksAt, Awaits
  <2>6. t = p \/ t = [p EXCEPT !.calls = <<>>]
    <3>1. CASE s.calls = <<>>
      BY <2>1, <3>1, NoCall
    <3>2. CASE Waiting(s, "publish")
      <4>1. PICK txn : s.calls = <<[name |-> "publish", txn |-> txn]>>
        BY <3>2 DEF Waiting
      <4>2. QED
        BY <2>1, <2>2, <2>4, <4>1, OneCall
    <3>3. QED
      BY <2>5, <3>1, <3>2
  <2>7. p.playing = TRUE
    BY <2>2 DEF p, Shaped, Fields
  <2>8. IsSeq(<<>>)
    BY EmptySeq DEF IsSeq
  <2>9. /\ Shaped(t) /\ t.socket = s.socket /\ t.sent = s.sent /\ t.invokes = s.invokes
        /\ t.unacked = s.unacked /\ t.nStreams = s.nStreams
        /\ t.curStreamIdx = s.curStreamIdx /\ t.flags = s.flags /\ t.app = s.app
        /\ t.id = s.id /\ (t.calls = s.calls \/ t.calls = <<>>)
    <3>1. CASE t = p
      BY <2>4, <3>1
    <3>2. CASE t = [p EXCEPT !.calls = <<>>]
      BY <2>4, <2>8, <3>2 DEF Shaped, Fields
    <3>3. QED
      BY <2>6, <3>1, <3>2
  <2>10. s.unacked \in 0 .. Window
    BY <2>2 DEF Talked, Form
  <2>11. Talked(t, FirstOf(n), v, c)
    BY <2>2, <2>9, <2>10, TalkedKept
  <2>12. Opened(t, n, v, c)
    BY <2>2, <2>9, <2>11 DEF Opened, NoStream, HasStream
  <2>13. Awaits(t, n) /\ Extends(s.sent, t.sent)
    <3>1. Extends(s.sent, t.sent)
      BY <2>9 DEF Extends
    <3>2. CASE t.calls = <<>>
      BY <3>1, <3>2 DEF Awaits
    <3>3. CASE t.calls = s.calls
      <4>1. \A name : Waiting(s, name) => Waiting(t, name)
        BY <3>1, <3>3, WaitingOn
      <4>2. QED
        <5>1. CASE s.calls = <<>>
          BY <3>1, <3>3, <5>1 DEF Awaits
        <5>2. CASE Waiting(s, "publish")
          <6>1. Waiting(t, "publish")
            BY <4>1, <5>2
          <6>2. QED
            BY <2>3, <3>1, <6>1 DEF Awaits
        <5>3. QED
          BY <2>5, <5>1, <5>2
    <3>4. QED
      BY <2>9, <3>1, <3>2, <3>3
  <2>14. GoesOnAt(s, t, n, v, c)
    BY <1>2, <2>3, <2>12, <2>13 DEF GoesOnAt, TalksAt
  <2>15. QED
    BY <2>14 DEF Resumes, t
<1>3. CASE code \notin {"Failed", "Publish.BadName", "Play.Complete", "Publish.Start"}
  <2>1. HandleStatus(s, code) = s
    BY <1>3 DEF HandleStatus
  <2>2. QED
    BY <2>1, BesideResumes
<1>4. QED
  BY <1>1, <1>2, <1>3

\* Whatever the server says that it may say, the conversation goes on or is over.
LEMMA ConversationResumes ==
    ASSUME NEW s, NEW n \in Turns, NEW v, NEW c \in Nat \ {0},
           TalksAt(s, n, v, c), s.playing = FALSE, v.accepted => "publish" \in AllSaid(s.sent),
           NEW m, NEW h, Backed(m, s.sent, h, v, c)
    PROVE  /\ ~ LogsIn(s, m) => Resumes(s, ClientPacket(s, m), v, c)
           /\ LogsIn(s, m) => LoggedIn(s, ClientPacket(s, m), v, c)
<1> DEFINE t == ClientPacket(s, m)
<1>1. LogsIn(s, m) => m.kind = "_error"
  BY DEF LogsIn
<1>2. CASE m.kind = "_error"
  <2>1. t = HandleError(s, m)
    BY <1>2 DEF ClientPacket, HandleInvoke
  <2>2. QED
    BY <1>2, <2>1, ErrorResumes
<1>3. CASE m.kind # "_error"
  <2>1. SUFFICES Resumes(s, t, v, c)
    BY <1>1, <1>3
  <2>2. /\ Resumes(s, s, v, c) /\ Resumes(s, SendPong(s), v, c)
        /\ Resumes(s, SendCheckBW(s), v, c) /\ Resumes(s, SendCheckBWResult(s), v, c)
        /\ Resumes(s, Erase(s, Named(s, "_checkbw")), v, c)
    BY BesideResumes
  <2>3. Resumes(s, Close(s), v, c)
    <3>1. Opened(s, n, v, c) /\ n \in 0 .. 8
      BY DEF TalksAt, Turns
    <3>2. QED
      BY <3>1, CloseOver DEF Resumes
  <2>4. CASE m.kind = "_result"
    <3>1. t = HandleResult(s, m)
      BY <2>4 DEF ClientPacket, HandleInvoke
    <3>2. QED
      BY <2>4, <3>1, ResultResumes
  <2>5. CASE m.kind = "onStatus"
    <3>1. t = HandleStatus(s, m.code)
      BY <2>5 DEF ClientPacket, HandleInvoke
    <3>2. m.code = "Publish.Start" => v.accepted
      BY <2>5 DEF Backed
    <3>3. Resumes(s, HandleStatus(s, m.code), v, c)
      BY <3>2, StatusResumes
    <3>4. QED
      BY <3>1, <3>3
  <2>6. CASE m.kind \notin {"_error", "_result", "onStatus"}
    <3>1. t \in {s, SendPong(s), SendCheckBW(s), SendCheckBWResult(s),
                 Erase(s, Named(s, "_checkbw")), Close(s)}
      BY <2>6 DEF ClientPacket, HandleInvoke
    <3>2. QED
      BY <2>2, <2>3, <3>1
  <2>7. QED
    BY <1>3, <2>4, <2>5, <2>6
<1>4. QED
  BY <1>2, <1>3

-----------------------------------------------------------------------------
\* What the server says

(* The server goes on from v to w on a connection where q has been said: it
   challenges only in its answer to a connect that gave a name. *)
Later(q, v, w, c) ==
    /\ w.assigned = v.assigned \/ w.assigned = c
    /\ v.accepted => w.accepted
    /\ \/ w.challenge = v.challenge
       \/ \E i \in DOMAIN q : q[i].kind = "connect" /\ q[i].app.stage = "named"

\* What has been said stays right.
LEMMA SpeechLater ==
    ASSUME NEW q, IsSeq(q), NEW v, NEW w, NEW c, Speech(q, v, c), Later(q, v, w, c)
    PROVE  Speech(q, w, c)
<1>1. ASSUME NEW i \in DOMAIN q, q[i].kind = "connect"
      PROVE  AppFits(q[i].app, w)
  <2>1. AppFits(q[i].app, v)
    BY <1>1 DEF Speech, Fits
  <2>2. CASE w.challenge = v.challenge
    BY <2>1, <2>2 DEF AppFits
  <2>3. CASE \E j \in DOMAIN q : q[j].kind = "connect" /\ q[j].app.stage = "named"
    <3>1. PICK j \in DOMAIN q : q[j].kind = "connect" /\ q[j].app.stage = "named"
      BY <2>3
    <3>2. j = i
      BY <1>1, <3>1, ConnectOnce DEF Speech
    <3>3. QED
      BY <3>1, <3>2 DEF AppFits
  <2>4. QED
    BY <2>2, <2>3 DEF Later
<1>2. ASSUME NEW i \in DOMAIN q
      PROVE  Fits(q[i], w, c)
  BY <1>1 DEF Speech, Fits, Later
<1>3. QED
  BY <1>2 DEF Speech

\* The conversation is at the same turn when the server has gone on.
LEMMA TalksLater ==
    ASSUME NEW s, NEW n, NEW v, NEW w, NEW c, Opened(s, n, v, c), Later(s.sent, v, w, c)
    PROVE  Opened(s, n, w, c) /\ (TalksAt(s, n, v, c) => TalksAt(s, n, w, c))
<1>1. Speech(s.sent, w, c)
  BY SpeechLater DEF Opened, Talked, Form, Shaped
<1>2. Talked(s, FirstOf(n), w, c)
  BY <1>1 DEF Opened, Talked
<1>3. Opened(s, n, w, c)
  BY <1>2 DEF Opened, HasStream, Later
<1>4. QED
  BY <1>3 DEF TalksAt

\* An answer that is on its way stays an answer: the challenge of a rejection is the last one.
LEMMA BackedLater ==
    ASSUME NEW q, IsSeq(q), NEW v, NEW w, NEW c, Speech(q, v, c), Later(q, v, w, c),
           NEW h \in Nat, NEW k \in Nat, h <= k,
           w.challenge = v.challenge \/ (k = h + 1 /\ k \in DOMAIN q /\ q[k].kind = "connect"),
           NEW m, Backed(m, q, h, v, c)
    PROVE  Backed(m, q, k, w, c)
<1>1. \A i \in DOMAIN q : i <= h => i <= k
  <2>1. DOMAIN q \subseteq Nat
    BY LenProperties DEF IsSeq
  <2>2. QED
    BY <2>1
<1>2. ASSUME m.kind = "_result"
      PROVE  \E i \in DOMAIN q : i <= k /\ ResultOf(m, q[i], w, c)
  <2>1. PICK i \in DOMAIN q : i <= h /\ ResultOf(m, q[i], v, c)
    BY <1>2 DEF Backed
  <2>2. ResultOf(m, q[i], w, c)
    BY <2>1 DEF ResultOf, Later
  <2>3. QED
    BY <1>1, <2>1, <2>2
<1>3. ASSUME m.kind = "_error"
      PROVE  \E i \in DOMAIN q : i <= k /\ RefusalOf(m, q[i], w, c)
  <2>1. PICK i \in DOMAIN q : i <= h /\ RefusalOf(m, q[i], v, c)
    BY <1>3 DEF Backed
  <2>2. RefusalOf(m, q[i], w, c)
    <3>1. CASE w.challenge = v.challenge
      BY <2>1, <3>1 DEF RefusalOf
    <3>2. CASE k = h + 1 /\ k \in DOMAIN q /\ q[k].kind = "connect"
      <4>1. q[i].kind # "connect"
        <5>1. SUFFICES ASSUME q[i].kind = "connect" PROVE FALSE
          OBVIOUS
        <5>2. i = k
          BY <3>2, <5>1, ConnectOnce DEF Speech
        <5>3. QED
          BY <2>1, <3>2, <5>2
      <4>2. QED
        BY <2>1, <4>1 DEF RefusalOf
    <3>3. QED
      BY <3>1, <3>2
  <2>3. QED
    BY <1>1, <2>1, <2>2
<1>4. m.kind = "onStatus" /\ m.code = "Publish.Start" => w.accepted
  BY DEF Backed, Later
<1>5. QED
  BY <1>2, <1>3, <1>4 DEF Backed

\* The messages on their way are answers.
AllBacked(ms, q, h, v, c) ==
    IsSeq(ms) /\ \A k \in DOMAIN ms : Backed(ms[k], q, h, v, c)

\* Of the messages on their way one is read.
LEMMA ReadBacked ==
    ASSUME NEW ms, NEW q, NEW h, NEW v, NEW c, AllBacked(ms, q, h, v, c), ms # <<>>
    PROVE  AllBacked(Tail(ms), q, h, v, c) /\ Backed(Head(ms), q, h, v, c)
<1>1. PICK S : ms \in Seq(S)
  BY DEF AllBacked, IsSeq
<1>2. Len(ms) \in Nat /\ Len(ms) # 0 /\ DOMAIN ms = 1 .. Len(ms)
  BY <1>1, EmptySeq, LenProperties
<1>3. /\ Tail(ms) \in Seq(S) /\ Len(Tail(ms)) = Len(ms) - 1 /\ Head(ms) = ms[1]
      /\ \A i \in 1 .. Len(Tail(ms)) : Tail(ms)[i] = ms[i + 1]
  BY <1>1, HeadTailProperties
<1>4. DOMAIN Tail(ms) = 1 .. Len(ms) - 1
  BY <1>3, LenProperties
<1>5. /\ \A i \in 1 .. Len(ms) - 1 : i + 1 \in DOMAIN ms /\ Tail(ms)[i] = ms[i + 1]
      /\ 1 \in DOMAIN ms
  BY <1>2, <1>3
<1>6. IsSeq(Tail(ms))
  BY <1>3 DEF IsSeq
<1>7. QED
  BY <1>3, <1>4, <1>5, <1>6 DEF AllBacked

\* One is added.
LEMMA ToldBacked ==
    ASSUME NEW ms, NEW q, NEW h, NEW v, NEW c, AllBacked(ms, q, h, v, c),
           NEW m, Backed(m, q, h, v, c)
    PROVE  AllBacked(ms \o <<m>>, q, h, v, c)
<1>1. PICK S : ms \in Seq(S)
  BY DEF AllBacked, IsSeq
<1>2. ms \in Seq(S \cup {m}) /\ <<m>> \in Seq(S \cup {m})
  BY <1>1, SeqMonotonic
<1>3. /\ ms \o <<m>> \in Seq(S \cup {m}) /\ Len(ms \o <<m>>) = Len(ms) + Len(<<m>>)
      /\ \A i \in 1 .. Len(ms) + Len(<<m>>) :
            (ms \o <<m>>)[i] = IF i <= Len(ms) THEN ms[i] ELSE <<m>>[i - Len(ms)]
  BY <1>2, ConcatProperties
<1>4. Len(<<m>>) = 1 /\ <<m>>[1] = m
  OBVIOUS
<1>5. Len(ms) \in Nat /\ DOMAIN ms = 1 .. Len(ms) /\ DOMAIN (ms \o <<m>>) = 1 .. Len(ms) + 1
  BY <1>1, <1>3, <1>4, LenProperties
<1>6. ASSUME NEW i \in 1 .. Len(ms) + 1
      PROVE  (ms \o <<m>>)[i] = m \/ (i \in DOMAIN ms /\ (ms \o <<m>>)[i] = ms[i])
  <2>1. CASE i <= Len(ms)
    BY <1>3, <1>4, <1>5, <2>1
  <2>2. CASE i = Len(ms) + 1
    BY <1>3, <1>4, <1>5, <2>2
  <2>3. QED
    BY <1>5, <1>6, <2>1, <2>2
<1>7. IsSeq(ms \o <<m>>)
  BY <1>3 DEF IsSeq
<1>8. QED
  BY <1>5, <1>6, <1>7 DEF AllBacked

\* Nothing is on its way.
LEMMA NoneBacked ==
    ASSUME NEW q, NEW h, NEW v, NEW c
    PROVE  AllBacked(<<>>, q, h, v, c)
<1>1. DOMAIN <<>> = {} /\ IsSeq(<<>>)
  BY EmptySeq DEF IsSeq
<1>2. QED
  BY <1>1 DEF AllBacked

\* A sequence that goes on is not shorter.
LEMMA ExtendsLen ==
    ASSUME NEW p, NEW q, IsSeq(p), IsSeq(q), Extends(p, q), NEW h \in 0 .. Len(p)
    PROVE  h \in 0 .. Len(q) /\ Len(p) \in Nat /\ Len(q) \in Nat /\ AllSaid(p) \subseteq AllSaid(q)
<1>1. /\ Len(p) \in Nat /\ DOMAIN p = 1 .. Len(p)
      /\ Len(q) \in Nat /\ DOMAIN q = 1 .. Len(q)
  BY LenProperties DEF IsSeq
<1>2. Len(p) <= Len(q)
  <2>1. CASE Len(p) = 0
    BY <1>1, <2>1
  <2>2. CASE Len(p) # 0
    <3>1. Len(p) \in DOMAIN p
      BY <1>1, <2>2
    <3>2. Len(p) \in 1 .. Len(q)
      BY <1>1, <3>1 DEF Extends
    <3>3. QED
      BY <1>1, <3>2
  <2>3. QED
    BY <2>1, <2>2
<1>3. AllSaid(p) \subseteq AllSaid(q)
  BY DEF AllSaid, Extends
<1>4. QED
  BY <1>1, <1>2, <1>3

-----------------------------------------------------------------------------
\* The sends of a step

\* Whether a send will fail is no part of the conversation.
LEMMA CreditAside ==
    ASSUME NEW s, Form(s), NEW k
    PROVE  LET t == [s EXCEPT !.credit = k]
           IN  /\ Form(t) /\ t.credit = k
               /\ t.socket = s.socket /\ t.sent = s.sent /\ t.id = s.id /\ t.calls = s.calls
               /\ t.invokes = s.invokes /\ t.playing = s.playing /\ t.unacked = s.unacked
               /\ t.nStreams = s.nStreams /\ t.curStreamIdx = s.curStreamIdx
               /\ t.flags = s.flags /\ t.app = s.app
<1> DEFINE t == [s EXCEPT !.credit = k]
<1>1. /\ Shaped(t) /\ t.credit = k
      /\ t.socket = s.socket /\ t.sent = s.sent /\ t.id = s.id /\ t.calls = s.calls
      /\ t.invokes = s.invokes /\ t.playing = s.playing /\ t.unacked = s.unacked
      /\ t.nStreams = s.nStreams /\ t.curStreamIdx = s.curStreamIdx
      /\ t.flags = s.flags /\ t.app = s.app
  BY DEF Form, Shaped, Fields
<1> HIDE DEF t
<1>2. Form(t)
  BY <1>1 DEF Form
<1>3. QED
  BY <1>1, <1>2 DEF t

\* The conversation is the same, however many sends will succeed.
LEMMA CreditStays ==
    ASSUME NEW s, NEW W, NEW v, NEW c, Talked(s, W, v, c), NEW k
    PROVE  LET t == [s EXCEPT !.credit = k]
           IN  Stays(s, t, W, v, c) /\ t.calls = s.calls /\ t.credit = k
<1> DEFINE t == [s EXCEPT !.credit = k]
<1>1. Form(s) /\ Shaped(s)
  BY DEF Talked, Form
<1>2. /\ Form(t) /\ t.credit = k
      /\ t.socket = s.socket /\ t.sent = s.sent /\ t.id = s.id /\ t.calls = s.calls
      /\ t.invokes = s.invokes /\ t.playing = s.playing /\ t.unacked = s.unacked
      /\ t.nStreams = s.nStreams /\ t.curStreamIdx = s.curStreamIdx
      /\ t.flags = s.flags /\ t.app = s.app
  BY <1>1, CreditAside
<1> HIDE DEF t
<1>3. Talked(t, W, v, c)
  BY <1>2, TalkedKept DEF Form
<1>4. Stays(s, t, W, v, c)
  BY <1>2, <1>3 DEF Stays, SameStream, Extends
<1>5. QED
  BY <1>2, <1>4 DEF t

\* A step tries its sends on the same conversation.
LEMMA TriesHere ==
    ASSUME NEW r, NEW n, NEW v, NEW c, Opened(r, n, v, c), NEW s \in Trying(r)
    PROVE  /\ Opened(s, n, v, c) /\ (TalksAt(r, n, v, c) => TalksAt(s, n, v, c))
           /\ s.sent = r.sent /\ s.calls = r.calls /\ s.playing = r.playing
           /\ s.app = r.app /\ s.flags = r.flags
<1>1. PICK k \in 0 .. MostSends : s = [r EXCEPT !.credit = k]
  BY DEF Trying
<1>2. Talked(r, FirstOf(n), v, c) /\ Form(r)
  BY DEF Opened, Talked
<1>3. Stays(r, s, FirstOf(n), v, c) /\ s.calls = r.calls
  BY <1>1, <1>2, CreditStays
<1>4. s.sent = r.sent /\ s.playing = r.playing /\ s.app = r.app /\ s.flags = r.flags
  BY <1>1, <1>2, CreditAside
<1>5. QED
  BY <1>3, <1>4, OpenedOn, TalksOn

\* What is left after the sends of a step is the same conversation.
LEMMA OverSettled ==
    ASSUME NEW s, NEW t, NEW v, NEW c, Over(s, t, v, c)
    PROVE  /\ Over(s, Settled(t), v, c) /\ Settled(t).credit = Never
           /\ Redials(t, v) => Redials(Settled(t), v)
<1> DEFINE u == Settled(t)
<1>1. /\ Form(u) /\ u.credit = Never
      /\ u.socket = t.socket /\ u.sent = t.sent /\ u.id = t.id /\ u.calls = t.calls
      /\ u.invokes = t.invokes /\ u.playing = t.playing /\ u.curStreamIdx = t.curStreamIdx
      /\ u.flags = t.flags /\ u.app = t.app
  BY CreditAside DEF Over, Settled
<1> HIDE DEF u
<1>2. Over(s, u, v, c)
  BY <1>1 DEF Over
<1>3. Redials(t, v) => Redials(u, v)
  BY <1>1 DEF Redials, CleanLate
<1>4. QED
  BY <1>1, <1>2, <1>3 DEF u

\* A conversation that goes on
LEMMA OpenedSettled ==
    ASSUME NEW t, NEW n, NEW v, NEW c, Opened(t, n, v, c)
    PROVE  /\ Opened(Settled(t), n, v, c) /\ (TalksAt(t, n, v, c) => TalksAt(Settled(t), n, v, c))
           /\ Settled(t).credit = Never /\ Settled(t).sent = t.sent
           /\ Settled(t).playing = t.playing /\ Settled(t).socket = "open"
<1>1. Talked(t, FirstOf(n), v, c) /\ Form(t)
  BY DEF Opened, Talked
<1>2. /\ Stays(t, Settled(t), FirstOf(n), v, c) /\ Settled(t).calls = t.calls
      /\ Settled(t).credit = Never
  BY <1>1, CreditStays DEF Settled
<1>3. Settled(t).sent = t.sent /\ Settled(t).playing = t.playing
  BY <1>1, CreditAside DEF Settled
<1>4. Settled(t).socket = "open"
  BY <1>2 DEF Stays, Talked
<1>5. QED
  BY <1>2, <1>3, <1>4, OpenedOn, TalksOn

\* A conversation that goes on, or is over
LEMMA ResumesSettled ==
    ASSUME NEW s, NEW t, NEW v, NEW c, Resumes(s, t, v, c)
    PROVE  Resumes(s, Settled(t), v, c) /\ Settled(t).credit = Never
<1>1. CASE Over(s, t, v, c)
  BY <1>1, OverSettled DEF Resumes
<1>2. CASE \E n \in Turns : GoesOnAt(s, t, n, v, c)
  <2>1. PICK n \in Turns : GoesOnAt(s, t, n, v, c)
    BY <1>2
  <2>2. Opened(t, n, v, c) /\ TalksAt(t, n, v, c)
    BY <2>1 DEF GoesOnAt, TalksAt
  <2>3. /\ TalksAt(Settled(t), n, v, c) /\ Settled(t).credit = Never
        /\ Settled(t).sent = t.sent /\ Settled(t).playing = t.playing
    BY <2>2, OpenedSettled
  <2>4. GoesOnAt(s, Settled(t), n, v, c)
    BY <2>1, <2>3 DEF GoesOnAt
  <2>5. QED
    BY <2>3, <2>4 DEF Resumes
<1>3. QED
  BY <1>1, <1>2 DEF Resumes

\* Only what has been said before matters to what goes on.
LEMMA SameSpeech ==
    ASSUME NEW r, NEW s, r.sent = s.sent, NEW t, NEW v, NEW c
    PROVE  /\ Over(s, t, v, c) => Over(r, t, v, c)
           /\ LoggedIn(s, t, v, c) => LoggedIn(r, t, v, c)
           /\ Resumes(s, t, v, c) => Resumes(r, t, v, c)
BY DEF Over, LoggedIn, Resumes, GoesOnAt

\* A message is read and handled.
LEMMA ReadResumes ==
    ASSUME NEW r, NEW n \in Turns, NEW v, NEW c \in Nat \ {0}, TalksAt(r, n, v, c),
           r.playing = FALSE, v.accepted => "publish" \in AllSaid(r.sent),
           NEW m, NEW h, Backed(m, r.sent, h, v, c), NEW s \in Trying(r)
    PROVE  LET k == Count(s)
               t == ClientPacket(k, m)
           IN  IF k.socket = "open" /\ LogsIn(k, m)
               THEN LoggedIn(r, Settled(t), v, c) /\ Settled(t).credit = Never
               ELSE LET u == Settled(IF k.socket = "open" THEN t ELSE k)
                    IN  Resumes(r, u, v, c) /\ u.credit = Never
<1> DEFINE k == Count(s)
           t == ClientPacket(k, m)
<1>1. /\ Opened(s, n, v, c) /\ TalksAt(s, n, v, c) /\ s.sent = r.sent /\ s.playing = FALSE
      /\ Talked(s, FirstOf(n), v, c)
  <2>1. Opened(r, n, v, c)
    BY DEF TalksAt
  <2>2. /\ Opened(s, n, v, c) /\ TalksAt(s, n, v, c) /\ s.sent = r.sent /\ s.playing = FALSE
    BY <2>1, TriesHere
  <2>3. QED
    BY <2>2 DEF Opened
<1>2. \/ Ended(s, k, v, c)
      \/ Stays(s, k, FirstOf(n), v, c) /\ k.calls = s.calls
  BY <1>1, CountGoesOn
<1> HIDE DEF k
<1>3. CASE Ended(s, k, v, c)
  <2>1. k.socket = "closed" /\ Resumes(s, k, v, c)
    BY <1>3, EndsOver DEF Ended, Left, Resumes
  <2>2. Resumes(r, k, v, c)
    BY <1>1, <2>1, SameSpeech
  <2>3. Resumes(r, Settled(k), v, c) /\ Settled(k).credit = Never
    BY <2>2, ResumesSettled
  <2>4. QED
    BY <2>1, <2>3 DEF k
<1>4. CASE Stays(s, k, FirstOf(n), v, c) /\ k.calls = s.calls
  <2>1. /\ TalksAt(k, n, v, c) /\ k.playing = FALSE /\ k.socket = "open"
        /\ AllSaid(k.sent) = AllSaid(s.sent) /\ Extends(s.sent, k.sent)
    BY <1>1, <1>4, TalksOn DEF Stays, SameStream, Talked
  <2>2. Backed(m, k.sent, h, v, c)
    BY <1>1, <2>1, BackedOn
  <2>3. v.accepted => "publish" \in AllSaid(k.sent)
    BY <1>1, <2>1
  <2>4. /\ ~ LogsIn(k, m) => Resumes(k, t, v, c)
        /\ LogsIn(k, m) => LoggedIn(k, t, v, c)
    BY <2>1, <2>2, <2>3, ConversationResumes
  <2> HIDE DEF t
  <2>5. Extends(r.sent, k.sent)
    BY <1>1, <2>1
  <2>6. CASE LogsIn(k, m)
    <3>1. Over(k, t, v, c) /\ Redials(t, v)
      BY <2>4, <2>6 DEF LoggedIn
    <3>2. Over(r, t, v, c)
      BY <2>5, <3>1, ExtendsOn DEF Over
    <3>3. LoggedIn(r, Settled(t), v, c) /\ Settled(t).credit = Never
      BY <3>1, <3>2, OverSettled DEF LoggedIn
    <3>4. QED
      BY <2>1, <2>6, <3>3 DEF k, t
  <2>7. CASE ~ LogsIn(k, m)
    <3>1. Resumes(r, t, v, c)
      <4>1. CASE Over(k, t, v, c)
        BY <2>5, <4>1, ExtendsOn DEF Over, Resumes
      <4>2. CASE \E j \in Turns : GoesOnAt(k, t, j, v, c)
        BY <2>5, <4>2, ExtendsOn DEF GoesOnAt, Resumes
      <4>3. QED
        BY <2>4, <2>7, <4>1, <4>2 DEF Resumes
    <3>2. Resumes(r, Settled(t), v, c) /\ Settled(t).credit = Never
      BY <3>1, ResumesSettled
    <3>3. QED
      BY <2>1, <2>7, <3>2 DEF k, t
  <2>8. QED
    BY <2>6, <2>7
<1>5. QED
  BY <1>2, <1>3, <1>4

\* The stream goes on.
StreamsAt(r, t, n, v, c) == Opened(t, n, v, c) /\ Extends(r.sent, t.sent)

\* Metadata or media is sent: the stream goes on, or is over.
LEMMA MediaSaid ==
    ASSUME NEW s, NEW n \in 6 .. 8, NEW j \in 7 .. 8, NEW v, NEW c, Opened(s, n, v, c),
           NEW kind, \/ n = 6 /\ j = 7 /\ kind = "metadata" /\ v.accepted
                     \/ n \in 7 .. 8 /\ j = 8 /\ kind = "media"
    PROVE  LET t == Send(s, Media(kind, s))
           IN  Over(s, t, v, c) \/ StreamsAt(s, t, j, v, c)
<1> DEFINE m == Media(kind, s)
           t == Send(s, m)
<1>1. m.kind = kind /\ m.stream = s.id
  BY DEF Media
<1>2. Talked(s, FirstOf(n), v, c) /\ HasStream(s, v, c)
  BY DEF Opened
<1> HIDE DEF m
<1>3. Fits(m, v, c) /\ m.kind \notin Commands
  BY <1>1, <1>2 DEF Fits, HasStream, Commands
<1>4. FirstOf(n) \in Preludes(m.kind)
  <2>1. CASE n = 6 /\ kind = "metadata"
    BY <1>1, <2>1, Openings
  <2>2. CASE n \in 7 .. 8 /\ kind = "media"
    <3>1. n = 7 \/ n = 8
      BY <2>2
    <3>2. QED
      BY <1>1, <2>2, <3>1, Openings
  <2>3. QED
    BY <2>1, <2>2
<1>5. FirstOf(n) \cup ({m.kind} \cap Kinds) = FirstOf(j)
  <2>1. CASE n = 6 /\ j = 7 /\ kind = "metadata"
    BY <1>1, <2>1, Orders
  <2>2. CASE n = 7 /\ j = 8 /\ kind = "media"
    BY <1>1, <2>2, Orders
  <2>3. CASE n = 8 /\ j = 8 /\ kind = "media"
    BY <1>1, <2>3, Orders
  <2>4. n \in 7 .. 8 => n = 7 \/ n = 8
    OBVIOUS
  <2>5. QED
    BY <2>1, <2>2, <2>3, <2>4
<1>6. \/ Ended(s, t, v, c)
      \/ Stays(s, t, FirstOf(n) \cup ({m.kind} \cap Kinds), v, c)
  BY <1>2, <1>3, <1>4, SendGrows
<1> HIDE DEF t
<1>7. CASE Ended(s, t, v, c)
  BY <1>7, EndsOver DEF t, m
<1>8. CASE Stays(s, t, FirstOf(j), v, c)
  <2>1. HasStream(t, v, c) /\ Talked(t, FirstOf(j), v, c) /\ Extends(s.sent, t.sent)
    BY <1>2, <1>8 DEF HasStream, Stays, SameStream
  <2>2. StreamsAt(s, t, j, v, c)
    BY <2>1 DEF StreamsAt, Opened
  <2>3. QED
    BY <2>2 DEF t, m
<1>9. QED
  BY <1>5, <1>6, <1>7, <1>8

-----------------------------------------------------------------------------
\* The state of the conversation

\* The places of the thread of the output
Clients == {"idle", "dialling", "handshake", "reading", "starting", "streaming"}

\* Where the client is in the conversation
Stance ==
    /\ client = "idle" =>
          rtmp.socket = "closed" \/ \E n \in Turns : Opened(rtmp, n, server, connection)
    /\ client = "dialling" => Redials(rtmp, server)
    /\ client = "handshake" =>
          /\ Opened(rtmp, 0, server, connection) /\ rtmp.sent = <<>> /\ rtmp.calls = <<>>
          /\ rtmp.playing = FALSE /\ nested < connection
          /\ AppFits(rtmp.app, server) /\ CleanLate(rtmp)
    /\ client = "reading" =>
          /\ rtmp.playing = FALSE /\ nested < connection
          /\ \E n \in Turns : TalksAt(rtmp, n, server, connection)
    /\ client = "starting" => server.accepted /\ Opened(rtmp, 6, server, connection)
    /\ client = "streaming" => \E n \in 7 .. 8 : Opened(rtmp, n, server, connection)

\* What is kept of the server
ServerFields == {"challenge", "assigned", "accepted", "extra", "gone"}

(* What has been said is a conversation; on an open connection the stream has
   been published when it has been accepted, what is on its way to the client
   answers what it has said, and it has said the first part of the conversation
   that its state calls for. *)
TalkInv ==
    /\ client \in Clients
    /\ connection \in 0 .. MaxConnections /\ nested \in 0 .. connection
    /\ attempts \in 0 .. MaxAttempts /\ silent \in BOOLEAN
    /\ DOMAIN server = ServerFields
    /\ Form(rtmp) /\ rtmp.socket \in {"open", "closed"} /\ rtmp.credit = Never
    /\ heard \in 0 .. Len(rtmp.sent) /\ Speech(rtmp.sent, server, connection)
    /\ rtmp.socket = "closed" => rtmp.id \in {NoId, 0}
    /\ rtmp.socket = "open" =>
          /\ connection > 0
          /\ server.accepted => "publish" \in AllSaid(rtmp.sent)
          /\ AllBacked(toClient, rtmp.sent, heard, server, connection)
    /\ Stance

\* Before the first attempt nothing has been said.
LEMMA TalkStarts == Init => TalkInv
<1> SUFFICES ASSUME Init
             PROVE  TalkInv
  OBVIOUS
<1>1. IsSeq(<<>>) /\ DOMAIN <<>> = {} /\ Len(<<>>) = 0
  BY EmptySeq DEF IsSeq
<1>2. /\ MaxConnections \in Nat /\ MaxAttempts \in Nat /\ Window \in Nat
  BY ConstantsAssumption
<1>3. Shaped(Fresh)
  BY <1>1 DEF Shaped, Fresh, Fields
<1>4. /\ Fresh.socket = "closed" /\ Fresh.credit = Never /\ Fresh.sent = <<>> /\ Fresh.id = 0
      /\ Fresh.invokes = 0 /\ Fresh.nStreams = 0 /\ Fresh.curStreamIdx = 0
      /\ Fresh.unacked = 0 /\ Fresh.flags = {} /\ Fresh.app.stage = "none"
  BY DEF Fresh, App
<1>5. Form(Fresh)
  BY <1>2, <1>3, <1>4 DEF Form, Stages
<1>6. Speech(<<>>, server, connection)
  BY <1>1 DEF Speech, Follows
<1>7. client = "idle" /\ rtmp = Fresh /\ connection = 0 /\ nested = 0 /\ attempts = 0
      /\ silent = FALSE /\ heard = 0
  BY DEF Init
<1>8. Stance
  BY <1>4, <1>7 DEF Stance
<1>9. 0 \in 0 .. MaxConnections /\ 0 \in 0 .. MaxAttempts /\ 0 \in 0 .. 0
  BY <1>2
<1>10. heard \in 0 .. Len(rtmp.sent)
  BY <1>1, <1>4, <1>7, <1>9
<1>11. rtmp.socket = "closed" /\ rtmp.id = 0 /\ rtmp.credit = Never /\ Form(rtmp)
       /\ Speech(rtmp.sent, server, connection)
  BY <1>4, <1>5, <1>6, <1>7
<1>12. DOMAIN server = ServerFields
  BY DEF Init, ServerFields
<1>13. QED
  BY <1>7, <1>8, <1>9, <1>10, <1>11, <1>12 DEF TalkInv, Clients

\* Every step of the client and of the server keeps the conversation.
LEMMA TalkGoesOn == TalkInv /\ [Next]_vars => TalkInv'
<1> SUFFICES ASSUME TalkInv, [Next]_vars
             PROVE  TalkInv'
  OBVIOUS
<1>1. /\ client \in Clients /\ connection \in Nat /\ connection \in 0 .. MaxConnections
      /\ nested \in 0 .. connection /\ attempts \in 0 .. MaxAttempts /\ silent \in BOOLEAN
      /\ Form(rtmp) /\ Shaped(rtmp) /\ IsSeq(rtmp.sent) /\ Len(rtmp.sent) \in Nat
      /\ heard \in 0 .. Len(rtmp.sent) /\ Speech(rtmp.sent, server, connection)
      /\ Stance /\ MaxConnections \in Nat /\ MaxAttempts \in Nat /\ DOMAIN server = ServerFields
  <2>1. /\ client \in Clients /\ connection \in 0 .. MaxConnections
        /\ nested \in 0 .. connection /\ attempts \in 0 .. MaxAttempts /\ silent \in BOOLEAN
        /\ Form(rtmp) /\ heard \in 0 .. Len(rtmp.sent)
        /\ Speech(rtmp.sent, server, connection) /\ Stance /\ DOMAIN server = ServerFields
    BY DEF TalkInv
  <2>2. Shaped(rtmp) /\ IsSeq(rtmp.sent)
    BY <2>1 DEF Form, Shaped
  <2>3. Len(rtmp.sent) \in Nat
    BY <2>2, LenProperties DEF IsSeq
  <2>4. QED
    BY <2>1, <2>2, <2>3, ConstantsAssumption
<1>2. ASSUME rtmp.socket = "open"
      PROVE  /\ connection \in Nat \ {0}
             /\ server.accepted => "publish" \in AllSaid(rtmp.sent)
             /\ AllBacked(toClient, rtmp.sent, heard, server, connection)
  BY <1>1, <1>2 DEF TalkInv
\* The conversation is over.
<1>3. ASSUME Over(rtmp, rtmp', server, connection), rtmp'.credit = Never, client' = "idle",
             nested' \in 0 .. connection, silent' = silent,
             UNCHANGED <<attempts, connection, heard, server>>
      PROVE  TalkInv'
  <2>1. /\ Form(rtmp') /\ rtmp'.socket = "closed" /\ rtmp'.id = NoId
        /\ Extends(rtmp.sent, rtmp'.sent) /\ Speech(rtmp'.sent, server, connection)
    BY <1>3 DEF Over
  <2>2. heard \in 0 .. Len(rtmp'.sent)
    <3>1. IsSeq(rtmp'.sent)
      BY <2>1 DEF Form, Shaped
    <3>2. QED
      BY <1>1, <2>1, <3>1, ExtendsLen
  <2>3. Stance'
    BY <1>3, <2>1 DEF Stance
  <2>4. QED
    BY <1>1, <1>3, <2>1, <2>2, <2>3 DEF TalkInv, Clients
\* It goes on, on the same connection.
<1>4. ASSUME NEW n, Opened(rtmp', n, server, connection), Extends(rtmp.sent, rtmp'.sent),
             rtmp'.credit = Never, rtmp.socket = "open", client' \in Clients,
             nested' \in 0 .. connection, silent' = silent, Stance',
             AllBacked(toClient', rtmp.sent, heard, server, connection),
             UNCHANGED <<attempts, connection, heard, server>>
      PROVE  TalkInv'
  <2>1. /\ Form(rtmp') /\ rtmp'.socket = "open" /\ Speech(rtmp'.sent, server, connection)
    BY <1>4 DEF Opened, Talked
  <2>2. heard \in 0 .. Len(rtmp'.sent) /\ AllSaid(rtmp.sent) \subseteq AllSaid(rtmp'.sent)
    <3>1. IsSeq(rtmp'.sent)
      BY <2>1 DEF Form, Shaped
    <3>2. QED
      BY <1>1, <1>4, <3>1, ExtendsLen
  <2>3. AllBacked(toClient', rtmp'.sent, heard, server, connection)
    BY <1>4, BackedOn DEF AllBacked
  <2>4. connection > 0 /\ (server.accepted => "publish" \in AllSaid(rtmp'.sent))
    BY <1>1, <1>2, <1>4, <2>2
  <2>5. QED
    BY <1>1, <1>4, <2>1, <2>2, <2>3, <2>4 DEF TalkInv
\* RTMP_ConnectStream returns, or its loop goes on.
<1>5. ASSUME Resumes(rtmp, rtmp', server, connection), rtmp'.credit = Never,
             rtmp.socket = "open", nested < connection, Proceed(rtmp'), silent' = silent,
             AllBacked(toClient', rtmp.sent, heard, server, connection),
             UNCHANGED <<attempts, connection, heard, server>>
      PROVE  TalkInv'
  <2>1. CASE Over(rtmp, rtmp', server, connection)
    <3>1. client' = "idle" /\ nested' = 0
      BY <1>5, <2>1 DEF Over, Proceed
    <3>2. nested' \in 0 .. connection
      BY <1>1, <3>1
    <3>3. QED
      BY <1>3, <1>5, <2>1, <3>1, <3>2
  <2>2. CASE \E n \in Turns : GoesOnAt(rtmp, rtmp', n, server, connection)
    <3>1. PICK n \in Turns : GoesOnAt(rtmp, rtmp', n, server, connection)
      BY <2>2
    <3>2. /\ Opened(rtmp', n, server, connection) /\ TalksAt(rtmp', n, server, connection)
          /\ Extends(rtmp.sent, rtmp'.sent) /\ rtmp'.socket = "open"
          /\ rtmp'.playing => server.accepted /\ n = 6
      BY <3>1 DEF GoesOnAt, TalksAt, Opened, Talked
    <3>3. CASE rtmp'.playing
      <4>1. client' = "starting" /\ nested' = 0
        BY <1>5, <3>3 DEF Proceed
      <4>2. Stance'
        BY <1>5, <3>2, <3>3, <4>1 DEF Stance
      <4>3. client' \in Clients /\ nested' \in 0 .. connection
        BY <1>1, <4>1 DEF Clients
      <4>4. QED
        BY <1>4, <1>5, <3>2, <4>2, <4>3
    <3>4. CASE ~ rtmp'.playing
      <4>1. client' = "reading" /\ nested' = nested
        BY <1>5, <3>2, <3>4 DEF Proceed
      <4>2. Stance'
        BY <1>5, <3>2, <3>4, <4>1 DEF Stance
      <4>3. client' \in Clients /\ nested' \in 0 .. connection
        BY <1>1, <4>1 DEF Clients
      <4>4. QED
        BY <1>4, <1>5, <3>2, <4>2, <4>3
    <3>5. QED
      BY <3>3, <3>4
  <2>3. QED
    BY <1>5, <2>1, <2>2 DEF Resumes
<1>6. CASE TryConnect
  <2> DEFINE u == AddStream(SetupURL(Fresh))
  <2>1. /\ DOMAIN u = Fields /\ u.socket = "closed" /\ u.calls = <<>> /\ u.sent = <<>>
        /\ u.curStreamIdx = 0 /\ u.nStreams = 1 /\ u.id = NoId /\ u.credit = Never
        /\ u.invokes = 0 /\ u.playing = FALSE /\ u.unacked = 0 /\ u.flags = {}
        /\ u.app = App("plain")
    BY DEF AddStream, SetupURL, Fresh, Fields
  <2>2. /\ rtmp' = u /\ client' = "dialling" /\ nested' = 0 /\ silent' = FALSE
        /\ connection' = connection /\ heard' = 0 /\ attempts' = attempts + 1
        /\ attempts < MaxAttempts
        /\ server' = [server EXCEPT !.assigned = NoId, !.accepted = FALSE, !.extra = 0,
                                    !.gone = FALSE]
    BY <1>6 DEF TryConnect, NewServer
  <2> HIDE DEF u
  <2>3. IsSeq(<<>>) /\ DOMAIN <<>> = {} /\ Len(<<>>) = 0
    BY EmptySeq DEF IsSeq
  <2>4. u.app.stage = "plain"
    BY <2>1 DEF App
  <2>5. Form(u)
    <3>1. Window \in Nat /\ NoId \in Int
      BY ConstantsAssumption DEF NoId
    <3>2. Shaped(u)
      BY <2>1, <2>3, <3>1 DEF Shaped
    <3>3. QED
      BY <2>1, <2>4, <3>1, <3>2 DEF Form, Stages
  <2>6. Speech(u.sent, server', connection')
    BY <2>1, <2>3 DEF Speech, Follows
  <2>7. Redials(u, server')
    BY <2>1, <2>4 DEF Redials, AppFits, CleanLate
  <2>8. /\ attempts' \in 0 .. MaxAttempts /\ nested' \in 0 .. connection'
        /\ heard' \in 0 .. Len(u.sent)
    BY <1>1, <2>1, <2>2, <2>3
  <2>9. Stance'
    BY <2>2, <2>7 DEF Stance
  <2>10. DOMAIN server' = ServerFields
    BY <1>1, <2>2 DEF ServerFields
  <2>11. QED
    BY <1>1, <2>1, <2>2, <2>5, <2>6, <2>8, <2>9, <2>10 DEF TalkInv, Clients
<1>7. CASE Dial
  <2> DEFINE u == [rtmp EXCEPT !.socket = "open", !.sent = <<>>, !.failedAt = Never]
  <2>1. /\ rtmp' = u /\ client' = "handshake" /\ connection' = connection + 1
        /\ connection < MaxConnections /\ client = "dialling"
        /\ heard' = 0 /\ toClient' = <<>>
        /\ UNCHANGED <<nested, attempts, silent>>
    BY <1>7 DEF Dial, NewServer
  <2>2. Redials(rtmp, server)
    BY <1>1, <2>1 DEF Stance
  <2>3. IsSeq(<<>>) /\ DOMAIN <<>> = {} /\ Len(<<>>) = 0
    BY EmptySeq DEF IsSeq
  <2>4. /\ server'.accepted = FALSE /\ server'.challenge = server.challenge
        /\ DOMAIN server' = ServerFields
    <3>1. server' = [server EXCEPT !.assigned = NoId, !.accepted = FALSE, !.extra = 0,
                                   !.gone = FALSE]
      BY <1>7 DEF Dial, NewServer
    <3>2. QED
      BY <1>1, <3>1 DEF ServerFields
  <2>5. rtmp.credit = Never
    BY DEF TalkInv
  <2>6. /\ Shaped(u) /\ u.socket = "open" /\ u.sent = <<>> /\ u.id = rtmp.id
        /\ u.calls = rtmp.calls /\ u.invokes = rtmp.invokes /\ u.playing = rtmp.playing
        /\ u.unacked = rtmp.unacked /\ u.nStreams = rtmp.nStreams
        /\ u.curStreamIdx = rtmp.curStreamIdx /\ u.flags = rtmp.flags /\ u.app = rtmp.app
        /\ u.credit = rtmp.credit
    BY <1>1, <2>3 DEF Shaped, Fields
  <2> HIDE DEF u
  <2>7. Form(u)
    BY <1>1, <2>6 DEF Form
  <2>8. AppFits(u.app, server') /\ CleanLate(u)
    BY <2>2, <2>4, <2>6 DEF Redials, AppFits, CleanLate
  <2>9. Speech(u.sent, server', connection') /\ Numbering(u) /\ AllSaid(u.sent) = FirstOf(0)
    BY <2>3, <2>6, Orders DEF Speech, Follows, Numbering, AllSaid
  <2>10. Opened(u, 0, server', connection')
    BY <2>2, <2>6, <2>7, <2>9 DEF Opened, Talked, NoStream, Redials
  <2>11. /\ connection' \in 0 .. MaxConnections /\ connection' > 0
         /\ nested' \in 0 .. connection' /\ nested' < connection' /\ heard' \in 0 .. Len(u.sent)
    BY <1>1, <2>1, <2>3, <2>6
  <2>12. Stance'
    BY <2>1, <2>2, <2>6, <2>8, <2>10, <2>11 DEF Stance, Redials
  <2>13. AllBacked(toClient', u.sent, heard', server', connection')
    BY <2>1, NoneBacked
  <2>14. QED
    BY <1>1, <2>1, <2>4, <2>5, <2>6, <2>7, <2>9, <2>11, <2>12, <2>13 DEF TalkInv, Clients
<1>8. ASSUME NEW n \in 0 .. 8, Opened(rtmp, n, server, connection)
      PROVE  /\ rtmp.socket = "open" /\ connection \in Nat \ {0}
             /\ \A s \in Trying(rtmp) :
                   /\ Opened(s, n, server, connection)
                   /\ Over(rtmp, Settled(Close(s)), server, connection)
                   /\ Settled(Close(s)).credit = Never
  <2>1. rtmp.socket = "open"
    BY <1>8 DEF Opened, Talked
  <2>2. connection \in Nat \ {0}
    BY <1>2, <2>1
  <2>3. ASSUME NEW s \in Trying(rtmp)
        PROVE  /\ Opened(s, n, server, connection)
               /\ Over(rtmp, Settled(Close(s)), server, connection)
               /\ Settled(Close(s)).credit = Never
    <3>1. Opened(s, n, server, connection) /\ s.sent = rtmp.sent
      BY <1>8, TriesHere
    <3>2. Over(s, Close(s), server, connection)
      BY <2>2, <3>1, CloseOver
    <3>3. Over(rtmp, Close(s), server, connection)
      BY <3>1, <3>2, SameSpeech
    <3>4. QED
      BY <3>1, <3>3, OverSettled
  <2>4. QED
    BY <2>1, <2>2, <2>3
<1>9. CASE DialFails \/ HandShakeFails
  <2>1. /\ rtmp' = Close(rtmp) /\ Proceed(rtmp') /\ client \in {"dialling", "handshake"}
        /\ UNCHANGED <<attempts, connection, silent, heard, server>>
    BY <1>9 DEF DialFails, HandShakeFails, serverVars
  <2>2. rtmp.id = NoId
    BY <1>1, <2>1 DEF Stance, Redials, Opened, NoStream
  <2>3. Close(rtmp) = Forget(rtmp)
    <3>1. ~ (rtmp.id > 0)
      BY <2>2 DEF NoId
    <3>2. QED
      BY <3>1 DEF Close, CloseSaying
  <2>4. Left(rtmp, Forget(rtmp)) /\ Forget(rtmp).sent = rtmp.sent
    <3>1. rtmp.curStreamIdx \in {0, rtmp.curStreamIdx}
      OBVIOUS
    <3>2. QED
      BY <1>1, <3>1, Leaves
  <2>5. Over(rtmp, rtmp', server, connection)
    BY <1>1, <2>1, <2>3, <2>4 DEF Left, Over, Extends
  <2>6. rtmp'.credit = Never
    <3>1. Forget(rtmp).credit = rtmp.credit
      BY <1>1 DEF Forget, Shaped, Fields
    <3>2. QED
      BY <2>1, <2>3, <3>1 DEF TalkInv
  <2>7. client' = "idle" /\ nested' = 0
    BY <2>1, <2>5 DEF Over, Proceed
  <2>8. nested' \in 0 .. connection
    BY <1>1, <2>7
  <2>9. QED
    BY <1>3, <2>1, <2>5, <2>6, <2>7, <2>8
<1>10. CASE HandShake
  <2>1. PICK s \in Trying(rtmp) : rtmp' = Settled(SendConnectPacket(s))
    BY <1>10 DEF HandShake
  <2>2. /\ Proceed(rtmp') /\ client = "handshake"
        /\ UNCHANGED <<attempts, connection, silent, heard, server, toClient>>
    BY <1>10 DEF HandShake, serverVars
  <2>3. /\ Opened(rtmp, 0, server, connection) /\ rtmp.sent = <<>> /\ rtmp.calls = <<>>
        /\ rtmp.playing = FALSE /\ nested < connection
        /\ AppFits(rtmp.app, server) /\ CleanLate(rtmp)
    BY <1>1, <2>2 DEF Stance
  <2>4. /\ Opened(s, 0, server, connection) /\ s.sent = rtmp.sent /\ s.calls = <<>>
        /\ s.playing = FALSE /\ s.app = rtmp.app /\ s.flags = rtmp.flags
    BY <2>3, TriesHere
  <2> DEFINE t == SendConnectPacket(s)
  <2>5. \/ Ended(s, t, server, connection)
        \/ Stays(s, t, FirstOf(2), server, connection) /\ Waiting(t, "connect")
    BY <2>3, <2>4, ConnectSaid DEF Opened
  <2> HIDE DEF t
  <2>6. Resumes(s, t, server, connection)
    <3>1. CASE Ended(s, t, server, connection)
      BY <3>1, EndsOver DEF Resumes
    <3>2. CASE Stays(s, t, FirstOf(2), server, connection) /\ Waiting(t, "connect")
      <4>1. /\ Extends(s.sent, t.sent) /\ t.flags = s.flags /\ t.app = s.app
            /\ t.playing = FALSE /\ Talked(t, FirstOf(2), server, connection) /\ NoStream(t)
        BY <2>4, <3>2 DEF Stays, SameStream, Opened, NoStream
      <4>2. TalksAt(t, 2, server, connection)
        BY <2>3, <2>4, <3>2, <4>1 DEF TalksAt, Opened, Awaits, CleanLate
      <4>3. GoesOnAt(s, t, 2, server, connection)
        BY <4>1, <4>2 DEF GoesOnAt
      <4>4. QED
        BY <4>3 DEF Resumes, Turns
    <3>3. QED
      BY <2>5, <3>1, <3>2
  <2>7. Resumes(rtmp, rtmp', server, connection) /\ rtmp'.credit = Never
    <3>1. Resumes(rtmp, t, server, connection)
      BY <2>4, <2>6, SameSpeech
    <3>2. QED
      BY <2>1, <3>1, ResumesSettled DEF t
  <2>8. rtmp.socket = "open"
    BY <1>8, <2>3
  <2>9. AllBacked(toClient', rtmp.sent, heard, server, connection)
    BY <1>2, <2>2, <2>8
  <2>10. QED
    BY <1>5, <2>2, <2>3, <2>7, <2>8, <2>9
<1>11. CASE Read
  <2> DEFINE m == Head(toClient)
  <2>1. /\ client = "reading" /\ toClient # <<>> /\ toClient' = Tail(toClient)
        /\ UNCHANGED <<attempts, connection, silent, heard, server>>
    BY <1>11 DEF Read
  <2>2. PICK s \in Trying(rtmp) :
          IF Count(s).socket = "open" /\ LogsIn(Count(s), m)
          THEN /\ rtmp' = Settled(ClientPacket(Count(s), m)) /\ client' = "dialling"
               /\ nested' = nested + 1
          ELSE /\ rtmp' = Settled(IF Count(s).socket = "open" THEN ClientPacket(Count(s), m)
                                  ELSE Count(s))
               /\ Proceed(rtmp')
    BY <1>11 DEF Read
  <2> HIDE DEF m
  <2>3. PICK n \in Turns : TalksAt(rtmp, n, server, connection)
    BY <1>1, <2>1 DEF Stance
  <2>4. rtmp.playing = FALSE /\ nested < connection
    BY <1>1, <2>1 DEF Stance
  <2>5. Opened(rtmp, n, server, connection) /\ n \in 0 .. 8
    BY <2>3 DEF TalksAt, Turns
  <2>6. rtmp.socket = "open" /\ connection \in Nat \ {0}
    BY <1>8, <2>5
  <2>7. /\ server.accepted => "publish" \in AllSaid(rtmp.sent)
        /\ AllBacked(toClient, rtmp.sent, heard, server, connection)
    BY <1>2, <2>6
  <2>8. /\ AllBacked(toClient', rtmp.sent, heard, server, connection)
        /\ Backed(m, rtmp.sent, heard, server, connection)
    BY <2>1, <2>7, ReadBacked DEF m
  <2>9. IF Count(s).socket = "open" /\ LogsIn(Count(s), m)
        THEN /\ LoggedIn(rtmp, Settled(ClientPacket(Count(s), m)), server, connection)
             /\ Settled(ClientPacket(Count(s), m)).credit = Never
        ELSE LET u == Settled(IF Count(s).socket = "open" THEN ClientPacket(Count(s), m)
                              ELSE Count(s))
             IN  Resumes(rtmp, u, server, connection) /\ u.credit = Never
    BY <2>3, <2>4, <2>6, <2>7, <2>8, ReadResumes
  <2>10. CASE Count(s).socket = "open" /\ LogsIn(Count(s), m)
    <3>1. /\ LoggedIn(rtmp, rtmp', server, connection) /\ rtmp'.credit = Never
          /\ client' = "dialling" /\ nested' = nested + 1
      BY <2>2, <2>9, <2>10
    <3>2. /\ Form(rtmp') /\ rtmp'.socket = "closed" /\ rtmp'.id = NoId
          /\ Extends(rtmp.sent, rtmp'.sent) /\ Speech(rtmp'.sent, server, connection)
          /\ Redials(rtmp', server)
      BY <3>1 DEF LoggedIn, Over
    <3>3. heard \in 0 .. Len(rtmp'.sent)
      <4>1. IsSeq(rtmp'.sent)
        BY <3>2 DEF Form, Shaped
      <4>2. QED
        BY <1>1, <3>2, <4>1, ExtendsLen
    <3>4. nested' \in 0 .. connection
      BY <1>1, <2>4, <3>1
    <3>5. Stance'
      BY <2>1, <3>1, <3>2 DEF Stance
    <3>6. QED
      BY <1>1, <2>1, <3>1, <3>2, <3>3, <3>4, <3>5 DEF TalkInv, Clients
  <2>11. CASE ~ (Count(s).socket = "open" /\ LogsIn(Count(s), m))
    <3>1. Proceed(rtmp') /\ Resumes(rtmp, rtmp', server, connection) /\ rtmp'.credit = Never
      BY <2>2, <2>9, <2>11
    <3>2. QED
      BY <1>5, <2>1, <2>4, <2>6, <2>8, <3>1
  <2>12. QED
    BY <2>10, <2>11
<1>12. CASE ReadEnds
  <2>1. PICK s \in Trying(rtmp) : rtmp' = Settled(Close(s))
    BY <1>12 DEF ReadEnds
  <2>2. /\ Proceed(rtmp') /\ client = "reading"
        /\ UNCHANGED <<attempts, connection, silent, heard, server>>
    BY <1>12 DEF ReadEnds, serverVars
  <2>3. PICK n \in Turns : TalksAt(rtmp, n, server, connection)
    BY <1>1, <2>2 DEF Stance
  <2>4. Opened(rtmp, n, server, connection) /\ n \in 0 .. 8
    BY <2>3 DEF TalksAt, Turns
  <2>5. Over(rtmp, rtmp', server, connection) /\ rtmp'.credit = Never
    BY <1>8, <2>1, <2>4
  <2>6. client' = "idle" /\ nested' = 0
    BY <2>2, <2>5 DEF Over, Proceed
  <2>7. nested' \in 0 .. connection
    BY <1>1, <2>6
  <2>8. QED
    BY <1>3, <2>2, <2>5, <2>6, <2>7
<1>13. CASE ReadTimesOut
  <2>1. /\ client = "reading"
        /\ UNCHANGED <<rtmp, attempts, connection, heard, toClient, server>>
    BY <1>13 DEF ReadTimesOut, serverVars
  <2>2. rtmp.playing = FALSE /\ nested < connection
    BY <1>1, <2>1 DEF Stance
  <2>3. PICK n \in Turns : TalksAt(rtmp, n, server, connection)
    BY <1>1, <2>1 DEF Stance
  <2>4. Opened(rtmp, n, server, connection) /\ n \in 0 .. 8
    BY <2>3 DEF TalksAt, Turns
  <2>5. rtmp.socket = "open"
    BY <1>8, <2>4
  <2>6. /\ AllBacked(toClient, rtmp.sent, heard, server, connection)
        /\ server.accepted => "publish" \in AllSaid(rtmp.sent)
        /\ connection > 0 /\ rtmp.credit = Never
    BY <2>5 DEF TalkInv
  <2>7. CASE nested > 0 /\ nested' = nested - 1 /\ UNCHANGED <<client, silent>>
    <3>1. nested' \in 0 .. connection /\ nested' < connection
      BY <1>1, <2>2, <2>7
    <3>2. Stance'
      BY <2>1, <2>2, <2>3, <2>7, <3>1 DEF Stance
    <3>3. QED
      BY <1>1, <2>1, <2>5, <2>6, <2>7, <3>1, <3>2 DEF TalkInv
  <2>8. CASE client' = "idle" /\ silent' = TRUE /\ UNCHANGED nested
    <3>1. Stance'
      BY <2>1, <2>3, <2>4, <2>8 DEF Stance
    <3>2. QED
      BY <1>1, <2>1, <2>5, <2>6, <2>8, <3>1 DEF TalkInv, Clients
  <2>9. QED
    BY <1>13, <2>7, <2>8 DEF ReadTimesOut
<1>14. CASE InitSendFails \/ EndStream
  <2>1. PICK s \in Trying(rtmp) : rtmp' = Settled(Close(s))
    BY <1>14 DEF InitSendFails, EndStream
  <2>2. /\ client \in {"starting", "streaming"} /\ client' = "idle"
        /\ UNCHANGED <<nested, attempts, connection, silent, heard, server>>
    BY <1>14 DEF InitSendFails, EndStream, serverVars
  <2>3. PICK n \in 0 .. 8 : Opened(rtmp, n, server, connection)
    <3>1. CASE client = "starting"
      BY <1>1, <3>1 DEF Stance
    <3>2. CASE client = "streaming"
      <4>1. PICK n \in 7 .. 8 : Opened(rtmp, n, server, connection)
        BY <1>1, <3>2 DEF Stance
      <4>2. n \in 0 .. 8
        OBVIOUS
      <4>3. QED
        BY <4>1, <4>2
    <3>3. QED
      BY <2>2, <3>1, <3>2
  <2>4. Over(rtmp, rtmp', server, connection) /\ rtmp'.credit = Never
    BY <1>8, <2>1, <2>3
  <2>5. QED
    BY <1>1, <1>3, <2>2, <2>4
\* A message of the stream has been sent.
<1>15. ASSUME NEW r, NEW t, NEW n \in 7 .. 8, r.sent = rtmp.sent, rtmp.socket = "open",
              Over(r, t, server, connection) \/ StreamsAt(r, t, n, server, connection),
              rtmp' = Settled(t), client' = IF t.socket = "open" THEN "streaming" ELSE "idle",
              AllBacked(toClient', rtmp.sent, heard, server, connection),
              UNCHANGED <<nested, attempts, connection, silent, heard, server>>
       PROVE  TalkInv'
  <2>1. CASE Over(r, t, server, connection)
    <3>1. Over(rtmp, rtmp', server, connection) /\ rtmp'.credit = Never
      BY <1>15, <2>1, SameSpeech, OverSettled
    <3>2. client' = "idle"
      BY <1>15, <2>1 DEF Over
    <3>3. QED
      BY <1>1, <1>3, <1>15, <3>1, <3>2
  <2>2. CASE StreamsAt(r, t, n, server, connection)
    <3>1. Opened(t, n, server, connection) /\ Extends(rtmp.sent, t.sent)
      BY <1>15, <2>2 DEF StreamsAt
    <3>2. /\ Opened(rtmp', n, server, connection) /\ Extends(rtmp.sent, rtmp'.sent)
          /\ rtmp'.credit = Never
      BY <1>15, <3>1, OpenedSettled
    <3>3. client' = "streaming"
      BY <1>15, <3>1 DEF Opened, Talked
    <3>4. Stance'
      BY <1>15, <3>2, <3>3 DEF Stance
    <3>5. client' \in Clients /\ nested' \in 0 .. connection
      BY <1>1, <1>15, <3>3 DEF Clients
    <3>6. QED
      BY <1>4, <1>15, <3>2, <3>4, <3>5
  <2>3. QED
    BY <1>15, <2>1, <2>2
<1>16. CASE InitSend
  <2>1. PICK s \in Trying(rtmp) :
          /\ rtmp' = Settled(Send(s, Media("metadata", s)))
          /\ client' = IF Send(s, Media("metadata", s)).socket = "open" THEN "streaming" ELSE "idle"
    BY <1>16 DEF InitSend
  <2>2. /\ client = "starting"
        /\ UNCHANGED <<nested, attempts, connection, silent, heard, server, toClient>>
    BY <1>16 DEF InitSend, serverVars
  <2>3. server.accepted /\ Opened(rtmp, 6, server, connection)
    BY <1>1, <2>2 DEF Stance
  <2>4. Opened(s, 6, server, connection) /\ s.sent = rtmp.sent /\ rtmp.socket = "open"
    BY <1>8, <2>3, TriesHere
  <2> DEFINE t == Send(s, Media("metadata", s))
  <2>5. Over(s, t, server, connection) \/ StreamsAt(s, t, 7, server, connection)
    BY <2>3, <2>4, MediaSaid
  <2> HIDE DEF t
  <2>6. AllBacked(toClient', rtmp.sent, heard, server, connection)
    BY <1>2, <2>2, <2>4
  <2>7. rtmp' = Settled(t) /\ client' = IF t.socket = "open" THEN "streaming" ELSE "idle"
    BY <2>1 DEF t
  <2>8. QED
    BY <1>15, <2>2, <2>4, <2>5, <2>6, <2>7
<1>17. CASE SendMedia
  <2>1. PICK s \in Trying(rtmp) :
          LET read == IF toClient = <<>> THEN s ELSE Count(s)
              t == Send(read, Media("media", read))
          IN  /\ rtmp' = Settled(t)
              /\ client' = IF t.socket = "open" THEN "streaming" ELSE "idle"
    BY <1>17 DEF SendMedia
  <2>2. /\ client = "streaming"
        /\ toClient' = IF toClient = <<>> THEN <<>> ELSE Tail(toClient)
        /\ UNCHANGED <<nested, attempts, connection, silent, heard, server>>
    BY <1>17 DEF SendMedia
  <2>3. PICK n \in 7 .. 8 : Opened(rtmp, n, server, connection)
    BY <1>1, <2>2 DEF Stance
  <2>4. /\ Opened(s, n, server, connection) /\ s.sent = rtmp.sent /\ rtmp.socket = "open"
        /\ Talked(s, FirstOf(n), server, connection)
    <3>1. n \in 0 .. 8
      OBVIOUS
    <3>2. Opened(s, n, server, connection) /\ s.sent = rtmp.sent /\ rtmp.socket = "open"
      BY <1>8, <2>3, <3>1, TriesHere
    <3>3. QED
      BY <3>2 DEF Opened
  <2> DEFINE read == IF toClient = <<>> THEN s ELSE Count(s)
             t == Send(read, Media("media", read))
  <2>5. \/ Ended(s, read, server, connection)
        \/ Stays(s, read, FirstOf(n), server, connection)
    BY <2>4, CountGoesOn, StaysSame
  <2>6. rtmp' = Settled(t) /\ client' = IF t.socket = "open" THEN "streaming" ELSE "idle"
    BY <2>1
  <2> HIDE DEF read
  <2>7. Over(s, t, server, connection) \/ StreamsAt(s, t, 8, server, connection)
    <3>1. CASE Ended(s, read, server, connection)
      <4>1. read.socket = "closed"
        BY <3>1 DEF Ended, Left
      <4>2. t = read
        BY <4>1, ClosedSilent
      <4>3. QED
        BY <3>1, <4>2, EndsOver
    <3>2. CASE Stays(s, read, FirstOf(n), server, connection)
      <4>1. Opened(read, n, server, connection) /\ Extends(s.sent, read.sent)
        BY <2>4, <3>2, OpenedOn DEF Stays
      <4>2. Over(read, t, server, connection) \/ StreamsAt(read, t, 8, server, connection)
        <5>1. n \in 6 .. 8
          OBVIOUS
        <5>2. QED
          BY <4>1, <5>1, MediaSaid
      <4> HIDE DEF t
      <4>3. QED
        BY <4>1, <4>2, ExtendsOn DEF Over, StreamsAt
    <3>3. QED
      BY <2>5, <3>1, <3>2
  <2> HIDE DEF t
  <2>8. AllBacked(toClient', rtmp.sent, heard, server, connection)
    <3>1. AllBacked(toClient, rtmp.sent, heard, server, connection)
      BY <1>2, <2>4
    <3>2. QED
      BY <2>2, <3>1, ReadBacked
  <2>9. QED
    BY <1>15, <2>2, <2>4, <2>6, <2>7, <2>8
\* The server speaks: what the client has said stays right.
<1>18. ASSUME UNCHANGED <<client, nested, rtmp, attempts, connection, silent>>,
              rtmp.socket = "open", client # "handshake",
              Later(rtmp.sent, server, server', connection), DOMAIN server' = ServerFields,
              heard' \in 0 .. Len(rtmp.sent),
              server'.accepted => "publish" \in AllSaid(rtmp.sent),
              AllBacked(toClient', rtmp.sent, heard', server', connection)
       PROVE  TalkInv'
  <2>1. Speech(rtmp.sent, server', connection)
    BY <1>1, <1>18, SpeechLater
  <2>2. ASSUME NEW n, Opened(rtmp, n, server, connection)
        PROVE  /\ Opened(rtmp, n, server', connection)
               /\ TalksAt(rtmp, n, server, connection) => TalksAt(rtmp, n, server', connection)
    BY <1>18, <2>2, TalksLater
  <2>3. client # "dialling"
    BY <1>1, <1>18 DEF Stance, Redials
  <2>4. server.accepted => server'.accepted
    BY <1>18 DEF Later
  <2>5. client' = "reading" =>
           \E n \in Turns : TalksAt(rtmp, n, server', connection)
    <3>1. SUFFICES ASSUME client = "reading"
                   PROVE  \E n \in Turns : TalksAt(rtmp, n, server', connection)
      BY <1>18
    <3>2. PICK n \in Turns : TalksAt(rtmp, n, server, connection)
      BY <1>1, <3>1 DEF Stance
    <3>3. Opened(rtmp, n, server, connection)
      BY <3>2 DEF TalksAt
    <3>4. QED
      BY <2>2, <3>2, <3>3
  <2>6. Stance'
    <3>1. /\ client = "starting" => server'.accepted /\ Opened(rtmp, 6, server', connection)
          /\ client = "streaming" => \E n \in 7 .. 8 : Opened(rtmp, n, server', connection)
      BY <1>1, <2>2, <2>4 DEF Stance
    <3>2. client = "idle" => \E n \in Turns : Opened(rtmp, n, server', connection)
      BY <1>1, <1>18, <2>2 DEF Stance
    <3>3. client = "reading" => rtmp.playing = FALSE /\ nested < connection
      BY <1>1 DEF Stance
    <3>4. QED
      BY <1>18, <2>3, <2>5, <3>1, <3>2, <3>3 DEF Stance
  <2>7. connection > 0 /\ rtmp.credit = Never
    BY <1>18 DEF TalkInv
  <2>8. QED
    BY <1>1, <1>18, <2>1, <2>6, <2>7 DEF TalkInv
\* What has been told stays an answer, and so is what is told now.
<1>19. ASSUME rtmp.socket = "open", Later(rtmp.sent, server, server', connection),
              heard' \in Nat, heard <= heard',
              \/ server'.challenge = server.challenge
              \/ /\ heard' = heard + 1 /\ heard' \in DOMAIN rtmp.sent
                 /\ rtmp.sent[heard'].kind = "connect"
       PROVE  /\ AllBacked(toClient, rtmp.sent, heard', server', connection)
              /\ \A m : Tell(<<m>>) /\ Backed(m, rtmp.sent, heard', server', connection)
                        => AllBacked(toClient', rtmp.sent, heard', server', connection)
  <2>1. AllBacked(toClient, rtmp.sent, heard, server, connection) /\ heard \in Nat
    BY <1>1, <1>2, <1>19
  <2>2. ASSUME NEW k \in DOMAIN toClient
        PROVE  Backed(toClient[k], rtmp.sent, heard', server', connection)
    <3>1. Backed(toClient[k], rtmp.sent, heard, server, connection)
      BY <2>1 DEF AllBacked
    <3>2. QED
      BY <1>1, <1>19, <2>1, <3>1, BackedLater
  <2>3. AllBacked(toClient, rtmp.sent, heard', server', connection)
    BY <2>1, <2>2 DEF AllBacked
  <2>4. ASSUME NEW m, Tell(<<m>>), Backed(m, rtmp.sent, heard', server', connection)
        PROVE  AllBacked(toClient', rtmp.sent, heard', server', connection)
    <3>1. AllBacked(toClient \o <<m>>, rtmp.sent, heard', server', connection)
      BY <2>3, <2>4, ToldBacked
    <3>2. QED
      BY <2>4, <3>1 DEF Tell
  <2>5. QED
    BY <2>3, <2>4
<1>20. CASE ServerSpeak \/ ServerCloses
  <2>1. /\ rtmp.socket = "open" /\ client # "handshake" /\ heard' = heard
        /\ UNCHANGED <<client, nested, rtmp, attempts, connection, silent>>
    BY <1>20 DEF ServerSpeak, ServerCloses, clientVars
  <2>2. /\ server'.challenge = server.challenge /\ server'.assigned = server.assigned
        /\ server'.accepted = server.accepted /\ DOMAIN server' = ServerFields
    <3>1. CASE server' = [server EXCEPT !.extra = @ + 1]
      BY <1>1, <3>1 DEF ServerFields
    <3>2. CASE server' = [server EXCEPT !.gone = TRUE]
      BY <1>1, <3>2 DEF ServerFields
    <3>3. QED
      BY <1>20, <3>1, <3>2 DEF ServerSpeak, ServerCloses
  <2>3. Later(rtmp.sent, server, server', connection)
    BY <2>2 DEF Later
  <2>4. heard' \in Nat /\ heard <= heard' /\ heard' \in 0 .. Len(rtmp.sent)
    BY <1>1, <2>1
  <2>5. AllBacked(toClient', rtmp.sent, heard', server', connection)
    <3>1. CASE ServerCloses
      <4>1. toClient' = toClient
        BY <3>1 DEF ServerCloses
      <4>2. QED
        BY <1>19, <2>1, <2>2, <2>3, <2>4, <4>1
    <3>2. CASE ServerSpeak
      <4>1. PICK m \in Unasked : Tell(<<m>>)
        BY <3>2 DEF ServerSpeak
      <4>2. /\ m.kind \notin {"_result", "_error"}
            /\ ~ (m.kind = "onStatus" /\ m.code = "Publish.Start")
        BY DEF Unasked, Status
      <4>3. Backed(m, rtmp.sent, heard', server', connection)
        BY <4>2 DEF Backed
      <4>4. QED
        BY <1>19, <2>1, <2>2, <2>3, <2>4, <4>1, <4>3
    <3>3. QED
      BY <1>20, <3>1, <3>2
  <2>6. server'.accepted => "publish" \in AllSaid(rtmp.sent)
    BY <1>2, <2>1, <2>2
  <2>7. QED
    BY <1>18, <2>1, <2>2, <2>3, <2>4, <2>5, <2>6
<1>21. CASE ServerAnswer
  <2> DEFINE a == rtmp.sent[heard + 1]
  <2>1. /\ rtmp.socket = "open" /\ heard < Len(rtmp.sent) /\ heard' = heard + 1
        /\ UNCHANGED <<client, nested, rtmp, attempts, connection, silent>>
    BY <1>21 DEF ServerAnswer, clientVars
  <2>2. /\ heard + 1 \in DOMAIN rtmp.sent /\ heard' \in Nat /\ heard <= heard'
        /\ heard' \in 0 .. Len(rtmp.sent) /\ heard' \in DOMAIN rtmp.sent
    <3>1. DOMAIN rtmp.sent = 1 .. Len(rtmp.sent)
      BY <1>1, LenProperties DEF IsSeq
    <3>2. QED
      BY <1>1, <2>1, <3>1
  <2>3. client # "handshake"
    <3>1. rtmp.sent # <<>>
      <4>1. DOMAIN <<>> = {}
        OBVIOUS
      <4>2. QED
        BY <2>2, <4>1
    <3>2. QED
      BY <1>1, <3>1 DEF Stance
  <2>4. /\ server.accepted => "publish" \in AllSaid(rtmp.sent)
        /\ AllBacked(toClient, rtmp.sent, heard, server, connection)
    BY <1>2, <2>1
  \* The server has answered, and stays where it is but for what the answer says.
  <2>5. ASSUME Later(rtmp.sent, server, server', connection), DOMAIN server' = ServerFields,
               \/ server'.challenge = server.challenge
               \/ a.kind = "connect",
               server'.accepted => "publish" \in AllSaid(rtmp.sent),
               \/ toClient' = toClient
               \/ \E m : Tell(<<m>>) /\ Backed(m, rtmp.sent, heard', server', connection)
        PROVE  TalkInv'
    <3>1. \/ server'.challenge = server.challenge
          \/ /\ heard' = heard + 1 /\ heard' \in DOMAIN rtmp.sent
             /\ rtmp.sent[heard'].kind = "connect"
      BY <2>1, <2>2, <2>5
    <3> HIDE DEF a
    <3>2. /\ AllBacked(toClient, rtmp.sent, heard', server', connection)
          /\ \A m : Tell(<<m>>) /\ Backed(m, rtmp.sent, heard', server', connection)
                       => AllBacked(toClient', rtmp.sent, heard', server', connection)
      BY <1>19, <2>1, <2>2, <2>5, <3>1
    <3>3. AllBacked(toClient', rtmp.sent, heard', server', connection)
      BY <2>5, <3>2
    <3>4. QED
      BY <1>18, <2>1, <2>2, <2>3, <2>5, <3>3
  <2>6. a = rtmp.sent[heard'] /\ heard' <= heard'
    BY <2>1, <2>2
  <2>7. ASSUME NEW m, m.kind = "_result", ResultOf(m, a, server', connection)
        PROVE  Backed(m, rtmp.sent, heard', server', connection)
    BY <2>2, <2>6, <2>7 DEF Backed
  <2>8. ASSUME NEW m, m.kind = "_error", RefusalOf(m, a, server', connection)
        PROVE  Backed(m, rtmp.sent, heard', server', connection)
    BY <2>2, <2>6, <2>8 DEF Backed
  <2>9. ASSUME server' = server
        PROVE  /\ Later(rtmp.sent, server, server', connection)
               /\ server'.challenge = server.challenge /\ DOMAIN server' = ServerFields
               /\ server'.accepted => "publish" \in AllSaid(rtmp.sent)
    BY <1>1, <2>4, <2>9 DEF Later
  <2>10. CASE a.kind = "connect"
    <3>1. \/ Tell(<<Result(a)>>) /\ server' = server
          \/ \E reason \in Reasons(a.app, connection) :
                /\ Tell(<<Refusal(a, reason)>>)
                /\ server' = [server EXCEPT !.challenge =
                                 IF reason.what = "challenge" THEN reason ELSE @]
      BY <1>21, <2>10 DEF ServerAnswer
    <3>2. CASE Tell(<<Result(a)>>) /\ server' = server
      <4>1. Result(a).kind = "_result" /\ ResultOf(Result(a), a, server', connection)
        BY <2>10 DEF Result, ResultOf
      <4>2. Backed(Result(a), rtmp.sent, heard', server', connection)
        BY <2>7, <4>1
      <4>3. QED
        BY <2>5, <2>9, <3>2, <4>2
    <3>3. CASE \E reason \in Reasons(a.app, connection) :
                  /\ Tell(<<Refusal(a, reason)>>)
                  /\ server' = [server EXCEPT !.challenge =
                                   IF reason.what = "challenge" THEN reason ELSE @]
      <4>1. PICK reason \in Reasons(a.app, connection) :
                  /\ Tell(<<Refusal(a, reason)>>)
                  /\ server' = [server EXCEPT !.challenge =
                                   IF reason.what = "challenge" THEN reason ELSE @]
        BY <3>3
      <4>2. /\ server'.accepted = server.accepted /\ server'.assigned = server.assigned
            /\ reason.what # "challenge" => server'.challenge = server.challenge
            /\ reason.what = "challenge" => server'.challenge = reason
            /\ DOMAIN server' = ServerFields
        BY <1>1, <4>1 DEF ServerFields
      <4>3. Later(rtmp.sent, server, server', connection)
        <5>1. CASE reason.what # "challenge"
          BY <4>2, <5>1 DEF Later
        <5>2. CASE reason.what = "challenge"
          <6>1. a.app.stage = "named"
            BY <4>1, <5>2, ChallengeNamed
          <6>2. QED
            BY <2>2, <2>10, <4>2, <6>1 DEF Later
        <5>3. QED
          BY <5>1, <5>2
      <4>4. /\ Refusal(a, reason).kind = "_error" /\ Refusal(a, reason).txn = a.txn
            /\ Refusal(a, reason).reason = reason
        BY DEF Refusal
      <4>5. RefusalOf(Refusal(a, reason), a, server', connection)
        BY <2>10, <4>1, <4>2, <4>4 DEF RefusalOf
      <4>6. Backed(Refusal(a, reason), rtmp.sent, heard', server', connection)
        BY <2>8, <4>4, <4>5
      <4>7. server'.accepted => "publish" \in AllSaid(rtmp.sent)
        BY <2>4, <4>2
      <4>8. QED
        BY <2>5, <2>10, <4>1, <4>2, <4>3, <4>6, <4>7
    <3>4. QED
      BY <3>1, <3>2, <3>3
  <2>11. ASSUME a.kind \in {"releaseStream", "FCPublish", "createStream"},
                Tell(<<Refusal(a, Unrelated)>>), server' = server
         PROVE  TalkInv'
    <3>1. /\ Refusal(a, Unrelated).kind = "_error" /\ Refusal(a, Unrelated).txn = a.txn
      BY DEF Refusal
    <3>2. RefusalOf(Refusal(a, Unrelated), a, server', connection)
      BY <2>11, <3>1 DEF RefusalOf
    <3>3. Backed(Refusal(a, Unrelated), rtmp.sent, heard', server', connection)
      BY <2>8, <3>1, <3>2
    <3>4. QED
      BY <2>5, <2>9, <2>11, <3>3
  <2>12. CASE a.kind \in {"releaseStream", "FCPublish"}
    <3>1. (Tell(<<>>) \/ Tell(<<Refusal(a, Unrelated)>>)) /\ server' = server
      BY <1>21, <2>12 DEF ServerAnswer
    <3>2. CASE Tell(<<>>)
      <4>1. toClient' = toClient
        <5>1. PICK S : toClient \in Seq(S)
          BY <2>4 DEF AllBacked, IsSeq
        <5>2. toClient \o <<>> = toClient
          BY <5>1, ConcatEmptySeq
        <5>3. QED
          BY <3>2, <5>2 DEF Tell
      <4>2. QED
        BY <2>5, <2>9, <3>1, <4>1
    <3>3. CASE Tell(<<Refusal(a, Unrelated)>>)
      BY <2>11, <2>12, <3>1, <3>3
    <3>4. QED
      BY <3>1, <3>2, <3>3
  <2>13. CASE a.kind = "createStream"
    <3>1. \/ Tell(<<Result(a)>>) /\ server' = [server EXCEPT !.assigned = connection]
          \/ Tell(<<Refusal(a, Unrelated)>>) /\ server' = server
      BY <1>21, <2>13 DEF ServerAnswer
    <3>2. CASE Tell(<<Result(a)>>) /\ server' = [server EXCEPT !.assigned = connection]
      <4>1. /\ server'.accepted = server.accepted /\ server'.challenge = server.challenge
            /\ server'.assigned = connection /\ DOMAIN server' = ServerFields
        BY <1>1, <3>2 DEF ServerFields
      <4>2. Later(rtmp.sent, server, server', connection)
        BY <4>1 DEF Later
      <4>3. Result(a).kind = "_result" /\ ResultOf(Result(a), a, server', connection)
        BY <2>13, <4>1 DEF Result, ResultOf
      <4>4. Backed(Result(a), rtmp.sent, heard', server', connection)
        BY <2>7, <4>3
      <4>5. server'.accepted => "publish" \in AllSaid(rtmp.sent)
        BY <2>4, <4>1
      <4>6. QED
        BY <2>5, <3>2, <4>1, <4>2, <4>4, <4>5
    <3>3. CASE Tell(<<Refusal(a, Unrelated)>>) /\ server' = server
      BY <2>11, <2>13, <3>3
    <3>4. QED
      BY <3>1, <3>2, <3>3
  <2>14. CASE a.kind = "publish"
    <3>1. \/ /\ Tell(<<Status("Publish.Start")>>) \/ Tell(<<Result(a)>>)
             /\ server' = [server EXCEPT !.accepted = TRUE]
          \/ Tell(<<Status("Publish.BadName")>>) /\ server' = server
      BY <1>21, <2>14 DEF ServerAnswer
    <3>2. CASE /\ Tell(<<Status("Publish.Start")>>) \/ Tell(<<Result(a)>>)
               /\ server' = [server EXCEPT !.accepted = TRUE]
      <4>1. /\ server'.accepted /\ server'.challenge = server.challenge
            /\ server'.assigned = server.assigned /\ DOMAIN server' = ServerFields
        BY <1>1, <3>2 DEF ServerFields
      <4>2. Later(rtmp.sent, server, server', connection)
        BY <4>1 DEF Later
      <4>3. "publish" \in AllSaid(rtmp.sent)
        BY <2>2, <2>14, Orders DEF AllSaid
      <4>4. Backed(Result(a), rtmp.sent, heard', server', connection)
        <5>1. Result(a).kind = "_result" /\ ResultOf(Result(a), a, server', connection)
          BY <2>14, <4>1 DEF Result, ResultOf
        <5>2. QED
          BY <2>7, <5>1
      <4>5. Backed(Status("Publish.Start"), rtmp.sent, heard', server', connection)
        BY <4>1 DEF Backed, Status
      <4>6. \E m : Tell(<<m>>) /\ Backed(m, rtmp.sent, heard', server', connection)
        BY <3>2, <4>4, <4>5
      <4>7. QED
        BY <2>5, <4>1, <4>2, <4>3, <4>6
    <3>3. CASE Tell(<<Status("Publish.BadName")>>) /\ server' = server
      <4>1. Backed(Status("Publish.BadName"), rtmp.sent, heard', server', connection)
        BY DEF Backed, Status
      <4>2. QED
        BY <2>5, <2>9, <3>3, <4>1
    <3>4. QED
      BY <3>1, <3>2, <3>3
  <2>15. CASE a.kind \notin {"connect", "releaseStream", "FCPublish", "createStream", "publish"}
    <3>1. toClient' = toClient /\ server' = server
      BY <1>21, <2>15 DEF ServerAnswer
    <3>2. QED
      BY <2>5, <2>9, <3>1
  <2>16. QED
    BY <2>10, <2>12, <2>13, <2>14, <2>15
<1>22. CASE UNCHANGED vars
  <2>1. UNCHANGED <<client, nested, rtmp, attempts, connection, silent, heard, toClient, server>>
    BY <1>22 DEF vars, clientVars, serverVars
  <2>2. Stance'
    BY <1>1, <2>1 DEF Stance
  <2>3. QED
    BY <1>1, <2>1, <2>2 DEF TalkInv
<1>23. QED
  BY <1>6, <1>7, <1>9, <1>10, <1>11, <1>12, <1>13, <1>14, <1>16, <1>17, <1>20, <1>21, <1>22
  DEF Next, ClientNext

\* What the state of the conversation says of the types
LEMMA TalkTyped == TalkInv => TypeOK
<1> SUFFICES ASSUME TalkInv
             PROVE  TypeOK
  OBVIOUS
<1>1. /\ client \in Clients /\ connection \in 0 .. MaxConnections /\ nested \in 0 .. connection
      /\ attempts \in 0 .. MaxAttempts /\ silent \in BOOLEAN
      /\ Form(rtmp) /\ rtmp.socket \in {"open", "closed"} /\ rtmp.credit = Never
      /\ heard \in 0 .. Len(rtmp.sent) /\ Stance
      /\ rtmp.socket = "closed" => rtmp.id \in {NoId, 0}
  BY DEF TalkInv
<1>2. MaxConnections \in Nat
  BY ConstantsAssumption
<1>3. rtmp.id \in {NoId} \cup 0 .. MaxConnections
  <2>1. ASSUME NEW n, Opened(rtmp, n, server, connection)
        PROVE  rtmp.id \in {NoId, connection}
    BY <2>1 DEF Opened, HasStream, NoStream
  <2>2. CASE rtmp.socket = "closed"
    BY <1>1, <1>2, <2>2
  <2>3. CASE rtmp.socket = "open"
    <3>1. \E n : Opened(rtmp, n, server, connection)
      BY <1>1, <2>3 DEF Stance, Clients, Redials, TalksAt
    <3>2. QED
      BY <1>1, <1>2, <2>1, <3>1
  <2>4. QED
    BY <1>1, <2>2, <2>3
<1>4. nested \in 0 .. MaxConnections
  BY <1>1, <1>2
<1>5. QED
  BY <1>1, <1>3, <1>4 DEF TypeOK, Form, Clients, AllFlags, Stages

\* What it says of each message
LEMMA TalkLegal == TalkInv => ConversationLegal
<1> SUFFICES ASSUME TalkInv, NEW i \in DOMAIN rtmp.sent
             PROVE  LET m == rtmp.sent[i] IN
                    /\ m.kind \in FirstOf(10) => SaidBefore(rtmp.sent, i) \in Preludes(m.kind)
                    /\ m.kind = "connect" =>
                          /\ m.app.stage # "freed"
                          /\ m.app.stage = "answered" => m.app.response = Expected(server.challenge)
                    /\ m.kind \in {"publish", "metadata", "media", "deleteStream"} =>
                          m.stream = server.assigned
                    /\ m.kind = "metadata" => server.accepted
  BY DEF ConversationLegal
<1>1. Speech(rtmp.sent, server, connection)
  BY DEF TalkInv
<1>2. rtmp.sent[i].kind \in FirstOf(10) =>
         SaidBefore(rtmp.sent, i) \in Preludes(rtmp.sent[i].kind)
  BY <1>1 DEF Speech, Follows, Kinds
<1>3. Fits(rtmp.sent[i], server, connection)
  BY <1>1 DEF Speech
<1>4. QED
  BY <1>2, <1>3 DEF Fits, AppFits

\* Whatever the server does, what it is told on its connections is a conversation, and the
\* session is where that conversation is.
THEOREM TalkKept == Spec => []TalkInv
BY TalkStarts, TalkGoesOn, PTL DEF Spec

\* The types of the session: one stream at most, a number for it that is a connection's, and a
\* counter of unacknowledged messages that never leaves its window.
THEOREM TypeCorrect == Spec => []TypeOK
BY TalkTyped, TalkKept, PTL

\* What a server hears on a connection is a conversation, whatever fails and however many
\* connections a login takes (RTMP_Connect, RTMP_ConnectStream, HandleInvoke, PublisherAuth).
THEOREM ConversationKept == Spec => []ConversationLegal
BY TalkLegal, TalkKept, PTL

=============================================================================
