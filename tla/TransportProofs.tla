-------------------------- MODULE TransportProofs --------------------------
(***************************************************************************)
(* Proofs about PrintTransport, for every length of the request, every      *)
(* number of attempts, every capacity and every number of frames in the     *)
(* network.                                                                 *)
(***************************************************************************)
EXTENDS PrintTransport, SequenceTheorems, TLAPS

-----------------------------------------------------------------------------
(* What the replies say.                                                    *)

\* parse_response accepts only what holds an accepting IPP entity.
LEMMA ParseSays ==
  ASSUME NEW r \in Seq(Units), Parse(r) = "accepted"
  PROVE  Says(r)
BY DEF Parse, Says

\* A stretch of a reply says nothing the reply does not say.
LEMMA SubSeqSays ==
  ASSUME NEW q \in Seq(Units), NEW m \in Int, NEW n \in Int,
         1 <= m, n <= Len(q)
  PROVE  /\ SubSeq(q, m, n) \in Seq(Units)
         /\ Len(SubSeq(q, m, n)) = IF m <= n THEN n - m + 1 ELSE 0
         /\ Says(SubSeq(q, m, n)) => Says(q)
<1>1. \A i \in m..n : q[i] \in Units
  OBVIOUS
<1>2. /\ SubSeq(q, m, n) \in Seq(Units)
      /\ Len(SubSeq(q, m, n)) = IF m <= n THEN n - m + 1 ELSE 0
      /\ \A i \in 1..(n - m + 1) : SubSeq(q, m, n)[i] = q[m + i - 1]
  BY <1>1, SubSeqProperties
<1>3. ASSUME Says(SubSeq(q, m, n)) PROVE Says(q)
  <2>1. PICK i \in 1..Len(SubSeq(q, m, n)) : SubSeq(q, m, n)[i] = "ippOk"
    BY <1>3 DEF Says
  <2>2. i \in 1..(n - m + 1) /\ m + i - 1 \in 1..Len(q)
    BY <1>2, <2>1
  <2>3. q[m + i - 1] = "ippOk"
    BY <1>2, <2>1, <2>2
  <2> QED BY <2>2, <2>3 DEF Says
<1> QED BY <1>2, <1>3

\* Two stretches together say what one of them says.
LEMMA ConcatSays ==
  ASSUME NEW p \in Seq(Units), NEW q \in Seq(Units), Says(p \o q)
  PROVE  Says(p) \/ Says(q)
<1>1. /\ Len(p \o q) = Len(p) + Len(q)
      /\ \A i \in 1..(Len(p) + Len(q)) :
           (p \o q)[i] = IF i <= Len(p) THEN p[i] ELSE q[i - Len(p)]
  BY ConcatProperties
<1>2. PICK i \in 1..(Len(p) + Len(q)) : (p \o q)[i] = "ippOk"
  BY <1>1 DEF Says
<1>3. CASE i <= Len(p)
  BY <1>1, <1>2, <1>3 DEF Says
<1>4. CASE ~(i <= Len(p))
  <2>1. i - Len(p) \in 1..Len(q) /\ q[i - Len(p)] = "ippOk"
    BY <1>1, <1>2, <1>4
  <2> QED BY <2>1 DEF Says
<1> QED BY <1>3, <1>4

LEMMA OneUnit ==
  ASSUME NEW e \in Units
  PROVE  /\ <<e>> \in Seq(Units) /\ Len(<<e>>) = 1
         /\ Says(<<e>>) => e = "ippOk"
BY DEF Says

\* The printer's answer accepts when the printer does.
LEMMA AnswerSays ==
  ASSUME NEW v \in {"accepted", "refused"}, NEW h \in Nat
  PROVE  /\ Answer(v, h) \in Seq(Units) /\ Answer(v, h) # <<>>
         /\ Says(Answer(v, h)) => v = "accepted"
<1> DEFINE first == <<"http200">>
           mid == [i \in 1..h |-> "header"]
           last == <<IF v = "accepted" THEN "ippOk" ELSE "ippError">>
<1>1. first \in Seq(Units) /\ Len(first) = 1 /\ ~Says(first)
  BY OneUnit DEF Says, Units
<1>2. mid \in Seq(Units) /\ Len(mid) = h /\ ~Says(mid)
  <2>1. "header" \in Units /\ "header" # "ippOk"
    BY DEF Units
  <2>2. mid \in Seq(Units) /\ Len(mid) = h
    BY <2>1
  <2>3. \A i \in 1..h : mid[i] = "header"
    OBVIOUS
  <2> HIDE DEF mid
  <2> QED BY <2>1, <2>2, <2>3 DEF Says
<1>3. last \in Seq(Units) /\ (Says(last) => v = "accepted")
  <2> DEFINE e == IF v = "accepted" THEN "ippOk" ELSE "ippError"
  <2>1. e \in Units /\ (e = "ippOk" => v = "accepted")
    BY DEF Units
  <2> HIDE DEF e
  <2>2. <<e>> \in Seq(Units) /\ (Says(<<e>>) => v = "accepted")
    BY <2>1, OneUnit
  <2> QED BY <2>2 DEF e
<1>4. Answer(v, h) = (first \o mid) \o last
  BY DEF Answer
<1> HIDE DEF first, mid, last
<1>5. first \o mid \in Seq(Units) /\ ~Says(first \o mid)
  BY <1>1, <1>2, ConcatSays, ConcatProperties
<1>6. Len(first \o mid) = 1 + h
  BY <1>1, <1>2, ConcatProperties
<1>7. Answer(v, h) \in Seq(Units) /\ Len(Answer(v, h)) = 1 + h + Len(last)
  BY <1>3, <1>4, <1>5, <1>6, ConcatProperties
<1>8. Says(Answer(v, h)) => v = "accepted"
  BY <1>3, <1>4, <1>5, ConcatSays
<1>9. Answer(v, h) # <<>>
  BY <1>3, <1>7
<1> QED BY <1>7, <1>8, <1>9

LEMMA EarlyReplySays ==
  EarlyReply \in Seq(Units) /\ EarlyReply # <<>> /\ ~Says(EarlyReply)
<1>1. "http413" \in Units /\ "text" \in Units
  BY DEF Units
<1>2. /\ EarlyReply \in Seq(Units) /\ Len(EarlyReply) = 2
      /\ EarlyReply[1] = "http413" /\ EarlyReply[2] = "text"
  BY <1>1 DEF EarlyReply
<1>3. EarlyReply # <<>>
  BY DEF EarlyReply
<1> QED BY <1>2, <1>3 DEF Says

LEMMA MinPair ==
  ASSUME NEW a \in Int, NEW b \in Int
  PROVE  /\ Min({a, b}) \in Int
         /\ Min({a, b}) <= a /\ Min({a, b}) <= b
         /\ Min({a, b}) \in {a, b}
<1>1. \E x \in {a, b} : \A y \in {a, b} : x <= y
  OBVIOUS
<1>2. Min({a, b}) \in {a, b} /\ \A y \in {a, b} : Min({a, b}) <= y
  BY <1>1 DEF Min
<1> QED BY <1>2

-----------------------------------------------------------------------------
(* Taking a segment.                                                        *)

\* tcp_handle_received keeps the response within its buffer, and what it says
\* is what a segment said.
LEMMA HandleKeeps ==
  ASSUME TransportInv, NEW s \in toClient, Handle(s)
  PROVE  /\ remote_sequence' \in Nat
         /\ response' \in Seq(Units) /\ Len(response') <= RESPONSE_CAPACITY
         /\ Says(response') => verdict = "accepted"
         /\ Reply(s) \subseteq
              [syn : BOOLEAN, fin : BOOLEAN, seq : Nat, ack : Nat,
               chunk : {0}]
<1> USE TransportAssumption
<1>1. /\ s.data \in Seq(Units) /\ s.fin \in BOOLEAN
      /\ response \in Seq(Units) /\ Len(response) <= RESPONSE_CAPACITY
      /\ remote_sequence \in Nat /\ local_sequence \in Nat
      /\ Says(response) => verdict = "accepted"
      /\ Says(s.data) => verdict = "accepted"
  BY DEF TransportInv, Typed, AnswersTrue
<1>2. remote_sequence' \in Nat
  <2>1. Len(s.data) \in Nat
    BY <1>1
  <2>2. AfterData(s) \in Nat
    BY <1>1, <2>1 DEF AfterData
  <2> QED BY <2>2 DEF Handle
<1>3. /\ response' \in Seq(Units) /\ Len(response') <= RESPONSE_CAPACITY
      /\ Says(response') => verdict = "accepted"
  <2>1. CASE InOrder(s) /\ response_collecting
    <3> DEFINE n == Min({Len(s.data), Room})
               part == SubSeq(s.data, 1, n)
    <3>1. Room \in Nat /\ Len(s.data) \in Nat
      BY <1>1 DEF Room
    <3>2. n \in Nat /\ n <= Len(s.data) /\ n <= Room
      <4>1. Room \in Int /\ Len(s.data) \in Int
        BY <3>1
      <4>2. n \in {Len(s.data), Room} /\ n <= Len(s.data) /\ n <= Room
        BY <4>1, MinPair
      <4> HIDE DEF n
      <4> QED BY <3>1, <4>2
    <3> HIDE DEF n
    <3>3. part \in Seq(Units) /\ Len(part) = n /\ (Says(part) => Says(s.data))
      BY <1>1, <3>2, SubSeqSays
    <3>4. response' = response \o part
      BY <2>1 DEF Handle, n
    <3> HIDE DEF part
    <3>5. response' \in Seq(Units) /\ Len(response') = Len(response) + n
      BY <1>1, <3>3, <3>4, ConcatProperties
    <3>6. Says(response') => verdict = "accepted"
      BY <1>1, <3>3, <3>4, ConcatSays
    <3>7. Len(response) + n <= RESPONSE_CAPACITY
      BY <1>1, <3>2 DEF Room
    <3> QED BY <3>5, <3>6, <3>7
  <2>2. CASE ~(InOrder(s) /\ response_collecting)
    BY <1>1, <2>2 DEF Handle
  <2> QED BY <2>1, <2>2
<1>4. Reply(s) \subseteq
        [syn : BOOLEAN, fin : BOOLEAN, seq : Nat, ack : Nat, chunk : {0}]
  <2>1. Ack(local_sequence, remote_sequence') \in
          [syn : BOOLEAN, fin : BOOLEAN, seq : Nat, ack : Nat, chunk : {0}]
    BY <1>1, <1>2 DEF Ack
  <2> QED BY <2>1 DEF Reply
<1> QED BY <1>2, <1>3, <1>4

-----------------------------------------------------------------------------
(* The inductive invariant.                                                 *)

LEMMA InitTransportInv == Init => TransportInv
<1> SUFFICES ASSUME Init PROVE TransportInv
  OBVIOUS
<1> USE TransportAssumption DEF Init
<1>1. Typed
  <2>1. <<>> \in Seq(Units) /\ <<>> \in Seq(Nat) /\ Len(<<>>) = 0
    OBVIOUS
  <2> QED BY <2>1 DEF Typed, Results
<1>2. Counted /\ FramesCounted /\ RequestInOrder /\ AcksTrue /\ InStep
  BY DEF Counted, FramesCounted, RequestInOrder, AcksTrue, InStep
<1>3. AnswersTrue
  BY DEF AnswersTrue, Says
<1> QED BY <1>1, <1>2, <1>3 DEF TransportInv

\* Steps of the client that neither send data nor take a segment.
LEMMA QuietKeeps ==
  ASSUME TransportInv,
         UNCHANGED <<local_sequence, response, remote_sequence>>,
         UNCHANGED <<toClient, printer>>,
         toPrinter' \subseteq toPrinter \cup Frames,
         \/ UNCHANGED <<stage, chunk>>
         \/ stage = "idle" /\ stage' = "resolve" /\ UNCHANGED chunk
         \/ stage' = "done" /\ UNCHANGED chunk,
         result' \in Results,
         result' = "accepted" => verdict = "accepted"
  PROVE  TransportInv'
<1> USE TransportAssumption DEF TransportInv, printer
<1>1. Frames \subseteq
        [syn : BOOLEAN, fin : BOOLEAN, seq : Nat, ack : Nat, chunk : Nat]
  <2>1. Syn \in
          [syn : BOOLEAN, fin : BOOLEAN, seq : Nat, ack : Nat, chunk : Nat]
    BY DEF Syn
  <2>2. Chunk \in
          [syn : BOOLEAN, fin : BOOLEAN, seq : Nat, ack : Nat, chunk : Nat]
    BY DEF Chunk, Typed
  <2> QED BY <2>1, <2>2 DEF Frames
<1>2. \A m \in Frames :
        m.chunk # 0 => m.seq = m.chunk /\ m.chunk <= Chunks
                         /\ m.chunk <= local_sequence
  BY DEF Frames, Syn, Chunk, Typed, Counted
<1>3. Typed'
  BY <1>1 DEF Typed
<1>4. Counted'
  BY DEF Counted
<1>5. FramesCounted'
  BY <1>2 DEF FramesCounted
<1>6. RequestInOrder' /\ AcksTrue' /\ InStep'
  BY DEF RequestInOrder, AcksTrue, InStep, Typed
<1>7. AnswersTrue'
  BY DEF AnswersTrue, Says
<1> QED BY <1>3, <1>4, <1>5, <1>6, <1>7

LEMMA StartKeeps == TransportInv /\ Start => TransportInv'
<1> SUFFICES ASSUME TransportInv, Start PROVE TransportInv'
  OBVIOUS
<1>1. /\ UNCHANGED <<local_sequence, response, remote_sequence, chunk>>
      /\ UNCHANGED <<toClient, printer>>
      /\ toPrinter' = toPrinter
  BY DEF Start, stack
<1>2. \/ stage = "idle" /\ stage' = "resolve" /\ result' = result
      \/ stage' = "done" /\ result' \in {"invalid", "network"}
  BY DEF Start, Begin, Finish
<1>3. /\ result' \in Results
      /\ result' = "accepted" => verdict = "accepted"
  BY <1>2 DEF TransportInv, Typed, AnswersTrue, Results
<1> QED BY <1>1, <1>2, <1>3, QuietKeeps

LEMMA TransmitKeeps == TransportInv /\ Transmit => TransportInv'
<1> SUFFICES ASSUME TransportInv, Transmit PROVE TransportInv'
  OBVIOUS
<1>1. /\ UNCHANGED <<local_sequence, response, remote_sequence, chunk>>
      /\ UNCHANGED <<toClient, printer, stage, result>>
      /\ toPrinter' = toPrinter \cup Frames
  BY DEF Transmit, stack
<1>2. /\ result' \in Results
      /\ result' = "accepted" => verdict = "accepted"
  BY <1>1 DEF TransportInv, Typed, AnswersTrue
<1> QED BY <1>1, <1>2, QuietKeeps

\* A new attempt leaves the stage, and the last failure ends the command.
LEMMA RetryKeeps ==
  ASSUME TransportInv, Retry
  PROVE  /\ chunk' = chunk
         /\ stage' = stage \/ stage' = "done"
         /\ result' \in Results
         /\ result' = "accepted" => verdict = "accepted"
BY DEF Retry, Finish, TransportInv, Typed, AnswersTrue, Results

LEMMA TransmitFailsKeeps == TransportInv /\ TransmitFails => TransportInv'
<1> SUFFICES ASSUME TransportInv, TransmitFails PROVE TransportInv'
  OBVIOUS
<1>1. /\ UNCHANGED <<local_sequence, response, remote_sequence>>
      /\ UNCHANGED <<toClient, printer>>
      /\ toPrinter' \subseteq toPrinter \cup Frames
      /\ Retry
  BY DEF TransmitFails
<1> QED BY <1>1, RetryKeeps, QuietKeeps

LEMMA ExpireKeeps == TransportInv /\ Expire => TransportInv'
<1> SUFFICES ASSUME TransportInv, Expire PROVE TransportInv'
  OBVIOUS
<1>1. /\ UNCHANGED <<local_sequence, response, remote_sequence>>
      /\ UNCHANGED <<toClient, printer>>
      /\ toPrinter' \subseteq toPrinter \cup Frames
      /\ Retry
  BY DEF Expire
<1> QED BY <1>1, RetryKeeps, QuietKeeps

LEMMA ClockKeeps == TransportInv /\ (Tick \/ RingOverflow) => TransportInv'
<1> SUFFICES ASSUME TransportInv, Tick \/ RingOverflow PROVE TransportInv'
  OBVIOUS
<1>1. /\ UNCHANGED <<local_sequence, response, remote_sequence, chunk>>
      /\ UNCHANGED <<toClient, printer, stage, result>>
      /\ toPrinter' = toPrinter
  BY DEF Tick, RingOverflow, stack
<1>2. /\ result' \in Results
      /\ result' = "accepted" => verdict = "accepted"
  BY <1>1 DEF TransportInv, Typed, AnswersTrue
<1> QED BY <1>1, <1>2, QuietKeeps

LEMMA AnswerExpireKeeps == TransportInv /\ AnswerExpire => TransportInv'
<1> SUFFICES ASSUME TransportInv, AnswerExpire PROVE TransportInv'
  OBVIOUS
<1>1. /\ UNCHANGED <<local_sequence, response, remote_sequence, chunk>>
      /\ UNCHANGED <<toClient, printer>>
      /\ toPrinter' = toPrinter
  BY DEF AnswerExpire, stack
<1>2. stage' = "done" /\ result' \in {"network", "rejected"}
  BY DEF AnswerExpire, TimedOut, Finish
<1>3. result' \in Results /\ result' # "accepted"
  BY <1>2 DEF Results
<1> QED BY <1>1, <1>2, <1>3, QuietKeeps

LEMMA ResolvedKeeps == TransportInv /\ Resolved => TransportInv'
<1> SUFFICES ASSUME TransportInv, Resolved PROVE TransportInv'
  OBVIOUS
<1> USE TransportAssumption DEF TransportInv, printer
<1>1. /\ UNCHANGED <<chunk, response, toPrinter, toClient, result>>
      /\ UNCHANGED <<conn, received, stream, closed, verdict>>
      /\ stage = "resolve" /\ stage' = "connect"
      /\ local_sequence' = 0 /\ remote_sequence' = 0
  BY DEF Resolved, Begin
<1>2. local_sequence = 0
  BY <1>1 DEF Counted
<1>3. Typed'
  BY <1>1 DEF Typed
<1>4. Counted' /\ FramesCounted' /\ InStep'
  BY <1>1, <1>2 DEF Counted, FramesCounted, InStep
<1>5. RequestInOrder' /\ AcksTrue'
  BY <1>1, <1>2 DEF RequestInOrder, AcksTrue
<1>6. AnswersTrue'
  BY <1>1 DEF AnswersTrue, Says
<1> QED BY <1>3, <1>4, <1>5, <1>6
-----------------------------------------------------------------------------
(* Taking a segment.                                                        *)

\* Any step that takes a segment, keeps the printer and sends no data: where
\* the command stands and what it counts decide.
LEMMA TakeKeeps ==
  ASSUME TransportInv,
         UNCHANGED <<toClient, printer>>,
         toPrinter' \subseteq toPrinter \cup
           [syn : BOOLEAN, fin : BOOLEAN, seq : Nat, ack : Nat, chunk : {0}],
         remote_sequence' \in Nat,
         response' \in Seq(Units), Len(response') <= RESPONSE_CAPACITY,
         Says(response') => verdict = "accepted",
         result' \in Results,
         result' = "accepted" => verdict = "accepted",
         stage' \in {"connect", "send", "answer", "done"},
         chunk' \in Nat, local_sequence' \in Nat,
         local_sequence <= local_sequence',
         Counted', InStep'
  PROVE  TransportInv'
<1> USE TransportAssumption DEF TransportInv, printer
<1>1. Typed'
  BY DEF Typed
<1>2. FramesCounted'
  BY DEF FramesCounted, Typed
<1>3. RequestInOrder' /\ AcksTrue'
  BY DEF RequestInOrder, AcksTrue, Typed
<1>4. AnswersTrue'
  BY DEF AnswersTrue, Says
<1> QED BY <1>1, <1>2, <1>3, <1>4

\* Where the command stays, or ends, it counts as before.
LEMMA StayKeeps ==
  ASSUME TransportInv, UNCHANGED <<toClient, printer>>,
         UNCHANGED <<local_sequence, chunk>>,
         stage' = stage \/ stage' = "done"
  PROVE  Counted' /\ InStep' /\ chunk' \in Nat /\ local_sequence' \in Nat
           /\ local_sequence <= local_sequence'
BY DEF TransportInv, Counted, InStep, Typed, printer

LEMMA WaitOrRetryKeeps ==
  ASSUME TransportInv, NEW late, WaitOrRetry(late)
  PROVE  /\ chunk' = chunk
         /\ stage' = stage \/ stage' = "done"
         /\ result' \in Results
         /\ result' = "accepted" => verdict = "accepted"
<1>1. CASE late
  BY <1>1, RetryKeeps DEF WaitOrRetry
<1>2. CASE ~late
  BY <1>2 DEF WaitOrRetry, TransportInv, Typed, AnswersTrue
<1> QED BY <1>1, <1>2

LEMMA ConnectReceiveKeeps ==
  ASSUME TransportInv, NEW s \in toClient, ConnectReceive(s)
  PROVE  TransportInv'
<1> USE TransportAssumption
<1>1. /\ UNCHANGED <<toClient, printer>> /\ stage = "connect"
      /\ response' = response
      /\ response \in Seq(Units) /\ Len(response) <= RESPONSE_CAPACITY
      /\ Says(response) => verdict = "accepted"
      /\ remote_sequence \in Nat /\ s.seq \in Nat
      /\ local_sequence = 0 /\ Len(received) = 0 /\ result \in Results
      /\ result = "accepted" => verdict = "accepted"
  <2>1. UNCHANGED <<toClient, printer>> /\ stage = "connect"
    BY DEF ConnectReceive
  <2>2. response' = response
    BY DEF ConnectReceive, Connected, stack
  <2> QED BY <2>1, <2>2 DEF TransportInv, Typed, AnswersTrue, Counted, AcksTrue
<1>2. Says(response') => verdict = "accepted"
  BY <1>1 DEF Says
<1>3. CASE s.rst /\ Finish("network") /\ UNCHANGED <<stack, toPrinter>>
  <2>1. /\ stage' = "done" /\ result' = "network"
        /\ UNCHANGED <<local_sequence, chunk, remote_sequence, toPrinter>>
    BY <1>3 DEF Finish, stack
  <2>2. result' \in Results /\ result' # "accepted"
    BY <2>1 DEF Results
  <2> QED BY <1>1, <1>2, <2>1, <2>2, StayKeeps, TakeKeeps
<1>4. CASE Connected(s)
  <2>1. /\ stage' = "send" /\ result' = result
        /\ remote_sequence' = s.seq + 1 /\ local_sequence' = 1 /\ chunk' = 1
        /\ toPrinter' = toPrinter \cup {Ack(local_sequence', remote_sequence')}
    BY <1>1, <1>4 DEF Connected, Begin
  <2>2. Ack(local_sequence', remote_sequence') \in
          [syn : BOOLEAN, fin : BOOLEAN, seq : Nat, ack : Nat, chunk : {0}]
    BY <1>1, <2>1 DEF Ack
  <2>3. Counted' /\ InStep'
    BY <1>1, <2>1 DEF Counted, InStep, printer
  <2> QED BY <1>1, <1>2, <2>1, <2>2, <2>3, TakeKeeps
<1>5. CASE /\ WaitOrRetry(expired)
           /\ UNCHANGED <<local_sequence, remote_sequence, toPrinter>>
  <2>1. /\ chunk' = chunk
        /\ stage' = stage \/ stage' = "done"
        /\ result' \in Results
        /\ result' = "accepted" => verdict = "accepted"
    BY <1>5, WaitOrRetryKeeps
  <2> QED BY <1>1, <1>2, <1>5, <2>1, StayKeeps, TakeKeeps
<1> QED BY <1>3, <1>4, <1>5 DEF ConnectReceive

LEMMA CloseKeeps ==
  ASSUME local_sequence' \in Nat, remote_sequence' \in Nat
  PROVE  Close \subseteq
           [syn : BOOLEAN, fin : BOOLEAN, seq : Nat, ack : Nat, chunk : {0}]
<1>1. Fin(local_sequence', remote_sequence') \in
        [syn : BOOLEAN, fin : BOOLEAN, seq : Nat, ack : Nat, chunk : {0}]
  BY DEF Fin
<1> QED BY <1>1 DEF Close

\* The two ends after the acknowledgement of the segment being sent.
LEMMA AcknowledgedKeeps ==
  ASSUME TransportInv, NEW s \in toClient, Acknowledges(s), stage = "send",
         UNCHANGED <<toClient, printer>>,
         local_sequence' = local_sequence + 1
  PROVE  /\ chunk = local_sequence /\ chunk \in 1..Chunks
         /\ Len(received) = local_sequence
         /\ Len(received') = local_sequence' - 1
         /\ local_sequence \in Nat
BY TransportAssumption
   DEF TransportInv, Counted, InStep, AcksTrue, Acknowledges, Typed, printer

LEMMA SendReceiveKeeps ==
  ASSUME TransportInv, NEW s \in toClient, SendReceive(s)
  PROVE  TransportInv'
<1> USE TransportAssumption
<1>1. /\ UNCHANGED <<toClient, printer>> /\ stage = "send" /\ Handle(s)
      /\ result \in Results
      /\ result = "accepted" => verdict = "accepted"
      /\ local_sequence \in Nat /\ chunk \in Nat
  BY DEF SendReceive, TransportInv, Typed, AnswersTrue
<1>2. /\ remote_sequence' \in Nat
      /\ response' \in Seq(Units) /\ Len(response') <= RESPONSE_CAPACITY
      /\ Says(response') => verdict = "accepted"
      /\ Reply(s) \subseteq
           [syn : BOOLEAN, fin : BOOLEAN, seq : Nat, ack : Nat, chunk : {0}]
  BY <1>1, HandleKeeps
<1>3. CASE /\ Finish("network") /\ UNCHANGED <<local_sequence, chunk>>
           /\ toPrinter' = toPrinter \cup Reply(s)
  <2>1. stage' = "done" /\ result' = "network"
    BY <1>3 DEF Finish
  <2>2. result' \in Results /\ result' # "accepted"
    BY <2>1 DEF Results
  <2> QED BY <1>1, <1>2, <1>3, <2>1, <2>2, StayKeeps, TakeKeeps
<1>4. CASE /\ Acknowledges(s) /\ chunk < Chunks /\ Begin("send")
           /\ local_sequence' = local_sequence + 1 /\ chunk' = chunk + 1
           /\ toPrinter' = toPrinter \cup Reply(s)
  <2>1. stage' = "send" /\ result' = result
    BY <1>4 DEF Begin
  <2>2. /\ chunk = local_sequence /\ chunk \in 1..Chunks
        /\ Len(received') = local_sequence' - 1
    BY <1>1, <1>4, AcknowledgedKeeps
  <2>3. Counted' /\ InStep'
    BY <1>1, <1>4, <2>1, <2>2 DEF Counted, InStep
  <2> QED BY <1>1, <1>2, <1>4, <2>1, <2>3, TakeKeeps
<1>5. CASE /\ Acknowledges(s) /\ chunk = Chunks /\ AnswerOrWait(response')
           /\ local_sequence' = local_sequence + 1 /\ UNCHANGED chunk
           /\ toPrinter' = toPrinter \cup Reply(s) \cup Close
  <2>1. /\ chunk = local_sequence
        /\ Len(received') = local_sequence' - 1
    BY <1>1, <1>5, AcknowledgedKeeps
  <2>2. \/ stage' = "answer" /\ result' = result
        \/ stage' = "done" /\ result' = Parse(response')
    BY <1>5 DEF AnswerOrWait, Finish
  <2>3. /\ result' \in Results
        /\ result' = "accepted" => verdict = "accepted"
    <3>1. CASE result' = result
      BY <1>1, <3>1
    <3>2. CASE stage' = "done" /\ result' = Parse(response')
      <4>1. Parse(response') # "incomplete"
        BY <1>5, <1>1, <3>2 DEF AnswerOrWait
      <4>2. result' \in Results
        BY <3>2, <4>1 DEF Parse, Results
      <4>3. Parse(response') = "accepted" => Says(response')
        BY <1>2, ParseSays
      <4> QED BY <1>2, <3>2, <4>2, <4>3
    <3> QED BY <2>2, <3>1, <3>2
  <2>4. Counted' /\ InStep'
    BY <1>1, <1>5, <2>1, <2>2 DEF Counted, InStep
  <2>5. Close \subseteq
          [syn : BOOLEAN, fin : BOOLEAN, seq : Nat, ack : Nat, chunk : {0}]
    BY <1>1, <1>2, <1>5, CloseKeeps
  <2> QED BY <1>1, <1>2, <1>5, <2>2, <2>3, <2>4, <2>5, TakeKeeps
<1>6. CASE /\ WaitOrRetry(Late(s)) /\ UNCHANGED local_sequence
           /\ toPrinter' = toPrinter \cup Reply(s)
  <2>1. /\ chunk' = chunk
        /\ stage' = stage \/ stage' = "done"
        /\ result' \in Results
        /\ result' = "accepted" => verdict = "accepted"
    BY <1>6, WaitOrRetryKeeps
  <2> QED BY <1>1, <1>2, <1>6, <2>1, StayKeeps, TakeKeeps
<1> QED BY <1>3, <1>4, <1>5, <1>6 DEF SendReceive

LEMMA AnswerReceiveKeeps ==
  ASSUME TransportInv, NEW s \in toClient, AnswerReceive(s)
  PROVE  TransportInv'
<1>1. /\ UNCHANGED <<toClient, printer>> /\ stage = "answer" /\ Handle(s)
      /\ UNCHANGED <<local_sequence, chunk>>
      /\ toPrinter' = toPrinter \cup Reply(s) \cup Close
      /\ result \in Results
      /\ result = "accepted" => verdict = "accepted"
      /\ local_sequence \in Nat
  BY DEF AnswerReceive, TransportInv, Typed, AnswersTrue
<1>2. /\ remote_sequence' \in Nat
      /\ response' \in Seq(Units) /\ Len(response') <= RESPONSE_CAPACITY
      /\ Says(response') => verdict = "accepted"
      /\ Reply(s) \subseteq
           [syn : BOOLEAN, fin : BOOLEAN, seq : Nat, ack : Nat, chunk : {0}]
  BY <1>1, HandleKeeps
<1>3. Close \subseteq
        [syn : BOOLEAN, fin : BOOLEAN, seq : Nat, ack : Nat, chunk : {0}]
  BY <1>1, <1>2, CloseKeeps
<1>4. Parse(response') # "incomplete" =>
        /\ Parse(response') \in Results
        /\ Parse(response') = "accepted" => verdict = "accepted"
  <2>1. Parse(response') = "accepted" => Says(response')
    BY <1>2, ParseSays
  <2>2. Parse(response') # "incomplete" => Parse(response') \in Results
    BY DEF Parse, Results
  <2> QED BY <1>2, <2>1, <2>2
<1>5. /\ stage' = stage \/ stage' = "done"
      /\ \/ result' = result
         \/ result' \in {"network", "rejected"}
         \/ Parse(response') # "incomplete" /\ result' = Parse(response')
  BY DEF AnswerReceive, Finish, TimedOut
<1>6. /\ result' \in Results
      /\ result' = "accepted" => verdict = "accepted"
  BY <1>1, <1>4, <1>5 DEF Results
<1> QED BY <1>1, <1>2, <1>3, <1>5, <1>6, StayKeeps, TakeKeeps
-----------------------------------------------------------------------------
(* The printer.                                                             *)

LEMMA PrinterConnectsKeeps == TransportInv /\ PrinterConnects => TransportInv'
<1> SUFFICES ASSUME TransportInv, PrinterConnects PROVE TransportInv'
  OBVIOUS
<1> USE TransportAssumption DEF TransportInv, client
<1>1. /\ UNCHANGED <<client, toPrinter, received, stream, verdict>>
      /\ toClient' \subseteq toClient \cup {SynAck, Rst}
  BY DEF PrinterConnects
<1>2. {SynAck, Rst} \subseteq
        [syn : BOOLEAN, rst : BOOLEAN, fin : BOOLEAN, seq : Nat, ack : Nat,
         data : Seq(Units)]
  BY DEF SynAck, Rst
<1>3. /\ SynAck.ack = 1 /\ SynAck.data = <<>>
      /\ Rst.rst /\ Rst.data = <<>> /\ ~Says(<<>>)
  BY DEF SynAck, Rst, Says
<1>4. Typed'
  BY <1>1, <1>2 DEF Typed
<1>5. Counted' /\ FramesCounted' /\ RequestInOrder' /\ InStep'
  BY <1>1 DEF Counted, FramesCounted, RequestInOrder, InStep
<1>6. AcksTrue'
  <2>1. Len(received) \in Nat
    BY DEF Typed
  <2>2. \A s \in {SynAck, Rst} : ~s.rst => s.ack <= Len(received) + 1
    BY <1>3, <2>1
  <2> QED BY <1>1, <2>2 DEF AcksTrue
<1>7. AnswersTrue'
  BY <1>1, <1>3 DEF AnswersTrue, Says
<1> QED BY <1>4, <1>5, <1>6, <1>7

LEMMA PrinterResetsKeeps == TransportInv /\ PrinterResets => TransportInv'
<1> SUFFICES ASSUME TransportInv, PrinterResets PROVE TransportInv'
  OBVIOUS
<1> USE TransportAssumption DEF TransportInv, client
<1>1. /\ UNCHANGED <<client, toPrinter, received, stream, verdict>>
      /\ toClient' = toClient \cup {Rst}
  BY DEF PrinterResets
<1>2. Rst \in [syn : BOOLEAN, rst : BOOLEAN, fin : BOOLEAN, seq : Nat,
               ack : Nat, data : Seq(Units)]
  BY DEF Rst
<1>3. Rst.rst /\ Rst.data = <<>> /\ ~Says(<<>>)
  BY DEF Rst, Says
<1>4. Typed'
  BY <1>1, <1>2 DEF Typed
<1>5. Counted' /\ FramesCounted' /\ RequestInOrder' /\ InStep'
  BY <1>1 DEF Counted, FramesCounted, RequestInOrder, InStep
<1>6. AcksTrue'
  BY <1>1, <1>3 DEF AcksTrue
<1>7. AnswersTrue'
  BY <1>1, <1>3 DEF AnswersTrue, Says
<1> QED BY <1>4, <1>5, <1>6, <1>7

LEMMA PrinterTakesKeeps == TransportInv /\ PrinterTakes => TransportInv'
<1> SUFFICES ASSUME TransportInv, PrinterTakes PROVE TransportInv'
  OBVIOUS
<1> USE TransportAssumption DEF TransportInv, client
<1>1. PICK m \in toPrinter :
        m.chunk # 0 /\ m.seq = Len(received) + 1
          /\ received' = Append(received, m.chunk)
  BY DEF PrinterTakes
<1>2. UNCHANGED <<client, toPrinter, toClient, stream, verdict>>
  BY DEF PrinterTakes
<1>3. /\ m.chunk \in Nat /\ m.chunk = Len(received) + 1
      /\ m.chunk <= Chunks /\ m.chunk <= local_sequence
      /\ received \in Seq(Nat)
  BY <1>1 DEF FramesCounted, Typed
<1>4. /\ received' \in Seq(Nat) /\ Len(received') = Len(received) + 1
      /\ \A i \in 1..Len(received) : received'[i] = received[i]
      /\ received'[Len(received) + 1] = m.chunk
  BY <1>1, <1>3, AppendProperties
<1>5. Typed'
  BY <1>2, <1>4 DEF Typed
<1>6. Counted' /\ FramesCounted'
  BY <1>2 DEF Counted, FramesCounted
<1>7. RequestInOrder'
  BY <1>3, <1>4 DEF RequestInOrder
<1>8. AcksTrue' /\ InStep'
  BY <1>2, <1>3, <1>4 DEF AcksTrue, InStep, Typed
<1>9. AnswersTrue'
  <2>1. verdict # "accepted"
    BY <1>3 DEF AnswersTrue
  <2> QED BY <1>2, <2>1 DEF AnswersTrue, Says
<1> QED BY <1>5, <1>6, <1>7, <1>8, <1>9

\* A request whose last delivered segment is the terminating chunk is whole.
LEMMA WholeWhenTerminated ==
  ASSUME TransportInv, received # <<>>, Last(received) = Chunks
  PROVE  Len(received) = Chunks
<1>1. Len(received) \in 1..Len(received)
  BY DEF TransportInv, Typed
<1> QED BY <1>1 DEF TransportInv, RequestInOrder, Last

LEMMA PrinterDecidesKeeps ==
  TransportInv /\ (PrinterAnswers \/ PrinterRefuses) => TransportInv'
<1> SUFFICES ASSUME TransportInv, PrinterAnswers \/ PrinterRefuses
             PROVE  TransportInv'
  OBVIOUS
<1> USE TransportAssumption
<1>1. /\ UNCHANGED <<client, toPrinter, toClient, received>>
      /\ stream = <<>>
  BY DEF PrinterAnswers, PrinterRefuses
<1>2. /\ verdict' \in {"accepted", "refused"}
      /\ stream' \in Seq(Units) /\ stream' # <<>>
      /\ Says(stream') => verdict' = "accepted"
      /\ verdict' = "accepted" => Len(received) = Chunks
  <2>1. CASE PrinterAnswers
    <3>1. PICK v \in {"accepted", "refused"}, h \in 0..HeaderUnits :
            verdict' = v /\ stream' = Answer(v, h)
      BY <2>1 DEF PrinterAnswers
    <3>2. h \in Nat
      OBVIOUS
    <3>3. received # <<>> /\ Last(received) = Chunks
      BY <2>1 DEF PrinterAnswers
    <3> QED BY <3>1, <3>2, <3>3, AnswerSays, WholeWhenTerminated
  <2>2. CASE PrinterRefuses
    BY <2>2, EarlyReplySays DEF PrinterRefuses
  <2> QED BY <2>1, <2>2
<1>3. verdict = "none"
  BY <1>1 DEF TransportInv, AnswersTrue
<1> USE DEF TransportInv, client
<1>4. Typed'
  BY <1>1, <1>2 DEF Typed
<1>5. /\ Counted' /\ FramesCounted' /\ RequestInOrder' /\ AcksTrue' /\ InStep'
  BY <1>1 DEF Counted, FramesCounted, RequestInOrder, AcksTrue, InStep
<1>6. AnswersTrue'
  <2>1. ~Says(response) /\ result # "accepted"
    BY <1>3 DEF AnswersTrue
  <2>2. ~Says(response') /\ result' # "accepted"
    BY <1>1, <2>1 DEF Says
  <2>3. \A s \in toClient : ~Says(s.data)
    BY <1>3 DEF AnswersTrue
  <2>4. (Says(stream))' => verdict' = "accepted"
    BY <1>2 DEF Says
  <2>5. \A s \in toClient' : ~Says(s.data)
    BY <1>1, <2>3
  <2>6. (\A s \in toClient : Says(s.data) => verdict = "accepted")'
    BY <2>5 DEF Says
  <2>7. (~Says(response))' /\ result' # "accepted"
    BY <2>2 DEF Says
  <2> QED BY <1>1, <1>2, <2>4, <2>6, <2>7 DEF AnswersTrue
<1> QED BY <1>4, <1>5, <1>6

LEMMA PrinterClosesKeeps == TransportInv /\ PrinterCloses => TransportInv'
<1> SUFFICES ASSUME TransportInv, PrinterCloses PROVE TransportInv'
  OBVIOUS
<1>1. UNCHANGED <<client, toPrinter, toClient, received, stream, verdict>>
  BY DEF PrinterCloses
<1> QED
  BY <1>1 DEF TransportInv, client, Typed, Counted, FramesCounted,
              RequestInOrder, AcksTrue, InStep, AnswersTrue, Says

LEMMA PrinterSendsKeeps == TransportInv /\ PrinterSends => TransportInv'
<1> SUFFICES ASSUME TransportInv, PrinterSends PROVE TransportInv'
  OBVIOUS
<1> USE TransportAssumption DEF TransportInv, client, printer
<1>1. PICK from \in 1..(Len(stream) + 1), to \in 0..Len(stream), fin \in BOOLEAN :
        toClient' = toClient \cup {Segment(from, to, fin)}
  BY DEF PrinterSends
<1>2. UNCHANGED <<client, toPrinter, received, stream, verdict>>
  BY DEF PrinterSends
<1> DEFINE d == SubSeq(stream, from, to)
<1>3. /\ stream \in Seq(Units) /\ received \in Seq(Nat)
      /\ from \in Int /\ to \in Int /\ from \in Nat /\ 1 <= from
      /\ to <= Len(stream)
  BY DEF Typed
<1>4. d \in Seq(Units) /\ (Says(d) => Says(stream))
  BY <1>3, SubSeqSays
<1>5. /\ Segment(from, to, fin).ack = Len(received) + 1
      /\ Segment(from, to, fin).data = d
  BY DEF Segment
<1>6. Segment(from, to, fin) \in
        [syn : BOOLEAN, rst : BOOLEAN, fin : BOOLEAN, seq : Nat, ack : Nat,
         data : Seq(Units)]
  BY <1>3, <1>4 DEF Segment
<1> HIDE DEF d
<1>7. Typed'
  BY <1>1, <1>2, <1>6 DEF Typed
<1>8. Counted' /\ FramesCounted' /\ RequestInOrder' /\ InStep'
  BY <1>2 DEF Counted, FramesCounted, RequestInOrder, InStep
<1>9. AcksTrue'
  BY <1>1, <1>2, <1>3, <1>5 DEF AcksTrue
<1>10. AnswersTrue'
  <2>1. Says(d) => verdict = "accepted"
    BY <1>4 DEF AnswersTrue
  <2>2. \A s \in toClient' : Says(s.data) => verdict = "accepted"
    BY <1>1, <1>5, <2>1 DEF AnswersTrue
  <2> QED BY <1>2, <2>2 DEF AnswersTrue, Says
<1> QED BY <1>7, <1>8, <1>9, <1>10

-----------------------------------------------------------------------------
(* The theorems.                                                            *)

LEMMA NextTransportInv == TransportInv /\ [Next]_vars => TransportInv'
<1> SUFFICES ASSUME TransportInv, [Next]_vars PROVE TransportInv'
  OBVIOUS
<1>1. CASE ClientStep
  BY <1>1, StartKeeps, TransmitKeeps, TransmitFailsKeeps, ExpireKeeps,
     ResolvedKeeps, AnswerExpireKeeps, ConnectReceiveKeeps, SendReceiveKeeps,
     AnswerReceiveKeeps
     DEF ClientStep
<1>2. CASE Tick \/ RingOverflow
  BY <1>2, ClockKeeps
<1>3. CASE PrinterStep
  BY <1>3, PrinterConnectsKeeps, PrinterTakesKeeps, PrinterDecidesKeeps,
     PrinterClosesKeeps, PrinterSendsKeeps, PrinterResetsKeeps
     DEF PrinterStep
<1>4. CASE UNCHANGED vars
  BY <1>4 DEF vars, client, printer, TransportInv, Typed, Counted,
     FramesCounted, RequestInOrder, AcksTrue, InStep, AnswersTrue, Says
<1> QED BY <1>1, <1>2, <1>3, <1>4 DEF Next

\* The two ends of the connection agree, whatever the network and the printer
\* do, for every length of request, number of attempts and buffer.
THEOREM TransportInvariance == Spec => []TransportInv
BY InitTransportInv, NextTransportInv, PTL DEF Spec

\* print_entry says a job is queued only when the printer accepted the whole
\* request, every segment once and in order.
THEOREM QueuedMeansPrintedAlways == Spec => []QueuedMeansPrinted
<1>1. TransportInv => QueuedMeansPrinted
  <2> SUFFICES ASSUME TransportInv, result = "accepted"
               PROVE  /\ verdict = "accepted"
                      /\ received = [i \in 1..Chunks |-> i]
    BY DEF QueuedMeansPrinted
  <2>1. verdict = "accepted" /\ Len(received) = Chunks /\ received \in Seq(Nat)
    BY DEF TransportInv, AnswersTrue, Typed
  <2>2. \A i \in 1..Chunks : received[i] = i
    BY <2>1 DEF TransportInv, RequestInOrder
  <2> QED BY <2>1, <2>2
<1> QED BY <1>1, TransportInvariance, PTL

\* tcp_send_bytes resends from one buffer and the printer still gets the
\* request in order and without a gap, also when the command gives up.
THEOREM RequestInOrderAlways == Spec => []RequestInOrder
<1>1. TransportInv => RequestInOrder
  BY DEF TransportInv
<1> QED BY <1>1, TransportInvariance, PTL

\* The client is never ahead of the printer, and behind it by one at most.
THEOREM InStepAlways == Spec => []InStep
<1>1. TransportInv => InStep
  BY DEF TransportInv
<1> QED BY <1>1, TransportInvariance, PTL

-----------------------------------------------------------------------------
(* The answer: what the client collects is what the printer says.            *)

\* The printer has begun to answer a complete request.
Answering == stream # <<>> /\ stream[1] = "http200"

\* Collection starts with the transmission of the terminating chunk, and an
\* answer to a complete request cannot come before.
CollectsInTime ==
  /\ response_collecting <=> local_sequence >= Chunks
  /\ ~response_collecting => response = <<>>
  /\ Answering => response_collecting

\* A frame with data is a stretch of the reply at its sequence number, and a
\* FIN comes behind the last unit; the others carry nothing.
FrameFaithful(s) ==
  /\ s.syn => s.seq = 0
  /\ s.syn \/ s.rst => s.data = <<>> /\ ~s.fin
  /\ ~s.syn /\ ~s.rst => s.seq >= 1 /\ s.seq + Len(s.data) <= Len(stream) + 1
  /\ \A i \in 1..Len(s.data) : s.data[i] = stream[s.seq + i - 1]
  /\ s.fin => closed /\ s.seq + Len(s.data) = Len(stream) + 1

SegmentsFaithful == \A s \in toClient : FrameFaithful(s)

\* The client expects nothing behind the end of the reply and its FIN.
SequenceBounded ==
  /\ remote_fin \in BOOLEAN /\ (closed => stream # <<>>)
  /\ remote_fin => closed /\ remote_sequence = Len(stream) + 2
  /\ ~remote_fin => remote_sequence <= Len(stream) + 1
  /\ stage \in {"idle", "resolve", "connect"} => remote_sequence = 0
  /\ stage \in {"send", "answer"} => remote_sequence >= 1

\* The response is the stretch of the reply behind its first k units: nothing
\* that has not been acknowledged, and as much of it as fits.
StretchFrom(k) ==
  /\ k \in 0..Len(stream)
  /\ k = 0 \/ k < remote_sequence
  /\ response = <<>> \/ k + Len(response) < remote_sequence
  /\ k + Len(response) <= Len(stream)
  /\ \A i \in 1..Len(response) : response[i] = stream[k + i]
  /\ \/ Len(response) = RESPONSE_CAPACITY
     \/ k + Len(response) = Len(stream)
     \/ k + Len(response) = remote_sequence - 1
     \/ remote_sequence = 0

ResponseStretch == \E k \in 0..Len(stream) : StretchFrom(k) /\ (Answering => k = 0)

ResponseInv ==
  CollectsInTime /\ SegmentsFaithful /\ SequenceBounded /\ ResponseStretch

\* What the client has collected before the wait for the answer, in it and
\* after it.
AnswerHeld ==
  /\ stage \notin {"answer", "done"} => ~Says(response)
  /\ stage = "answer" => Parse(response) = "incomplete"
  /\ stage = "done" /\ Parse(response) = "accepted" => result = "accepted"
  /\ stage = "done" => ~sending

\* An accepting entity comes with the acknowledgement of the whole request, so
\* it is never collected before the wait for the answer, and there it ends it.
AnswerInv ==
  /\ \A s \in toClient : Says(s.data) => s.ack = Chunks + 1
  /\ AnswerHeld

LEMMA InitResponseInv == Init => ResponseInv /\ AnswerInv
<1> SUFFICES ASSUME Init PROVE ResponseInv /\ AnswerInv
  OBVIOUS
<1>1. CollectsInTime
  BY TransportAssumption DEF CollectsInTime, Answering, Init
<1>2. SegmentsFaithful
  BY DEF SegmentsFaithful, Init
<1>3. Len(stream) = 0 /\ Len(response) = 0 /\ ~Answering
  BY DEF Answering, Init
<1>4. SequenceBounded
  <2>1. /\ ~remote_fin /\ remote_fin \in BOOLEAN /\ ~closed
        /\ remote_sequence = 0 /\ stage = "idle"
    BY DEF Init
  <2> QED BY <1>3, <2>1 DEF SequenceBounded
<1>5. ResponseStretch
  <2>1. StretchFrom(0)
    BY <1>3 DEF StretchFrom, Init
  <2> QED BY <1>3, <2>1 DEF ResponseStretch
<1>6. AnswerInv
  BY <1>3 DEF AnswerInv, AnswerHeld, Says, Init
<1> QED BY <1>1, <1>2, <1>4, <1>5, <1>6 DEF ResponseInv

\* What is said of the response and the frames depends on nothing else.
LEMMA StretchSame ==
  ASSUME ResponseInv,
         UNCHANGED <<local_sequence, remote_sequence, remote_fin,
                     response_collecting, response, toClient, stream, closed>>,
         \/ stage' = stage
         \/ stage = "idle" /\ stage' = "resolve"
         \/ stage = "resolve" /\ stage' = "connect"
         \/ stage' = "done"
  PROVE  ResponseInv'
<1>1. CollectsInTime'
  BY DEF ResponseInv, CollectsInTime, Answering
<1>2. SegmentsFaithful'
  BY DEF ResponseInv, SegmentsFaithful, FrameFaithful
<1>3. SequenceBounded'
  BY DEF ResponseInv, SequenceBounded
<1>4. ResponseStretch'
  BY DEF ResponseInv, ResponseStretch, StretchFrom, Answering
<1> QED BY <1>1, <1>2, <1>3, <1>4 DEF ResponseInv

\* r is the stretch of q behind its first k units.
Follows(r, q, k) == \A i \in 1..Len(r) : r[i] = q[k + i]

\* A stretch of a reply grows by the first units of a segment that follows it.
LEMMA StretchGrows ==
  ASSUME NEW q \in Seq(Units), NEW r \in Seq(Units), NEW d \in Seq(Units),
         NEW k \in Nat, NEW p \in Nat, NEW m \in Nat, m <= Len(d),
         Follows(r, q, k), Follows(d, q, p), m >= 1 => k + Len(r) = p
  PROVE  /\ Len(r \o SubSeq(d, 1, m)) = Len(r) + m
         /\ Follows(r \o SubSeq(d, 1, m), q, k)
<1> USE DEF Follows
<1> DEFINE part == SubSeq(d, 1, m)
<1>1. Len(r) \in Nat /\ Len(d) \in Nat
  OBVIOUS
<1>2. /\ part \in Seq(Units) /\ Len(part) = m
      /\ \A i \in 1..m : part[i] = d[i]
  <2>1. \A i \in 1..m : d[i] \in Units
    BY <1>1
  <2> QED BY <1>1, <2>1, SubSeqProperties
<1> HIDE DEF part
<1>3. /\ Len(r \o part) = Len(r) + m
      /\ \A i \in 1..(Len(r) + m) :
           (r \o part)[i] = IF i <= Len(r) THEN r[i] ELSE part[i - Len(r)]
  BY <1>2, ConcatProperties
<1>4. ASSUME NEW i \in 1..(Len(r) + m) PROVE (r \o part)[i] = q[k + i]
  <2>1. CASE i <= Len(r)
    BY <1>1, <1>3, <2>1
  <2>2. CASE ~(i <= Len(r))
    <3> DEFINE len == Len(r)
    <3>0. len \in Nat /\ i \in Int /\ i <= len + m /\ ~(i <= len)
          /\ (m >= 1 => k + len = p)
      BY <1>1, <2>2
    <3> HIDE DEF len
    <3>a. i - len \in 1..m /\ i = len + (i - len) /\ m >= 1
      BY <3>0
    <3>1. PICK j \in 1..m : i = len + j /\ j = i - len
      BY <3>a
    <3>2. (r \o part)[i] = d[j]
      BY <1>2, <1>3, <2>2, <3>1 DEF len
    <3>3. j \in 1..Len(d)
      BY <1>1
    <3>4. d[j] = q[p + j]
      BY <3>3
    <3>5. p + j = k + i
      BY <3>0, <3>1, <3>a
    <3> QED BY <3>2, <3>4, <3>5
  <2> QED BY <2>1, <2>2
<1> QED BY <1>3, <1>4 DEF part

\* What tcp_handle_received makes of the sequence number.
LEMMA HandleCounts ==
  ASSUME TransportInv, ResponseInv, NEW s \in toClient, Handle(s),
         remote_sequence >= 1
  PROVE  /\ remote_sequence' \in Nat /\ remote_sequence' >= remote_sequence
         /\ remote_fin' \in BOOLEAN
         /\ remote_fin' => closed /\ remote_sequence' = Len(stream) + 2
         /\ ~remote_fin' => remote_sequence' <= Len(stream) + 1
         /\ InOrder(s) =>
              /\ s.seq = remote_sequence /\ Len(s.data) >= 1
              /\ remote_sequence + Len(s.data) <= Len(stream) + 1
              /\ \/ remote_sequence' = remote_sequence + Len(s.data)
                 \/ /\ remote_sequence' = remote_sequence + Len(s.data) + 1
                    /\ remote_sequence + Len(s.data) = Len(stream) + 1
         /\ ~InOrder(s) =>
              \/ remote_sequence' = remote_sequence
              \/ remote_sequence' = Len(stream) + 2
                   /\ remote_sequence = Len(stream) + 1
<1> DEFINE L == Len(stream)
           n == Len(s.data)
           q == s.seq
<1>1. /\ q \in Nat /\ s.fin \in BOOLEAN /\ L \in Nat /\ n \in Nat
      /\ remote_sequence \in Nat
      /\ s.data = <<>> <=> n = 0
      /\ s.syn \in BOOLEAN /\ s.rst \in BOOLEAN
  BY DEF TransportInv, Typed
<1>2. /\ s.data # <<>> \/ s.fin => q >= 1 /\ q + n <= L + 1
      /\ s.fin => closed /\ q + n = L + 1
  BY <1>1 DEF ResponseInv, SegmentsFaithful, FrameFaithful
<1>3. /\ remote_fin \in BOOLEAN
      /\ remote_fin => closed /\ remote_sequence = L + 2
      /\ ~remote_fin => remote_sequence <= L + 1
  BY DEF ResponseInv, SequenceBounded
<1>4. remote_sequence' \in Nat
  BY HandleKeeps
<1>5. /\ remote_fin' <=> (remote_fin \/ TakesFin(s))
      /\ TakesFin(s) => remote_sequence' = AfterData(s) + 1
      /\ ~TakesFin(s) => remote_sequence' = AfterData(s) + 0
  BY DEF Handle
<1>6. remote_fin' \in BOOLEAN
  BY <1>1, <1>3 DEF Handle, TakesFin, Stale
<1>7. /\ InOrder(s) => /\ q = remote_sequence /\ s.data # <<>>
                       /\ AfterData(s) = remote_sequence + n
      /\ ~InOrder(s) => AfterData(s) = remote_sequence
      /\ TakesFin(s) => s.fin /\ q + n = AfterData(s)
      /\ InOrder(s) /\ s.fin => TakesFin(s) \/ q + n # AfterData(s)
  BY DEF InOrder, AfterData, TakesFin, Stale
<1> HIDE DEF L, n, q
<1>8. CASE InOrder(s)
  <2>1. ~remote_fin
    BY <1>1, <1>2, <1>3, <1>7, <1>8
  <2> QED BY <1>1, <1>2, <1>3, <1>4, <1>5, <1>6, <1>7, <1>8, <2>1 DEF L, n, q
<1>9. CASE ~InOrder(s)
  BY <1>1, <1>2, <1>3, <1>4, <1>5, <1>6, <1>7, <1>9 DEF L, n, q
<1> QED BY <1>8, <1>9

\* The numbers of a stretch that starts behind the first k units, when the
\* client goes on from unit rs to unit next.
LEMMA StretchCounts ==
  ASSUME NEW k \in Nat, NEW len \in Nat, NEW len2 \in Nat, NEW L \in Nat,
         NEW cap \in Nat, NEW rs \in Nat, NEW next \in Nat, NEW n \in Nat,
         NEW m \in Nat, len <= cap, rs >= 1, k <= L, k + len <= L,
         k = 0 \/ k < rs, len = 0 \/ k + len < rs,
         \/ len = cap \/ k + len = L \/ k + len = rs - 1,
         n >= 1, rs + n <= L + 1,
         next = rs + n \/ (next = rs + n + 1 /\ rs + n = L + 1),
         m <= n, m <= cap - len, m = n \/ m = cap - len, len2 = len + m
  PROVE  /\ m >= 1 => k + len = rs - 1
         /\ k = 0 \/ k < next
         /\ len2 = 0 \/ k + len2 < next
         /\ k + len2 <= L
         /\ len2 = cap \/ k + len2 = L \/ k + len2 = next - 1
<1>1. m >= 1 => k + len = rs - 1
  OBVIOUS
<1>2. k < next \/ k = 0
  OBVIOUS
<1>3. CASE m = 0
  BY <1>1, <1>2, <1>3
<1>4. CASE m >= 1
  BY <1>1, <1>2, <1>4
<1> QED BY <1>3, <1>4

\* tcp_handle_received: data in sequence extends the stretch up to the capacity
\* of the buffer, and nothing else is collected.
LEMMA HandleStretch ==
  ASSUME TransportInv, ResponseInv, NEW s \in toClient, Handle(s),
         remote_sequence >= 1, UNCHANGED <<toClient, printer>>
  PROVE  /\ SegmentsFaithful' /\ ResponseStretch'
         /\ ~response_collecting => response' = <<>>
         /\ response' # response => InOrder(s) /\ response_collecting
<1> USE TransportAssumption DEF printer
<1> DEFINE L == Len(stream)
           n == Len(s.data)
           len == Len(response)
           cap == RESPONSE_CAPACITY
<1>1. /\ s.data \in Seq(Units) /\ s.seq \in Nat
      /\ response \in Seq(Units) /\ len <= cap
      /\ remote_sequence \in Nat /\ stream \in Seq(Units)
      /\ L \in Nat /\ n \in Nat /\ len \in Nat /\ cap \in Nat
  BY DEF TransportInv, Typed
<1>2. /\ \A i \in 1..n : s.data[i] = stream[s.seq + i - 1]
      /\ ~response_collecting => response = <<>>
      /\ Answering => response_collecting
  BY DEF ResponseInv, SegmentsFaithful, FrameFaithful, CollectsInTime
<1>3. /\ remote_sequence' \in Nat /\ remote_sequence' >= remote_sequence
      /\ InOrder(s) =>
           /\ s.seq = remote_sequence /\ n >= 1 /\ remote_sequence + n <= L + 1
           /\ \/ remote_sequence' = remote_sequence + n
              \/ remote_sequence' = remote_sequence + n + 1
                   /\ remote_sequence + n = L + 1
      /\ ~InOrder(s) => \/ remote_sequence' = remote_sequence
                        \/ remote_sequence' = L + 2 /\ remote_sequence = L + 1
  BY HandleCounts
<1>4. SegmentsFaithful'
  BY DEF ResponseInv, SegmentsFaithful, FrameFaithful
<1>5. PICK k \in 0..L : StretchFrom(k) /\ (Answering => k = 0)
  BY DEF ResponseInv, ResponseStretch
<1>6. k \in Nat /\ k <= L
  BY <1>1, <1>5
<1>7. /\ k = 0 \/ k < remote_sequence
      /\ response = <<>> \/ k + len < remote_sequence
      /\ k + len <= L
      /\ \A i \in 1..len : response[i] = stream[k + i]
      /\ len = cap \/ k + len = L \/ k + len = remote_sequence - 1
  BY <1>5 DEF StretchFrom
<1>8. (response = <<>> <=> len = 0) /\ stream' = stream /\ (Answering' <=> Answering)
  BY <1>1 DEF Answering
<1>9. CASE InOrder(s) /\ response_collecting
  <2> DEFINE m == Min({n, Room})
             len2 == Len(response')
  <2>1. Room \in Nat /\ Room = cap - len
    BY <1>1 DEF Room
  <2> HIDE DEF L, n, len, cap
  <2>2. m \in Nat /\ m <= n /\ m <= Room /\ (m = n \/ m = Room)
    <3>0. n \in Int /\ Room \in Int
      BY <1>1, <2>1
    <3>1. m \in {n, Room} /\ m <= n /\ m <= Room
      BY <3>0, MinPair
    <3> HIDE DEF m
    <3> QED BY <1>1, <2>1, <3>1
  <2>3. response' = response \o SubSeq(s.data, 1, m)
    BY <1>9 DEF Handle, n
  <2> HIDE DEF m
  <2>4. m >= 1 => k + len = remote_sequence - 1
    BY <1>1, <1>3, <1>6, <1>7, <1>8, <1>9, <2>1, <2>2
  <2>5. /\ len2 = len + m
        /\ \A i \in 1..(len + m) : response'[i] = stream[k + i]
    <3>1. m <= Len(s.data)
      BY <2>2 DEF n
    <3>2. m >= 1 => k + Len(response) = s.seq - 1
      BY <1>3, <1>9, <2>4 DEF len
    <3> DEFINE p == s.seq - 1
    <3>3. p \in Nat
      BY <1>1, <1>3, <1>9
    <3>4. Follows(response, stream, k)
      BY <1>7 DEF Follows, len
    <3>5. Follows(s.data, stream, p)
      BY <1>1, <1>2 DEF Follows, n
    <3>6. m >= 1 => k + Len(response) = p
      BY <3>2
    <3> HIDE DEF p
    <3>7. /\ Len(response \o SubSeq(s.data, 1, m)) = Len(response) + m
          /\ Follows(response \o SubSeq(s.data, 1, m), stream, k)
      <4>1. stream \in Seq(Units) /\ response \in Seq(Units) /\ s.data \in Seq(Units)
            /\ k \in Nat /\ m \in Nat
        BY <1>1, <1>6, <2>2
      <4> QED BY ONLY <4>1, <3>1, <3>3, <3>4, <3>5, <3>6, StretchGrows
    <3> QED BY <2>3, <3>7 DEF len, Follows
  <2>6. len2 = 0 => response' = <<>>
    <3>1. response' \in Seq(Units)
      BY HandleKeeps
    <3> QED BY <3>1
  <2> HIDE DEF len2
  <2>7. len2 \in Nat
    BY <1>1, <2>2, <2>5
  <2>8. /\ k = 0 \/ k < remote_sequence'
        /\ len2 = 0 \/ k + len2 < remote_sequence'
        /\ k + len2 <= L
        /\ len2 = cap \/ k + len2 = L \/ k + len2 = remote_sequence' - 1
    <3>1. m <= cap - len /\ (m = n \/ m = cap - len) /\ (len = 0 \/ k + len < remote_sequence)
      BY <1>7, <1>8, <2>1, <2>2
    <3>2. /\ n >= 1 /\ remote_sequence + n <= L + 1
          /\ \/ remote_sequence' = remote_sequence + n
             \/ remote_sequence' = remote_sequence + n + 1 /\ remote_sequence + n = L + 1
      BY <1>3, <1>9
    <3> DEFINE next == remote_sequence'
               rs == remote_sequence
    <3>3. /\ k \in Nat /\ len \in Nat /\ len2 \in Nat /\ L \in Nat
          /\ cap \in Nat /\ rs \in Nat /\ next \in Nat /\ n \in Nat
          /\ m \in Nat /\ len <= cap /\ rs >= 1 /\ k <= L /\ k + len <= L
          /\ (k = 0 \/ k < rs) /\ m <= n /\ len2 = len + m
          /\ (len = cap \/ k + len = L \/ k + len = rs - 1)
      BY <1>1, <1>3, <1>6, <1>7, <2>2, <2>5, <2>7
    <3>4. next = rs + n \/ (next = rs + n + 1 /\ rs + n = L + 1)
      BY <3>2
    <3> HIDE DEF next, rs
    <3>5. /\ k = 0 \/ k < next
          /\ len2 = 0 \/ k + len2 < next
          /\ k + len2 <= L
          /\ len2 = cap \/ k + len2 = L \/ k + len2 = next - 1
      BY ONLY <3>1, <3>2, <3>3, <3>4, StretchCounts DEF rs
    <3> QED BY <3>5 DEF next
  <2>9. StretchFrom(k)'
    <3>1. \A i \in 1..len2 : response'[i] = stream[k + i]
      BY <2>5
    <3> QED BY <1>5, <1>8, <2>6, <2>8, <3>1 DEF StretchFrom, L, len2, cap
  <2>10. ResponseStretch'
    BY <1>5, <1>8, <2>9 DEF ResponseStretch, L
  <2> QED BY <2>10, <1>4, <1>9
<1>10. CASE InOrder(s) /\ ~response_collecting
  <2>1. response' = <<>> /\ response = <<>> /\ ~Answering'
    BY <1>2, <1>8, <1>10 DEF Handle
  <2>2. Len(response') = 0
    BY <2>1
  <2> HIDE DEF L, n, len, cap
  <2>3. PICK j \in 0..L : j < remote_sequence' /\ (j = L \/ j = remote_sequence' - 1)
    <3> DEFINE e == remote_sequence + n - 1
    <3>0. /\ n >= 1 /\ remote_sequence + n <= L + 1
          /\ \/ remote_sequence' = remote_sequence + n
             \/ remote_sequence' = remote_sequence + n + 1 /\ remote_sequence + n = L + 1
      BY <1>3, <1>10
    <3>1. remote_sequence \in Nat /\ n \in Nat /\ L \in Nat /\ remote_sequence' \in Nat
      BY <1>1, <1>3
    <3> DEFINE next == remote_sequence'
               rs == remote_sequence
    <3>2. rs \in Nat /\ rs >= 1 /\ next \in Nat /\ n >= 1 /\ rs + n <= L + 1
          /\ (next = rs + n \/ (next = rs + n + 1 /\ rs + n = L + 1))
          /\ e = rs + n - 1
      BY <3>0, <3>1
    <3> HIDE DEF e, rs, next
    <3>3. e \in 0..L /\ e < next /\ (e = L \/ e = next - 1)
      BY ONLY <3>1, <3>2
    <3> QED BY <3>3 DEF next
  <2>4. StretchFrom(j)'
    <3>1. j \in 0..Len(stream)' /\ j + 0 = j /\ j + Len(response') = j
      BY <1>8, <2>2, <1>1 DEF L
    <3>2. \A i \in 1..Len(response') : response'[i] = stream'[j + i]
      BY <2>2
    <3>3. j <= Len(stream')
      BY <1>1, <1>8 DEF L
    <3> QED BY <1>8, <2>1, <2>3, <3>1, <3>2, <3>3 DEF StretchFrom, L
  <2>5. ResponseStretch'
    BY <1>8, <2>1, <2>4 DEF ResponseStretch, L
  <2> QED BY <2>1, <2>5, <1>4, <1>10
<1>11. CASE ~InOrder(s)
  <2>1. response' = response
    BY <1>11 DEF Handle
  <2> HIDE DEF L, n, len, cap
  <2>2. /\ k = 0 \/ k < remote_sequence'
        /\ response = <<>> \/ k + len < remote_sequence'
        /\ len = cap \/ k + len = L \/ k + len = remote_sequence' - 1
    <3> DEFINE next == remote_sequence'
    <3>1. /\ next = remote_sequence \/ (next = L + 2 /\ remote_sequence = L + 1)
          /\ next \in Nat
      BY <1>3, <1>11
    <3>2. len \in Nat /\ L \in Nat /\ remote_sequence \in Nat
      BY <1>1
    <3> HIDE DEF next
    <3>3. k = 0 \/ k < next
      BY <1>6, <1>7, <3>1, <3>2
    <3>4. response = <<>> \/ k + len < next
      BY <1>6, <1>7, <3>1, <3>2
    <3>5. len = cap \/ k + len = L \/ k + len = next - 1
      BY <1>6, <1>7, <3>1, <3>2
    <3> QED BY <3>3, <3>4, <3>5 DEF next
  <2>3. StretchFrom(k)'
    BY <1>5, <1>7, <1>8, <2>1, <2>2 DEF StretchFrom, L, len, cap
  <2>4. ResponseStretch'
    BY <1>5, <1>8, <2>3 DEF ResponseStretch, L
  <2> QED BY <1>2, <1>4, <2>1, <2>4
<1> QED BY <1>9, <1>10, <1>11

\* Steps of the client that take no segment.
LEMMA QuietStretch ==
  ASSUME TransportInv, ResponseInv,
         \/ Start \/ Transmit \/ TransmitFails \/ Expire \/ AnswerExpire
         \/ Tick \/ RingOverflow
  PROVE  ResponseInv'
<1>1. CASE Start
  <2>1. \/ stage = "idle" /\ stage' = "resolve"
        \/ stage' = "done"
    BY <1>1 DEF Start, Begin, Finish
  <2> QED BY <1>1, <2>1, StretchSame DEF Start, stack, printer
<1>2. CASE Transmit
  BY <1>2, StretchSame DEF Transmit, stack, printer
<1>3. CASE TransmitFails
  <2>1. stage' = stage \/ stage' = "done"
    BY <1>3, RetryKeeps DEF TransmitFails
  <2> QED BY <1>3, <2>1, StretchSame DEF TransmitFails, printer
<1>4. CASE Expire
  <2>1. stage' = stage \/ stage' = "done"
    BY <1>4, RetryKeeps DEF Expire
  <2> QED BY <1>4, <2>1, StretchSame DEF Expire, printer
<1>5. CASE AnswerExpire
  <2>1. stage' = "done"
    BY <1>5 DEF AnswerExpire, TimedOut, Finish
  <2> QED BY <1>5, <2>1, StretchSame DEF AnswerExpire, stack, printer
<1>6. CASE Tick \/ RingOverflow
  BY <1>6, StretchSame DEF Tick, RingOverflow, stack, printer
<1> QED BY <1>1, <1>2, <1>3, <1>4, <1>5, <1>6

\* The connection starts where it was: nothing has been received before it.
LEMMA ResolvedStretch ==
  ASSUME TransportInv, ResponseInv, Resolved
  PROVE  ResponseInv'
<1>1. stage = "resolve" /\ stage' = "connect"
  BY DEF Resolved, Begin
<1>2. local_sequence = 0
  BY <1>1 DEF TransportInv, Counted
<1>3. remote_sequence = 0 /\ remote_fin = FALSE
  <2>1. Len(stream) \in Nat
    BY DEF TransportInv, Typed
  <2> QED BY <1>1, <2>1 DEF ResponseInv, SequenceBounded
<1> QED BY <1>1, <1>2, <1>3, StretchSame DEF Resolved, printer

\* The SYN|ACK counts one, and nothing has been collected.
LEMMA ConnectStretch ==
  ASSUME TransportInv, ResponseInv, NEW s \in toClient, ConnectReceive(s)
  PROVE  ResponseInv'
<1> USE TransportAssumption
<1>0. stage = "connect" /\ UNCHANGED <<toClient, printer>>
  BY DEF ConnectReceive
<1>1. CASE s.rst /\ Finish("network") /\ UNCHANGED stack
  BY <1>0, <1>1, StretchSame DEF Finish, stack, printer
<1>2. CASE /\ WaitOrRetry(expired)
           /\ UNCHANGED <<local_sequence, remote_sequence, remote_fin,
                          response_collecting, response>>
  <2>1. stage' = stage \/ stage' = "done"
    BY <1>2, RetryKeeps DEF WaitOrRetry
  <2> QED BY <1>0, <1>2, <2>1, StretchSame DEF printer
<1>3. CASE Connected(s)
  <2>1. local_sequence = 0 /\ local_sequence' = 1 /\ remote_sequence = 0
    BY <1>0, <1>3 DEF Connected, TransportInv, Counted, ResponseInv, SequenceBounded
  <2>2. s.seq = 0 /\ remote_sequence' = 1 /\ stage' = "send"
    BY <1>3 DEF Connected, Begin, ResponseInv, SegmentsFaithful, FrameFaithful
  <2>3. /\ UNCHANGED <<remote_fin, response_collecting, response, stream, closed,
                       toClient>>
        /\ Answering' <=> Answering
    BY <1>0, <1>3 DEF Connected, printer, Answering
  <2>4. Len(stream) \in Nat
    BY DEF TransportInv, Typed
  <2>5. ~response_collecting /\ response = <<>> /\ ~Answering
    BY <2>1 DEF ResponseInv, CollectsInTime
  <2>6. CollectsInTime'
    BY <2>1, <2>3, <2>5 DEF CollectsInTime
  <2>7. SegmentsFaithful'
    BY <2>3 DEF ResponseInv, SegmentsFaithful, FrameFaithful
  <2>8. SequenceBounded'
    BY <2>1, <2>2, <2>3, <2>4 DEF ResponseInv, SequenceBounded
  <2>9. ResponseStretch'
    <3>1. Len(response) = 0
      BY <2>5
    <3>2. StretchFrom(0)'
      BY <2>2, <2>3, <2>4, <2>5, <3>1 DEF StretchFrom
    <3> QED BY <2>3, <2>4, <3>2 DEF ResponseStretch
  <2> QED BY <2>6, <2>7, <2>8, <2>9 DEF ResponseInv
<1> QED BY <1>1, <1>2, <1>3 DEF ConnectReceive

LEMMA SendStretch ==
  ASSUME TransportInv, ResponseInv, NEW s \in toClient, SendReceive(s)
  PROVE  ResponseInv'
<1> USE TransportAssumption
<1>1. /\ stage = "send" /\ Handle(s) /\ UNCHANGED <<toClient, printer>>
      /\ remote_sequence >= 1
  BY DEF SendReceive, ResponseInv, SequenceBounded
<1>2. /\ SegmentsFaithful' /\ ResponseStretch'
      /\ ~response_collecting => response' = <<>>
  BY <1>1, HandleStretch
<1>3. /\ remote_sequence' \in Nat /\ remote_sequence' >= remote_sequence
      /\ remote_fin' \in BOOLEAN
      /\ remote_fin' => closed /\ remote_sequence' = Len(stream) + 2
      /\ ~remote_fin' => remote_sequence' <= Len(stream) + 1
  BY <1>1, HandleCounts
<1>4. /\ chunk = local_sequence /\ local_sequence \in Nat /\ remote_sequence \in Nat
      /\ stream' = stream /\ closed' = closed /\ (Answering' <=> Answering)
  BY <1>1 DEF TransportInv, Typed, Counted, printer, Answering
<1>5. /\ response_collecting <=> local_sequence >= Chunks
      /\ Answering => response_collecting
      /\ closed => stream # <<>>
  BY DEF ResponseInv, CollectsInTime, SequenceBounded
<1>6. stage' \in {"send", "answer", "done"}
  BY <1>1, RetryKeeps
     DEF SendReceive, Finish, Begin, AnswerOrWait, WaitOrRetry
<1>7. SequenceBounded'
  BY <1>1, <1>3, <1>4, <1>5, <1>6 DEF SequenceBounded
<1>8. CollectsInTime'
  <2>1. CASE UNCHANGED <<local_sequence, response_collecting>>
    BY <1>2, <1>4, <1>5, <2>1 DEF CollectsInTime
  <2>2. CASE /\ chunk < Chunks
             /\ local_sequence' = local_sequence + 1
             /\ response_collecting' = CollectsFrom(chunk + 1)
    <3>1. ~response_collecting
      BY <1>4, <1>5, <2>2
    <3>2. response' = <<>> /\ ~Answering'
      BY <1>2, <1>4, <1>5, <3>1
    <3>3. response_collecting' <=> (chunk + 1 = Chunks)
      BY <2>2 DEF CollectsFrom
    <3>4. response_collecting' <=> local_sequence' >= Chunks
      BY <1>4, <2>2, <3>3
    <3> QED BY <3>2, <3>4 DEF CollectsInTime
  <2>3. CASE /\ chunk = Chunks
             /\ local_sequence' = local_sequence + 1
             /\ UNCHANGED response_collecting
    <3>1. response_collecting /\ response_collecting'
      BY <1>4, <1>5, <2>3
    <3>0. local_sequence' = Chunks + 1 /\ Chunks \in Nat
      BY <1>4, <2>3
    <3>2. local_sequence' >= Chunks
      BY <3>0
    <3> QED BY <3>1, <3>2 DEF CollectsInTime
  <2> QED BY <2>1, <2>2, <2>3 DEF SendReceive
<1> QED BY <1>2, <1>7, <1>8 DEF ResponseInv

LEMMA AnswerStretch ==
  ASSUME TransportInv, ResponseInv, NEW s \in toClient, AnswerReceive(s)
  PROVE  ResponseInv'
<1>1. /\ stage = "answer" /\ Handle(s) /\ UNCHANGED <<toClient, printer>>
      /\ UNCHANGED <<local_sequence, response_collecting>>
      /\ remote_sequence >= 1
  BY DEF AnswerReceive, ResponseInv, SequenceBounded
<1>2. /\ SegmentsFaithful' /\ ResponseStretch'
      /\ ~response_collecting => response' = <<>>
  BY <1>1, HandleStretch
<1>3. /\ remote_sequence' \in Nat /\ remote_sequence' >= remote_sequence
      /\ remote_fin' \in BOOLEAN
      /\ remote_fin' => closed /\ remote_sequence' = Len(stream) + 2
      /\ ~remote_fin' => remote_sequence' <= Len(stream) + 1
  BY <1>1, HandleCounts
<1>4. /\ remote_sequence \in Nat
      /\ stream' = stream /\ closed' = closed /\ (Answering' <=> Answering)
  BY <1>1 DEF TransportInv, Typed, printer, Answering
<1>5. /\ response_collecting <=> local_sequence >= Chunks
      /\ Answering => response_collecting
      /\ closed => stream # <<>>
  BY DEF ResponseInv, CollectsInTime, SequenceBounded
<1>6. stage' \in {"answer", "done"}
  BY <1>1 DEF AnswerReceive, TimedOut, Finish
<1>7. SequenceBounded'
  BY <1>1, <1>3, <1>4, <1>5, <1>6 DEF SequenceBounded
<1>8. CollectsInTime'
  BY <1>1, <1>2, <1>4, <1>5 DEF CollectsInTime
<1> QED BY <1>2, <1>7, <1>8 DEF ResponseInv

\* The printer adds a faithful frame, and changes neither its reply nor more.
LEMMA FrameStretch ==
  ASSUME ResponseInv, NEW f, FrameFaithful(f), toClient' = toClient \cup {f},
         UNCHANGED <<client, stream, closed>>
  PROVE  ResponseInv'
<1>1. CollectsInTime' /\ SequenceBounded'
  BY DEF ResponseInv, CollectsInTime, SequenceBounded, Answering, client
<1>2. SegmentsFaithful'
  <2>1. ASSUME NEW g \in toClient' PROVE FrameFaithful(g)
    BY <2>1 DEF ResponseInv, SegmentsFaithful
  <2> QED BY <2>1 DEF SegmentsFaithful, FrameFaithful
<1>3. ResponseStretch'
  BY DEF ResponseInv, ResponseStretch, StretchFrom, Answering, client
<1> QED BY <1>1, <1>2, <1>3 DEF ResponseInv

LEMMA PrinterFramesStretch ==
  ASSUME TransportInv, ResponseInv,
         PrinterConnects \/ PrinterResets \/ PrinterSends
  PROVE  ResponseInv'
<1>1. FrameFaithful(SynAck) /\ FrameFaithful(Rst)
  BY DEF FrameFaithful, SynAck, Rst
<1>2. CASE PrinterConnects
  BY <1>1, <1>2, FrameStretch DEF PrinterConnects
<1>3. CASE PrinterResets
  BY <1>1, <1>3, FrameStretch DEF PrinterResets
<1>4. CASE PrinterSends
  <2>1. PICK from \in 1..(Len(stream) + 1), to \in 0..Len(stream), fin \in BOOLEAN :
          /\ to >= from - 1
          /\ fin => closed /\ to = Len(stream)
          /\ toClient' = toClient \cup {Segment(from, to, fin)}
    BY <1>4 DEF PrinterSends
  <2> DEFINE d == SubSeq(stream, from, to)
             f == Segment(from, to, fin)
  <2>2. stream \in Seq(Units) /\ Len(stream) \in Nat
    BY DEF TransportInv, Typed
  <2>3. from \in Nat /\ to \in Nat /\ from >= 1 /\ to <= Len(stream)
    BY <2>2
  <2>4. /\ Len(d) = to - from + 1
        /\ \A i \in 1..Len(d) : d[i] = stream[from + i - 1]
    <3>1. \A i \in from..to : stream[i] \in Units
      BY <2>2, <2>3
    <3>2. /\ Len(d) = IF from <= to THEN to - from + 1 ELSE 0
          /\ \A i \in 1..(to - from + 1) : d[i] = stream[from + i - 1]
      BY <2>3, <3>1, SubSeqProperties
    <3> HIDE DEF d
    <3> QED BY <2>1, <2>3, <3>2
  <2>5. /\ ~f.syn /\ ~f.rst /\ f.seq = from /\ f.data = d /\ (f.fin <=> fin)
    BY DEF Segment
  <2> HIDE DEF d, f
  <2>6. from >= 1 /\ from + Len(d) = to + 1
    BY <2>3, <2>4
  <2>7. FrameFaithful(f)
    BY <2>1, <2>2, <2>3, <2>4, <2>5, <2>6 DEF FrameFaithful
  <2> QED BY <1>4, <2>1, <2>7, FrameStretch DEF PrinterSends, printer, f
<1> QED BY <1>2, <1>3, <1>4

\* The printer has said nothing before, and a whole request is there only when
\* the client collects.
LEMMA PrinterDecidesStretch ==
  ASSUME TransportInv, ResponseInv, PrinterAnswers \/ PrinterRefuses
  PROVE  ResponseInv'
<1> USE TransportAssumption
<1>1. /\ UNCHANGED <<client, toClient, received, closed>> /\ stream = <<>>
  BY DEF PrinterAnswers, PrinterRefuses
<1>2. /\ Len(stream) = 0 /\ remote_sequence \in Nat /\ Len(response) \in Nat
      /\ response \in Seq(Units)
      /\ \A s \in toClient : s.seq \in Nat /\ Len(s.data) \in Nat /\ s.data \in Seq(Units)
  BY <1>1 DEF TransportInv, Typed
<1>3. stream' \in Seq(Units) /\ stream' # <<>>
  <2>1. CASE PrinterAnswers
    <3>1. PICK v \in {"accepted", "refused"}, h \in 0..HeaderUnits :
            stream' = Answer(v, h)
      BY <2>1 DEF PrinterAnswers
    <3>2. h \in Nat
      OBVIOUS
    <3> QED BY <3>1, <3>2, AnswerSays
  <2>2. CASE PrinterRefuses
    BY <2>2, EarlyReplySays DEF PrinterRefuses
  <2> QED BY <2>1, <2>2
<1>4. Len(stream') \in Nat
  BY <1>3
<1>5. Answering' => response_collecting
  <2>1. CASE PrinterAnswers
    <3>1. Len(received) = Chunks
      BY <2>1, WholeWhenTerminated DEF PrinterAnswers
    <3>2. local_sequence >= Chunks
      BY <3>1 DEF TransportInv, AcksTrue, Typed
    <3> QED BY <3>2 DEF ResponseInv, CollectsInTime
  <2>2. CASE PrinterRefuses
    BY <2>2 DEF PrinterRefuses, EarlyReply, Answering
  <2> QED BY <2>1, <2>2
<1>6. ~closed /\ ~remote_fin /\ remote_sequence <= 1
  BY <1>1, <1>2 DEF ResponseInv, SequenceBounded
<1>7. response = <<>> /\ Len(response) = 0
  <2>1. PICK k \in 0..Len(stream) : StretchFrom(k)
    BY DEF ResponseInv, ResponseStretch
  <2>2. k = 0 /\ k + Len(response) <= 0
    BY <1>2, <2>1 DEF StretchFrom
  <2>3. Len(response) = 0
    BY <1>2, <2>2
  <2> QED BY <1>2, <2>3
<1>8. CollectsInTime'
  BY <1>1, <1>5 DEF ResponseInv, CollectsInTime, client
<1>9. SegmentsFaithful'
  <2> SUFFICES ASSUME NEW s \in toClient PROVE FrameFaithful(s)'
    BY <1>1 DEF SegmentsFaithful
  <2>1. FrameFaithful(s) /\ ~s.fin
    BY <1>6 DEF ResponseInv, SegmentsFaithful, FrameFaithful
  <2>2. Len(s.data) = 0
    <3>1. CASE s.syn \/ s.rst
      BY <2>1, <3>1 DEF FrameFaithful
    <3>2. CASE ~s.syn /\ ~s.rst
      BY <1>2, <2>1, <3>2 DEF FrameFaithful
    <3> QED BY <3>1, <3>2
  <2>3. ~s.syn /\ ~s.rst => s.seq >= 1 /\ s.seq + 0 <= Len(stream') + 1
    BY <1>2, <1>4, <2>1, <2>2 DEF FrameFaithful
  <2> QED BY <2>1, <2>2, <2>3 DEF FrameFaithful
<1>10. SequenceBounded'
  BY <1>1, <1>2, <1>3, <1>4, <1>6 DEF ResponseInv, SequenceBounded, client
<1>11. ResponseStretch'
  <2>1. StretchFrom(0)'
    BY <1>1, <1>2, <1>4, <1>6, <1>7 DEF StretchFrom, client
  <2> QED BY <1>4, <2>1 DEF ResponseStretch
<1> QED BY <1>8, <1>9, <1>10, <1>11 DEF ResponseInv

LEMMA PrinterClosesStretch ==
  ASSUME TransportInv, ResponseInv, PrinterCloses
  PROVE  ResponseInv'
<1>1. /\ UNCHANGED <<client, toClient, stream>>
      /\ closed' = TRUE /\ stream # <<>>
  BY DEF PrinterCloses
<1>2. CollectsInTime' /\ SequenceBounded'
  BY <1>1 DEF ResponseInv, CollectsInTime, SequenceBounded, Answering, client
<1>3. SegmentsFaithful'
  BY <1>1 DEF ResponseInv, SegmentsFaithful, FrameFaithful
<1>4. ResponseStretch'
  BY <1>1 DEF ResponseInv, ResponseStretch, StretchFrom, Answering, client
<1> QED BY <1>2, <1>3, <1>4 DEF ResponseInv

LEMMA PrinterTakesStretch ==
  ASSUME ResponseInv, PrinterTakes
  PROVE  ResponseInv'
BY StretchSame DEF PrinterTakes, client

LEMMA NextResponseInv ==
  TransportInv /\ ResponseInv /\ [Next]_vars => ResponseInv'
<1> SUFFICES ASSUME TransportInv, ResponseInv, [Next]_vars PROVE ResponseInv'
  OBVIOUS
<1>1. CASE ClientStep
  BY <1>1, QuietStretch, ResolvedStretch, ConnectStretch, SendStretch,
     AnswerStretch
     DEF ClientStep
<1>2. CASE Tick \/ RingOverflow
  BY <1>2, QuietStretch
<1>3. CASE PrinterStep
  BY <1>3, PrinterFramesStretch, PrinterTakesStretch, PrinterDecidesStretch,
     PrinterClosesStretch
     DEF PrinterStep
<1>4. CASE UNCHANGED vars
  BY <1>4, StretchSame DEF vars, client, printer
<1> QED BY <1>1, <1>2, <1>3, <1>4 DEF Next

LEMMA MinTriple ==
  ASSUME NEW a \in Int, NEW b \in Int, NEW c \in Int
  PROVE  /\ Min({a, b, c}) \in Int
         /\ Min({a, b, c}) <= a /\ Min({a, b, c}) <= b /\ Min({a, b, c}) <= c
         /\ Min({a, b, c}) \in {a, b, c}
<1>1. \E x \in {a, b, c} : \A y \in {a, b, c} : x <= y
  <2>1. CASE a <= b /\ a <= c
    BY <2>1
  <2>2. CASE b <= a /\ b <= c
    BY <2>2
  <2>3. CASE c <= a /\ c <= b
    BY <2>3
  <2> QED BY <2>1, <2>2, <2>3
<1>2. Min({a, b, c}) \in {a, b, c} /\ \A y \in {a, b, c} : Min({a, b, c}) <= y
  BY <1>1 DEF Min
<1> QED BY <1>2

\* The stretch has an end: the acknowledged unit, the end of the reply, or the
\* capacity of the buffer, whichever comes first.
LEMMA StretchIsSubSeq ==
  ASSUME TransportInv, NEW k \in 0..Len(stream), StretchFrom(k)
  PROVE  response =
           SubSeq(stream, k + 1,
             Min({k + RESPONSE_CAPACITY, Len(stream), remote_sequence - 1}))
<1> DEFINE L == Len(stream)
           len == Len(response)
           cap == RESPONSE_CAPACITY
           rs == remote_sequence
           M == Min({k + cap, L, rs - 1})
           q == SubSeq(stream, k + 1, M)
<1>1. /\ stream \in Seq(Units) /\ response \in Seq(Units)
      /\ L \in Nat /\ len \in Nat /\ cap \in Nat /\ cap >= 1 /\ rs \in Nat
      /\ len <= cap /\ k \in Nat /\ k <= L
  BY TransportAssumption DEF TransportInv, Typed
<1>2. /\ k = 0 \/ k < rs
      /\ len = 0 \/ k + len < rs
      /\ k + len <= L
      /\ Follows(response, stream, k)
      /\ len = cap \/ k + len = L \/ k + len = rs - 1 \/ rs = 0
  BY DEF StretchFrom, Follows
<1>3. /\ M \in Int /\ M <= k + cap /\ M <= L /\ M <= rs - 1
      /\ M = k + cap \/ M = L \/ M = rs - 1
  <2>1. k + cap \in Int /\ L \in Int /\ rs - 1 \in Int
    BY <1>1
  <2> HIDE DEF L, cap, rs
  <2>2. M \in {k + cap, L, rs - 1} /\ M \in Int
        /\ M <= k + cap /\ M <= L /\ M <= rs - 1
    BY <2>1, MinTriple
  <2> HIDE DEF M
  <2> QED BY <2>2
<1> HIDE DEF M, L, len, cap, rs
<1>4. IF len = 0 THEN M <= k ELSE M = k + len
  <2>1. CASE len = 0
    BY <1>1, <1>2, <1>3, <2>1
  <2>2. CASE len # 0
    <3>1. len >= 1 /\ k + len < rs
      BY <1>1, <1>2, <2>2
    <3> QED BY <1>1, <1>2, <1>3, <3>1
  <2> QED BY <2>1, <2>2
<1>5. /\ q \in Seq(Units)
      /\ Len(q) = IF k + 1 <= M THEN M - (k + 1) + 1 ELSE 0
      /\ \A i \in 1..(M - (k + 1) + 1) : q[i] = stream[k + 1 + i - 1]
  <2>1. \A i \in (k + 1)..M : stream[i] \in Units
    BY <1>1, <1>3 DEF L
  <2>2. k + 1 \in Int /\ M \in Int
    BY <1>1, <1>3
  <2> QED BY <2>1, <2>2, SubSeqProperties
<1> HIDE DEF q
<1>6. Len(q) = len
  BY <1>1, <1>3, <1>4, <1>5
<1>7. ASSUME NEW i \in 1..len PROVE response[i] = q[i]
  <2>1. i \in 1..(M - (k + 1) + 1) /\ k + 1 + i - 1 = k + i
    BY <1>1, <1>4
  <2>2. q[i] = stream[k + i]
    BY <1>5, <2>1
  <2>3. response[i] = stream[k + i]
    BY <1>2 DEF Follows, len
  <2> QED BY <2>2, <2>3
<1>8. response = q
  BY <1>1, <1>5, <1>6, <1>7, SeqEqual DEF len
<1> QED BY <1>8 DEF q, M, L, cap, rs

\* read_response collects one unbroken stretch of what the printer sent, up to
\* the acknowledged unit or the capacity of the buffer, and the answer to a
\* complete request from its first unit.
THEOREM ResponseFaithfulAlways == Spec => []ResponseFaithful
<1>1. TransportInv /\ ResponseInv => ResponseFaithful
  <2> SUFFICES ASSUME TransportInv, ResponseInv PROVE ResponseFaithful
    OBVIOUS
  <2>1. PICK k \in 0..Len(stream) : StretchFrom(k) /\ (Answering => k = 0)
    BY DEF ResponseInv, ResponseStretch
  <2> QED BY <2>1, StretchIsSubSeq DEF ResponseFaithful, Answering
<1>2. Init => ResponseInv
  BY InitResponseInv
<1> QED BY <1>1, <1>2, TransportInvariance, NextResponseInv, PTL DEF Spec

\* What the response says, it has said before or is said by data taken now.
LEMMA HandleSays ==
  ASSUME TransportInv, NEW s \in toClient, Handle(s), Says(response')
  PROVE  Says(response) \/ (InOrder(s) /\ response_collecting /\ Says(s.data))
<1> USE TransportAssumption
<1>1. s.data \in Seq(Units) /\ response \in Seq(Units)
      /\ Len(response) <= RESPONSE_CAPACITY
  BY DEF TransportInv, Typed
<1>2. CASE InOrder(s) /\ response_collecting
  <2> DEFINE n == Min({Len(s.data), Room})
             part == SubSeq(s.data, 1, n)
  <2>1. Room \in Int /\ Len(s.data) \in Int
    BY <1>1 DEF Room
  <2>2. n \in Int /\ n <= Len(s.data)
    BY <2>1, MinPair
  <2>3. response' = response \o part
    BY <1>2 DEF Handle
  <2> HIDE DEF n
  <2>4. part \in Seq(Units) /\ (Says(part) => Says(s.data))
    BY <1>1, <2>2, SubSeqSays
  <2> HIDE DEF part
  <2>5. Says(response \o part)
    BY <2>3
  <2>6. Says(response) \/ Says(part)
    BY <1>1, <2>4, <2>5, ConcatSays
  <2> QED BY <1>2, <2>4, <2>6
<1>3. CASE ~(InOrder(s) /\ response_collecting)
  BY <1>3 DEF Handle
<1> QED BY <1>2, <1>3

\* The reply is the printer's, and the client changes nothing of the frames.
LEMMA AcceptingFramesAcknowledge ==
  ASSUME TransportInv, AnswerInv, Next
  PROVE  \A s \in toClient' : Says(s.data) => s.ack = Chunks + 1
<1>1. \A s \in toClient : Says(s.data) => s.ack = Chunks + 1
  BY DEF AnswerInv
<1>2. ~Says(SynAck.data) /\ ~Says(Rst.data)
  BY DEF Says, SynAck, Rst
<1>3. CASE ClientStep \/ Tick \/ RingOverflow
  <2>1. toClient' = toClient
    BY <1>3 DEF ClientStep, Start, Transmit, TransmitFails, Expire, Resolved,
       AnswerExpire, ConnectReceive, SendReceive, AnswerReceive, Tick,
       RingOverflow
  <2> QED BY <1>1, <2>1
<1>4. CASE PrinterConnects \/ PrinterResets
  BY <1>1, <1>2, <1>4 DEF PrinterConnects, PrinterResets
<1>5. CASE PrinterTakes \/ PrinterAnswers \/ PrinterRefuses \/ PrinterCloses
  BY <1>1, <1>5 DEF PrinterTakes, PrinterAnswers, PrinterRefuses, PrinterCloses
<1>6. CASE PrinterSends
  <2>1. PICK from \in 1..(Len(stream) + 1), to \in 0..Len(stream), fin \in BOOLEAN :
          toClient' = toClient \cup {Segment(from, to, fin)}
    BY <1>6 DEF PrinterSends
  <2> DEFINE f == Segment(from, to, fin)
  <2>2. f.data = SubSeq(stream, from, to) /\ f.ack = Len(received) + 1
    BY DEF Segment
  <2>3. stream \in Seq(Units) /\ from \in Int /\ to \in Int /\ 1 <= from /\ to <= Len(stream)
    BY DEF TransportInv, Typed
  <2>4. Says(f.data) => Says(stream)
    BY <2>2, <2>3, SubSeqSays
  <2>5. Says(stream) => Len(received) = Chunks
    BY DEF TransportInv, AnswersTrue
  <2> HIDE DEF f
  <2>6. Says(f.data) => f.ack = Chunks + 1
    BY <2>2, <2>4, <2>5
  <2> QED BY <1>1, <2>1, <2>6 DEF f
<1> QED BY <1>3, <1>4, <1>5, <1>6 DEF Next, PrinterStep

LEMMA HeldInQuietSteps ==
  ASSUME TransportInv, AnswerHeld, UNCHANGED response,
         \/ UNCHANGED <<stage, result>> /\ (stage = "done" => ~sending')
         \/ stage # "done" /\ stage' = "done" /\ ~sending'
         \/ stage \notin {"answer", "done"} /\ stage' \notin {"answer", "done"}
  PROVE  AnswerHeld'
<1>1. Says(response') <=> Says(response)
  BY DEF Says
<1>2. Parse(response') = Parse(response)
  OBVIOUS
<1>3. stage # "done" => Parse(response) # "accepted"
  <2>1. response \in Seq(Units)
    BY DEF TransportInv, Typed
  <2>2. Parse(response) = "accepted" => Says(response)
    BY <2>1, ParseSays
  <2> QED BY <2>2 DEF AnswerHeld
<1> QED BY <1>1, <1>2, <1>3 DEF AnswerHeld

LEMMA HeldByRetry ==
  ASSUME TransportInv, AnswerHeld, Retry, stage # "done", UNCHANGED response
  PROVE  AnswerHeld'
<1>1. \/ UNCHANGED <<stage, result>>
      \/ stage' = "done" /\ ~sending'
  BY DEF Retry, Finish
<1> QED BY <1>1, HeldInQuietSteps

LEMMA HeldByClient ==
  ASSUME TransportInv, AnswerHeld,
         \/ Start \/ Transmit \/ TransmitFails \/ Expire \/ Resolved
         \/ AnswerExpire \/ Tick \/ RingOverflow
  PROVE  AnswerHeld'
<1>1. CASE Start
  <2>1. \/ stage = "idle" /\ stage' = "resolve"
        \/ stage = "idle" /\ stage' = "done" /\ ~sending'
    BY <1>1 DEF Start, Begin, Finish
  <2> QED BY <1>1, <2>1, HeldInQuietSteps DEF Start, stack
<1>2. CASE Transmit
  BY <1>2, HeldInQuietSteps DEF Transmit, stack
<1>3. CASE TransmitFails
  BY <1>3, HeldByRetry DEF TransmitFails, AnswerHeld
<1>4. CASE Expire
  BY <1>4, HeldByRetry DEF Expire
<1>5. CASE Resolved
  BY <1>5, HeldInQuietSteps DEF Resolved, Begin
<1>6. CASE AnswerExpire
  <2>1. stage = "answer" /\ stage' = "done" /\ ~sending'
    BY <1>6 DEF AnswerExpire, TimedOut, Finish
  <2> QED BY <1>6, <2>1, HeldInQuietSteps DEF AnswerExpire, stack
<1>7. CASE Tick \/ RingOverflow
  BY <1>7, HeldInQuietSteps DEF Tick, RingOverflow, stack, Polling
<1> QED BY <1>1, <1>2, <1>3, <1>4, <1>5, <1>6, <1>7

LEMMA HeldByConnect ==
  ASSUME TransportInv, AnswerHeld, NEW s \in toClient, ConnectReceive(s)
  PROVE  AnswerHeld'
<1>0. stage = "connect" /\ UNCHANGED response
  BY DEF ConnectReceive, Connected, stack
<1>1. CASE Finish("network")
  BY <1>0, <1>1, HeldInQuietSteps DEF Finish
<1>2. CASE Connected(s)
  BY <1>0, <1>2, HeldInQuietSteps DEF Connected, Begin
<1>3. CASE WaitOrRetry(expired)
  <2>1. CASE Retry
    BY <1>0, <2>1, HeldByRetry
  <2>2. CASE UNCHANGED <<stage, result>>
    BY <1>0, <2>2, HeldInQuietSteps
  <2> QED BY <1>3, <2>1, <2>2 DEF WaitOrRetry
<1> QED BY <1>1, <1>2, <1>3 DEF ConnectReceive

\* An accepting entity is collected with the acknowledgement of the terminating
\* chunk at the latest, and that step looks at it.
LEMMA HeldBySend ==
  ASSUME TransportInv, ResponseInv, AnswerInv, AnswerHeld,
         NEW s \in toClient, SendReceive(s)
  PROVE  AnswerHeld'
<1> USE TransportAssumption
<1>1. stage = "send" /\ Handle(s) /\ ~Says(response)
  BY DEF SendReceive, AnswerHeld
<1>2. Says(response') => ~s.rst /\ Acknowledges(s) /\ chunk = Chunks
  <2> SUFFICES ASSUME Says(response')
               PROVE  ~s.rst /\ Acknowledges(s) /\ chunk = Chunks
    OBVIOUS
  <2>1. InOrder(s) /\ response_collecting /\ Says(s.data)
    BY <1>1, HandleSays
  <2>2. s.ack = Chunks + 1
    BY <2>1 DEF AnswerInv
  <2>3. ~s.rst
    BY <2>1 DEF ResponseInv, SegmentsFaithful, FrameFaithful, InOrder
  <2>4. chunk = local_sequence /\ chunk \in 1..Chunks
    BY <1>1 DEF TransportInv, Counted
  <2>5. local_sequence >= Chunks
    BY <2>1 DEF ResponseInv, CollectsInTime
  <2>6. chunk = Chunks
    BY <2>4, <2>5
  <2> QED BY <2>2, <2>3, <2>4, <2>6 DEF Acknowledges
<1>3. Says(response') \/ Parse(response') # "accepted"
  <2>1. response' \in Seq(Units)
    BY <1>1, HandleKeeps
  <2> QED BY <2>1, ParseSays
<1>4. CASE s.rst /\ Finish("network")
  BY <1>2, <1>3, <1>4 DEF AnswerHeld, Finish
<1>5. CASE chunk < Chunks /\ Begin("send")
  <2>1. chunk # Chunks
    BY <1>1, <1>5 DEF TransportInv, Typed
  <2> QED BY <1>2, <1>5, <2>1 DEF AnswerHeld, Begin
<1>6. CASE AnswerOrWait(response')
  BY <1>6 DEF AnswerOrWait, Finish, AnswerHeld
<1>7. CASE ~Acknowledges(s) /\ WaitOrRetry(Late(s))
  <2>1. \/ stage' = "send"
        \/ stage' = "done" /\ ~sending'
    BY <1>1, <1>7 DEF WaitOrRetry, Retry, Finish
  <2> QED BY <1>2, <1>3, <1>7, <2>1 DEF AnswerHeld
<1> QED BY <1>4, <1>5, <1>6, <1>7 DEF SendReceive

\* The wait ends with the segment that completes the answer; a reset carries
\* no data.
LEMMA HeldByAnswer ==
  ASSUME TransportInv, ResponseInv, AnswerHeld,
         NEW s \in toClient, AnswerReceive(s)
  PROVE  AnswerHeld'
<1>1. stage = "answer" /\ Handle(s) /\ Parse(response) = "incomplete"
  BY DEF AnswerReceive, AnswerHeld
<1>2. s.rst => response' = response
  <2>1. s.rst => ~InOrder(s)
    BY DEF ResponseInv, SegmentsFaithful, FrameFaithful, InOrder
  <2> QED BY <1>1, <2>1 DEF Handle
<1>3. CASE s.rst /\ Finish("rejected")
  <2>1. Parse(response') = "incomplete"
    BY <1>1, <1>2, <1>3
  <2> QED BY <1>3, <2>1 DEF AnswerHeld, Finish
<1>4. CASE Finish(Parse(response'))
  BY <1>4 DEF AnswerHeld, Finish
<1>5. CASE /\ Parse(response') = "incomplete"
           /\ \/ stage' = "done" /\ ~sending'
              \/ stage' = "answer"
  BY <1>5 DEF AnswerHeld
<1> QED BY <1>1, <1>3, <1>4, <1>5 DEF AnswerReceive, TimedOut, Finish

LEMMA NextAnswerInv ==
  TransportInv /\ ResponseInv /\ AnswerInv /\ [Next]_vars => AnswerInv'
<1> SUFFICES ASSUME TransportInv, ResponseInv, AnswerInv, [Next]_vars
             PROVE  AnswerInv'
  OBVIOUS
<1>1. AnswerHeld
  BY DEF AnswerInv
<1>2. CASE Next
  <2>1. \A s \in toClient' : Says(s.data) => s.ack = Chunks + 1
    BY <1>2, AcceptingFramesAcknowledge
  <2>2. AnswerHeld'
    <3>1. CASE ClientStep \/ Tick \/ RingOverflow
      BY <1>1, <3>1, HeldByClient, HeldByConnect, HeldBySend, HeldByAnswer
         DEF ClientStep
    <3>2. CASE PrinterStep
      <4>1. UNCHANGED client
        BY <3>2 DEF PrinterStep, PrinterConnects, PrinterTakes, PrinterAnswers,
           PrinterRefuses, PrinterCloses, PrinterSends, PrinterResets
      <4> QED BY <1>1, <4>1 DEF AnswerHeld, client, Says
    <3> QED BY <1>2, <3>1, <3>2 DEF Next
  <2> QED BY <2>1, <2>2 DEF AnswerInv, Says
<1>3. CASE UNCHANGED vars
  BY <1>3 DEF vars, client, AnswerInv, AnswerHeld, Says
<1> QED BY <1>2, <1>3

\* read_response: an accepted answer that has been collected is what the
\* command reports, whatever reset, close or timeout races it.
THEOREM CollectedAnswerReportedAlways == Spec => []CollectedAnswerReported
<1>1. AnswerInv => CollectedAnswerReported
  BY DEF AnswerInv, AnswerHeld, CollectedAnswerReported
<1>2. Init => ResponseInv /\ AnswerInv
  BY InitResponseInv
<1> QED BY <1>1, <1>2, TransportInvariance, NextResponseInv, NextAnswerInv, PTL
        DEF Spec

=============================================================================
