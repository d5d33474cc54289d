--------------------------- MODULE PrintTransport ---------------------------
(***************************************************************************)
(* One `print` command of the legacy kernel, as src/src/print.asm carries   *)
(* it out: ARP, a TCP connection to port 631, the IPP request and document  *)
(* as a stop-and-wait stream of segments, and the wait for the answer.  The *)
(* client is that file.  The network (which loses, duplicates and reorders) *)
(* and the printer (its TCP and its IPP server) are external.               *)
(*                                                                          *)
(* The request is Chunks segments: 1 the HTTP header, Chunks the            *)
(* terminating chunk, the others the 384-byte stream chunks.  A segment is  *)
(* resent with the boundaries it had, so it counts 1 in the sequence space. *)
(* The printer's reply is a sequence of units of 1, each at least the 13    *)
(* bytes of a status line.  A set of frames, none ever removed, is the      *)
(* network: a frame is lost when nobody takes it, and may be taken late or  *)
(* again.                                                                   *)
(***************************************************************************)
EXTENDS Integers, Sequences, FiniteSets, FiniteSetsExt, SequencesExt

CONSTANTS Chunks,            \* the segments of the request
          RETRY_LIMIT,       \* transmissions of one frame
          RESPONSE_CAPACITY, \* units that fit the response buffer
          HeaderUnits,       \* bound: units of HTTP headers in the printer's answer
          MaxSegments        \* bound: different reply segments in the network

ASSUME TransportAssumption ==
  /\ Chunks \in Nat /\ Chunks >= 3
  /\ RETRY_LIMIT \in Nat \ {0}
  /\ RESPONSE_CAPACITY \in Nat \ {0}
  /\ HeaderUnits \in Nat /\ MaxSegments \in Nat

VARIABLES
  stage,               \* where the command is
  sending,             \* about to transmit, as opposed to polling for a reply
  retry_count,
  expired,             \* the ticks since wait_start exceed the time allowed
  local_sequence,      \* 0 for the SYN, then the number of the next segment
  chunk,               \* the segment in the send buffer
  remote_sequence,     \* the next unit expected from the printer
  remote_fin, response_collecting, response,
  result,
  toPrinter, toClient, \* every frame ever sent, each way
  conn, received,      \* the printer's TCP: its state, what it has delivered
  stream, closed,      \* the reply the printer has to send; a FIN follows it
  verdict              \* what the printer did with the job

client == <<stage, sending, retry_count, expired, local_sequence, chunk,
            remote_sequence, remote_fin, response_collecting, response, result>>
stack == <<local_sequence, chunk, remote_sequence, remote_fin,
           response_collecting, response>>
printer == <<conn, received, stream, closed, verdict>>
vars == <<client, toPrinter, toClient, printer>>

-----------------------------------------------------------------------------
(* Replies and how the client reads them.                                   *)

Answer(v, h) ==
  <<"http200">> \o [i \in 1..h |-> "header"]
    \o <<IF v = "accepted" THEN "ippOk" ELSE "ippError">>
EarlyReply == <<"http413", "text">>

\* A parser content with a 200 status line.
Parse_StatusOnly(r) ==
  IF r = <<>> THEN "incomplete"
  ELSE IF r[1] # "http200" THEN "rejected"
  ELSE "accepted"

\* A 200 status line, the rest of the headers, then an IPP entity whose
\* status decides; anything else where the status line belongs is a rejection.
Parse(r) ==
  IF r = <<>> THEN "incomplete"
  ELSE IF r[1] # "http200" THEN "rejected"
  ELSE IF \A i \in 2..Len(r) : r[i] = "header" THEN "incomplete"
  ELSE IF \E i \in 2..Len(r) : r[i] = "ippOk" THEN "accepted"
  ELSE "rejected"

Syn == [syn |-> TRUE, fin |-> FALSE, seq |-> 0, ack |-> 0, chunk |-> 0]
Chunk == [syn |-> FALSE, fin |-> FALSE, seq |-> local_sequence,
          ack |-> remote_sequence, chunk |-> chunk]
Ack(seq, ack) ==
  [syn |-> FALSE, fin |-> FALSE, seq |-> seq, ack |-> ack, chunk |-> 0]
Fin(seq, ack) ==
  [syn |-> FALSE, fin |-> TRUE, seq |-> seq, ack |-> ack, chunk |-> 0]

SynAck ==
  [syn |-> TRUE, rst |-> FALSE, fin |-> FALSE, seq |-> 0, ack |-> 1,
   data |-> <<>>]
Rst ==
  [syn |-> FALSE, rst |-> TRUE, fin |-> FALSE, seq |-> 0, ack |-> 0,
   data |-> <<>>]
Segment(from, to, fin) ==
  [syn |-> FALSE, rst |-> FALSE, fin |-> fin, seq |-> from,
   ack |-> Len(received) + 1, data |-> SubSeq(stream, from, to)]

-----------------------------------------------------------------------------
Init ==
  /\ stage = "idle" /\ result = "none"
  /\ sending = FALSE /\ retry_count = RETRY_LIMIT /\ expired = FALSE
  /\ local_sequence = 0 /\ chunk = 0
  /\ remote_sequence = 0 /\ remote_fin = FALSE
  /\ response_collecting = FALSE /\ response = <<>>
  /\ toPrinter = {} /\ toClient = {}
  /\ conn = "listen" /\ received = <<>>
  /\ stream = <<>> /\ closed = FALSE /\ verdict = "none"

(* Attempts and the time allowed for each.                                  *)

\* Start transmitting the frame of stage s.
Begin(s) ==
  /\ stage' = s /\ sending' = TRUE /\ retry_count' = RETRY_LIMIT
  /\ UNCHANGED <<expired, result>>

\* Return to the shell.
Finish(r) ==
  /\ stage' = "done" /\ result' = r /\ sending' = FALSE
  /\ UNCHANGED <<expired, retry_count>>

\* A give-up nobody notices: the stream goes on with the next segment.
Retry_FailureUnnoticed ==
  IF retry_count > 1 \/ stage # "send" \/ chunk = Chunks
  THEN /\ retry_count' = retry_count - 1 /\ sending' = TRUE
       /\ UNCHANGED <<stage, result, expired, chunk>>
  ELSE /\ chunk' = chunk + 1 /\ retry_count' = RETRY_LIMIT /\ sending' = TRUE
       /\ UNCHANGED <<stage, result, expired>>

\* A count that is never taken down.
Retry_Forever ==
  /\ sending' = TRUE
  /\ UNCHANGED <<stage, result, expired, retry_count, chunk>>

\* The attempt is over: another one, or failure after the last.  A failed
\* segment sets io_failed, and the rest of the document is not sent.
Retry ==
  /\ UNCHANGED chunk
  /\ IF retry_count > 1
     THEN /\ retry_count' = retry_count - 1 /\ sending' = TRUE
          /\ UNCHANGED <<stage, result, expired>>
     ELSE Finish("network")

\* The wait goes on: for another attempt once the time is over.  A wait whose
\* clock a transmission of the client's own restarted is not `late`.
WaitOrRetry(late) ==
  IF late THEN Retry
  ELSE /\ expired' = FALSE
       /\ UNCHANGED <<stage, sending, retry_count, result, chunk>>

-----------------------------------------------------------------------------
(* Start, address resolution, transmission, the clock.                      *)

\* Invalid input ends the command; so does a network card that fails to reset.
Start ==
  /\ stage = "idle"
  /\ \/ Begin("resolve")
     \/ Finish("invalid")
     \/ Finish("network")
  /\ UNCHANGED <<stack, toPrinter, toClient, printer>>

\* The frame the stage transmits; the ARP request is not modelled as a frame.
Frames ==
  CASE stage = "connect" -> {Syn}
    [] stage = "send" -> {Chunk}
    [] OTHER -> {}

Transmit ==
  /\ sending
  /\ sending' = FALSE /\ expired' = FALSE
  /\ toPrinter' = toPrinter \cup Frames
  /\ UNCHANGED <<stage, retry_count, result, stack, toClient, printer>>

\* The card reports an error, or nothing in time: the frame may be out anyway.
TransmitFails ==
  /\ sending
  /\ Retry
  /\ toPrinter' \in {toPrinter, toPrinter \cup Frames}
  /\ UNCHANGED <<local_sequence, remote_sequence, remote_fin,
                 response_collecting, response, toClient, printer>>

Polling == ~sending /\ stage \in {"resolve", "connect", "send", "answer"}

Tick ==
  /\ Polling /\ ~expired
  /\ expired' = TRUE
  /\ UNCHANGED <<stage, sending, retry_count, result, stack, toPrinter,
                 toClient, printer>>

\* A full receive ring resets the card, and the card restarts the clock.
RingOverflow ==
  /\ Polling /\ expired
  /\ expired' = FALSE
  /\ UNCHANGED <<stage, sending, retry_count, result, stack, toPrinter,
                 toClient, printer>>

\* No usable frame, and the time is over.
Expire ==
  /\ ~sending /\ stage \in {"resolve", "connect", "send"} /\ expired
  /\ Retry
  /\ UNCHANGED <<local_sequence, remote_sequence, remote_fin,
                 response_collecting, response, toPrinter, toClient, printer>>

\* The ARP reply: the connection starts from a fresh state.
Resolved ==
  /\ stage = "resolve" /\ ~sending
  /\ Begin("connect")
  /\ local_sequence' = 0 /\ remote_sequence' = 0 /\ remote_fin' = FALSE
  /\ UNCHANGED <<chunk, response_collecting, response, toPrinter, toClient,
                 printer>>

-----------------------------------------------------------------------------
(* The connection.                                                          *)

\* An exact SYN|ACK makes the connection; the ACK for it is sent once.
Connected(s) ==
  /\ s.syn /\ s.ack = local_sequence + 1
  /\ Begin("send")
  /\ remote_sequence' = s.seq + 1 /\ local_sequence' = local_sequence + 1
  /\ chunk' = 1
  /\ toPrinter' = toPrinter \cup {Ack(local_sequence', remote_sequence')}
  /\ UNCHANGED <<remote_fin, response_collecting, response>>

ConnectReceive(s) ==
  /\ stage = "connect" /\ ~sending
  /\ \/ /\ s.rst
        /\ Finish("network")
        /\ UNCHANGED <<stack, toPrinter>>
     \/ ~s.rst /\ Connected(s)
     \/ /\ ~s.rst /\ ~(s.syn /\ s.ack = local_sequence + 1)
        /\ WaitOrRetry(expired)
        /\ UNCHANGED <<local_sequence, remote_sequence, remote_fin,
                       response_collecting, response, toPrinter>>
  /\ UNCHANGED <<toClient, printer>>

-----------------------------------------------------------------------------
(* What the client does with any segment on the connection.                 *)

\* A receiver that takes data from anywhere.
InOrder_Anywhere(s) == s.data # <<>>

InOrder(s) == s.data # <<>> /\ s.seq = remote_sequence

Stale(s) == s.data # <<>> /\ ~InOrder(s)

AfterData(s) ==
  IF InOrder(s) THEN remote_sequence + Len(s.data) ELSE remote_sequence

TakesFin(s) == s.fin /\ ~Stale(s) /\ s.seq + Len(s.data) = AfterData(s)

\* Data and FINs are acknowledged, in order or not; bare ACKs are not.
Replies(s) == s.data # <<>> \/ s.fin

\* The capacity as if the buffer were empty.
Room_Whole == RESPONSE_CAPACITY

Room == RESPONSE_CAPACITY - Len(response)

\* Data past the capacity of the buffer is acknowledged and dropped, and so is
\* data that comes before the terminating chunk is sent.
Handle(s) ==
  /\ remote_sequence' = AfterData(s) + (IF TakesFin(s) THEN 1 ELSE 0)
  /\ remote_fin' = (remote_fin \/ TakesFin(s))
  /\ response' =
       IF InOrder(s) /\ response_collecting
       THEN response \o SubSeq(s.data, 1, Min({Len(s.data), Room}))
       ELSE response

\* The acknowledgement goes out before anything else the segment causes.
Reply(s) == IF Replies(s) THEN {Ack(local_sequence, remote_sequence')} ELSE {}

\* An acknowledgement has restarted the clock of the wait.
Late(s) == expired /\ ~Replies(s)

-----------------------------------------------------------------------------
(* The request.                                                             *)

\* A client that collects nothing until the request is acknowledged.
CollectsFrom_TooLate(k) == k > Chunks

\* Collection starts with the transmission of the terminating chunk.
CollectsFrom(k) == k = Chunks

\* Any acknowledgement at all.
Acknowledges_Anything(s) == ~s.rst

Acknowledges(s) == ~s.rst /\ s.ack = local_sequence + 1

\* A wait that looks at the reply only when the next segment comes.
AnswerOrWait_Blind(r) ==
  /\ stage' = "answer" /\ sending' = FALSE /\ expired' = FALSE
  /\ UNCHANGED <<retry_count, result>>

\* The request is out.  The reply may be complete already: it can come with
\* the acknowledgement of the terminating chunk.
AnswerOrWait(r) ==
  IF Parse(r) = "incomplete"
  THEN /\ stage' = "answer" /\ sending' = FALSE /\ expired' = FALSE
       /\ UNCHANGED <<retry_count, result>>
  ELSE Finish(Parse(r))

\* tcp_close, on the one path that accepts the job.
Close == IF result' = "accepted" /\ ~remote_fin'
         THEN {Fin(local_sequence', remote_sequence')} ELSE {}

SendReceive(s) ==
  /\ stage = "send" /\ ~sending
  /\ Handle(s)
  /\ \/ /\ s.rst
        /\ Finish("network")
        /\ UNCHANGED <<local_sequence, chunk, response_collecting>>
        /\ toPrinter' = toPrinter \cup Reply(s)
     \/ /\ Acknowledges(s) /\ chunk < Chunks
        /\ Begin("send")
        /\ local_sequence' = local_sequence + 1 /\ chunk' = chunk + 1
        /\ response_collecting' = CollectsFrom(chunk + 1)
        /\ toPrinter' = toPrinter \cup Reply(s)
     \/ /\ Acknowledges(s) /\ chunk = Chunks
        /\ AnswerOrWait(response')
        /\ local_sequence' = local_sequence + 1
        /\ UNCHANGED <<chunk, response_collecting>>
        /\ toPrinter' = toPrinter \cup Reply(s) \cup Close
     \/ /\ ~s.rst /\ ~Acknowledges(s)
        /\ WaitOrRetry(Late(s))
        /\ UNCHANGED <<local_sequence, response_collecting>>
        /\ toPrinter' = toPrinter \cup Reply(s)
  /\ UNCHANGED <<toClient, printer>>

-----------------------------------------------------------------------------
(* The answer.                                                              *)

\* Nothing collected is a failure of the network, anything else of the printer.
TimedOut(r) == Finish(IF r = <<>> THEN "network" ELSE "rejected")

AnswerReceive(s) ==
  /\ stage = "answer"
  /\ Handle(s)
  /\ IF s.rst THEN Finish("rejected")
     ELSE IF Parse(response') # "incomplete" THEN Finish(Parse(response'))
     ELSE IF remote_fin' THEN Finish("rejected")
     ELSE IF Late(s) THEN TimedOut(response')
     ELSE /\ expired' = FALSE
          /\ UNCHANGED <<stage, sending, retry_count, result>>
  /\ UNCHANGED <<local_sequence, chunk, response_collecting>>
  /\ toPrinter' = toPrinter \cup Reply(s) \cup Close
  /\ UNCHANGED <<toClient, printer>>

AnswerExpire ==
  /\ stage = "answer" /\ expired
  /\ TimedOut(response)
  /\ UNCHANGED <<stack, toPrinter, toClient, printer>>

-----------------------------------------------------------------------------
(* The printer.                                                             *)

PrinterConnects ==
  /\ conn = "listen" /\ Syn \in toPrinter
  /\ \/ conn' = "open" /\ toClient' = toClient \cup {SynAck}
     \/ conn' = "reset" /\ toClient' = toClient \cup {Rst}
  /\ UNCHANGED <<client, toPrinter, received, stream, closed, verdict>>

\* The next segment in sequence is delivered, any other is not.
PrinterTakes ==
  /\ conn = "open"
  /\ \E m \in toPrinter :
       /\ m.chunk # 0 /\ m.seq = Len(received) + 1
       /\ received' = Append(received, m.chunk)
  /\ UNCHANGED <<client, toPrinter, toClient, conn, stream, closed, verdict>>

\* The job is decided when the terminating chunk is in.
PrinterAnswers ==
  /\ conn = "open" /\ stream = <<>>
  /\ received # <<>> /\ Last(received) = Chunks
  /\ \E v \in {"accepted", "refused"}, h \in 0..HeaderUnits :
       verdict' = v /\ stream' = Answer(v, h)
  /\ UNCHANGED <<client, toPrinter, toClient, conn, received, closed>>

\* Or refused before.
PrinterRefuses ==
  /\ conn = "open" /\ stream = <<>>
  /\ received # <<>> /\ Last(received) # Chunks
  /\ verdict' = "refused" /\ stream' = EarlyReply
  /\ UNCHANGED <<client, toPrinter, toClient, conn, received, closed>>

PrinterCloses ==
  /\ conn = "open" /\ stream # <<>> /\ ~closed
  /\ closed' = TRUE
  /\ UNCHANGED <<client, toPrinter, toClient, conn, received, stream, verdict>>

\* Any stretch of the reply, at any time and again, an acknowledgement alone
\* when it is empty; the FIN goes with the end of the reply.
PrinterSends ==
  /\ conn = "open"
  /\ \E from \in 1..(Len(stream) + 1), to \in 0..Len(stream), fin \in BOOLEAN :
       /\ to >= from - 1
       /\ fin => closed /\ to = Len(stream)
       /\ LET s == Segment(from, to, fin) IN
          /\ Replies(s) => Cardinality({d \in toClient : Replies(d)}) < MaxSegments
          /\ to = from - 1 /\ ~fin => from = 1
          /\ toClient' = toClient \cup {s}
  /\ UNCHANGED <<client, toPrinter, printer>>

PrinterResets ==
  /\ conn = "open"
  /\ conn' = "reset" /\ toClient' = toClient \cup {Rst}
  /\ UNCHANGED <<client, toPrinter, received, stream, closed, verdict>>

-----------------------------------------------------------------------------
ClientStep ==
  \/ Start \/ Transmit \/ TransmitFails \/ Expire \/ Resolved
  \/ AnswerExpire
  \/ \E s \in toClient :
       ConnectReceive(s) \/ SendReceive(s) \/ AnswerReceive(s)

PrinterStep ==
  \/ PrinterConnects \/ PrinterTakes \/ PrinterAnswers \/ PrinterRefuses
  \/ PrinterCloses \/ PrinterSends \/ PrinterResets

Next == ClientStep \/ Tick \/ RingOverflow \/ PrinterStep

Spec == Init /\ [][Next]_vars

\* The module polls without end, and the clock advances.
FairSpec ==
  /\ Spec
  /\ WF_vars(Start) /\ WF_vars(Transmit \/ TransmitFails)
  /\ WF_vars(Tick) /\ WF_vars(Expire) /\ WF_vars(AnswerExpire)

-----------------------------------------------------------------------------
(* Properties.                                                              *)

Results == {"none", "accepted", "network", "rejected", "invalid"}
Units == {"http200", "http413", "header", "text", "ippOk", "ippError"}

\* "Print job queued." is never said of a job the printer did not accept whole:
\* every segment of the request, once and in order, whatever was resent.
QueuedMeansPrinted ==
  result = "accepted" =>
    /\ verdict = "accepted"
    /\ received = [i \in 1..Chunks |-> i]

\* The printer's TCP delivers the request in order and without a gap, although
\* segments are resent from one buffer and give-ups are only noticed later.
RequestInOrder == \A i \in 1..Len(received) : received[i] = i

\* Stop-and-wait: the client goes to the next segment when the printer has the
\* one before it, so the printer is at most one segment ahead of the client.
InStep ==
  stage \in {"send", "answer"} =>
    Len(received) \in {local_sequence - 1, local_sequence}

\* The collected response is one unbroken stretch of what the printer sent,
\* up to the unit acknowledged or the capacity of the buffer, and the answer to
\* a complete request is collected from its first unit.
ResponseFaithful ==
  \E k \in 0..Len(stream) :
    /\ (stream # <<>> /\ stream[1] = "http200") => k = 0
    /\ response =
         SubSeq(stream, k + 1,
           Min({k + RESPONSE_CAPACITY, Len(stream), remote_sequence - 1}))

\* An accepted answer that has been collected is what the command reports: no
\* reset, close or timeout that races it turns it into a failure.
CollectedAnswerReported ==
  Parse(response) = "accepted" /\ stage \in {"answer", "done"} =>
    result = "accepted"

\* The inductive invariant behind QueuedMeansPrinted, RequestInOrder and InStep.

Typed ==
  /\ stage \in {"idle", "resolve", "connect", "send", "answer", "done"}
  /\ local_sequence \in Nat /\ chunk \in Nat /\ remote_sequence \in Nat
  /\ response \in Seq(Units) /\ Len(response) <= RESPONSE_CAPACITY
  /\ stream \in Seq(Units)
  /\ received \in Seq(Nat)
  /\ result \in Results /\ verdict \in {"none", "accepted", "refused"}
  /\ toPrinter \subseteq
       [syn : BOOLEAN, fin : BOOLEAN, seq : Nat, ack : Nat, chunk : Nat]
  /\ toClient \subseteq
       [syn : BOOLEAN, rst : BOOLEAN, fin : BOOLEAN, seq : Nat, ack : Nat,
        data : Seq(Units)]

\* The segment being sent is the one its sequence number counts.
Counted ==
  /\ stage \in {"idle", "resolve", "connect"} => local_sequence = 0
  /\ stage = "send" => chunk = local_sequence /\ chunk \in 1..Chunks
  /\ stage = "answer" => local_sequence = Chunks + 1

\* A frame with data carries the segment of its number, and none is ahead.
FramesCounted ==
  \A m \in toPrinter :
    m.chunk # 0 =>
      m.seq = m.chunk /\ m.chunk <= Chunks /\ m.chunk <= local_sequence

\* The printer has nothing the client has not sent, and acknowledges nothing
\* it does not have.
AcksTrue ==
  /\ Len(received) <= Chunks /\ Len(received) <= local_sequence
  /\ \A s \in toClient : ~s.rst => s.ack <= Len(received) + 1

\* An accepting entity, wherever it is, comes from a printer that has accepted.
Says(q) == \E i \in 1..Len(q) : q[i] = "ippOk"

AnswersTrue ==
  /\ Says(stream) \/ Says(response) \/ result = "accepted"
       => verdict = "accepted"
  /\ \A s \in toClient : Says(s.data) => verdict = "accepted"
  /\ verdict = "accepted" => Len(received) = Chunks
  /\ stream = <<>> => verdict = "none"

\* What every exchange with the printer preserves: the two ends agree on the
\* segments sent and delivered, and no end claims what the other has not done.
TransportInv ==
  Typed /\ Counted /\ FramesCounted /\ RequestInOrder /\ AcksTrue /\ InStep
    /\ AnswersTrue

\* What restarts the clock of a wait without using up an attempt: a segment
\* that is acknowledged, an overrun of the receive ring.
Restarts ==
  \/ RingOverflow
  \/ \E s \in toClient : Replies(s) /\ (SendReceive(s) \/ AnswerReceive(s))

\* The command returns, whatever is lost, provided that from some time on
\* nothing restarts its clocks: every wait ends, and the attempts are counted.
Terminates == <>[][~Restarts]_vars => <>(stage = "done")

\* src/src/print.asm:18-19 keeps 1 for a NIC, ARP, TCP or timeout failure and 2
\* ("Printer rejected job.") for a rejection or a malformed response.  The
\* printer's answers are well formed, so 2 must mean it did not take the job.
RejectedMeansNotTaken == result = "rejected" => verdict # "accepted"
=============================================================================
