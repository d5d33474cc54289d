-------------------------- MODULE BasicInputProofs --------------------------
(***************************************************************************)
(* Proofs about BasicInput, for every size of the key queue, watchdog,     *)
(* length of the day and longest WAIT.                                     *)
(***************************************************************************)
EXTENDS BasicInputProps, SequenceTheorems, TLAPS

(* `and bl, KEY_QUEUE_CAPACITY - 1' and midnight: one turn too far at most. *)
LEMMA ModOnce ==
  ASSUME NEW n \in Nat \ {0}, NEW x \in 0..2 * n - 1
  PROVE  x % n = IF x < n THEN x ELSE x - n
<1>1. CASE x < n
  BY <1>1
<1>2. CASE x >= n
  <2>1. x = n * 1 + (x - n)
    BY <1>2
  <2>. QED BY <1>2, <2>1
<1>. QED BY <1>1, <1>2

LEMMA ConstantsNat ==
  /\ Capacity \in Nat \ {0} /\ Reload \in Nat \ {0} /\ MaxWait \in Nat \ {0}
  /\ MaxSent \in Nat /\ Day \in Nat /\ MaxWait + 1 < Day
BY InputAssumption

LEMMA WrapInSlots ==
  ASSUME NEW i \in Slots
  PROVE  Wrap(i + 1) = IF i + 1 < Capacity THEN i + 1 ELSE 0
<1>1. i + 1 \in 0..2 * Capacity - 1 /\ i + 1 <= Capacity
  BY ConstantsNat DEF Slots
<1>2. (i + 1) % Capacity = IF i + 1 < Capacity THEN i + 1 ELSE (i + 1) - Capacity
  BY <1>1, ConstantsNat, ModOnce
<1>. QED BY <1>1, <1>2, ConstantsNat DEF Wrap, Slots

LEMMA NextTick ==
  ASSUME now \in 0..Day - 1
  PROVE  (now + 1) % Day = IF now + 1 < Day THEN now + 1 ELSE 0
<1>1. now + 1 \in 0..2 * Day - 1
  BY ConstantsNat
<1>2. (now + 1) % Day = IF now + 1 < Day THEN now + 1 ELSE (now + 1) - Day
  BY <1>1, ConstantsNat, ModOnce
<1>. QED BY <1>2, ConstantsNat

-----------------------------------------------------------------------------
(* Types. *)

LEMMA InitTypes == Init => InputTypeOK
BY ConstantsNat DEF Init, InputTypeOK, Slots

LEMMA RingTypes ==
  ASSUME InputTypeOK, Ready, read' = read + 1, sent' = sent, Enqueue
  PROVE  /\ queue' \in [Slots -> 0..MaxSent] /\ head' \in Slots
         /\ tail' \in Slots /\ count' \in 0..Capacity
<1>1. read + 1 \in 0..MaxSent
  BY ConstantsNat DEF InputTypeOK, Ready
<1>2. Wrap(tail + 1) \in Slots
  BY WrapInSlots, ConstantsNat DEF InputTypeOK, Slots
<1>. QED BY <1>1, <1>2, ConstantsNat DEF InputTypeOK, Enqueue, ring

LEMMA DequeueTypes ==
  ASSUME InputTypeOK, Dequeue
  PROVE  /\ queue' = queue /\ head' \in Slots /\ tail' = tail
         /\ count' \in 0..Capacity /\ given' \in 0..MaxSent /\ read' = read
<1>1. Wrap(head + 1) \in Slots
  BY WrapInSlots, ConstantsNat DEF InputTypeOK, Slots
<1>. QED BY <1>1, ConstantsNat DEF InputTypeOK, Dequeue

LEMMA StopTypes ==
  ASSUME InputTypeOK, Stop, UNCHANGED port
  PROVE  InputTypeOK'
BY ConstantsNat DEF InputTypeOK, Stop, Ready, ClockUnused, port, ring

LEMMA TakeTypes ==
  ASSUME InputTypeOK, TakeKey, UNCHANGED port
  PROVE  /\ queue' \in [Slots -> 0..MaxSent] /\ head' \in Slots /\ tail' \in Slots
         /\ count' \in 0..Capacity /\ given' \in 0..MaxSent /\ read' \in 0..Len(sent')
<1>1. CASE Dequeue
  BY <1>1, DequeueTypes DEF InputTypeOK, port
<1>2. CASE Ready /\ read' = read + 1 /\ given' = read + 1 /\ UNCHANGED ring
  BY <1>2, ConstantsNat DEF InputTypeOK, Ready, ring, port
<1>. QED BY <1>1, <1>2 DEF TakeKey

LEMMA NextTypes == InputTypeOK /\ [Next]_vars => InputTypeOK'
<1>. SUFFICES ASSUME InputTypeOK, [Next]_vars
              PROVE  InputTypeOK'
  OBVIOUS
<1>. USE ConstantsNat
<1>1. ASSUME NEW kind \in Kinds, Send(kind) PROVE InputTypeOK'
  BY <1>1 DEF InputTypeOK, Send, ring, clock, discard, history
<1>2. CASE Tick
  <2>1. now' \in 0..Day - 1
    BY <1>2, NextTick DEF InputTypeOK, Tick
  <2>2. waited' \in 0..Day - 1
    BY <1>2 DEF InputTypeOK, Tick
  <2>3. age' \in 0..2
    BY <1>2 DEF InputTypeOK, Tick
  <2>. QED BY <1>2, <2>1, <2>2, <2>3 DEF InputTypeOK, Tick, ring, discard, history
<1>3. CASE ShellReads
  BY <1>3 DEF InputTypeOK, ShellReads, port, ring, clock, discard
<1>4. CASE Start
  BY <1>4 DEF InputTypeOK, Start, port, clock, discard, Slots
<1>5. CASE PollByte
  <2>1. CASE Stop
    BY <1>5, <2>1, StopTypes DEF PollByte
  <2>2. CASE /\ Newest # "escape" /\ read' = read + 1 /\ Enqueue
             /\ UNCHANGED <<at, steps, now, clock, discard, history>>
    <3>1. Ready /\ sent' = sent
      BY <1>5 DEF PollByte, Polls, port
    <3>2. /\ queue' \in [Slots -> 0..MaxSent] /\ head' \in Slots
          /\ tail' \in Slots /\ count' \in 0..Capacity
      BY <2>2, <3>1, RingTypes
    <3>3. read' \in 0..Len(sent')
      BY <2>2, <3>1 DEF InputTypeOK, Ready
    <3>. QED BY <1>5, <2>2, <3>2, <3>3 DEF InputTypeOK, PollByte, port, clock, discard, history
  <2>. QED BY <1>5, <2>1, <2>2 DEF PollByte
<1>6. CASE PollDone
  <2>1. /\ steps' \in 0..Reload /\ at' \in {"screen", "execute"}
        /\ at' = "execute" => steps' > 0
    BY <1>6 DEF InputTypeOK, PollDone
  <2>. QED BY <1>6, <2>1 DEF InputTypeOK, PollDone, port, ring, clock, discard, history
<1>7. CASE Begin \/ Other
  BY <1>7 DEF InputTypeOK, Begin, Other, port, ring, clock, discard, history
<1>8. CASE End
  BY <1>8 DEF InputTypeOK, End, port, ring, clock, discard, history
<1>9. CASE Key
  <2>1. CASE Stop
    BY <1>9, <2>1, StopTypes DEF Key
  <2>2. CASE /\ TakeKey \/ (count = 0 /\ ~Ready /\ UNCHANGED <<read, ring, given>>)
             /\ at' = "next" /\ AfterKey
             /\ UNCHANGED <<now, clock, discard, stopper>>
    <3>1. UNCHANGED port
      BY <1>9 DEF Key
    <3>2. /\ queue' \in [Slots -> 0..MaxSent] /\ head' \in Slots /\ tail' \in Slots
          /\ count' \in 0..Capacity /\ given' \in 0..MaxSent /\ read' \in 0..Len(sent')
      <4>1. CASE TakeKey
        BY <3>1, <4>1, TakeTypes
      <4>2. CASE UNCHANGED <<read, ring, given>>
        BY <3>1, <4>2 DEF InputTypeOK, ring, port
      <4>. QED BY <2>2, <4>1, <4>2
    <3>. QED BY <1>9, <2>2, <3>1, <3>2 DEF InputTypeOK, Key, AfterKey, port, clock, discard
  <2>. QED BY <1>9, <2>1, <2>2 DEF Key
<1>10. CASE Wait
  BY <1>10 DEF InputTypeOK, Wait, port, ring, discard, history
<1>11. CASE WaitChecks
  BY <1>11 DEF InputTypeOK, WaitChecks, ClockUnused, port, ring, clock, discard, history
<1>12. CASE ReadKey
  <2>1. CASE Stop
    BY <1>12, <2>1, StopTypes DEF ReadKey
  <2>2. CASE /\ TakeKey
             /\ at' = "shell" /\ UNCHANGED <<steps, now, clock, discard, stopper>>
    <3>1. UNCHANGED port
      BY <1>12 DEF ReadKey
    <3>. QED BY <2>2, <3>1, TakeTypes DEF InputTypeOK, port, clock, discard
  <2>. QED BY <1>12, <2>1, <2>2 DEF ReadKey
<1>13. CASE Discard
  <2>1. read' \in 0..Len(sent)
    BY <1>13 DEF InputTypeOK, Discard, Ready
  <2>2. /\ seen' \in 0..Day - 1
        /\ at' \in {"discard", "drain"}
    BY <1>13 DEF InputTypeOK, Discard, discard
  <2>3. turns' \in 0..2 /\ (at' = "discard" => turns' > 0)
    BY <1>13 DEF InputTypeOK, Discard, Turn, discard
  <2>. QED BY <1>13, <2>1, <2>2, <2>3 DEF InputTypeOK, Discard, port, ring, clock, history
<1>14. CASE Drain
  BY <1>14 DEF InputTypeOK, Drain, Ready, port, ring, clock, discard, history
<1>15. CASE UNCHANGED vars
  BY <1>15 DEF InputTypeOK, vars
<1>. QED
  BY <1>1, <1>2, <1>3, <1>4, <1>5, <1>6, <1>7, <1>8, <1>9, <1>10, <1>11, <1>12,
     <1>13, <1>14, <1>15 DEF Next, World, Interpreter

(* Every reachable state of the interpreter's input side is well typed:    *)
(* the queue's registers never leave key_queue.                            *)
THEOREM InputTypeCorrect == Spec => []InputTypeOK
<1>. QED BY InitTypes, NextTypes, PTL DEF Spec

-----------------------------------------------------------------------------
(* The ring. *)

LEMMA Places ==
  ASSUME NEW h \in Slots, NEW k \in 0..Capacity
  PROVE  (h + k) % Capacity = IF h + k < Capacity THEN h + k ELSE (h + k) - Capacity
<1>1. h + k \in 0..2 * Capacity - 1
  BY ConstantsNat DEF Slots
<1>2. \A x \in 0..2 * Capacity - 1 :
        x % Capacity = IF x < Capacity THEN x ELSE x - Capacity
  BY ConstantsNat, ModOnce
<1>. QED BY <1>1, <1>2

(* The ring stays, and nothing read is unread or changed. *)
LEMMA RingKept ==
  ASSUME InputTypeOK, RingInv, UNCHANGED ring, read' \in Nat, read' >= read,
         \A i \in 1..read : sent'[i] = sent[i]
  PROVE  RingInv'
<1>1. Queued' = Queued /\ head' = head /\ tail' = tail /\ count' = count
  BY DEF Queued, ring
<1>2. read \in Nat /\ count \in Nat
  BY ConstantsNat DEF InputTypeOK
<1>3. \A i \in 1..count : Queued[i] \in 1..read
  BY DEF RingInv
<1>. QED BY <1>1, <1>2, <1>3 DEF RingInv

(* A key goes behind those that wait... *)
LEMMA Enqueued ==
  ASSUME InputTypeOK, RingInv, count < Capacity, Enqueue, read' = read + 1
  PROVE  /\ count' = count + 1 /\ head' = head /\ tail' = (head' + count') % Capacity
         /\ \A i \in 1..count : Queued'[i] = Queued[i]
         /\ Queued'[count'] = read + 1
<1>. USE ConstantsNat
<1>1. /\ head \in Slots /\ tail \in Slots /\ count \in 0..Capacity - 1 /\ read \in Nat
      /\ queue \in [Slots -> 0..MaxSent]
  BY DEF InputTypeOK
<1>2. /\ queue' = [queue EXCEPT ![tail] = read + 1] /\ tail' = Wrap(tail + 1)
      /\ count' = count + 1 /\ head' = head
  BY DEF Enqueue
<1>3. tail = IF head + count < Capacity THEN head + count ELSE (head + count) - Capacity
  <2>1. count \in 0..Capacity
    BY <1>1
  <2>2. tail = (head + count) % Capacity
    BY DEF RingInv
  <2>. QED BY <1>1, <2>1, <2>2, Places
<1>4. tail' = (head' + count') % Capacity
  <2>1. tail' = IF tail + 1 < Capacity THEN tail + 1 ELSE 0
    BY <1>1, <1>2, WrapInSlots
  <2>2. (head + (count + 1)) % Capacity
          = IF head + (count + 1) < Capacity THEN head + (count + 1)
            ELSE (head + (count + 1)) - Capacity
    BY <1>1, Places
  <2>. QED BY <1>1, <1>2, <1>3, <2>1, <2>2 DEF Slots
<1>5. ASSUME NEW i \in 1..count
      PROVE  Queued'[i] = Queued[i]
  <2>1. (head + (i - 1)) % Capacity
          = IF head + (i - 1) < Capacity THEN head + (i - 1) ELSE (head + (i - 1)) - Capacity
    BY <1>1, Places
  <2>2. head + i - 1 = head + (i - 1)
    BY <1>1 DEF Slots
  <2>. DEFINE place == (head + i - 1) % Capacity
  <2>3. place = IF head + (i - 1) < Capacity THEN head + (i - 1) ELSE (head + (i - 1)) - Capacity
    BY <2>1, <2>2
  <2>4. place \in Slots /\ place # tail
    <3>. HIDE DEF place
    <3>. QED BY <1>1, <1>3, <2>3 DEF Slots
  <2>5. queue'[place] = queue[place]
    <3>. HIDE DEF place
    <3>. QED BY <1>1, <1>2, <2>4
  <2>6. i \in 1..count'
    BY <1>1, <1>2
  <2>. QED BY <1>2, <2>5, <2>6 DEF Queued
<1>6. Queued'[count'] = read + 1
  <2>1. head' + count' - 1 = head + count
    BY <1>1, <1>2 DEF Slots
  <2>2. queue'[(head' + count' - 1) % Capacity] = read + 1
    BY <1>1, <1>2, <2>1 DEF RingInv
  <2>. QED BY <1>1, <1>2, <2>2 DEF Queued
<1>. QED BY <1>2, <1>4, <1>5, <1>6

(* ...and is taken from before them. *)
LEMMA Dequeued ==
  ASSUME InputTypeOK, RingInv, Dequeue
  PROVE  /\ count' = count - 1 /\ read' = read /\ given' = Queued[1]
         /\ tail' = (head' + count') % Capacity
         /\ \A i \in 1..count' : i + 1 \in 1..count /\ Queued'[i] = Queued[i + 1]
<1>. USE ConstantsNat
<1>1. /\ head \in Slots /\ count \in 1..Capacity /\ read \in Nat
  BY DEF InputTypeOK, Dequeue
<1>2. /\ queue' = queue /\ tail' = tail /\ count' = count - 1 /\ read' = read
      /\ head' = IF head + 1 < Capacity THEN head + 1 ELSE 0
  BY <1>1, WrapInSlots DEF Dequeue
<1>3. ASSUME NEW k \in 0..count - 1
      PROVE  (head' + k) % Capacity = (head + (k + 1)) % Capacity
  <2>1. head' \in Slots /\ k \in 0..Capacity /\ k + 1 \in 0..Capacity
    BY <1>1, <1>2 DEF Slots
  <2>2. (head' + k) % Capacity = IF head' + k < Capacity THEN head' + k ELSE (head' + k) - Capacity
    BY <2>1, Places
  <2>3. (head + (k + 1)) % Capacity
          = IF head + (k + 1) < Capacity THEN head + (k + 1) ELSE (head + (k + 1)) - Capacity
    BY <1>1, <2>1, Places
  <2>. QED BY <1>1, <1>2, <2>2, <2>3 DEF Slots
<1>4. tail' = (head' + count') % Capacity
  <2>1. count - 1 \in 0..count - 1 /\ (count - 1) + 1 = count
    BY <1>1
  <2>. QED BY <1>2, <1>3, <2>1 DEF RingInv
<1>5. ASSUME NEW i \in 1..count'
      PROVE  i + 1 \in 1..count /\ Queued'[i] = Queued[i + 1]
  <2>1. i - 1 \in 0..count - 1 /\ i + 1 \in 1..count
    BY <1>1, <1>2
  <2>2. head' + i - 1 = head' + (i - 1) /\ head + (i + 1) - 1 = head + ((i - 1) + 1)
    BY <1>1, <1>2 DEF Slots
  <2>. QED BY <1>2, <1>3, <2>1, <2>2 DEF Queued
<1>6. given' = Queued[1]
  <2>1. head + 1 - 1 = head + 0 /\ head + 0 = head /\ head < Capacity /\ 0 \in 0..Capacity
    BY <1>1 DEF Slots
  <2>2. (head + 1 - 1) % Capacity = head
    BY <1>1, <2>1, Places
  <2>. QED BY <1>1, <2>2 DEF Queued, Dequeue
<1>. QED BY <1>2, <1>4, <1>5, <1>6

LEMMA RingEnqueued ==
  ASSUME InputTypeOK, RingInv, Ready, Newest # "escape",
         read' = read + 1, sent' = sent, Enqueue
  PROVE  RingInv'
<1>. USE ConstantsNat
<1>1. CASE count >= Capacity
  <2>1. UNCHANGED ring
    BY <1>1 DEF Enqueue, InputTypeOK
  <2>. QED BY <2>1, RingKept DEF InputTypeOK
<1>2. CASE count < Capacity
  <2>1. count \in Nat /\ read \in Nat
    BY DEF InputTypeOK
  <2>2. \A i \in 1..count' : Queued'[i] \in 1..read' /\ sent'[Queued'[i]] # "escape"
    BY <1>2, <2>1, Enqueued DEF RingInv, Newest
  <2>3. \A i, j \in 1..count' : i < j => Queued'[i] < Queued'[j]
    BY <1>2, <2>1, Enqueued DEF RingInv
  <2>. QED BY <1>2, <2>2, <2>3, Enqueued DEF RingInv
<1>. QED BY <1>1, <1>2 DEF InputTypeOK

LEMMA RingDequeued ==
  ASSUME InputTypeOK, RingInv, Dequeue, sent' = sent
  PROVE  RingInv'
<1>. USE ConstantsNat
<1>1. count \in Nat
  BY DEF InputTypeOK
<1>2. \A i \in 1..count' : Queued'[i] \in 1..read' /\ sent'[Queued'[i]] # "escape"
  BY <1>1, Dequeued DEF RingInv
<1>3. \A i, j \in 1..count' : i < j => Queued'[i] < Queued'[j]
  BY <1>1, Dequeued DEF RingInv
<1>. QED BY <1>2, <1>3, Dequeued DEF RingInv

LEMMA RingTaken ==
  ASSUME InputTypeOK, RingInv, TakeKey, UNCHANGED port
  PROVE  RingInv'
<1>1. CASE Dequeue
  BY <1>1, RingDequeued DEF port
<1>2. CASE read' = read + 1 /\ UNCHANGED ring
  BY <1>2, RingKept, ConstantsNat DEF InputTypeOK, port
<1>. QED BY <1>1, <1>2 DEF TakeKey

LEMMA InitRing == Init => RingInv
<1>. SUFFICES ASSUME Init PROVE RingInv
  OBVIOUS
<1>1. 0 \in Slots /\ 0 \in 0..Capacity
  BY ConstantsNat DEF Slots
<1>2. (0 + 0) % Capacity = 0
  BY <1>1, Places, ConstantsNat
<1>. QED BY <1>2 DEF Init, RingInv

LEMMA NextRing == InputTypeOK /\ RingInv /\ [Next]_vars => RingInv'
<1>. SUFFICES ASSUME InputTypeOK, RingInv, [Next]_vars
              PROVE  RingInv'
  OBVIOUS
<1>0. read \in Nat /\ read \in 0..Len(sent) /\ sent \in Seq(Kinds)
  BY ConstantsNat DEF InputTypeOK
<1>1. ASSUME NEW kind \in Kinds, Send(kind) PROVE RingInv'
  <2>1. \A i \in 1..read : sent'[i] = sent[i]
    BY <1>0, <1>1 DEF Send
  <2>. QED BY <1>0, <1>1, <2>1, RingKept DEF Send
<1>2. CASE /\ UNCHANGED <<sent, ring>> /\ read' \in {read, read + 1}
  BY <1>0, <1>2, RingKept
<1>3. CASE Start
  <2>1. 0 \in Slots /\ 0 \in 0..Capacity
    BY ConstantsNat DEF Slots
  <2>2. (0 + 0) % Capacity = 0
    BY <2>1, Places, ConstantsNat
  <2>. QED BY <1>3, <2>2 DEF Start, RingInv
<1>4. ASSUME PollByte, ~Stop PROVE RingInv'
  BY <1>4, RingEnqueued DEF PollByte, Polls, port
<1>5. ASSUME Key \/ ReadKey, TakeKey PROVE RingInv'
  BY <1>5, RingTaken DEF Key, ReadKey
<1>. QED
  <2>1. CASE Tick \/ ShellReads
    BY <1>2, <2>1 DEF Tick, ShellReads, port
  <2>2. CASE PollByte \/ Key \/ ReadKey
    BY <1>2, <1>4, <1>5, <2>2 DEF PollByte, Key, ReadKey, Stop, port, ring
  <2>3. CASE Begin \/ PollDone \/ Other \/ End
    BY <1>2, <2>3 DEF Begin, PollDone, Other, End, port
  <2>4. CASE Wait \/ WaitChecks \/ Discard \/ Drain
    BY <1>2, <2>4 DEF Wait, WaitChecks, Discard, Drain, port
  <2>5. CASE UNCHANGED vars
    BY <1>2, <2>5 DEF vars, ring
  <2>. QED BY <1>1, <1>3, <2>1, <2>2, <2>3, <2>4, <2>5 DEF Next, World, Interpreter

(* The three registers of the key queue agree, and what is in it was typed *)
(* in that order and is no Escape, for every size of the queue.            *)
THEOREM RingAlways == Spec => []RingInv
<1>. QED BY InitRing, NextRing, InputTypeCorrect, PTL DEF Spec

-----------------------------------------------------------------------------
(* WAIT. *)

(* The clock shows how long WAIT has waited, midnight or not. *)
ClockInv ==
  at \in {"asleep", "woken"} =>
    now = IF start + waited < Day THEN start + waited ELSE start + waited - Day

LEMMA NextClock == InputTypeOK /\ ClockInv /\ [Next]_vars => ClockInv'
<1>. SUFFICES ASSUME InputTypeOK, ClockInv, [Next]_vars
              PROVE  ClockInv'
  OBVIOUS
<1>0. /\ now \in 0..Day - 1 /\ start \in 0..Day - 1 /\ waited \in 0..Day - 1 /\ Day \in Nat
  BY ConstantsNat DEF InputTypeOK
<1>1. CASE Tick
  <2>1. now' = IF now + 1 < Day THEN now + 1 ELSE 0
    BY <1>0, <1>1, NextTick DEF Tick
  <2>2. start' = start /\ (at' \in {"asleep", "woken"} => at \in {"asleep", "woken"} /\ waited' = waited + 1)
    BY <1>1 DEF Tick
  <2>. QED BY <1>0, <2>1, <2>2 DEF ClockInv
<1>2. CASE Wait
  BY <1>0, <1>2 DEF Wait, ClockInv
<1>3. CASE at' = at /\ UNCHANGED <<now, clock>>
  BY <1>3 DEF ClockInv, clock
<1>4. CASE at' \notin {"asleep", "woken"}
  BY <1>4 DEF ClockInv
<1>5. CASE WaitChecks
  BY <1>5 DEF WaitChecks, ClockInv, clock
<1>. QED
  <2>1. CASE \E kind \in Kinds : Send(kind)
    BY <1>3, <2>1 DEF Send
  <2>2. CASE ShellReads \/ Start \/ Begin \/ PollDone \/ Other \/ End
    BY <1>3, <1>4, <2>2 DEF ShellReads, Start, Begin, PollDone, Other, End
  <2>3. CASE PollByte \/ Key \/ ReadKey
    BY <1>3, <1>4, <2>3 DEF PollByte, Key, ReadKey, Stop
  <2>4. CASE Discard \/ Drain
    <3>1. at' \notin {"asleep", "woken"}
      BY <2>4 DEF Discard, Drain
    <3>. QED BY <1>4, <3>1
  <2>5. CASE UNCHANGED vars
    BY <1>3, <2>5 DEF vars, clock
  <2>. QED BY <1>1, <1>2, <1>5, <2>1, <2>2, <2>3, <2>4, <2>5 DEF Next, World, Interpreter

(* WAIT ends with the first look at the clock that finds its time gone,    *)
(* also across midnight, for every length of the day and of the wait.      *)
THEOREM WaitInTimeAlways == Spec => WaitInTime
<1>1. Init => ClockInv
  BY DEF Init, ClockInv
<1>2. InputTypeOK /\ ClockInv => (WaitChecks => (at' = "next" <=> waited >= duration))
  <2>. SUFFICES ASSUME InputTypeOK, ClockInv, WaitChecks
                PROVE  at' = "next" <=> waited >= duration
    OBVIOUS
  <2>1. /\ now \in 0..Day - 1 /\ start \in 0..Day - 1 /\ waited \in 0..Day - 1
        /\ duration \in Nat /\ Day \in Nat
    BY ConstantsNat DEF InputTypeOK
  <2>2. Elapsed = waited
    BY <2>1 DEF WaitChecks, ClockInv, Elapsed
  <2>. QED BY <2>1, <2>2 DEF WaitChecks
<1>. QED BY <1>1, <1>2, NextClock, InputTypeCorrect, PTL DEF Spec, WaitInTime

-----------------------------------------------------------------------------
(* The bytes after the Escape that stopped the program.                    *)

Untouched == stopper # 0 /\ read = stopper

(* While nothing after that Escape has been read: each transition of the   *)
(* counter that serial_discard_input has seen, or has still to see, is a    *)
(* tick since the Escape, unless a byte was sent after it; so after two of  *)
(* them the terminal is past the time of its key.                          *)
SuffixInv ==
  /\ stopper # 0 => at \in {"shell", "discard", "drain"}
  /\ stopper <= read
  /\ Untouched /\ Len(sent) = stopper =>
       /\ at = "discard" => age + turns >= IF now = seen THEN 2 ELSE 3
       /\ at # "discard" => age = 2
  /\ Untouched /\ Len(sent) > stopper /\ at = "shell" => sent[stopper + 1] # "suffix"

LEMMA InitSuffix == Init => SuffixInv
BY DEF Init, SuffixInv, Untouched

(* A step of the interpreter that leaves the discarding alone. *)
LEMMA RunningSuffix ==
  ASSUME SuffixInv, InputTypeOK, stopper = 0, stopper' = 0, read' \in Nat
  PROVE  SuffixInv'
BY DEF SuffixInv, Untouched

LEMMA StopSuffix ==
  ASSUME SuffixInv, InputTypeOK, Stop, UNCHANGED port
  PROVE  SuffixInv'
BY DEF SuffixInv, Untouched, Stop, port, InputTypeOK

LEMMA NextSuffix == InputTypeOK /\ InputTypeOK' /\ SuffixInv /\ [Next]_vars => SuffixInv'
<1>. SUFFICES ASSUME InputTypeOK, InputTypeOK', SuffixInv, [Next]_vars
              PROVE  SuffixInv'
  OBVIOUS
<1>0. /\ read \in Nat /\ read' \in Nat /\ stopper \in Nat /\ Len(sent) \in Nat /\ read <= Len(sent)
      /\ age \in 0..2 /\ turns \in 0..2 /\ now \in Nat /\ seen \in Nat /\ sent \in Seq(Kinds)
      /\ at = "discard" => turns > 0
  BY ConstantsNat DEF InputTypeOK
<1>1. ASSUME NEW kind \in Kinds, Send(kind) PROVE SuffixInv'
  <2>1. /\ Len(sent') = Len(sent) + 1 /\ sent'[Len(sent) + 1] = kind
        /\ \A i \in 1..Len(sent) : sent'[i] = sent[i]
        /\ kind = "suffix" => age < 2
        /\ UNCHANGED <<read, at, stopper>>
    BY <1>0, <1>1 DEF Send, history
  <2>. QED BY <1>0, <2>1 DEF SuffixInv, Untouched
<1>2. CASE Tick
  <2>1. /\ age' = IF age < 2 THEN age + 1 ELSE 2
        /\ UNCHANGED <<sent, read, seen, turns, stopper>>
        /\ at' = IF at = "asleep" THEN "woken" ELSE at
    BY <1>2 DEF Tick, discard, history
  <2>. QED BY <1>0, <2>1 DEF SuffixInv, Untouched
<1>3. CASE ShellReads
  BY <1>0, <1>3 DEF ShellReads, SuffixInv, Untouched, port
<1>4. CASE Start
  BY <1>0, <1>4 DEF Start, SuffixInv, Untouched, port
<1>5. CASE Stop /\ UNCHANGED port
  BY <1>5, StopSuffix
<1>6. CASE Begin \/ PollDone \/ Other \/ End \/ Wait \/ WaitChecks
  <2>1. stopper' = stopper /\ at \notin {"shell", "discard", "drain"}
    BY <1>6 DEF Begin, PollDone, Other, End, Wait, WaitChecks, history
  <2>. QED BY <1>0, <2>1, RunningSuffix DEF SuffixInv
<1>7. CASE PollByte \/ Key \/ ReadKey
  <2>1. /\ at \notin {"shell", "discard", "drain"}
        /\ stopper' = stopper \/ (Stop /\ UNCHANGED port)
    BY <1>7 DEF PollByte, Key, ReadKey, history
  <2>. QED BY <1>0, <1>5, <2>1, RunningSuffix DEF SuffixInv
<1>8. CASE Discard
  <2>1. /\ at = "discard" /\ read' = (IF Ready THEN read + 1 ELSE read)
        /\ UNCHANGED <<sent, age, now, stopper>>
        /\ IF now = seen
           THEN UNCHANGED <<at, seen, turns>>
           ELSE /\ turns' = turns - 1
                /\ turns' # 0 => seen' = now /\ at' = "discard"
                /\ turns' = 0 => at' = "drain"
    BY <1>8 DEF Discard, Turn, discard, port, history
  <2>. QED BY <1>0, <2>1 DEF SuffixInv, Untouched, Ready
<1>9. CASE Drain
  <2>1. /\ at = "drain" /\ UNCHANGED <<sent, age, stopper>>
        /\ IF Ready THEN read' = read + 1 /\ at' = at ELSE at' = "shell" /\ read' = read
    BY <1>9 DEF Drain, port, history
  <2>. QED BY <1>0, <2>1 DEF SuffixInv, Untouched, Ready
<1>10. CASE UNCHANGED vars
  BY <1>10 DEF vars, SuffixInv, Untouched
<1>. QED BY <1>1, <1>2, <1>3, <1>4, <1>6, <1>7, <1>8, <1>9, <1>10 DEF Next, World, Interpreter

LEMMA SuffixAlways == Spec => []SuffixInv
<1>. QED BY InitSuffix, NextSuffix, InputTypeCorrect, PTL DEF Spec

(* serial_discard_input leaves the shell nothing of the key whose first    *)
(* byte stopped the program, for any length of the day and any number of   *)
(* bytes, whenever ticks and bytes come in.                                *)
THEOREM SuffixKeptOutAlways == Spec => SuffixKeptOut
<1>1. InputTypeOK /\ SuffixInv =>
        (ShellReads => ~(stopper # 0 /\ read' = stopper + 1 /\ sent[read'] = "suffix"))
  <2>. SUFFICES ASSUME InputTypeOK, SuffixInv, ShellReads, stopper # 0, read' = stopper + 1
                PROVE  sent[read'] # "suffix"
    OBVIOUS
  <2>1. at = "shell" /\ read < Len(sent) /\ read' = read + 1 /\ read \in Nat /\ stopper \in Nat
    BY DEF ShellReads, InputTypeOK
  <2>. QED BY <2>1 DEF SuffixInv, Untouched
<1>. QED BY <1>1, SuffixAlways, InputTypeCorrect, PTL DEF Spec, SuffixKeptOut

-----------------------------------------------------------------------------
(* The keys as the user knows them: what Keyboard promises.                *)

(* What a queue before a line does when a byte moves, goes or is taken.     *)
LEMMA MovesOver ==
  ASSUME NEW S, NEW s \in Seq(S), NEW t \in Seq(S), t # <<>>
  PROVE  Append(s, Head(t)) \o Tail(t) = s \o t
<1>1. /\ Len(t) \in Nat \ {0} /\ Head(t) = t[1] /\ Head(t) \in S
      /\ Tail(t) \in Seq(S) /\ Len(Tail(t)) = Len(t) - 1
      /\ \A i \in 1..Len(t) - 1 : Tail(t)[i] = t[i + 1]
  BY HeadTailProperties, EmptySeq
<1>. DEFINE a == Append(s, Head(t))
<1>2. /\ a \in Seq(S) /\ Len(a) = Len(s) + 1 /\ Len(s) \in Nat
      /\ \A i \in 1..Len(s) : a[i] = s[i]
      /\ a[Len(s) + 1] = t[1]
  BY <1>1, AppendProperties, LenProperties
<1>3. /\ a \o Tail(t) \in Seq(S) /\ Len(a \o Tail(t)) = Len(s) + Len(t)
      /\ \A i \in 1..Len(s) + Len(t) :
           (a \o Tail(t))[i] = IF i <= Len(s) + 1 THEN a[i] ELSE Tail(t)[i - (Len(s) + 1)]
  <2>. HIDE DEF a
  <2>1. /\ a \o Tail(t) \in Seq(S) /\ Len(a \o Tail(t)) = Len(a) + Len(Tail(t))
        /\ \A i \in 1..Len(a) + Len(Tail(t)) :
             (a \o Tail(t))[i] = IF i <= Len(a) THEN a[i] ELSE Tail(t)[i - Len(a)]
    BY <1>1, <1>2, ConcatProperties
  <2>2. Len(a) + Len(Tail(t)) = Len(s) + Len(t)
    BY <1>1, <1>2
  <2>. QED BY <1>2, <2>1, <2>2
<1>4. /\ s \o t \in Seq(S) /\ Len(s \o t) = Len(s) + Len(t)
      /\ \A i \in 1..Len(s) + Len(t) : (s \o t)[i] = IF i <= Len(s) THEN s[i] ELSE t[i - Len(s)]
  BY ConcatProperties
<1>5. ASSUME NEW i \in 1..Len(s) + Len(t)
      PROVE  (a \o Tail(t))[i] = (s \o t)[i]
  <2>. HIDE DEF a
  <2>1. CASE i <= Len(s)
    BY <1>1, <1>2, <1>3, <1>4, <2>1
  <2>2. CASE i = Len(s) + 1
    BY <1>1, <1>2, <1>3, <1>4, <2>2
  <2>3. CASE i > Len(s) + 1
    <3>1. i - (Len(s) + 1) \in 1..Len(t) - 1 /\ (i - (Len(s) + 1)) + 1 = i - Len(s)
      BY <1>1, <1>2, <2>3
    <3>. QED BY <1>1, <1>2, <1>3, <1>4, <2>3, <3>1
  <2>. QED BY <1>1, <1>2, <2>1, <2>2, <2>3
<1>. QED
  <2>. HIDE DEF a
  <2>1. a \o Tail(t) = s \o t
    BY <1>3, <1>4, <1>5, SeqEqual
  <2>. QED BY <2>1 DEF a

LEMMA PassesBy ==
  ASSUME NEW S, NEW s \in Seq(S), NEW t \in Seq(S)
  PROVE  SubSeq(s \o t, Len(s) + 1, Len(s \o t)) = t
<1>1. /\ s \o t \in Seq(S) /\ Len(s \o t) = Len(s) + Len(t) /\ Len(s) \in Nat /\ Len(t) \in Nat
      /\ \A i \in 1..Len(s) + Len(t) : (s \o t)[i] = IF i <= Len(s) THEN s[i] ELSE t[i - Len(s)]
  BY ConcatProperties, LenProperties
<1>2. CASE t = <<>>
  <2>1. Len(s) + 1 \in Int /\ Len(s \o t) \in Int /\ Len(s \o t) < Len(s) + 1
    BY <1>1, <1>2
  <2>. QED BY <1>2, <2>1, SubSeqEmpty
<1>3. CASE t # <<>>
  <2>1. Len(t) \in Nat \ {0}
    BY <1>3, EmptySeq
  <2>2. SubSeq(s \o t, Len(s) + 1, Len(s) + Len(t)) = SubSeq(t, (Len(s) + 1) - Len(s), (Len(s) + Len(t)) - Len(s))
    <3>1. Len(s) + 1 \in Len(s) + 1..Len(s) + Len(t) /\ Len(s) + Len(t) \in Len(s) + 1..Len(s) + Len(t)
      BY <1>1, <2>1
    <3>. QED BY <3>1, SubSeqOfConcat2
  <2>3. (Len(s) + 1) - Len(s) = 1 /\ (Len(s) + Len(t)) - Len(s) = Len(t)
    BY <1>1
  <2>. QED BY <1>1, <2>2, <2>3, SubSeqFull
<1>. QED BY <1>2, <1>3

LEMMA PassesOver ==
  ASSUME NEW S, NEW s \in Seq(S), NEW t \in Seq(S), t # <<>>
  PROVE  /\ SubSeq(s \o t, Len(s) + 2, Len(s \o t)) = Tail(t)
         /\ (s \o t)[Len(s) + 1] = Head(t) /\ Len(s \o t) = Len(s) + Len(t)
         /\ \A i \in 1..Len(s) : (s \o t)[i] = s[i]
<1>1. /\ Append(s, Head(t)) \o Tail(t) = s \o t /\ Tail(t) \in Seq(S) /\ Head(t) \in S /\ Head(t) = t[1]
      /\ Len(t) \in Nat \ {0}
  BY MovesOver, HeadTailProperties, EmptySeq
<1>2. Append(s, Head(t)) \in Seq(S) /\ Len(Append(s, Head(t))) = Len(s) + 1 /\ Len(s) \in Nat
  BY <1>1, AppendProperties, LenProperties
<1>3. SubSeq(s \o t, (Len(s) + 1) + 1, Len(s \o t)) = Tail(t)
  BY <1>1, <1>2, PassesBy
<1>4. (Len(s) + 1) + 1 = Len(s) + 2
  BY <1>2
<1>5. /\ Len(s \o t) = Len(s) + Len(t)
      /\ \A i \in 1..Len(s) + Len(t) : (s \o t)[i] = IF i <= Len(s) THEN s[i] ELSE t[i - Len(s)]
  BY ConcatProperties
<1>. QED BY <1>1, <1>2, <1>3, <1>4, <1>5

LEMMA LosesBehind ==
  ASSUME NEW S, NEW s \in Seq(S), NEW t \in Seq(S), t # <<>>
  PROVE  Keys!RemoveAt(s \o t, Len(s) + 1) = s \o Tail(t)
<1>1. Len(s) \in Nat /\ (Len(s) + 1) - 1 = Len(s) /\ (Len(s) + 1) + 1 = Len(s) + 2
  BY LenProperties
<1>2. SubSeq(s \o t, Len(s) + 2, Len(s \o t)) = Tail(t)
  BY PassesOver
<1>3. SubSeq(s \o t, 1, Len(s)) = s
  <2>1. CASE Len(s) = 0
    <3>1. s = <<>>
      BY <2>1, EmptySeq
    <3>. QED BY <2>1, <3>1, SubSeqEmpty
  <2>2. CASE Len(s) # 0
    BY <1>1, <2>2, SubSeqOfConcat1, SubSeqFull
  <2>. QED BY <2>1, <2>2
<1>. QED BY <1>1, <1>2, <1>3 DEF Keys!RemoveAt

LEMMA TakesFirst ==
  ASSUME NEW S, NEW s \in Seq(S), NEW t \in Seq(S), s # <<>>
  PROVE  s \o t # <<>> /\ Head(s \o t) = Head(s) /\ Tail(s \o t) = Tail(s) \o t
<1>1. /\ Len(s) \in Nat \ {0} /\ Len(t) \in Nat /\ Head(s) = s[1]
      /\ Tail(s) \in Seq(S) /\ Len(Tail(s)) = Len(s) - 1
      /\ \A i \in 1..Len(s) - 1 : Tail(s)[i] = s[i + 1]
  BY HeadTailProperties, EmptySeq, LenProperties
<1>2. /\ s \o t \in Seq(S) /\ Len(s \o t) = Len(s) + Len(t)
      /\ \A i \in 1..Len(s) + Len(t) : (s \o t)[i] = IF i <= Len(s) THEN s[i] ELSE t[i - Len(s)]
  BY ConcatProperties
<1>3. s \o t # <<>>
  BY <1>1, <1>2
<1>4. /\ Head(s \o t) = (s \o t)[1] /\ Tail(s \o t) \in Seq(S) /\ Len(Tail(s \o t)) = Len(s) + Len(t) - 1
      /\ \A i \in 1..Len(s) + Len(t) - 1 : Tail(s \o t)[i] = (s \o t)[i + 1]
  BY <1>2, <1>3, HeadTailProperties
<1>5. /\ Tail(s) \o t \in Seq(S) /\ Len(Tail(s) \o t) = (Len(s) - 1) + Len(t)
      /\ \A i \in 1..(Len(s) - 1) + Len(t) :
           (Tail(s) \o t)[i] = IF i <= Len(s) - 1 THEN Tail(s)[i] ELSE t[i - (Len(s) - 1)]
  BY <1>1, ConcatProperties
<1>6. ASSUME NEW i \in 1..Len(s) + Len(t) - 1
      PROVE  Tail(s \o t)[i] = (Tail(s) \o t)[i]
  <2>1. i + 1 \in 1..Len(s) + Len(t) /\ (i + 1) - Len(s) = i - (Len(s) - 1) /\ (i + 1 <= Len(s) <=> i <= Len(s) - 1)
    BY <1>1
  <2>. QED BY <1>1, <1>2, <1>4, <1>5, <2>1
<1>7. Tail(s \o t) = Tail(s) \o t
  BY <1>1, <1>4, <1>5, <1>6, SeqEqual
<1>. QED BY <1>1, <1>2, <1>3, <1>4, <1>7

Left == Len(sent) - read

Line == [k \in 1..Left |-> Byte(read + k)]

Held == [k \in 1..count |-> Byte(Queued[k])]

AllBytes == (1..MaxSent) \X Kinds

Given == IF given = 0 THEN <<>> ELSE Byte(given)

LEMMA WaitingIs ==
  /\ Waiting = IF at \in {"shell", "discard", "drain"} THEN Line ELSE Held \o Line
  /\ Waiting' = IF at' \in {"shell", "discard", "drain"} THEN Line' ELSE Held' \o Line'
BY DEF Waiting, Held, Line, Left

LEMMA ByteTypes ==
  ASSUME InputTypeOK, NEW i \in 1..Len(sent)
  PROVE  Byte(i) \in AllBytes
BY ConstantsNat DEF InputTypeOK, Byte, AllBytes

LEMMA LineIs ==
  ASSUME InputTypeOK
  PROVE  /\ Left \in Nat /\ Line \in Seq(AllBytes) /\ Len(Line) = Left
         /\ \A k \in 1..Left : Line[k] = Byte(read + k)
<1>1. Left \in Nat /\ read \in Nat /\ Len(sent) \in Nat /\ read + Left = Len(sent)
  BY DEF InputTypeOK, Left
<1>2. \A k \in 1..Left : Byte(read + k) \in AllBytes
  <2>. TAKE k \in 1..Left
  <2>1. read + k \in 1..Len(sent)
    BY <1>1
  <2>. QED BY <2>1, ByteTypes
<1>3. Line \in [1..Left -> AllBytes]
  BY <1>2 DEF Line
<1>. QED BY <1>1, <1>3 DEF Line

LEMMA HeldIs ==
  ASSUME InputTypeOK, RingInv
  PROVE  /\ count \in Nat /\ Held \in Seq(AllBytes) /\ Len(Held) = count
         /\ \A k \in 1..count : Held[k] = Byte(Queued[k]) /\ Held[k] \notin (1..MaxSent) \X {"escape"}
<1>1. read \in Nat /\ count \in Nat /\ Len(sent) \in Nat /\ read <= Len(sent)
  BY ConstantsNat DEF InputTypeOK
<1>2. \A k \in 1..count : Queued[k] \in 1..Len(sent) /\ sent[Queued[k]] # "escape"
  BY <1>1 DEF RingInv
<1>3. \A k \in 1..count : Byte(Queued[k]) \in AllBytes
  BY <1>2, ByteTypes
<1>4. Held \in [1..count -> AllBytes]
  BY <1>3 DEF Held
<1>5. \A k \in 1..count : Held[k] = Byte(Queued[k])
  BY DEF Held
<1>6. \A k \in 1..count : Byte(Queued[k]) \notin (1..MaxSent) \X {"escape"}
  BY <1>2 DEF Byte
<1>. QED BY <1>1, <1>4, <1>5, <1>6

(* The line. *)
LEMMA LineKept ==
  UNCHANGED <<sent, read>> => Line' = Line
BY DEF Line, Left, Byte

LEMMA LineReady ==
  ASSUME InputTypeOK, Ready
  PROVE  Line # <<>> /\ Head(Line) = Byte(read + 1) /\ Newest \in Kinds /\ read + 1 \in 1..MaxSent
<1>1. read \in Nat /\ Len(sent) \in Nat /\ read < Len(sent) /\ sent \in Seq(Kinds) /\ Len(sent) <= MaxSent
  BY DEF InputTypeOK, Ready
<1>2. Left \in Nat \ {0} /\ Line \in Seq(AllBytes) /\ Len(Line) = Left /\ Line[1] = Byte(read + 1)
  BY <1>1, LineIs DEF Left
<1>3. Line # <<>>
  BY <1>2
<1>. QED BY <1>1, <1>2, <1>3, ConstantsNat, HeadTailProperties DEF Newest

LEMMA LineRead ==
  ASSUME InputTypeOK, InputTypeOK', Ready, read' = read + 1, sent' = sent
  PROVE  Line' = Tail(Line)
<1>0. read \in Nat /\ Len(sent) \in Nat /\ read < Len(sent)
  BY DEF Ready, InputTypeOK
<1>1. /\ Left \in Nat \ {0} /\ Line \in Seq(AllBytes) /\ Len(Line) = Left
      /\ \A k \in 1..Left : Line[k] = Byte(read + k)
  <2>1. Left \in Nat \ {0}
    BY <1>0 DEF Left
  <2>. QED BY <2>1, LineIs
<1>2. /\ Line' \in Seq(AllBytes) /\ Len(Line') = Left' /\ Left' = Left - 1
      /\ \A k \in 1..Left' : Line'[k] = Byte((read + 1) + k)
  <2>1. Left' = Left - 1
    BY <1>0 DEF Left
  <2>2. Line' = [k \in 1..Left' |-> Byte((read + 1) + k)]
    BY DEF Line, Byte
  <2>3. \A k \in 1..Left' : Byte((read + 1) + k) \in AllBytes
    <3>. TAKE k \in 1..Left'
    <3>1. (read + 1) + k \in 1..Len(sent)
      BY <1>0, <2>1 DEF Left
    <3>. QED BY <3>1, ByteTypes
  <2>4. Line' \in [1..Left' -> AllBytes] /\ Left' \in Nat
    BY <1>1, <2>1, <2>2, <2>3
  <2>. QED BY <2>1, <2>2, <2>4
<1>3. Line # <<>> /\ Tail(Line) \in Seq(AllBytes) /\ Len(Tail(Line)) = Left - 1
      /\ \A k \in 1..Left - 1 : Tail(Line)[k] = Line[k + 1]
  BY <1>1, LineReady, HeadTailProperties
<1>4. ASSUME NEW k \in 1..Len(Line')
      PROVE  Line'[k] = Tail(Line)[k]
  <2>1. k + 1 \in 1..Left /\ (read + 1) + k = read + (k + 1) /\ k \in 1..Left - 1
    BY <1>0, <1>1, <1>2
  <2>. QED BY <1>1, <1>2, <1>3, <2>1
<1>. QED BY <1>2, <1>3, <1>4, SeqEqual

(* The queue. *)
LEMMA HeldKept ==
  UNCHANGED <<sent, ring>> => Held' = Held
BY DEF Held, Queued, Byte, ring

LEMMA HeldNone ==
  (count = 0 => Held = <<>>) /\ (count' = 0 => Held' = <<>>)
BY DEF Held

LEMMA HeldMore ==
  ASSUME InputTypeOK, RingInv, InputTypeOK', RingInv', count < Capacity, Enqueue,
         read' = read + 1, sent' = sent, Ready
  PROVE  Held' = Append(Held, Byte(read + 1))
<1>1. /\ count' = count + 1 /\ count \in Nat
      /\ \A i \in 1..count : Queued'[i] = Queued[i]
      /\ Queued'[count'] = read + 1
  BY Enqueued, HeldIs
<1>0. read \in Nat /\ Len(sent) \in Nat /\ read + 1 \in 1..Len(sent)
  BY DEF Ready, InputTypeOK
<1>2. /\ Held' \in Seq(AllBytes) /\ Len(Held') = count'
      /\ \A k \in 1..count' : Held'[k] = Byte(Queued'[k])
  <2>1. Held' = [k \in 1..count' |-> Byte(Queued'[k])]
    BY DEF Held, Byte
  <2>2. \A k \in 1..count' : Queued'[k] \in 1..Len(sent)
    BY <1>0 DEF RingInv
  <2>3. \A k \in 1..count' : Byte(Queued'[k]) \in AllBytes
    BY <2>2, ByteTypes
  <2>4. Held' \in [1..count' -> AllBytes] /\ count' \in Nat
    BY <1>1, <2>1, <2>3
  <2>. QED BY <2>1, <2>4
<1>3. /\ Held \in Seq(AllBytes) /\ Len(Held) = count
      /\ \A k \in 1..count : Held[k] = Byte(Queued[k])
  BY HeldIs
<1>4. Byte(read + 1) \in AllBytes
  BY <1>0, ByteTypes
<1>. DEFINE a == Append(Held, Byte(read + 1))
<1>5. /\ a \in Seq(AllBytes) /\ Len(a) = count + 1
      /\ \A i \in 1..count : a[i] = Held[i]
      /\ a[count + 1] = Byte(read + 1)
  BY <1>3, <1>4, AppendProperties
<1>6. ASSUME NEW k \in 1..Len(Held')
      PROVE  Held'[k] = a[k]
  <2>. HIDE DEF a
  <2>1. CASE k \in 1..count
    BY <1>1, <1>2, <1>3, <1>5, <2>1
  <2>2. CASE k = count + 1
    BY <1>1, <1>2, <1>5, <2>2
  <2>. QED BY <1>1, <1>2, <2>1, <2>2
<1>. QED
  <2>. HIDE DEF a
  <2>1. Held' = a
    BY <1>1, <1>2, <1>5, <1>6, SeqEqual
  <2>. QED BY <2>1 DEF a

LEMMA HeldFewer ==
  ASSUME InputTypeOK, RingInv, InputTypeOK', RingInv', Dequeue, sent' = sent
  PROVE  /\ Held # <<>> /\ Head(Held) = Given' /\ Held' = Tail(Held) /\ count \in 1..Capacity
         /\ Head(Held) \notin (1..MaxSent) \X {"escape"}
<1>1. /\ count \in Nat \ {0} /\ count' = count - 1 /\ given' = Queued[1] /\ count \in 1..Capacity
      /\ \A i \in 1..count' : i + 1 \in 1..count /\ Queued'[i] = Queued[i + 1]
  <2>1. count \in 1..Capacity
    BY ConstantsNat DEF Dequeue, InputTypeOK
  <2>2. count \in Nat \ {0}
    BY <2>1, ConstantsNat
  <2>. QED BY <2>1, <2>2, Dequeued
<1>2. /\ Held \in Seq(AllBytes) /\ Len(Held) = count
      /\ \A k \in 1..count : Held[k] = Byte(Queued[k]) /\ Held[k] \notin (1..MaxSent) \X {"escape"}
  BY HeldIs
<1>3. Held # <<>>
  BY <1>1, <1>2
<1>4. /\ Head(Held) = Held[1] /\ Tail(Held) \in Seq(AllBytes) /\ Len(Tail(Held)) = count - 1
      /\ \A k \in 1..count - 1 : Tail(Held)[k] = Held[k + 1]
  BY <1>2, <1>3, HeadTailProperties
<1>5. Head(Held) = Given'
  <2>1. 1 \in 1..count
    BY <1>1
  <2>2. given' # 0
    BY <1>1, <2>1 DEF RingInv
  <2>. QED BY <1>1, <1>2, <1>4, <2>1, <2>2 DEF Given, Byte
<1>6. Held' = [k \in 1..count' |-> Byte(Queued'[k])]
  BY DEF Held, Byte
<1>7. ASSUME NEW k \in 1..count'
      PROVE  Held'[k] = Tail(Held)[k] /\ Held'[k] \in AllBytes
  <2>1. Held'[k] = Byte(Queued[k + 1]) /\ k + 1 \in 1..count /\ k \in 1..count - 1
    BY <1>1, <1>6
  <2>2. Held'[k] = Tail(Held)[k]
    BY <1>2, <1>4, <2>1
  <2>3. Held[k + 1] \in AllBytes
    BY <1>2, <2>1
  <2>. QED BY <1>4, <2>1, <2>2, <2>3
<1>8. Held' \in Seq(AllBytes) /\ Len(Held') = count'
  <2>1. Held' \in [1..count' -> AllBytes] /\ count' \in Nat
    BY <1>1, <1>6, <1>7
  <2>. QED BY <2>1
<1>9. Held' = Tail(Held)
  BY <1>1, <1>4, <1>7, <1>8, SeqEqual
<1>. QED BY <1>1, <1>2, <1>3, <1>4, <1>5, <1>9

(* What was given was read, so nothing sent later changes it. *)
GivenRead == given \in 0..read

LEMMA NextGiven == InputTypeOK /\ RingInv /\ GivenRead /\ [Next]_vars => GivenRead'
<1>. SUFFICES ASSUME InputTypeOK, RingInv, GivenRead, [Next]_vars
              PROVE  GivenRead'
  OBVIOUS
<1>0. read \in Nat /\ given \in Nat /\ given <= read /\ count \in Nat
  BY ConstantsNat DEF InputTypeOK, GivenRead
<1>1. CASE given' = given /\ read' \in {read, read + 1}
  BY <1>0, <1>1 DEF GivenRead
<1>2. CASE given' = read + 1 /\ read' = read + 1
  BY <1>0, <1>2 DEF GivenRead
<1>3. CASE Dequeue
  <2>1. 1 \in 1..count
    BY <1>0, <1>3 DEF Dequeue
  <2>2. given' \in 1..read /\ read' = read
    BY <1>3, <2>1, Dequeued DEF RingInv
  <2>. QED BY <1>0, <2>2 DEF GivenRead
<1>4. CASE TakeKey
  BY <1>2, <1>3, <1>4 DEF TakeKey
<1>. QED
  <2>1. CASE World
    BY <1>1, <1>2, <2>1 DEF World, Send, Tick, ShellReads, Start, history
  <2>2. CASE PollByte \/ Key \/ ReadKey
    BY <1>1, <1>4, <2>2 DEF PollByte, Key, ReadKey, Stop, history
  <2>3. CASE Begin \/ PollDone \/ Other \/ End \/ Wait \/ WaitChecks \/ Discard \/ Drain
    BY <1>1, <2>3 DEF Begin, PollDone, Other, End, Wait, WaitChecks, Discard, Drain, history
  <2>4. CASE UNCHANGED vars
    BY <1>1, <2>4 DEF vars
  <2>. QED BY <2>1, <2>2, <2>3, <2>4 DEF Next, Interpreter

LEMMA GivenAlways == Spec => []GivenRead
<1>1. Init => GivenRead
  BY DEF Init, GivenRead
<1>. QED BY <1>1, NextGiven, RingAlways, InputTypeCorrect, PTL DEF Spec

(* Where the interpreter is. *)
Away == {"shell", "discard", "drain"}

LEMMA PhaseIs ==
  /\ Phase = "shell" <=> at = "shell"
  /\ Phase = "stopping" <=> at \in {"discard", "drain"}
  /\ Phase = "running" <=> at \notin Away
  /\ Phase' = "shell" <=> at' = "shell"
  /\ Phase' = "stopping" <=> at' \in {"discard", "drain"}
  /\ Phase' = "running" <=> at' \notin Away
BY DEF Phase, Away

LEMMA WaitingTypes ==
  ASSUME InputTypeOK, RingInv
  PROVE  Waiting \in Seq(AllBytes)
BY WaitingIs, LineIs, HeldIs, ConcatProperties

(* What the interpreter does with the keys when it neither stops, starts   *)
(* nor takes one.                                                          *)
LEMMA KeysLeft ==
  ASSUME at \in Away <=> at' \in Away, Phase' = Phase,
         UNCHANGED <<sent, read, ring, given>>
  PROVE  UNCHANGED Keys!vars
<1>1. Line' = Line /\ Held' = Held
  BY LineKept, HeldKept
<1>2. Waiting' = Waiting
  BY <1>1, WaitingIs DEF Away
<1>3. Given' = Given
  BY DEF Given, Byte
<1>. QED BY <1>2, <1>3 DEF Keys!vars, Given

LEMMA SendKeys ==
  ASSUME InputTypeOK, RingInv, GivenRead, NEW kind \in Kinds, Send(kind)
  PROVE  \E b \in (1..MaxSent) \X Kinds : Keys!Send(b)
<1>. DEFINE b == <<Len(sent) + 1, kind>>
<1>0. /\ read \in Nat /\ Len(sent) \in Nat /\ read <= Len(sent) /\ sent \in Seq(Kinds)
      /\ Len(sent) + 1 \in 1..MaxSent /\ given \in 0..read
  BY ConstantsNat DEF InputTypeOK, Send, GivenRead
<1>1. /\ Len(sent') = Len(sent) + 1 /\ sent'[Len(sent) + 1] = kind
      /\ \A i \in 1..Len(sent) : sent'[i] = sent[i]
      /\ UNCHANGED <<read, ring, at, given>>
  BY <1>0 DEF Send, history
<1>2. b \in AllBytes
  BY <1>0 DEF AllBytes
<1>3. Held' = Held
  <2>1. Queued' = Queued /\ count' = count
    BY <1>1 DEF Queued, ring
  <2>2. \A i \in 1..count : Byte(Queued[i])' = Byte(Queued[i])
    <3>. TAKE i \in 1..count
    <3>1. Queued[i] \in 1..read
      BY DEF RingInv
    <3>2. Queued[i] \in 1..Len(sent)
      BY <1>0, <3>1
    <3>. QED BY <1>1, <2>1, <3>2 DEF Byte
  <2>. QED BY <2>1, <2>2 DEF Held
<1>4. Line' = Append(Line, b)
  <2>1. /\ Left \in Nat /\ Line \in Seq(AllBytes) /\ Len(Line) = Left
        /\ \A k \in 1..Left : Line[k] = Byte(read + k)
    BY LineIs
  <2>2. Left' = Left + 1 /\ read + (Left + 1) = Len(sent) + 1
    BY <1>0, <1>1 DEF Left
  <2>3. /\ Append(Line, b) \in Seq(AllBytes) /\ Len(Append(Line, b)) = Left + 1
        /\ \A k \in 1..Left : Append(Line, b)[k] = Line[k]
        /\ Append(Line, b)[Left + 1] = b
    BY <1>2, <2>1, AppendProperties
  <2>4. Line' = [k \in 1..Left + 1 |-> <<read + k, sent'[read + k]>>]
    BY <1>1, <2>2 DEF Line, Byte
  <2>5. ASSUME NEW k \in 1..Left + 1
        PROVE  <<read + k, sent'[read + k]>> = Append(Line, b)[k]
    <3>1. CASE k = Left + 1
      BY <1>1, <2>2, <2>3, <3>1
    <3>2. CASE k \in 1..Left
      <4>1. read + k \in 1..Len(sent)
        BY <1>0, <2>1, <3>2 DEF Left
      <4>. QED BY <1>1, <2>1, <2>3, <3>2, <4>1 DEF Byte
    <3>. QED BY <2>1, <3>1, <3>2
  <2>6. \A k \in 1..Left + 1 : Line'[k] = Append(Line, b)[k]
    BY <2>4, <2>5
  <2>7. \A k \in 1..Left + 1 : Append(Line, b)[k] \in AllBytes
    BY <2>3, ElementOfSeq
  <2>8. Line' \in Seq(AllBytes) /\ Len(Line') = Left + 1
    <3>. HIDE DEF b
    <3>1. Line' \in [1..Left + 1 -> AllBytes]
      BY <2>4, <2>6, <2>7
    <3>. QED BY <2>1, <2>4, <3>1
  <2>. QED
    <3>. HIDE DEF b
    <3>. QED BY <2>3, <2>6, <2>8, SeqEqual
<1>5. Waiting' = Append(Waiting, b)
  <2>1. Line \in Seq(AllBytes) /\ Held \in Seq(AllBytes)
    BY LineIs, HeldIs
  <2>2. Held \o Append(Line, b) = Append(Held \o Line, b)
    <3>. HIDE DEF b
    <3>1. <<b>> \in Seq(AllBytes) /\ Held \o Line \in Seq(AllBytes)
      BY <1>2, <2>1, ConcatProperties
    <3>2. Append(Line, b) = Line \o <<b>> /\ Append(Held \o Line, b) = (Held \o Line) \o <<b>>
      BY <1>2, <2>1, <3>1, AppendIsConcat
    <3>. QED BY <2>1, <3>1, <3>2, ConcatAssociative
  <2>. QED
    <3>. HIDE DEF b
    <3>. QED BY <1>1, <1>3, <1>4, <2>2, WaitingIs
<1>6. Given' = Given /\ Phase' = Phase
  BY <1>0, <1>1 DEF Given, Byte, Phase
<1>7. Keys!Send(b)
  <2>. HIDE DEF b
  <2>. QED BY <1>5, <1>6 DEF Keys!Send, Given
<1>. QED BY <1>2, <1>7 DEF AllBytes

LEMMA ShellKeys ==
  ASSUME InputTypeOK, InputTypeOK', ShellReads
  PROVE  Keys!Take
<1>1. /\ Ready /\ read' = read + 1 /\ given' = read + 1 /\ sent' = sent /\ at = "shell" /\ at' = "shell"
  BY DEF ShellReads, Ready, port
<1>2. Waiting = Line /\ Waiting' = Line' /\ Phase = "shell" /\ Phase' = "shell"
  BY <1>1, WaitingIs, PhaseIs
<1>3. Line # <<>> /\ Head(Line) = Byte(read + 1) /\ Line' = Tail(Line) /\ read + 1 \in 1..MaxSent
  BY <1>1, LineReady, LineRead
<1>4. Given' = Byte(read + 1)
  BY <1>1, <1>3 DEF Given, Byte
<1>. QED BY <1>2, <1>3, <1>4 DEF Keys!Take, Given

LEMMA StartKeys ==
  ASSUME InputTypeOK, Start
  PROVE  Keys!Start
<1>1. /\ UNCHANGED <<sent, read, given>> /\ count' = 0 /\ at = "shell" /\ at' = "next"
  BY DEF Start, port
<1>2. Line' = Line /\ Held' = <<>> /\ Line \in Seq(AllBytes)
  BY <1>1, LineKept, HeldNone, LineIs
<1>3. Waiting = Line /\ Waiting' = Line /\ Phase = "shell" /\ Phase' = "running"
  BY <1>1, <1>2, WaitingIs, PhaseIs, ConcatEmptySeq DEF Away
<1>4. Given' = Given
  BY <1>1 DEF Given, Byte
<1>. QED BY <1>3, <1>4 DEF Keys!Start, Given

(* Escape goes, and what was queued or has come before it. *)
LEMMA StopKeys ==
  ASSUME InputTypeOK, InputTypeOK', RingInv, at \notin Away, Stop, UNCHANGED port
  PROVE  Keys!Stop
<1>1. /\ Ready /\ Newest = "escape" /\ read' = read + 1 /\ sent' = sent /\ at' = "discard"
      /\ given' = given
  BY DEF Stop, port
<1>2. /\ Held \in Seq(AllBytes) /\ Line \in Seq(AllBytes) /\ Line # <<>>
      /\ Head(Line) = Byte(read + 1) /\ Line' = Tail(Line) /\ read + 1 \in 1..MaxSent
      /\ Len(Held) = count /\ count \in Nat
      /\ \A k \in 1..count : Held[k] \notin (1..MaxSent) \X {"escape"}
  BY <1>1, LineReady, LineRead, LineIs, HeldIs
<1>3. Waiting = Held \o Line /\ Waiting' = Tail(Line) /\ Phase = "running" /\ Phase' = "stopping"
  BY <1>1, <1>2, WaitingIs, PhaseIs DEF Away
<1>4. /\ SubSeq(Waiting, count + 2, Len(Waiting)) = Tail(Line)
      /\ Waiting[count + 1] = Byte(read + 1) /\ Len(Waiting) = count + Len(Line)
      /\ \A i \in 1..count : Waiting[i] = Held[i]
  <2>1. /\ SubSeq(Held \o Line, Len(Held) + 2, Len(Held \o Line)) = Tail(Line)
        /\ (Held \o Line)[Len(Held) + 1] = Head(Line) /\ Len(Held \o Line) = Len(Held) + Len(Line)
        /\ \A i \in 1..Len(Held) : (Held \o Line)[i] = Held[i]
    <3>1. Held \in Seq(AllBytes) /\ Line \in Seq(AllBytes) /\ Line # <<>>
      BY <1>2
    <3>. QED BY ONLY <3>1, PassesOver
  <2>. QED BY <1>2, <1>3, <2>1
<1>5. count + 1 \in 1..Len(Waiting) /\ (count + 1) + 1 = count + 2 /\ (count + 1) - 1 = count
  BY <1>2, <1>4, EmptySeq
<1>6. Waiting[count + 1] \in (1..MaxSent) \X {"escape"}
  BY <1>1, <1>2, <1>4 DEF Byte, Newest
<1>7. Given' = Given
  BY <1>1 DEF Given, Byte
<1>. QED BY <1>2, <1>3, <1>4, <1>5, <1>6, <1>7 DEF Keys!Stop, Given

(* Any other byte joins the queue, or is lost behind a full one. *)
LEMMA PollKeys ==
  ASSUME InputTypeOK, InputTypeOK', RingInv, RingInv', at \notin Away, at' = at,
         Ready, Newest # "escape", read' = read + 1, Enqueue, UNCHANGED <<sent, given>>
  PROVE  Keys!Lose \/ UNCHANGED Keys!vars
<1>1. /\ Held \in Seq(AllBytes) /\ Line \in Seq(AllBytes) /\ Line # <<>>
      /\ Head(Line) = Byte(read + 1) /\ Line' = Tail(Line)
      /\ Len(Held) = count /\ count \in Nat
  BY LineReady, LineRead, LineIs, HeldIs
<1>2. Waiting = Held \o Line /\ Waiting' = Held' \o Tail(Line) /\ Phase = "running" /\ Phase' = "running"
  BY <1>1, WaitingIs, PhaseIs DEF Away
<1>3. Given' = Given
  BY DEF Given, Byte
<1>4. CASE count < Capacity
  <2>1. Held' = Append(Held, Head(Line))
    BY <1>1, <1>4, HeldMore
  <2>2. Waiting' = Waiting
    BY <1>1, <1>2, <2>1, MovesOver
  <2>. QED BY <1>2, <1>3, <2>2 DEF Keys!vars, Given
<1>5. CASE ~(count < Capacity)
  <2>1. count = Capacity
    BY <1>5, ConstantsNat DEF InputTypeOK
  <2>2. Held' = Held
    BY <1>5, HeldKept DEF Enqueue
  <2>3. Waiting' = Keys!RemoveAt(Waiting, Capacity + 1)
    BY <1>1, <1>2, <2>1, <2>2, LosesBehind
  <2>4. Waiting[Capacity + 1] = Byte(read + 1) /\ Len(Waiting) > Capacity
    <3>1. Len(Line) \in Nat \ {0}
      BY <1>1, EmptySeq
    <3>2. Waiting[count + 1] = Byte(read + 1) /\ Len(Waiting) = count + Len(Line)
      BY <1>1, <1>2, PassesOver
    <3>. QED BY <1>1, <2>1, <3>1, <3>2
  <2>5. Byte(read + 1) \notin (1..MaxSent) \X {"escape"}
    BY DEF Byte, Newest
  <2>. QED BY <1>2, <1>3, <2>3, <2>4, <2>5 DEF Keys!Lose, Given
<1>. QED BY <1>4, <1>5

(* KEY gives the program the first of them. *)
LEMMA TakeKeys ==
  ASSUME InputTypeOK, InputTypeOK', RingInv, RingInv', at \notin Away, at' \notin Away,
         TakeKey, UNCHANGED port
  PROVE  Keys!Take
<1>0. sent' = sent /\ Phase = "running" /\ Phase' = "running"
  BY PhaseIs DEF port
<1>1. /\ Held \in Seq(AllBytes) /\ Line \in Seq(AllBytes)
      /\ Waiting = Held \o Line /\ Waiting' = Held' \o Line'
  BY LineIs, HeldIs, WaitingIs DEF Away
<1>2. CASE Dequeue
  <2>1. /\ Held # <<>> /\ Head(Held) = Given' /\ Held' = Tail(Held)
        /\ Head(Held) \notin (1..MaxSent) \X {"escape"}
    BY <1>0, <1>2, HeldFewer
  <2>2. Line' = Line
    BY <1>0, <1>2, LineKept DEF Dequeue
  <2>3. Waiting # <<>> /\ Head(Waiting) = Head(Held) /\ Waiting' = Tail(Waiting)
    BY <1>1, <2>1, <2>2, TakesFirst
  <2>. QED BY <1>0, <2>1, <2>3 DEF Keys!Take, Given
<1>3. CASE /\ count = 0 /\ Ready /\ Newest # "escape"
           /\ read' = read + 1 /\ given' = read + 1 /\ UNCHANGED ring
  <2>1. Held = <<>> /\ Held' = <<>>
    BY <1>3, HeldNone DEF ring
  <2>2. /\ Line # <<>> /\ Head(Line) = Byte(read + 1) /\ Line' = Tail(Line)
        /\ read + 1 \in 1..MaxSent /\ Line' \in Seq(AllBytes)
    BY <1>0, <1>1, <1>3, LineReady, LineRead, HeadTailProperties
  <2>3. Waiting = Line /\ Waiting' = Tail(Line)
    BY <1>1, <2>1, <2>2, ConcatEmptySeq
  <2>4. Given' = Byte(read + 1)
    BY <1>0, <1>3, <2>2 DEF Given, Byte
  <2>5. Byte(read + 1) \notin (1..MaxSent) \X {"escape"}
    BY <1>3 DEF Byte, Newest
  <2>. QED BY <1>0, <2>2, <2>3, <2>4, <2>5 DEF Keys!Take, Given
<1>. QED BY <1>2, <1>3 DEF TakeKey

(* The key that dismisses the closing screen takes the queue with it.      *)
LEMMA LeaveKeys ==
  ASSUME InputTypeOK, InputTypeOK', RingInv, RingInv', at \notin Away, at' = "shell",
         TakeKey, UNCHANGED port
  PROVE  Keys!Leave
<1>0. sent' = sent /\ Phase = "running" /\ Phase' = "shell"
  BY PhaseIs DEF port
<1>1. /\ Held \in Seq(AllBytes) /\ Line \in Seq(AllBytes)
      /\ Waiting = Held \o Line /\ Waiting' = Line' /\ Len(Held) = count /\ count \in Nat
      /\ \A k \in 1..count : Held[k] \notin (1..MaxSent) \X {"escape"}
  BY LineIs, HeldIs, WaitingIs DEF Away
<1>2. CASE Dequeue
  <2>1. Held # <<>> /\ Head(Held) = Given' /\ count \in 1..Capacity
    BY <1>0, <1>2, HeldFewer
  <2>2. Line' = Line
    BY <1>0, <1>2, LineKept DEF Dequeue
  <2>3. /\ Waiting' = SubSeq(Waiting, count + 1, Len(Waiting))
    BY <1>1, <2>2, PassesBy
  <2>4. /\ count <= Len(Waiting) /\ \A i \in 1..count : Waiting[i] = Held[i]
    <3>1. /\ Len(Waiting) = count + Len(Line) /\ Len(Line) \in Nat
          /\ \A i \in 1..count + Len(Line) : Waiting[i] = IF i <= count THEN Held[i] ELSE Line[i - count]
      <4>1. /\ Len(Held \o Line) = Len(Held) + Len(Line)
            /\ \A i \in 1..Len(Held) + Len(Line) :
                 (Held \o Line)[i] = IF i <= Len(Held) THEN Held[i] ELSE Line[i - Len(Held)]
        BY <1>1, ConcatProperties
      <4>. QED BY <1>1, <4>1, LenProperties
    <3>. QED BY <1>1, <3>1
  <2>5. Waiting[1] = Given'
    <3>1. Waiting[1] = Held[1] /\ Held[1] = Head(Held)
      BY <1>1, <2>1, <2>4
    <3>. QED BY <2>1, <3>1
  <2>. QED BY <1>0, <1>1, <2>1, <2>3, <2>4, <2>5 DEF Keys!Leave, Given
<1>3. CASE /\ count = 0 /\ Ready /\ Newest # "escape"
           /\ read' = read + 1 /\ given' = read + 1 /\ UNCHANGED ring
  <2>1. Held = <<>>
    BY <1>3, HeldNone
  <2>2. /\ Line # <<>> /\ Head(Line) = Byte(read + 1) /\ Line' = Tail(Line)
        /\ read + 1 \in 1..MaxSent /\ Len(Line) \in Nat \ {0}
    BY <1>0, <1>1, <1>3, LineReady, LineRead, EmptySeq
  <2>3. Waiting = Line /\ Waiting' = Tail(Line)
    BY <1>1, <2>1, <2>2, ConcatEmptySeq
  <2>4. Given' = Byte(read + 1)
    BY <1>0, <1>3, <2>2 DEF Given, Byte
  <2>5. Byte(read + 1) \notin (1..MaxSent) \X {"escape"}
    BY <1>3 DEF Byte, Newest
  <2>6. Tail(Line) = SubSeq(Line, 1 + 1, Len(Line)) /\ Line[1] = Byte(read + 1)
    <3>1. Tail(Line) = SubSeq(Line, 2, Len(Line)) /\ 1 + 1 = 2
      BY <1>1, <2>2, TailIsSubSeq
    <3>2. Head(Line) = Line[1]
      BY <1>1, <2>2
    <3>. QED BY <2>2, <3>1, <3>2
  <2>7. 1 \in 1..Capacity /\ 1 <= Len(Line) /\ \A i \in 1..1 : Line[i] \notin (1..MaxSent) \X {"escape"}
    BY <2>2, <2>5, <2>6, ConstantsNat
  <2>. QED BY <1>0, <2>3, <2>4, <2>6, <2>7 DEF Keys!Leave, Given
<1>. QED BY <1>2, <1>3 DEF TakeKey

(* serial_discard_input. *)
LEMMA DropKeys ==
  ASSUME InputTypeOK, InputTypeOK', at \in {"discard", "drain"}, at' \in {"discard", "drain"},
         Ready, read' = read + 1, UNCHANGED <<sent, given>>
  PROVE  Keys!Drop
<1>1. Waiting = Line /\ Waiting' = Line' /\ Phase = "stopping" /\ Phase' = "stopping"
  BY WaitingIs, PhaseIs
<1>2. Line # <<>> /\ Line' = Tail(Line)
  BY LineReady, LineRead
<1>3. Given' = Given
  BY DEF Given, Byte
<1>. QED BY <1>1, <1>2, <1>3 DEF Keys!Drop, Given

LEMMA StoppedKeys ==
  ASSUME Drain, ~Ready
  PROVE  Keys!Stopped
<1>1. at = "drain" /\ at' = "shell" /\ UNCHANGED <<sent, read, given>>
  BY DEF Drain, port, history
<1>2. Waiting = Line /\ Waiting' = Line /\ Phase = "stopping" /\ Phase' = "shell"
  BY <1>1, WaitingIs, PhaseIs, LineKept
<1>3. Given' = Given
  BY <1>1 DEF Given, Byte
<1>. QED BY <1>2, <1>3 DEF Keys!Stopped, Given

LEMMA NextKeys ==
  InputTypeOK /\ InputTypeOK' /\ RingInv /\ RingInv' /\ GivenRead /\ [Next]_vars
    => [Keys!Next]_(Keys!vars)
<1>. SUFFICES ASSUME InputTypeOK, InputTypeOK', RingInv, RingInv', GivenRead, [Next]_vars
              PROVE  Keys!Next \/ UNCHANGED Keys!vars
  OBVIOUS
<1>1. CASE \E kind \in Kinds : Send(kind)
  BY <1>1, SendKeys DEF Keys!Next
<1>2. CASE ShellReads
  BY <1>2, ShellKeys DEF Keys!Next
<1>3. CASE Start
  BY <1>3, StartKeys DEF Keys!Next
<1>4. CASE PollByte
  <2>1. at \notin Away /\ UNCHANGED port /\ Ready
    BY <1>4 DEF PollByte, Away, Polls
  <2>2. CASE Stop
    BY <2>1, <2>2, StopKeys DEF Keys!Next
  <2>3. CASE ~Stop
    <3>1. /\ Newest # "escape" /\ read' = read + 1 /\ Enqueue /\ at' = at /\ UNCHANGED <<sent, given>>
      BY <1>4, <2>1, <2>3 DEF PollByte, history, port
    <3>. QED BY <2>1, <3>1, PollKeys DEF Keys!Next
  <2>. QED BY <2>2, <2>3
<1>5. CASE Key
  <2>1. at \notin Away /\ UNCHANGED port
    BY <1>5 DEF Key, Away
  <2>2. CASE Stop
    BY <2>1, <2>2, StopKeys DEF Keys!Next
  <2>3. CASE ~Stop
    <3>1. /\ TakeKey \/ UNCHANGED <<read, ring, given>>
          /\ at' = "next"
      BY <1>5, <2>3 DEF Key
    <3>2. at' \notin Away /\ Phase = "running" /\ Phase' = "running"
      BY <2>1, <3>1, PhaseIs DEF Away
    <3>. QED BY <2>1, <3>1, <3>2, TakeKeys, KeysLeft DEF Keys!Next, port
  <2>. QED BY <2>2, <2>3
<1>6. CASE ReadKey
  <2>1. at \notin Away /\ UNCHANGED port
    BY <1>6 DEF ReadKey, Away
  <2>2. CASE Stop
    BY <2>1, <2>2, StopKeys DEF Keys!Next
  <2>3. CASE ~Stop
    <3>1. TakeKey /\ at' = "shell"
      BY <1>6, <2>3 DEF ReadKey
    <3>. QED BY <2>1, <3>1, LeaveKeys DEF Keys!Next
  <2>. QED BY <2>2, <2>3
<1>7. CASE Discard \/ Drain
  <2>1. /\ at \in {"discard", "drain"} /\ UNCHANGED <<sent, ring, given>>
        /\ at' \in {"discard", "drain"} \/ (Drain /\ ~Ready)
        /\ (Ready /\ read' = read + 1) \/ (~Ready /\ read' = read)
    BY <1>7 DEF Discard, Drain, port, history, discard
  <2>2. CASE Drain /\ ~Ready
    BY <2>2, StoppedKeys DEF Keys!Next
  <2>3. CASE at' \in {"discard", "drain"} /\ Ready
    BY <2>1, <2>3, DropKeys DEF Keys!Next
  <2>4. CASE at' \in {"discard", "drain"} /\ ~Ready
    <3>1. Phase = "stopping" /\ Phase' = "stopping" /\ at \in Away /\ at' \in Away
      BY <2>1, <2>4, PhaseIs DEF Away
    <3>. QED BY <2>1, <2>4, <3>1, KeysLeft
  <2>. QED BY <2>1, <2>2, <2>3, <2>4
<1>8. CASE Tick \/ Begin \/ PollDone \/ Other \/ End \/ Wait \/ WaitChecks
  <2>1. /\ UNCHANGED <<sent, read, ring, given>>
        /\ at' = at \/ (at \notin Away /\ at' \notin Away)
    BY <1>8 DEF Tick, Begin, PollDone, Other, End, Wait, WaitChecks, Away, port, history
  <2>2. Phase' = Phase
    BY <2>1 DEF Phase, Away
  <2>. QED BY <2>1, <2>2, KeysLeft
<1>9. CASE UNCHANGED vars
  <2>1. UNCHANGED <<sent, read, ring, given>> /\ at' = at
    BY <1>9 DEF vars, ring
  <2>2. Phase' = Phase
    BY <2>1 DEF Phase
  <2>. QED BY <2>1, <2>2, KeysLeft
<1>. QED BY <1>1, <1>2, <1>3, <1>4, <1>5, <1>6, <1>7, <1>8, <1>9 DEF Next, World, Interpreter

(* Keys reach the program in the order typed, one is lost only behind a    *)
(* full queue and Escape never arrives, for every size of the queue, any   *)
(* number of keys and whatever the program does.                           *)
THEOREM KeyboardImplemented == Spec => ImplementsKeyboard
<1>1. Init => Keys!Init
  <2>. SUFFICES ASSUME Init PROVE Keys!Init
    OBVIOUS
  <2>1. InputTypeOK /\ at = "shell" /\ given = 0 /\ sent = <<>> /\ read = 0
    BY InitTypes DEF Init
  <2>2. Left = 0
    BY <2>1 DEF Left
  <2>3. Line = <<>>
    BY <2>2 DEF Line
  <2>4. Waiting = <<>> /\ Phase = "shell" /\ Given = <<>>
    BY <2>1, <2>3, WaitingIs, PhaseIs DEF Given
  <2>. QED BY <2>4 DEF Keys!Init, Given
<1>. QED
  BY <1>1, NextKeys, InputTypeCorrect, RingAlways, GivenAlways, PTL
  DEF Spec, ImplementsKeyboard, Keys!Spec

=============================================================================
