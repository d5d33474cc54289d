----------------------------- MODULE BasicInput -----------------------------
(***************************************************************************)
(* The input side of the BASIC interpreter (src/basic.asm): the key queue  *)
(* and its polling, KEY, WAIT, Escape with the bytes that belong to it, the *)
(* statement watchdog, the closing screen.  The program is any program: a  *)
(* sequence of statements of which only KEY, WAIT and END are told apart.  *)
(*                                                                         *)
(* The terminal and the timer are the world: bytes arrive and ticks pass   *)
(* between any two steps.  The serial line keeps what is not yet read.     *)
(* Registers that are written before they are read again are 0 meanwhile.  *)
(***************************************************************************)
EXTENDS Naturals, Sequences

CONSTANTS
  Capacity,   \* KEY_QUEUE_CAPACITY
  Reload,     \* WATCHDOG_RELOAD
  Day,        \* ticks from midnight to midnight
  MaxWait,    \* the longest WAIT
  MaxSent     \* bound: bytes a terminal sends in a behaviour

ASSUME InputAssumption ==
  /\ Capacity \in Nat \ {0} /\ Reload \in Nat \ {0}
  /\ MaxWait \in Nat \ {0} /\ MaxSent \in Nat
  /\ Day \in Nat /\ MaxWait + 1 < Day

VARIABLES
  sent,       \* what each byte sent so far is
  read,       \* how many of them have been read from the port
  age,        \* ticks since the last byte was sent, 2 for more
  queue, head, tail, count,   \* key_queue: numbers of bytes
  at,         \* where the interpreter is
  steps,      \* basic_steps
  now,        \* the BIOS tick counter
  start, duration,            \* wait_start, wait_duration
  waited,     \* history: ticks since WAIT began
  seen, turns,                \* BX and BP of serial_discard_input
  stopper,    \* history: the Escape that stopped the program last, or 0
  given       \* history: the byte the program or the shell got last, or 0

port == <<sent, age>>
ring == <<queue, head, tail, count>>
clock == <<start, duration, waited>>
discard == <<seen, turns>>
history == <<stopper, given>>
vars == <<sent, read, age, queue, head, tail, count, at, steps, now, start,
          duration, waited, seen, turns, stopper, given>>

Kinds == {"key", "escape", "suffix"}

Slots == 0..Capacity - 1

InputTypeOK ==
  /\ sent \in Seq(Kinds) /\ Len(sent) <= MaxSent
  /\ read \in 0..Len(sent) /\ age \in 0..2
  /\ queue \in [Slots -> 0..MaxSent] /\ head \in Slots /\ tail \in Slots
  /\ count \in 0..Capacity
  /\ at \in {"shell", "next", "statement", "execute", "asleep", "woken", "screen", "discard", "drain"}
  /\ steps \in 0..Reload /\ (at \in {"next", "statement", "execute", "asleep", "woken"} => steps > 0)
  /\ now \in 0..Day - 1 /\ start \in 0..Day - 1 /\ duration \in 0..MaxWait
  /\ waited \in 0..Day - 1
  /\ seen \in 0..Day - 1 /\ turns \in 0..2 /\ (at = "discard" => turns > 0)
  /\ stopper \in 0..MaxSent /\ given \in 0..MaxSent

Init ==
  /\ sent = <<>> /\ read = 0 /\ age = 2
  /\ queue = [i \in Slots |-> 0] /\ head = 0 /\ tail = 0 /\ count = 0
  /\ at = "shell" /\ steps = 0
  /\ now \in 0..Day - 1 /\ start = 0 /\ duration = 0 /\ waited = 0
  /\ seen = 0 /\ turns = 0 /\ stopper = 0 /\ given = 0

-----------------------------------------------------------------------------
(* The world. *)

(* A terminal sends the rest of a key sequence within one tick's time.     *)
Send(kind) ==
  /\ Len(sent) < MaxSent
  /\ kind = "suffix" => sent # <<>> /\ sent[Len(sent)] = "escape" /\ age < 2
  /\ sent' = Append(sent, kind) /\ age' = 0
  /\ UNCHANGED <<read, ring, at, steps, now, clock, discard, history>>

(* int 1ah's counter.  It wakes the hlt of basic_wait.  Less than a day    *)
(* goes by between two looks at it.                                        *)
Tick ==
  /\ at \in {"asleep", "woken"} => waited < Day - 1
  /\ now' = (now + 1) % Day
  /\ age' = IF age < 2 THEN age + 1 ELSE 2
  /\ waited' = IF at \in {"asleep", "woken"} THEN waited + 1 ELSE waited
  /\ at' = IF at = "asleep" THEN "woken" ELSE at
  /\ UNCHANGED <<sent, read, ring, steps, start, duration, discard, history>>

(* The shell's own reading, and `run' entering the interpreter.            *)
ShellReads ==
  /\ at = "shell" /\ read < Len(sent)
  /\ read' = read + 1 /\ given' = read + 1
  /\ UNCHANGED <<port, ring, at, steps, now, clock, discard, stopper>>

Start ==
  /\ at = "shell"
  /\ at' = "next" /\ steps' = Reload
  /\ head' = 0 /\ tail' = 0 /\ count' = 0 /\ stopper' = 0
  /\ UNCHANGED <<port, read, queue, now, clock, discard, given>>

-----------------------------------------------------------------------------
(* serial_try_read, the queue, basic_poll_input. *)

Ready == read < Len(sent)

Newest == sent[read + 1]

ClockUnused == start' = 0 /\ duration' = 0 /\ waited' = 0

(* Escape: serial_discard_input begins.                                    *)
Stop ==
  /\ Ready /\ Newest = "escape" /\ read' = read + 1
  /\ at' = "discard" /\ seen' = now /\ turns' = 2 /\ stopper' = read + 1
  /\ steps' = 0 /\ ClockUnused
  /\ UNCHANGED <<ring, now, given>>

(* Mutant: the index of the next free place is not wrapped. *)
Wrap_Late(i) == i % (Capacity + 1)

Wrap(i) == i % Capacity

(* Mutant: a full queue takes a key over its oldest one. *)
Enqueue_OverOldest ==
  /\ queue' = [queue EXCEPT ![tail] = read + 1]
  /\ tail' = Wrap(tail + 1)
  /\ IF count < Capacity THEN count' = count + 1 /\ UNCHANGED head
                         ELSE head' = Wrap(head + 1) /\ UNCHANGED count

Enqueue ==
  IF count < Capacity
  THEN /\ queue' = [queue EXCEPT ![tail] = read + 1]
       /\ tail' = Wrap(tail + 1) /\ count' = count + 1
       /\ UNCHANGED head
  ELSE UNCHANGED ring

(* Mutant: the key taken still counts as queued. *)
Dequeue_StillCounted ==
  /\ count > 0
  /\ given' = queue[head] /\ head' = Wrap(head + 1)
  /\ UNCHANGED <<read, queue, tail, count>>

Dequeue ==
  /\ count > 0
  /\ given' = queue[head] /\ head' = Wrap(head + 1) /\ count' = count - 1
  /\ UNCHANGED <<read, queue, tail>>

(* basic_try_key and basic_read_key: the queue first, then a byte that has *)
(* just come.                                                              *)
TakeKey ==
  \/ Dequeue
  \/ /\ count = 0 /\ Ready /\ Newest # "escape"
     /\ read' = read + 1 /\ given' = read + 1
     /\ UNCHANGED ring

(* Mutant: with the queue full, nothing is read from the port any more. *)
Polls_WhileRoom == Ready /\ count < Capacity

(* basic_poll_input reads on while there is something to read. *)
Polls == Ready

Begin ==
  /\ at = "next" /\ at' = "statement"
  /\ UNCHANGED <<port, read, ring, steps, now, clock, discard, history>>

PollByte ==
  /\ at \in {"statement", "woken"} /\ Polls
  /\ \/ Stop
     \/ /\ Newest # "escape" /\ read' = read + 1 /\ Enqueue
        /\ UNCHANGED <<at, steps, now, clock, discard, history>>
  /\ UNCHANGED port

(* Nothing more to read before a statement: the watchdog counts it.        *)
PollDone ==
  /\ at = "statement" /\ ~Polls
  /\ steps' = steps - 1
  /\ at' = IF steps' = 0 THEN "screen" ELSE "execute"
  /\ UNCHANGED <<port, read, ring, now, clock, discard, history>>

-----------------------------------------------------------------------------
(* The statements. *)

(* Any that neither reads keys nor waits.                                  *)
Other ==
  /\ at = "execute" /\ at' = "next"
  /\ UNCHANGED <<port, read, ring, steps, now, clock, discard, history>>

(* END and every error; also, before another statement is polled for, the  *)
(* end of the source, source that is not valid, and a line without number. *)
End ==
  /\ at \in {"next", "execute"} /\ at' = "screen" /\ steps' = 0
  /\ UNCHANGED <<port, read, ring, now, clock, discard, history>>

(* Mutant: a program that polls KEY counts as one that waits. *)
AfterKey_Reload == steps' = Reload

AfterKey == UNCHANGED steps

(* basic_try_key answers 0 when there is no key. *)
Key ==
  /\ at = "execute"
  /\ \/ /\ TakeKey \/ (count = 0 /\ ~Ready /\ UNCHANGED <<read, ring, given>>)
        /\ at' = "next" /\ AfterKey
        /\ UNCHANGED <<now, clock, discard, stopper>>
     \/ count = 0 /\ Stop
  /\ UNCHANGED port

Wait ==
  /\ at = "execute" /\ at' = "asleep"
  /\ duration' \in 1..MaxWait /\ start' = now /\ waited' = 0
  /\ UNCHANGED <<port, read, ring, steps, now, discard, history>>

(* Mutant: midnight is not seen, and a negative difference is a long time. *)
Elapsed_NoMidnight == IF now >= start THEN now - start ELSE Day

Elapsed == IF now >= start THEN now - start ELSE now + Day - start

WaitChecks ==
  /\ at = "woken" /\ ~Polls
  /\ IF Elapsed < duration
     THEN at' = "asleep" /\ UNCHANGED <<steps, clock>>
     ELSE at' = "next" /\ steps' = Reload /\ ClockUnused
  /\ UNCHANGED <<port, read, ring, now, discard, history>>

-----------------------------------------------------------------------------
(* basic_read_key on the closing screen, and serial_discard_input. *)

ReadKey ==
  /\ at = "screen"
  /\ \/ /\ TakeKey
        /\ at' = "shell" /\ UNCHANGED <<steps, now, clock, discard, stopper>>
     \/ count = 0 /\ Stop
  /\ UNCHANGED port

(* Mutant: one transition of the counter is enough. *)
Turn_Once == turns' = 0

Turn == turns' = turns - 1

(* One turn of the loop: a byte if there is one, then the counter.         *)
Discard ==
  /\ at = "discard"
  /\ read' = IF Ready THEN read + 1 ELSE read
  /\ IF now = seen
     THEN UNCHANGED <<at, discard>>
     ELSE /\ Turn
          /\ seen' = IF turns' = 0 THEN 0 ELSE now
          /\ at' = IF turns' = 0 THEN "drain" ELSE "discard"
  /\ UNCHANGED <<port, ring, steps, now, clock, history>>

Drain ==
  /\ at = "drain"
  /\ IF Ready THEN read' = read + 1 /\ UNCHANGED at
              ELSE at' = "shell" /\ UNCHANGED read
  /\ UNCHANGED <<port, ring, steps, now, clock, discard, history>>

-----------------------------------------------------------------------------

Interpreter ==
  \/ Begin \/ PollByte \/ PollDone \/ Other \/ End \/ Key \/ Wait \/ WaitChecks
  \/ ReadKey \/ Discard \/ Drain

World == (\E kind \in Kinds : Send(kind)) \/ Tick \/ ShellReads \/ Start

Next == World \/ Interpreter

Spec == Init /\ [][Next]_vars

(* The processor runs the interpreter, and the timer ticks.  The loop of   *)
(* serial_discard_input looks at the clock many times a tick: it does not  *)
(* look only when the counter has come round to the same value.            *)
FairSpec == Spec /\ WF_vars(Interpreter) /\ WF_vars(Tick) /\ SF_vars(Discard)

=============================================================================
