-------------------------- MODULE BasicInputProps ---------------------------
(***************************************************************************)
(* Properties of BasicInput.                                               *)
(***************************************************************************)
EXTENDS BasicInput

(* What waits in key_queue, oldest first. *)
Queued == [i \in 1..count |-> queue[(head + i - 1) % Capacity]]

(* The ring of basic_poll_input, basic_try_key and basic_read_key: the     *)
(* three registers agree, what is queued was read in that order, and no    *)
(* Escape is among it.                                                     *)
RingInv ==
  /\ tail = (head + count) % Capacity
  /\ \A i \in 1..count : Queued[i] \in 1..read /\ sent[Queued[i]] # "escape"
  /\ \A i, j \in 1..count : i < j => Queued[i] < Queued[j]

(* WAIT (basic_wait) ends with the first look at the clock that finds the  *)
(* whole time gone, midnight or not, and never before.                     *)
WaitInTime ==
  [][WaitChecks => (at' = "next" <=> waited >= duration)]_vars

(* The bytes a terminal sends after the Escape that stopped the program,   *)
(* for the same key, are no input of the shell (serial_discard_input).     *)
SuffixKeptOut ==
  [][ShellReads => ~(stopper # 0 /\ read' = stopper + 1 /\ sent[read'] = "suffix")]_vars

EscapeWaits == \E i \in read + 1..Len(sent) : sent[i] = "escape"

(* Escape typed while a program runs brings the shell back, whatever the   *)
(* program does and however full the queue is.                             *)
EscapeStops == (at # "shell" /\ EscapeWaits) ~> (at = "shell")

(* A program cannot run on without waiting, not even one that polls KEY:   *)
(* the watchdog ends it.                                                   *)
Yields == []<>(at \in {"asleep", "screen", "shell"})

Byte(i) == <<i, sent[i]>>

(* The keys as the user knows them. *)
Waiting ==
  LET line == [k \in 1..Len(sent) - read |-> Byte(read + k)]
  IN  IF at \in {"shell", "discard", "drain"} THEN line
      ELSE [k \in 1..count |-> Byte(Queued[k])] \o line

Phase ==
  CASE at = "shell" -> "shell"
    [] at \in {"discard", "drain"} -> "stopping"
    [] OTHER -> "running"

Keys == INSTANCE Keyboard WITH
  Bytes <- (1..MaxSent) \X Kinds, Escapes <- (1..MaxSent) \X {"escape"},
  waiting <- Waiting, phase <- Phase,
  given <- IF given = 0 THEN <<>> ELSE Byte(given)

(* Keys reach the program in order and are lost only behind a full queue,  *)
(* and Escape never reaches it.                                            *)
ImplementsKeyboard == Keys!Spec

=============================================================================
