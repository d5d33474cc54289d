------------------------------ MODULE Keyboard ------------------------------
(***************************************************************************)
(* What src/basic.asm promises of the keys typed while a program runs: they *)
(* reach the program in the order typed, one is lost only while Capacity   *)
(* others are waiting before it, Escape is never shown to the program, and *)
(* what is typed on after the program has gone is the shell's.             *)
(***************************************************************************)
EXTENDS Naturals, Sequences, SequencesExt

CONSTANTS
  Bytes,     \* the bytes a terminal sends
  Escapes,   \* those of them that are Escape
  Capacity   \* how many keys may wait

VARIABLES
  waiting,   \* bytes sent and neither taken nor lost
  phase,     \* "shell", "running", "stopping" after an Escape
  given      \* the byte the program or the shell got last, or <<>>

vars == <<waiting, phase, given>>

Init == waiting = <<>> /\ phase = "shell" /\ given = <<>>

Send(b) == waiting' = Append(waiting, b) /\ UNCHANGED <<phase, given>>

Start == phase = "shell" /\ phase' = "running" /\ UNCHANGED <<waiting, given>>

Take ==
  /\ waiting # <<>> /\ phase # "stopping"
  /\ phase = "running" => Head(waiting) \notin Escapes
  /\ given' = Head(waiting) /\ waiting' = Tail(waiting)
  /\ UNCHANGED phase

(* A byte discarded while the program is being stopped. *)
Drop ==
  /\ phase = "stopping" /\ waiting # <<>>
  /\ waiting' = Tail(waiting)
  /\ UNCHANGED <<phase, given>>

(* The bytes before the lost one fill the queue. *)
Lose ==
  /\ phase = "running" /\ Len(waiting) > Capacity
  /\ waiting[Capacity + 1] \notin Escapes
  /\ waiting' = RemoveAt(waiting, Capacity + 1)
  /\ UNCHANGED <<phase, given>>

(* The first Escape takes what was typed before it along. *)
Stop ==
  /\ phase = "running" /\ phase' = "stopping"
  /\ \E i \in 1..Len(waiting) :
       /\ waiting[i] \in Escapes
       /\ \A j \in 1..i - 1 : waiting[j] \notin Escapes
       /\ waiting' = SubSeq(waiting, i + 1, Len(waiting))
  /\ UNCHANGED given

Stopped == phase = "stopping" /\ phase' = "shell" /\ UNCHANGED <<waiting, given>>

(* The program has ended and one key dismisses its screen; those that were *)
(* waiting with it go too.                                                 *)
Leave ==
  /\ phase = "running" /\ phase' = "shell"
  /\ \E n \in 1..Capacity :
       /\ n <= Len(waiting) /\ given' = waiting[1]
       /\ \A i \in 1..n : waiting[i] \notin Escapes
       /\ waiting' = SubSeq(waiting, n + 1, Len(waiting))

Next ==
  \/ \E b \in Bytes : Send(b)
  \/ Start \/ Take \/ Drop \/ Lose \/ Stop \/ Stopped \/ Leave

Spec == Init /\ [][Next]_vars

=============================================================================
