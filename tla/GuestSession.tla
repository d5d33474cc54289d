-------------------------- MODULE GuestSession --------------------------
(***************************************************************************)
(* tools/qemu_guest.py and its callers: a Python program that drives a     *)
(* guest over QEMU's serial console.  Everything is a line sent and an     *)
(* answer searched for in what the console printed behind the last match:  *)
(* the prompts of the opening (login, or nix> and a shell), then the       *)
(* commands, each of which prints a marker with its exit status, then      *)
(* poweroff.  Line n brings answer n + 1; answer 1 comes by itself.  The   *)
(* console also echoes what is sent.  The guest may be slow, QEMU may die. *)
(***************************************************************************)
EXTENDS Naturals, Sequences

CONSTANTS
  Prompts,   \* how many answers are prompts
  Commands   \* how many commands follow

ASSUME SessionAssumption == Prompts \in Nat \ {0} /\ Commands \in Nat \ {0}

VARIABLES
  host,     \* what the program does next
  step,     \* the number of the answer it looks for
  failed,   \* an exception is on its way
  console,  \* what was printed behind the cursor
  lines,    \* sent lines the guest has not read
  busy,     \* the line the guest is working on, or Idle
  qemu,     \* "running", or how it ended: "exit", "died" or "killed"
  ran       \* the lines the guest has carried out, with their exit status

sessionVars == <<host, step, failed, console, lines, busy, qemu, ran>>

PowerOff == Prompts + Commands  \* the last line
Booting == 0                    \* busy: the guest will print answer 1
Idle == PowerOff + 1
Line == 1 .. PowerOff
IsCommand(n) == n \in Prompts .. PowerOff - 1

Answer(n, s) ==
  [kind |-> IF n <= Prompts THEN "prompt" ELSE IF n <= PowerOff THEN "done" ELSE "down",
   of |-> n, status |-> s]
Echo(n) == [kind |-> "echo", of |-> n, status |-> 0]

SessionInit ==
  /\ host = "expect" /\ step = 1 /\ failed = FALSE
  /\ console = <<>> /\ lines = <<>> /\ busy = Booting
  /\ qemu = "running" /\ ran = {}

-----------------------------------------------------------------------------
(* expect *)

(* Mutant: the marker of a command is looked for without its exit status,    *)
(* so that the echo of the line that prints it will do.                      *)
Matches_Echo(token) ==
  \/ token.kind = Answer(step, 0).kind
  \/ token.kind = "echo" /\ IsCommand(step - 1)

Matches(token) == token.kind = Answer(step, 0).kind

Found == {i \in 1 .. Len(console) : Matches(console[i])}

First == CHOOSE i \in Found : \A j \in Found : i <= j

Rest == SubSeq(console, First + 1, Len(console))

Eof == qemu # "running" /\ Found = {}

(* An answer is there: the next line is sent, or the caller goes on.         *)
(* run() looks at the status; shutdown() then waits for QEMU.                *)
Expect ==
  /\ host = "expect" /\ Found # {}
  /\ console' = Rest
  /\ IF step > PowerOff
     THEN host' = "wait" /\ UNCHANGED <<step, failed, lines>>
     ELSE IF console[First].status = 0
          THEN /\ lines' = Append(lines, step) /\ step' = step + 1
               /\ UNCHANGED <<host, failed>>
          ELSE failed' = TRUE /\ host' = "raise" /\ UNCHANGED <<step, lines>>
  /\ UNCHANGED <<busy, qemu, ran>>

(* The deadline has passed, or the console has ended.  poweroff may be       *)
(* answered on the screen only: QEMU's clean exit is then enough.            *)
GiveUp ==
  /\ host = "expect" /\ Found = {}
  /\ IF step > PowerOff /\ Eof /\ qemu = "exit"
     THEN host' = "close" /\ UNCHANGED failed
     ELSE host' = "raise" /\ failed' = TRUE
  /\ UNCHANGED <<step, console, lines, busy, qemu, ran>>

(* import_files sends poweroff also when its command failed ("finally"); the *)
(* others leave the guest at once.                                           *)
Raised ==
  /\ host = "raise"
  /\ IF IsCommand(step - 1) /\ qemu = "running"
     THEN \/ /\ step' = PowerOff + 1 /\ lines' = Append(lines, PowerOff)
             /\ host' = "expect"
          \/ host' = "close" /\ UNCHANGED <<step, lines>>
     ELSE host' = "close" /\ UNCHANGED <<step, lines>>
  /\ UNCHANGED <<failed, console, busy, qemu, ran>>

(* shutdown waits 30 s for QEMU and looks at its exit status. *)
Wait ==
  /\ host = "wait"
  /\ host' = "close"
  /\ failed' = (failed \/ qemu # "exit")
  /\ UNCHANGED <<step, console, lines, busy, qemu, ran>>

(* __exit__: terminate, and kill after 10 s. *)
Close ==
  /\ host = "close"
  /\ host' = "closed"
  /\ qemu' = IF qemu = "running" THEN "killed" ELSE qemu
  /\ UNCHANGED <<step, failed, console, lines, busy, ran>>

HostNext == Expect \/ GiveUp \/ Raised \/ Wait \/ Close

-----------------------------------------------------------------------------
(* The guest. *)

Boots ==
  /\ qemu = "running" /\ busy = Booting
  /\ console' = Append(console, Answer(1, 0)) /\ busy' = Idle
  /\ UNCHANGED <<host, step, failed, lines, qemu, ran>>

Reads ==
  /\ qemu = "running" /\ busy = Idle /\ lines # <<>>
  /\ busy' = Head(lines) /\ lines' = Tail(lines)
  /\ console' = Append(console, Echo(Head(lines)))
  /\ UNCHANGED <<host, step, failed, qemu, ran>>

(* A command's shell prints the marker with the status of the command. *)
Answers(status) ==
  /\ qemu = "running" /\ busy \in Line \ {PowerOff}
  /\ IsCommand(busy) \/ status = 0
  /\ console' = Append(console, Answer(busy + 1, status))
  /\ ran' = ran \cup {<<busy, status>>} /\ busy' = Idle
  /\ UNCHANGED <<host, step, failed, lines, qemu>>

(* poweroff: the message may go to the screen only. *)
Halts ==
  /\ qemu = "running" /\ busy = PowerOff
  /\ console' \in {console, Append(console, Answer(PowerOff + 1, 0))}
  /\ qemu' = "exit" /\ ran' = ran \cup {<<PowerOff, 0>>}
  /\ UNCHANGED <<host, step, failed, lines, busy>>

Dies ==
  /\ qemu = "running"
  /\ qemu' = "died"
  /\ UNCHANGED <<host, step, failed, console, lines, busy, ran>>

GuestNext == Boots \/ Reads \/ (\E status \in {0, 1} : Answers(status)) \/ Halts \/ Dies

SessionNext == HostNext \/ GuestNext

SessionSpec == SessionInit /\ [][SessionNext]_sessionVars

-----------------------------------------------------------------------------

(* A session that ends without an exception ran every line, each command     *)
(* with status 0 and no line out of turn, and the guest powered itself off;  *)
(* however a session ends, no QEMU outlives it to keep the disk locked.      *)
SessionTrue ==
  host = "closed" =>
    /\ qemu # "running"
    /\ ~failed => qemu = "exit" /\ ran = Line \X {0}

=============================================================================
