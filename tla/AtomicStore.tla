-------------------------- MODULE AtomicStore --------------------------
(***************************************************************************)
(* What the legacy file store promises, without slots, sectors or          *)
(* checksums.  The user sees the files in `mem'; a reboot would show the   *)
(* files in `stable'.  An operation takes effect in both at once, or the   *)
(* user is told that it failed and `mem' is what it was.  Only while an    *)
(* operation is being saved may `stable' move, and then only to the files  *)
(* before the operation or the files after it, never to a mixture.         *)
(***************************************************************************)
EXTENDS Naturals, FiniteSets, Functions

CONSTANTS
  Names,     \* file names
  Values,    \* file contents
  Capacity   \* how many files the directory holds

VARIABLES
  mem,       \* the files the user sees
  attempt,   \* the files the operation in progress will leave
  stable,    \* the files a reboot would show
  phase,     \* "down", "up" or "saving"
  answer     \* what the user was last told

vars == <<mem, attempt, stable, phase, answer>>

NoFiles == [n \in {} |-> {}]

FileMaps ==
  UNION {[S -> Values] : S \in {T \in SUBSET Names : Cardinality(T) <= Capacity}}

TypeOK ==
  /\ mem \in FileMaps
  /\ attempt \in FileMaps
  /\ stable \in FileMaps
  /\ phase \in {"down", "up", "saving"}
  /\ answer \in {"none", "ok", "full", "failed"}

Init ==
  /\ stable \in FileMaps
  /\ mem = NoFiles
  /\ attempt = NoFiles
  /\ phase = "down"
  /\ answer = "none"

Recover ==
  /\ phase = "down"
  /\ phase' = "up"
  /\ mem' = stable
  /\ UNCHANGED <<attempt, stable, answer>>

With(files, n, v) == [m \in DOMAIN files \cup {n} |-> IF m = n THEN v ELSE files[m]]

Begin(files) ==
  /\ phase' = "saving"
  /\ attempt' = files
  /\ answer' = "none"
  /\ UNCHANGED <<mem, stable>>

Put(n, v) ==
  /\ phase = "up"
  /\ n \in DOMAIN mem \/ Cardinality(DOMAIN mem) < Capacity
  /\ Begin(With(mem, n, v))

Remove(n) ==
  /\ phase = "up"
  /\ n \in DOMAIN mem
  /\ Begin(Restrict(mem, DOMAIN mem \ {n}))

Refuse(n) ==
  /\ phase = "up"
  /\ n \notin DOMAIN mem
  /\ Cardinality(DOMAIN mem) >= Capacity
  /\ answer' = "full"
  /\ UNCHANGED <<mem, attempt, stable, phase>>

Settle ==
  /\ phase = "saving"
  /\ stable' \in {mem, attempt}
  /\ UNCHANGED <<mem, attempt, phase, answer>>

Finish(files, reply) ==
  /\ phase = "saving"
  /\ phase' = "up"
  /\ mem' = files
  /\ attempt' = NoFiles
  /\ answer' = reply

Ack == Finish(attempt, "ok") /\ stable' = attempt

Nack == Finish(mem, "failed") /\ stable' \in {stable, mem, attempt}

PowerLoss ==
  /\ phase # "down"
  /\ stable' \in IF phase = "saving" THEN {stable, mem, attempt} ELSE {stable}
  /\ phase' = "down"
  /\ mem' = NoFiles
  /\ attempt' = NoFiles
  /\ answer' = "none"

Next ==
  \/ Recover
  \/ \E n \in Names, v \in Values : Put(n, v)
  \/ \E n \in Names : Remove(n) \/ Refuse(n)
  \/ Settle
  \/ Ack
  \/ Nack
  \/ PowerLoss

Spec == Init /\ [][Next]_vars

=============================================================================
