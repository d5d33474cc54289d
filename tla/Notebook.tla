----------------------------- MODULE Notebook -----------------------------
(***************************************************************************)
(* What the legacy system promises a person who writes with it.  A page is *)
(* a sequence of characters and line ends, a line end being as large as    *)
(* two characters and as hard to split as one.  Only what is typed changes *)
(* the open page; running it does not.  The shelf changes when the open    *)
(* page is saved, when a package is added under a name nothing has, and    *)
(* when a file is dropped, and the person is told of each success, and of  *)
(* nothing else.  Which files a restart shows is AtomicStore's subject.    *)
(***************************************************************************)
EXTENDS Naturals, Sequences, FiniteSets, SequencesExt

CONSTANTS
  Chars,   \* printable characters
  NoName,  \* no page is open
  Limit    \* the size of the largest page

VARIABLES
  on,      \* the machine is switched on
  shelf,   \* the saved pages by name
  offer,   \* the packages that can be added, by name
  open,    \* the name of the open page
  page,    \* the open page
  told     \* the success the last command or key was answered with

vars == <<on, shelf, offer, open, page, told>>

LineEnd == "line end"

Size(p) == Len(p) + Cardinality({i \in DOMAIN p : p[i] = LineEnd})

With(files, n, p) == [m \in DOMAIN files \cup {n} |-> IF m = n THEN p ELSE files[m]]

Without(files, n) == [m \in DOMAIN files \ {n} |-> files[m]]

Init ==
  /\ on = FALSE
  /\ open = NoName
  /\ page = <<>>
  /\ told = "nothing"

SwitchOn == ~on /\ on' /\ UNCHANGED <<offer, open, page, told>>

SwitchOff ==
  /\ on'= FALSE
  /\ open' = NoName
  /\ page' = <<>>
  /\ told' = "nothing"
  /\ UNCHANGED offer

Open ==
  /\ open = NoName
  /\ open' # NoName
  /\ page' = IF open' \in DOMAIN shelf THEN shelf[open'] ELSE <<>>
  /\ told' = "nothing"
  /\ UNCHANGED <<on, shelf, offer>>

Close ==
  /\ open' = NoName
  /\ page' = <<>>
  /\ told' = "nothing"
  /\ UNCHANGED <<on, shelf, offer>>

Write ==
  /\ open # NoName
  /\ \/ \E u \in Chars \cup {LineEnd} : page' = Append(page, u)
     \/ page # <<>> /\ page' = Front(page)
     \/ page' = <<>>
  /\ Size(page') <= Limit
  /\ told' = "nothing"
  /\ UNCHANGED <<on, shelf, offer, open>>

Save ==
  /\ open # NoName
  /\ shelf' = With(shelf, open, page)
  /\ told' = "saved"
  /\ UNCHANGED <<on, offer, open, page>>

Add ==
  /\ open = NoName
  /\ \E n \in DOMAIN offer \ DOMAIN shelf : shelf' = With(shelf, n, offer[n])
  /\ told' = "installed"
  /\ UNCHANGED <<on, offer, open, page>>

Drop ==
  /\ open = NoName
  /\ \E n \in DOMAIN shelf : shelf' = Without(shelf, n)
  /\ told' = "removed"
  /\ UNCHANGED <<on, offer, open, page>>

Quiet ==
  /\ told' = "nothing"
  /\ UNCHANGED <<on, shelf, offer, open, page>>

Next == SwitchOn \/ SwitchOff \/ Open \/ Close \/ Write \/ Save \/ Add \/ Drop \/ Quiet

Spec == Init /\ [][Next]_vars

=============================================================================
