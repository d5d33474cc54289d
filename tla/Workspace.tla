---------------------------- MODULE Workspace ----------------------------
(***************************************************************************)
(* The legacy kernel as its user meets it (src/boot.asm): the shell line,  *)
(* the editor and its buffer, running a file, the package catalog and the  *)
(* print command, one serial byte at a time, over the file store of        *)
(* AtomicStore.                                                            *)
(*                                                                         *)
(* A terminal ends a line with CR, LF or CR LF.  The kernel keeps one bit  *)
(* (BP) to take CR LF as one Enter, in the shell and in the editor, and    *)
(* sets it again when a program's screen is left.                          *)
(*                                                                         *)
(* At the prompt the buffer and the filename hold left-overs that every    *)
(* command sets again before it reads them: they are <<>> and NoName here. *)
(***************************************************************************)
EXTENDS Naturals, Sequences, FiniteSets, Functions

CONSTANTS
  Names,     \* filenames, normalized
  NoName,    \* no file is open, or what was typed is not a filename
  Chars,     \* printable bytes
  Capacity,  \* EDITOR_CAPACITY
  MaxFiles,  \* FILE_COUNT_MAX
  Catalogs,  \* the package catalogs the image may hold
  Addresses, \* printer addresses that parse
  DefaultPrinter

Bytes == Chars \cup {"CR", "LF"}

Texts == UNION {[1..k -> Bytes] : k \in 0..Capacity - 1}

(* Every line ends with CR LF, and neither byte occurs alone. *)
Whole(t) ==
  \A i \in 1..Len(t) :
    /\ t[i] = "LF" => i > 1 /\ t[i - 1] = "CR"
    /\ t[i] = "CR" => i < Len(t) /\ t[i + 1] = "LF"

VARIABLES
  mem, attempt, stable, phase, answer, \* the file store
  mode,     \* "off", "shell", "edit", "screen" (a program) or "halted"
  line,     \* the command in SHELL_BUFFER
  swallow,  \* BP: an LF that comes next is ignored
  name,     \* current_filename
  buffer,   \* EDITOR_BUFFER up to the end of the document
  task,     \* the operation of the store that is in progress
  message,  \* what the user was last told
  keyed,    \* the program on the screen has received a byte
  heard,    \* history: the last byte was a CR, an LF or another key
  printer,  \* printer_ip
  catalog   \* the package slots of the image

store == <<mem, attempt, stable, phase, answer>>
vars == <<store, mode, line, swallow, name, buffer, task, message, keyed, heard,
          printer, catalog>>

Store == INSTANCE AtomicStore WITH Values <- Texts, Capacity <- MaxFiles

-----------------------------------------------------------------------------
(* The catalog.  A slot has a header, blank, damaged or naming a package,   *)
(* and a payload; `sum' is the text the header's length and checksum were   *)
(* computed from.                                                           *)

Slots == [head : {"blank", "damaged", "package"}, name : Names \cup {NoName},
          sum : Texts, payload : Texts]

ASSUME WorkspaceAssumption ==
  /\ Capacity \in Nat \ {0, 1}
  /\ MaxFiles \in Nat
  /\ NoName \notin Names
  /\ Chars \cap {"CR", "LF"} = {}
  /\ \A c \in Catalogs :
       /\ c \in Seq(Slots)
       /\ \A i \in 1..Len(c) : c[i].head = "package" => c[i].name \in Names /\ Whole(c[i].sum)

Present(i) == catalog[i].head = "package"

(* Every header is sound, a blank slot is blank throughout and no package   *)
(* comes after one.                                                         *)
CatalogSound ==
  \A i \in 1..Len(catalog) :
    /\ catalog[i].head # "damaged"
    /\ catalog[i].head = "blank" => catalog[i].payload = <<>>
    /\ Present(i) => \A j \in 1..i : Present(j)

Offers(n) == {i \in 1..Len(catalog) : Present(i) /\ catalog[i].name = n}

Intact(i) == catalog[i].payload = catalog[i].sum

-----------------------------------------------------------------------------

NoCommand == [verb |-> "none", arg |-> NoName]

Commands ==
  [verb : {"edit", "run", "install", "remove", "print"}, arg : Names \cup {NoName}]
  \cup [verb : {"printer"}, arg : Addresses \cup {NoName}]
  \cup [verb : {"list", "halt", "other"}, arg : {NoName}]

ResetRAM ==
  /\ mode' = "off"
  /\ line' = NoCommand
  /\ swallow' = FALSE
  /\ name' = NoName
  /\ buffer' = <<>>
  /\ task' = "none"
  /\ message' = "none"
  /\ keyed' = FALSE
  /\ heard' = "key"
  /\ printer' = DefaultPrinter
  /\ UNCHANGED catalog

Init ==
  /\ Store!Init
  /\ \A n \in DOMAIN stable : Whole(stable[n])
  /\ mode = "off"
  /\ line = NoCommand
  /\ swallow = FALSE
  /\ name = NoName
  /\ buffer = <<>>
  /\ task = "none"
  /\ message = "none"
  /\ keyed = FALSE
  /\ heard = "key"
  /\ printer = DefaultPrinter
  /\ catalog \in Catalogs

Boot ==
  /\ Store!Recover
  /\ mode' = "shell"
  /\ UNCHANGED <<line, swallow, name, buffer, task, message, keyed, heard, printer, catalog>>

(* Also what the reboot command does. *)
PowerLoss == Store!PowerLoss /\ ResetRAM

-----------------------------------------------------------------------------
(* Bytes.  serial_read is only called when no operation of the store is     *)
(* under way; every byte but a swallowed LF clears BP, a CR sets it.        *)

Reads(m) == mode = m /\ phase = "up"

Key == heard' = "key" /\ swallow' = FALSE

Enter ==
  \E b \in {"CR", "LF"} :
    /\ b = "LF" => ~swallow
    /\ heard' = b
    /\ swallow' = (b = "CR")

SwallowLF ==
  /\ Reads("shell") \/ Reads("edit")
  /\ swallow
  /\ swallow' = FALSE
  /\ heard' = "LF"
  /\ UNCHANGED <<store, mode, line, name, buffer, task, message, keyed, printer, catalog>>

-----------------------------------------------------------------------------
(* The editor. *)

Edits(text) ==
  /\ Reads("edit")
  /\ buffer' = text
  /\ message' = "none"
  /\ UNCHANGED <<store, mode, line, name, task, keyed, printer, catalog>>

CharFits == Len(buffer) < Capacity - 1

(* Mutant: room for one more byte is enough for CR LF. *)
NewlineFits_OneByte == Len(buffer) < Capacity - 1

NewlineFits == Len(buffer) < Capacity - 2

TypeChar(c) == Key /\ CharFits /\ Edits(Append(buffer, c))

NewLine == Enter /\ NewlineFits /\ Edits(buffer \o <<"CR", "LF">>)

(* The bell: the document is full. *)
Bell ==
  /\ \/ Key /\ ~CharFits
     \/ Enter /\ ~NewlineFits
  /\ Edits(buffer)

(* Mutant: Backspace takes one byte of a line end. *)
Shortened_OneByte == SubSeq(buffer, 1, Len(buffer) - 1)

Shortened ==
  SubSeq(buffer, 1, Len(buffer) - IF buffer[Len(buffer)] = "LF" THEN 2 ELSE 1)

Backspace == Key /\ buffer # <<>> /\ Edits(Shortened)

ClearAll == Key /\ Edits(<<>>)

(* Other control bytes, and Backspace in an empty document. *)
IgnoredKey == Key /\ Edits(buffer)

(* Control-S: file_save of the document under the name it was opened by. *)
Save ==
  /\ Reads("edit")
  /\ Key
  /\ \/ Store!Put(name, buffer) /\ task' = "save" /\ message' = "none"
     \/ Store!Refuse(name) /\ task' = "none" /\ message' = "full"
  /\ UNCHANGED <<mode, line, name, buffer, keyed, printer, catalog>>

(* Control-R: the unsaved document is the program. *)
RunDocument ==
  /\ Reads("edit")
  /\ Key
  /\ mode' = "screen"
  /\ keyed' = FALSE
  /\ message' = "none"
  /\ UNCHANGED <<store, line, name, buffer, task, printer, catalog>>

ToShell ==
  /\ mode' = "shell"
  /\ name' = NoName
  /\ buffer' = <<>>

Exit ==
  /\ Reads("edit")
  /\ Key
  /\ ToShell
  /\ message' = "none"
  /\ UNCHANGED <<store, line, task, keyed, printer, catalog>>

-----------------------------------------------------------------------------
(* A program's screen: basic_run until it returns, or the notice that the   *)
(* interpreter cannot be loaded.  A program reads bytes while it runs; a    *)
(* byte it has not read dismisses its last screen, else the next one does.  *)
(* NoName: the run command started it, and the shell prompt comes next.     *)

ProgramByte ==
  /\ mode = "screen"
  /\ heard' \in {"CR", "LF", "key"}
  /\ keyed' = TRUE
  /\ UNCHANGED <<store, mode, line, swallow, name, buffer, task, message, printer, catalog>>

(* Mutant: the line feed of the Enter that left the screen is not expected. *)
ScreenLeft_NoSwallow ==
  /\ IF name = NoName THEN ToShell ELSE mode' = "edit" /\ UNCHANGED <<name, buffer>>
  /\ swallow' = FALSE
  /\ keyed' = FALSE
  /\ UNCHANGED <<store, line, task, message, printer, catalog>>

ScreenLeft ==
  /\ IF name = NoName THEN ToShell ELSE mode' = "edit" /\ UNCHANGED <<name, buffer>>
  /\ swallow' = TRUE
  /\ keyed' = FALSE
  /\ UNCHANGED <<store, line, task, message, printer, catalog>>

Dismiss ==
  /\ mode = "screen"
  /\ keyed
  /\ UNCHANGED heard
  /\ ScreenLeft

(* Escape always leads to the prompt.  BP is 0 when Control-R started the   *)
(* program, and set after the run command.                                  *)
Escape ==
  /\ mode = "screen"
  /\ ToShell
  /\ heard' = "key"
  /\ swallow' = (name = NoName)
  /\ keyed' = FALSE
  /\ UNCHANGED <<store, line, task, message, printer, catalog>>

-----------------------------------------------------------------------------
(* The shell.  A line is typed as a whole; what it says beyond the verb and *)
(* its argument, and the 31 bytes it may have, are left out.                *)

ShellKey(c) ==
  /\ Reads("shell")
  /\ Key
  /\ line' = c
  /\ message' = "none"
  /\ UNCHANGED <<store, mode, name, buffer, task, keyed, printer, catalog>>

TypeLine(c) == line = NoCommand /\ ShellKey(c)

EraseLine == line # NoCommand /\ ShellKey(NoCommand)

(* A control byte changes nothing but BP. *)
IgnoredAtPrompt == ShellKey(line)

Run(verb) ==
  /\ Reads("shell")
  /\ line.verb = verb
  /\ Enter
  /\ line' = NoCommand
  /\ UNCHANGED catalog

Stays ==
  /\ mode' = "shell"
  /\ UNCHANGED <<name, keyed>>

Answer(m) ==
  /\ message' = m
  /\ Stays
  /\ UNCHANGED <<store, buffer, task, printer>>

(* An empty line, and the commands that only print: help, files, clear,     *)
(* echo, printer, and anything unknown.                                     *)
PlainCommand ==
  \/ Run("none") /\ Answer("none")
  \/ Run("other") /\ Answer("shown")

BadFilename ==
  /\ \E v \in {"edit", "run", "install", "remove", "print"} : Run(v)
  /\ line.arg = NoName
  /\ Answer("invalid filename")

EditFile ==
  /\ Run("edit")
  /\ line.arg # NoName
  /\ mode' = "edit"
  /\ name' = line.arg
  /\ buffer' = IF line.arg \in DOMAIN mem THEN mem[line.arg] ELSE <<>>
  /\ message' = "none"
  /\ UNCHANGED <<store, task, keyed, printer>>

RunFile ==
  /\ Run("run")
  /\ line.arg # NoName
  /\ IF line.arg \in DOMAIN mem
     THEN /\ mode' = "screen"
          /\ keyed' = FALSE
          /\ buffer' = mem[line.arg]
          /\ message' = "none"
          /\ UNCHANGED <<store, name, task, printer>>
     ELSE Answer("file not found")

(* A sector that cannot be read makes the catalog unavailable. *)
ListPackages ==
  /\ Run("list")
  /\ \/ CatalogSound /\ Answer("shown")
     \/ Answer("catalog error")

(* Mutant: the catalog's text is installed over a saved file. *)
InstallTarget_Any(n) == TRUE

InstallTarget(n) == n \notin DOMAIN mem

(* Mutant: the checksum of the payload is not compared. *)
Loadable_Unchecked(i) == TRUE

Loadable(i) == Intact(i)

(* pkg install, in the order of its checks.  Any sector may be unreadable.  *)
InstallPackage ==
  LET offers == Offers(line.arg)
      unique == CatalogSound /\ Cardinality(offers) = 1
  IN  /\ Run("install")
      /\ line.arg # NoName
      /\ \/ Answer("catalog error")
         \/ CatalogSound /\ offers = {} /\ Answer("not found")
         \/ unique /\ ~InstallTarget(line.arg) /\ Answer("already installed")
         \/ unique /\ InstallTarget(line.arg) /\ Answer("install failed")
         \/ \E i \in offers :
              /\ unique
              /\ InstallTarget(line.arg)
              /\ Loadable(i)
              /\ \/ Store!Put(line.arg, catalog[i].payload) /\ task' = "install" /\ message' = "none"
                 \/ Store!Refuse(line.arg) /\ task' = "none" /\ message' = "full"
              /\ Stays
              /\ UNCHANGED <<buffer, printer>>

RemovePackage ==
  /\ Run("remove")
  /\ line.arg # NoName
  /\ IF line.arg \in DOMAIN mem
     THEN /\ Store!Remove(line.arg)
          /\ task' = "remove"
          /\ message' = "none"
          /\ Stays
          /\ UNCHANGED <<buffer, printer>>
     ELSE Answer("not installed")

(* The module is read and checked for every command; what it answers is in  *)
(* PrintTransport.                                                          *)
PrintFile ==
  /\ Run("print")
  /\ line.arg # NoName
  /\ IF line.arg \in DOMAIN mem
     THEN \E m \in {"queued", "unavailable", "rejected", "print failed", "module error"} : Answer(m)
     ELSE Answer("file not found")

SetPrinter ==
  /\ Run("printer")
  /\ IF line.arg \in Addresses
     THEN /\ printer' = line.arg
          /\ message' = "configured"
          /\ Stays
          /\ UNCHANGED <<store, buffer, task>>
     ELSE Answer("invalid address")

Halt ==
  /\ Run("halt")
  /\ mode' = "halted"
  /\ message' = "none"
  /\ UNCHANGED <<store, name, buffer, task, keyed, printer>>

-----------------------------------------------------------------------------
(* The store carries the operation out; then the editor is drawn again, or  *)
(* the shell prompts.                                                       *)

Settle ==
  /\ Store!Settle
  /\ UNCHANGED <<mode, line, swallow, name, buffer, task, message, keyed, heard, printer, catalog>>

Done ==
  /\ task' = "none"
  /\ UNCHANGED <<mode, line, swallow, name, buffer, keyed, heard, printer, catalog>>

Success == CASE task = "save" -> "saved" [] task = "install" -> "installed" [] OTHER -> "removed"

Failure ==
  CASE task = "save" -> "save failed" [] task = "install" -> "install failed"
    [] OTHER -> "remove failed"

Committed == Store!Ack /\ message' = Success /\ Done

RolledBack == Store!Nack /\ message' = Failure /\ Done

-----------------------------------------------------------------------------

Editor ==
  \/ \E c \in Chars : TypeChar(c)
  \/ NewLine
  \/ Bell
  \/ Backspace
  \/ ClearAll
  \/ IgnoredKey
  \/ Save
  \/ RunDocument
  \/ Exit

Program == ProgramByte \/ Dismiss \/ Escape

Shell ==
  \/ \E c \in Commands : TypeLine(c)
  \/ EraseLine
  \/ IgnoredAtPrompt
  \/ PlainCommand
  \/ BadFilename
  \/ EditFile
  \/ RunFile
  \/ ListPackages
  \/ InstallPackage
  \/ RemovePackage
  \/ PrintFile
  \/ SetPrinter
  \/ Halt

StoreStep == Settle \/ Committed \/ RolledBack

Next ==
  \/ Boot
  \/ SwallowLF
  \/ Editor
  \/ Program
  \/ Shell
  \/ StoreStep
  \/ PowerLoss

Spec == Init /\ [][Next]_vars

=============================================================================
