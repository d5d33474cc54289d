-------------------------- MODULE WorkspaceProofs --------------------------
(***************************************************************************)
(* LinesWhole, EnterOnce and the refinement of Notebook, for every size of *)
(* the editor, set of names, catalog and number of files.  DocumentInv     *)
(* adds to LinesWhole that every document is a text that fits the editor;  *)
(* EnterInv ties the bit to the last byte; NotebookInv says what the       *)
(* screen, the open name and an operation in progress have to do with      *)
(* each other.                                                             *)
(***************************************************************************)
EXTENDS WorkspaceNotebook, FiniteSetTheorems, SequenceTheorems, TLAPS

TypedDocument(t) == t \in Seq(Bytes) /\ Document(t)

Documents(files) == \A n \in DOMAIN files : TypedDocument(files[n])

DocumentInv ==
  /\ TypedDocument(buffer)
  /\ Documents(mem)
  /\ Documents(attempt)
  /\ Documents(stable)
  /\ catalog \in Catalogs

-----------------------------------------------------------------------------

LEMMA CapacityNat == Capacity \in Nat /\ Capacity > 1
BY WorkspaceAssumption

LEMMA TextIsSeq ==
  ASSUME NEW t \in Texts
  PROVE  t \in Seq(Bytes) /\ Len(t) < Capacity
<1>1. PICK k \in 0..Capacity - 1 : t \in [1..k -> Bytes]
  BY DEF Texts
<1>2. t \in Seq(Bytes) /\ Len(t) = k
  BY <1>1
<1>. QED BY <1>1, <1>2, CapacityNat

LEMMA EmptyDocument == TypedDocument(<<>>)
BY CapacityNat DEF TypedDocument, Document, Whole

LEMMA NoFilesDocuments == Documents(Store!NoFiles)
BY DEF Documents, Store!NoFiles

(* The three ways a document grows and shrinks. *)
LEMMA AppendDocument ==
  ASSUME TypedDocument(buffer), CharFits, NEW c \in Chars
  PROVE  TypedDocument(Append(buffer, c))
<1>1. c \in Bytes /\ c # "CR" /\ c # "LF"
  BY WorkspaceAssumption DEF Bytes
<1>2. Append(buffer, c) \in Seq(Bytes) /\ Len(Append(buffer, c)) = Len(buffer) + 1
  BY <1>1 DEF TypedDocument, Document
<1>3. Len(Append(buffer, c)) < Capacity
  BY <1>2, CapacityNat DEF CharFits, TypedDocument, Document
<1>4. Whole(Append(buffer, c))
  BY <1>1, <1>2 DEF TypedDocument, Document, Whole
<1>. QED BY <1>2, <1>3, <1>4 DEF TypedDocument, Document

LEMMA NewLineDocument ==
  ASSUME TypedDocument(buffer), NewlineFits
  PROVE  TypedDocument(buffer \o <<"CR", "LF">>)
<1>. DEFINE t == buffer \o <<"CR", "LF">>
<1>1. <<"CR", "LF">> \in Seq(Bytes)
  BY DEF Bytes
<1>2. /\ t \in Seq(Bytes)
      /\ Len(t) = Len(buffer) + 2
      /\ \A i \in 1..Len(buffer) : t[i] = buffer[i]
      /\ t[Len(buffer) + 1] = "CR"
      /\ t[Len(buffer) + 2] = "LF"
  BY <1>1 DEF TypedDocument, Document
<1>3. Len(t) < Capacity
  BY <1>2, CapacityNat DEF NewlineFits, TypedDocument, Document
<1>4. ASSUME NEW i \in 1..Len(t)
      PROVE  /\ t[i] = "LF" => i > 1 /\ t[i - 1] = "CR"
             /\ t[i] = "CR" => i < Len(t) /\ t[i + 1] = "LF"
  <2>. HIDE DEF t
  <2>0. Len(buffer) \in Nat
    BY DEF TypedDocument, Document
  <2>1. CASE i \in 1..Len(buffer)
    BY <1>2, <2>0, <2>1 DEF TypedDocument, Document, Whole
  <2>2. CASE i = Len(buffer) + 1
    BY <1>2, <2>0, <2>2
  <2>3. CASE i = Len(buffer) + 2
    BY <1>2, <2>0, <2>3
  <2>. QED BY <1>2, <2>0, <2>1, <2>2, <2>3
<1>5. Whole(t)
  BY <1>4 DEF Whole
<1>. QED BY <1>2, <1>3, <1>5 DEF TypedDocument, Document

LEMMA ShortenedDocument ==
  ASSUME TypedDocument(buffer), buffer # <<>>
  PROVE  TypedDocument(Shortened)
<1>. DEFINE n == Len(buffer)
            m == n - IF buffer[n] = "LF" THEN 2 ELSE 1
<1>1. n \in Nat /\ n > 0 /\ \A i \in 1..n : buffer[i] \in Bytes
  BY DEF TypedDocument, Document
<1>2. buffer[n] # "CR" /\ (buffer[n] = "LF" => n > 1 /\ buffer[n - 1] = "CR")
  BY <1>1 DEF TypedDocument, Document, Whole
<1>3. m \in 0..n - 1
  BY <1>1, <1>2
<1>4. /\ Shortened \in Seq(Bytes)
      /\ Len(Shortened) = m
      /\ \A i \in 1..m : Shortened[i] = buffer[i]
  <2>1. Shortened = SubSeq(buffer, 1, m)
    BY DEF Shortened
  <2>. HIDE DEF m
  <2>2. buffer \in Seq(Bytes) /\ m \in 0..Len(buffer)
    BY <1>1, <1>3 DEF TypedDocument, Document
  <2>. QED BY <2>1, <2>2
<1>5. ASSUME NEW i \in 1..m
      PROVE  /\ buffer[i] = "LF" => i > 1 /\ buffer[i - 1] = "CR"
             /\ buffer[i] = "CR" => i < m /\ buffer[i + 1] = "LF"
  BY <1>1, <1>2, <1>3 DEF TypedDocument, Document, Whole
<1>6. Whole(Shortened)
  BY <1>3, <1>4, <1>5 DEF Whole
<1>7. m < Capacity
  BY <1>1, <1>3, CapacityNat DEF TypedDocument, Document
<1>. QED BY <1>4, <1>6, <1>7 DEF TypedDocument, Document

(* An intact package is a document. *)
LEMMA PackageDocument ==
  ASSUME catalog \in Catalogs, NEW n, NEW i \in Offers(n), Loadable(i)
  PROVE  TypedDocument(catalog[i].payload)
<1>1. i \in 1..Len(catalog) /\ catalog[i].head = "package"
  BY DEF Offers, Present
<1>2. catalog \in Seq(Slots) /\ Whole(catalog[i].sum)
  BY <1>1, WorkspaceAssumption
<1>3. catalog[i] \in Slots
  BY <1>1, <1>2
<1>4. catalog[i].sum \in Texts
  BY <1>3 DEF Slots
<1>. QED BY <1>2, <1>4, TextIsSeq DEF Loadable, Intact, TypedDocument, Document

-----------------------------------------------------------------------------
(* What the store does with documents. *)

LEMMA PutDocuments ==
  ASSUME DocumentInv, NEW n, NEW v, Store!Put(n, v), TypedDocument(v)
  PROVE  Documents(mem') /\ Documents(attempt') /\ Documents(stable')
<1>1. attempt' = [k \in DOMAIN mem \cup {n} |-> IF k = n THEN v ELSE mem[k]]
  BY DEF Store!Put, Store!Begin, Store!With
<1>2. mem' = mem /\ stable' = stable
  BY DEF Store!Put, Store!Begin
<1>3. Documents(attempt')
  BY <1>1 DEF Documents, DocumentInv
<1>. QED BY <1>2, <1>3 DEF DocumentInv

LEMMA RemoveDocuments ==
  ASSUME DocumentInv, NEW n, Store!Remove(n)
  PROVE  Documents(mem') /\ Documents(attempt') /\ Documents(stable')
<1>1. attempt' = [k \in DOMAIN mem \ {n} |-> mem[k]]
  BY DEF Store!Remove, Store!Begin, Store!Restrict
<1>2. mem' = mem /\ stable' = stable
  BY DEF Store!Remove, Store!Begin
<1>3. Documents(attempt')
  BY <1>1 DEF Documents, DocumentInv
<1>. QED BY <1>2, <1>3 DEF DocumentInv

LEMMA StoreDocuments ==
  ASSUME DocumentInv,
         Store!Settle \/ Store!Ack \/ Store!Nack \/ Store!PowerLoss \/ Store!Recover
  PROVE  Documents(mem') /\ Documents(attempt') /\ Documents(stable')
<1>1. stable' \in {stable, mem, attempt} /\ mem' \in {stable, mem, attempt, Store!NoFiles}
      /\ attempt' \in {attempt, Store!NoFiles}
  BY DEF Store!Settle, Store!Ack, Store!Nack, Store!PowerLoss, Store!Recover, Store!Finish
<1>2. Documents(mem)' = Documents(mem')
  BY DEF Documents
<1>. QED BY <1>1, NoFilesDocuments DEF DocumentInv

-----------------------------------------------------------------------------

LEMMA InitDocuments == Init => DocumentInv
<1>. SUFFICES ASSUME Init PROVE DocumentInv
  OBVIOUS
<1>1. TypedDocument(buffer) /\ catalog \in Catalogs
  BY EmptyDocument DEF Init
<1>2. Documents(mem) /\ Documents(attempt)
  BY NoFilesDocuments DEF Init, Store!Init
<1>3. Documents(stable)
  <2>1. stable \in Store!FileMaps
    BY DEF Init, Store!Init
  <2>2. PICK S : stable \in [S -> Texts]
    BY <2>1 DEF Store!FileMaps
  <2>3. \A n \in DOMAIN stable : stable[n] \in Texts /\ Whole(stable[n])
    BY <2>2 DEF Init
  <2>. QED BY <2>3, TextIsSeq DEF Documents, TypedDocument, Document
<1>. QED BY <1>1, <1>2, <1>3 DEF DocumentInv

LEMMA StepDocuments == DocumentInv /\ [Next]_vars => DocumentInv'
<1>. SUFFICES ASSUME DocumentInv, [Next]_vars PROVE DocumentInv'
  OBVIOUS
<1>. USE DEF DocumentInv
<1>. DEFINE Kept == UNCHANGED store /\ UNCHANGED catalog
<1>0. ASSUME Kept, TypedDocument(buffer') PROVE DocumentInv'
  BY <1>0 DEF store
<1>1. ASSUME NEW text, TypedDocument(text), Edits(text) PROVE DocumentInv'
  BY <1>0, <1>1 DEF Edits
<1>2. ASSUME NEW m, Answer(m), UNCHANGED catalog PROVE DocumentInv'
  BY <1>0, <1>2 DEF Answer
<1>3. CASE Boot
  BY <1>3, StoreDocuments DEF Boot
<1>4. CASE SwallowLF
  BY <1>0, <1>4 DEF SwallowLF
<1>5. CASE Editor
  <2>1. ASSUME NEW c \in Chars, TypeChar(c) PROVE DocumentInv'
    BY <1>1, <2>1, AppendDocument DEF TypeChar
  <2>2. CASE NewLine
    BY <1>1, <2>2, NewLineDocument DEF NewLine
  <2>3. CASE Bell \/ IgnoredKey
    BY <1>1, <2>3 DEF Bell, IgnoredKey
  <2>4. CASE Backspace
    BY <1>1, <2>4, ShortenedDocument DEF Backspace
  <2>5. CASE ClearAll
    BY <1>1, <2>5, EmptyDocument DEF ClearAll
  <2>6. CASE Save
    <3>1. buffer' = buffer /\ catalog' = catalog
      BY <2>6 DEF Save
    <3>2. CASE Store!Put(name, buffer)
      BY <3>1, <3>2, PutDocuments
    <3>3. CASE Store!Refuse(name)
      BY <3>1, <3>3 DEF Store!Refuse
    <3>. QED BY <2>6, <3>2, <3>3 DEF Save
  <2>7. CASE RunDocument
    BY <1>0, <2>7 DEF RunDocument
  <2>8. CASE Exit
    BY <1>0, <2>8, EmptyDocument DEF Exit, ToShell
  <2>. QED BY <1>5, <2>1, <2>2, <2>3, <2>4, <2>5, <2>6, <2>7, <2>8 DEF Editor
<1>6. CASE Program
  BY <1>0, <1>6, EmptyDocument DEF Program, ProgramByte, Dismiss, Escape, ScreenLeft, ToShell
<1>7. CASE Shell
  <2>0. ASSUME NEW v, Run(v) PROVE UNCHANGED catalog
    BY <2>0 DEF Run
  <2>1. ASSUME NEW c, ShellKey(c) PROVE DocumentInv'
    BY <1>0, <2>1 DEF ShellKey
  <2>2. CASE (\E c \in Commands : TypeLine(c)) \/ EraseLine \/ IgnoredAtPrompt
    BY <2>1, <2>2 DEF TypeLine, EraseLine, IgnoredAtPrompt
  <2>3. CASE PlainCommand \/ BadFilename \/ ListPackages
    BY <1>2, <2>0, <2>3 DEF PlainCommand, BadFilename, ListPackages
  <2>4. CASE EditFile
    <3>1. UNCHANGED catalog /\ UNCHANGED store
      BY <2>0, <2>4 DEF EditFile
    <3>2. TypedDocument(buffer')
      BY <2>4, EmptyDocument DEF EditFile, Documents
    <3>. QED BY <1>0, <3>1, <3>2
  <2>5. CASE RunFile
    <3>1. UNCHANGED catalog
      BY <2>0, <2>5 DEF RunFile
    <3>2. CASE line.arg \in DOMAIN mem
      BY <1>0, <2>5, <3>1, <3>2 DEF RunFile, Documents
    <3>3. CASE line.arg \notin DOMAIN mem
      BY <1>2, <2>5, <3>1, <3>3 DEF RunFile
    <3>. QED BY <3>2, <3>3
  <2>6. CASE InstallPackage
    <3>1. UNCHANGED catalog
      BY <2>0, <2>6 DEF InstallPackage
    <3>2. CASE \E m : Answer(m)
      BY <1>2, <3>1, <3>2
    <3>3. ASSUME NEW i \in Offers(line.arg), Loadable(i), UNCHANGED buffer,
                 Store!Put(line.arg, catalog[i].payload) \/ Store!Refuse(line.arg)
          PROVE  DocumentInv'
      <4>1. TypedDocument(catalog[i].payload)
        BY <3>3, PackageDocument
      <4>2. CASE Store!Put(line.arg, catalog[i].payload)
        BY <3>1, <3>3, <4>1, <4>2, PutDocuments
      <4>3. CASE Store!Refuse(line.arg)
        BY <3>1, <3>3, <4>3 DEF Store!Refuse
      <4>. QED BY <3>3, <4>2, <4>3
    <3>. QED BY <2>6, <3>2, <3>3 DEF InstallPackage
  <2>7. CASE RemovePackage
    <3>1. UNCHANGED catalog
      BY <2>0, <2>7 DEF RemovePackage
    <3>2. CASE line.arg \in DOMAIN mem
      BY <2>7, <3>1, <3>2, RemoveDocuments DEF RemovePackage
    <3>3. CASE line.arg \notin DOMAIN mem
      BY <1>2, <2>7, <3>1, <3>3 DEF RemovePackage
    <3>. QED BY <3>2, <3>3
  <2>8. CASE PrintFile
    BY <1>2, <2>0, <2>8 DEF PrintFile
  <2>9. CASE SetPrinter
    BY <1>0, <1>2, <2>0, <2>9 DEF SetPrinter
  <2>10. CASE Halt
    BY <1>0, <2>0, <2>10 DEF Halt
  <2>. QED
    BY <1>7, <2>2, <2>3, <2>4, <2>5, <2>6, <2>7, <2>8, <2>9, <2>10 DEF Shell
<1>8. CASE StoreStep
  BY <1>8, StoreDocuments DEF StoreStep, Settle, Committed, RolledBack, Done
<1>9. CASE PowerLoss
  BY <1>9, StoreDocuments, EmptyDocument DEF PowerLoss, ResetRAM
<1>10. CASE UNCHANGED vars
  BY <1>0, <1>10 DEF vars
<1>. QED BY <1>3, <1>4, <1>5, <1>6, <1>7, <1>8, <1>9, <1>10 DEF Next

(* Every document in the editor, in RAM and on the floppy fits the editor  *)
(* and has only whole line ends, after any keys, commands, failed saves    *)
(* and power cuts: Backspace (.remove_newline) never splits one.           *)
THEOREM DocumentInvariance == Spec => []DocumentInv
<1>. QED BY InitDocuments, StepDocuments, PTL DEF Spec

(* LinesWhole holds for every editor size, store size and catalog the      *)
(* image builder accepts.                                                  *)
THEOREM LinesWholeAlways == Spec => []LinesWhole
<1>1. DocumentInv => LinesWhole
  BY DEF DocumentInv, Documents, TypedDocument, Document, LinesWhole
<1>. QED BY <1>1, DocumentInvariance, PTL

-----------------------------------------------------------------------------
(* CR LF.  BP is set whenever the last byte was a CR and the next one goes *)
(* to the prompt or to the editor, and a program's screen is never shown   *)
(* with the power off.                                                     *)

EnterInv ==
  /\ heard = "CR" /\ mode # "screen" => swallow
  /\ mode = "screen" => phase # "down"

LEMMA InitEnter == Init => EnterInv
BY DEF Init, EnterInv

(* The steps by the byte they read: one of the editor's or the shell's, the *)
(* LF they ignore, one of a program's, or none.                            *)
LEMMA EditorBytes ==
  ASSUME Editor \/ Shell
  PROVE  (Key \/ Enter) /\ mode # "screen" /\ phase = "up"
<1>1. ASSUME NEW v, Run(v) PROVE Enter /\ mode # "screen" /\ phase = "up"
  BY <1>1 DEF Run, Reads
<1>2. Editor => (Key \/ Enter) /\ mode # "screen" /\ phase = "up"
  BY DEF Editor, TypeChar, NewLine, Bell, Backspace, ClearAll, IgnoredKey, Edits, Save,
     RunDocument, Exit, Reads
<1>3. Shell => (Key \/ Enter) /\ mode # "screen" /\ phase = "up"
  BY <1>1 DEF Shell, TypeLine, EraseLine, IgnoredAtPrompt, ShellKey, PlainCommand,
     BadFilename, EditFile, RunFile, ListPackages, InstallPackage, RemovePackage, PrintFile,
     SetPrinter, Halt, Reads
<1>. QED BY <1>2, <1>3

LEMMA SilentSteps ==
  ASSUME StoreStep \/ UNCHANGED vars
  PROVE  UNCHANGED <<heard, swallow, mode>> /\ (phase' = "down" => phase = "down")
<1>1. StoreStep => UNCHANGED <<heard, swallow, mode>> /\ phase' # "down"
  BY DEF StoreStep, Settle, Committed, RolledBack, Done, Store!Settle, Store!Ack,
     Store!Nack, Store!Finish
<1>. QED BY <1>1 DEF vars, store

(* A command or a key starts a program with the power on, and never ends   *)
(* the power.                                                              *)
LEMMA EditorPower ==
  ASSUME Editor \/ Shell
  PROVE  phase' # "down"
<1>1. phase = "up"
  BY EditorBytes
<1>2. \A n, v : Store!Put(n, v) \/ Store!Refuse(n) \/ Store!Remove(n) => phase' # "down"
  BY <1>1 DEF Store!Put, Store!Refuse, Store!Remove, Store!Begin
<1>3. Editor => phase' # "down"
  BY <1>1, <1>2 DEF Editor, TypeChar, NewLine, Bell, Backspace, ClearAll, IgnoredKey, Edits,
     Save, RunDocument, Exit, store
<1>4. \A m : Answer(m) => phase' # "down"
  BY <1>1 DEF Answer, store
<1>5. Shell => phase' # "down"
  BY <1>1, <1>2, <1>4 DEF Shell, TypeLine, EraseLine, IgnoredAtPrompt, ShellKey,
     PlainCommand, BadFilename, EditFile, RunFile, ListPackages, InstallPackage,
     RemovePackage, PrintFile, SetPrinter, Halt, store
<1>. QED BY <1>3, <1>5

LEMMA StepEnter == EnterInv /\ [Next]_vars => EnterInv'
<1>. SUFFICES ASSUME EnterInv, [Next]_vars PROVE EnterInv'
  OBVIOUS
<1>1. CASE Editor \/ Shell
  <2>1. heard' = "CR" => swallow'
    BY <1>1, EditorBytes DEF Key, Enter
  <2>. QED BY <1>1, <2>1, EditorPower DEF EnterInv
<1>2. CASE StoreStep \/ UNCHANGED vars
  BY <1>2, SilentSteps DEF EnterInv
<1>3. CASE Boot
  <2>1. phase = "down" /\ mode' = "shell" /\ UNCHANGED <<heard, swallow>>
    BY <1>3 DEF Boot, Store!Recover
  <2>. QED BY <2>1 DEF EnterInv
<1>4. CASE SwallowLF
  <2>1. heard' = "LF" /\ mode' = mode /\ phase = "up" /\ phase' = phase
    BY <1>4 DEF SwallowLF, Reads, store
  <2>. QED BY <2>1 DEF EnterInv
<1>5. CASE ProgramByte
  <2>1. mode = "screen" /\ mode' = mode /\ phase' = phase
    BY <1>5 DEF ProgramByte, store
  <2>. QED BY <2>1 DEF EnterInv
<1>6. CASE Dismiss
  <2>1. mode' # "screen" /\ swallow'
    BY <1>6 DEF Dismiss, ScreenLeft, ToShell
  <2>. QED BY <2>1 DEF EnterInv
<1>7. CASE Escape \/ PowerLoss
  <2>1. mode' # "screen" /\ heard' = "key"
    BY <1>7 DEF Escape, ToShell, PowerLoss, ResetRAM
  <2>. QED BY <2>1 DEF EnterInv
<1>. QED BY <1>1, <1>2, <1>3, <1>4, <1>5, <1>6, <1>7 DEF Next, Program

LEMMA EnterAlways == Spec => []EnterInv
<1>. QED BY InitEnter, StepEnter, PTL DEF Spec

(* The LF of a CR LF runs no command, adds no line and changes no file, in *)
(* the shell and in the editor, also when the CR left a program's screen.  *)
THEOREM EnterOnceAlways == Spec => EnterOnce
<1>1. EnterInv /\ [Next]_vars =>
        (heard = "CR" /\ heard' = "LF" /\ mode # "screen"
           => UNCHANGED <<store, mode, line, name, buffer, message>>)
  <2>. SUFFICES ASSUME EnterInv, [Next]_vars, heard = "CR", heard' = "LF", mode # "screen"
                PROVE  UNCHANGED <<store, mode, line, name, buffer, message>>
    OBVIOUS
  <2>1. swallow
    BY DEF EnterInv
  <2>2. ~(Editor \/ Shell)
    BY <2>1, EditorBytes DEF Key, Enter
  <2>3. ~(StoreStep \/ UNCHANGED vars)
    BY SilentSteps
  <2>4. ~Boot /\ ~Program /\ ~PowerLoss
    BY DEF Boot, Program, ProgramByte, Dismiss, Escape, PowerLoss, ResetRAM
  <2>. QED BY <2>2, <2>3, <2>4 DEF Next, SwallowLF
<1>. QED BY <1>1, EnterAlways, PTL DEF Spec, EnterOnce

-----------------------------------------------------------------------------
(* Pages.  FoldFacts says how Page grows with the text. *)

PageStep(p, b) ==
  IF b = "LF" /\ p # <<>> /\ Last(p) = "CR" THEN Append(Front(p), LineEnd) ELSE Append(p, b)

Pages == INSTANCE FoldFacts WITH Op <- PageStep, Base <- <<>>

Units == Chars \cup {"CR", "LF", LineEnd}

LEMMA PageIs ==
  ASSUME NEW t
  PROVE  Page(t) = Pages!Fold(t)
BY Zenon DEF Page, PageStep, FoldLeft, MapThenFoldSet, Max,
   Pages!Fold, Pages!FoldLeft, Pages!MapThenFoldSet, Pages!Max

LEMMA PageEmpty == Page(<<>>) = <<>>
BY PageIs, Pages!FoldEmpty

LEMMA PageAppend ==
  ASSUME NEW t \in Seq(Bytes), NEW b \in Bytes
  PROVE  Page(Append(t, b)) = PageStep(Page(t), b)
BY PageIs, Pages!FoldAppend

LEMMA FrontLast ==
  ASSUME NEW S, NEW s \in Seq(S), NEW u \in S
  PROVE  Front(Append(s, u)) = s /\ Last(Append(s, u)) = u /\ Append(s, u) # <<>>
<1>. DEFINE a == Append(s, u)
<1>1. /\ a \in Seq(S) /\ Len(a) = Len(s) + 1 /\ Len(s) \in Nat /\ a # <<>>
      /\ \A i \in 1..Len(s) : a[i] = s[i]
      /\ a[Len(s) + 1] = u
  BY AppendProperties, LenProperties
<1>2. Last(a) = u
  <2>. HIDE DEF a
  <2>. QED BY <1>1 DEF Last
<1>3. Front(a) = s
  <2>. HIDE DEF a
  <2>1. Front(a) = SubSeq(a, 1, Len(s))
    <3>1. (Len(s) + 1) - 1 = Len(s)
      BY <1>1
    <3>. QED BY <1>1, <3>1 DEF Front
  <2>2. \A i \in 1..Len(s) : a[i] \in S
    BY <1>1, ElementOfSeq
  <2>3. /\ SubSeq(a, 1, Len(s)) \in Seq(S) /\ Len(SubSeq(a, 1, Len(s))) = Len(s)
        /\ \A i \in 1..Len(s) : SubSeq(a, 1, Len(s))[i] = a[i]
    BY <1>1, <2>2, SubSeqProperties
  <2>4. SubSeq(a, 1, Len(s)) = s
    BY <1>1, <2>3, SeqEqual
  <2>. QED BY <2>1, <2>4
<1>. QED BY <1>1, <1>2, <1>3

LEMMA BytesAre ==
  /\ "CR" \in Bytes /\ "LF" \in Bytes /\ \A c \in Chars : c \in Bytes /\ c # "CR" /\ c # "LF"
  /\ Bytes \subseteq Units
BY WorkspaceAssumption DEF Bytes, Units

LEMMA PageType ==
  ASSUME NEW text \in Seq(Bytes)
  PROVE  Page(text) \in Seq(Units)
<1>. DEFINE Bad == {n \in Nat : \E t \in Seq(Bytes) : Len(t) = n /\ Page(t) \notin Seq(Units)}
<1>. SUFFICES ASSUME Bad # {} PROVE FALSE
  <2>1. Len(text) \in Nat
    BY LenProperties
  <2>. QED BY <2>1
<1>1. PICK n \in Bad : \A j \in Bad : n <= j
  <2>1. Bad \subseteq Nat
    OBVIOUS
  <2>. HIDE DEF Bad
  <2>. QED BY <2>1, Pages!LeastNumber
<1>2. PICK t \in Seq(Bytes) : Len(t) = n /\ Page(t) \notin Seq(Units)
  OBVIOUS
<1>3. t # <<>>
  BY <1>2, PageEmpty
<1>4. PICK u \in Seq(Bytes), b \in Bytes : t = Append(u, b)
  BY <1>3, SequenceEmptyOrAppend
<1>5. Page(u) \in Seq(Units)
  <2>1. Len(u) \in Nat /\ ~ (n <= Len(u))
    BY <1>2, <1>4, AppendProperties, LenProperties
  <2>2. Len(u) \notin Bad
    <3>. HIDE DEF Bad
    <3>. QED BY <1>1, <2>1
  <2>. QED BY <2>1, <2>2
<1>6. Page(t) = PageStep(Page(u), b) /\ b \in Units /\ LineEnd \in Units
  BY <1>4, PageAppend, BytesAre DEF Units
<1>7. Page(u) # <<>> => Front(Page(u)) \in Seq(Units)
  <2>. SUFFICES ASSUME Page(u) # <<>> PROVE Front(Page(u)) \in Seq(Units)
    OBVIOUS
  <2>1. PICK v \in Seq(Units), w \in Units : Page(u) = Append(v, w)
    BY <1>5, SequenceEmptyOrAppend
  <2>. QED BY <2>1, FrontLast
<1>8. PageStep(Page(u), b) \in Seq(Units)
  BY <1>5, <1>6, <1>7, AppendProperties DEF PageStep
<1>. QED BY <1>2, <1>6, <1>8

(* A character makes a page longer by one, and so does a line end. *)
LEMMA PageChar ==
  ASSUME NEW t \in Seq(Bytes), NEW c \in Chars
  PROVE  Page(Append(t, c)) = Append(Page(t), c)
BY PageAppend, BytesAre DEF PageStep

LEMMA PageLine ==
  ASSUME NEW t \in Seq(Bytes)
  PROVE  Page(t \o <<"CR", "LF">>) = Append(Page(t), LineEnd)
<1>. DEFINE u == Append(t, "CR")
<1>1. u \in Seq(Bytes) /\ t \o <<"CR", "LF">> = Append(u, "LF")
  BY BytesAre
<1>2. Page(t) \in Seq(Units) /\ "CR" \in Units
  BY PageType DEF Units
<1>3. Page(u) = Append(Page(t), "CR")
  BY PageAppend, BytesAre DEF PageStep
<1>4. Page(Append(u, "LF")) = PageStep(Page(u), "LF")
  <2>. HIDE DEF u
  <2>. QED BY <1>1, PageAppend, BytesAre
<1>5. PageStep(Append(Page(t), "CR"), "LF") = Append(Page(t), LineEnd)
  BY <1>2, FrontLast DEF PageStep
<1>. QED
  <2>. HIDE DEF u
  <2>. QED BY <1>1, <1>3, <1>4, <1>5

Shorter(t) == SubSeq(t, 1, Len(t) - IF t[Len(t)] = "LF" THEN 2 ELSE 1)

(* A text with whole line ends ends with a character or with a line end. *)
LEMMA WholeEnds ==
  ASSUME NEW t \in Seq(Bytes), Whole(t), t # <<>>
  PROVE  /\ Shorter(t) \in Seq(Bytes) /\ Whole(Shorter(t)) /\ Len(Shorter(t)) < Len(t)
         /\ \/ \E c \in Chars : t = Append(Shorter(t), c)
            \/ t = Shorter(t) \o <<"CR", "LF">>
<1>. DEFINE n == Len(t)
            m == n - IF t[n] = "LF" THEN 2 ELSE 1
<1>1. n \in Nat /\ n > 0 /\ \A i \in 1..n : t[i] \in Bytes
  BY EmptySeq, ElementOfSeq
<1>2. t[n] # "CR" /\ (t[n] = "LF" => n > 1 /\ t[n - 1] = "CR")
  BY <1>1 DEF Whole
<1>3. m \in 0..n - 1
  BY <1>1, <1>2
<1>. DEFINE u == Shorter(t)
<1>4. /\ u \in Seq(Bytes) /\ Len(u) = m
      /\ \A i \in 1..m : u[i] = t[i]
  <2>1. u = SubSeq(t, 1, m)
    BY DEF Shorter
  <2>. HIDE DEF m, u
  <2>2. t \in Seq(Bytes) /\ m \in 0..Len(t)
    BY <1>1, <1>3
  <2>. QED BY <2>1, <2>2
<1>. HIDE DEF u
<1>5. ASSUME NEW i \in 1..m
      PROVE  /\ t[i] = "LF" => i > 1 /\ t[i - 1] = "CR"
             /\ t[i] = "CR" => i < m /\ t[i + 1] = "LF"
  BY <1>1, <1>2, <1>3 DEF Whole
<1>6. Whole(u)
  <2>. HIDE DEF m, n
  <2>. QED BY <1>1, <1>3, <1>4, <1>5 DEF Whole
<1>7. CASE t[n] = "LF"
  <2>1. m = n - 2 /\ n > 1 /\ t[n - 1] = "CR"
    BY <1>2, <1>7
  <2>2. <<"CR", "LF">> \in Seq(Bytes)
    BY BytesAre
  <2>3. /\ u \o <<"CR", "LF">> \in Seq(Bytes) /\ Len(u \o <<"CR", "LF">>) = n
        /\ \A i \in 1..m : (u \o <<"CR", "LF">>)[i] = u[i]
        /\ (u \o <<"CR", "LF">>)[n - 1] = "CR" /\ (u \o <<"CR", "LF">>)[n] = "LF"
    <3>. HIDE DEF m, n
    <3>. QED BY <1>1, <1>3, <1>4, <2>1, <2>2
  <2>4. \A i \in 1..n : i \in 1..m \/ i = n - 1 \/ i = n
    <3>. HIDE DEF m, n
    <3>. QED BY <1>1, <2>1
  <2>5. \A i \in 1..n : t[i] = (u \o <<"CR", "LF">>)[i]
    <3>. HIDE DEF m, n
    <3>. QED BY <1>4, <1>7, <2>1, <2>3, <2>4
  <2>6. t = u \o <<"CR", "LF">>
    BY <2>3, <2>5, SeqEqual
  <2>. QED BY <1>1, <1>3, <1>4, <1>6, <2>6 DEF u
<1>8. CASE t[n] # "LF"
  <2>1. m = n - 1 /\ t[n] \in Chars
    BY <1>1, <1>2, <1>8 DEF Bytes
  <2>2. /\ Append(u, t[n]) \in Seq(Bytes) /\ Len(Append(u, t[n])) = n
        /\ \A i \in 1..m : Append(u, t[n])[i] = u[i]
        /\ Append(u, t[n])[n] = t[n]
    <3>1. t[n] \in Bytes /\ m + 1 = n
      BY <1>1, <2>1, BytesAre
    <3>. HIDE DEF m, n
    <3>. QED BY <1>4, <3>1, AppendProperties
  <2>3. \A i \in 1..n : i \in 1..m \/ i = n
    <3>. HIDE DEF m, n
    <3>. QED BY <1>1, <2>1
  <2>4. \A i \in 1..n : t[i] = Append(u, t[n])[i]
    <3>. HIDE DEF m, n
    <3>. QED BY <1>4, <2>2, <2>3
  <2>5. t = Append(u, t[n])
    BY <2>2, <2>4, SeqEqual
  <2>. QED BY <1>1, <1>3, <1>4, <1>6, <2>1, <2>5 DEF u
<1>. QED BY <1>7, <1>8

LEMMA PaperCardinality ==
  Paper!LineEnd = LineEnd /\ \A S : Paper!Cardinality(S) = Cardinality(S)
<1>1. Paper!LineEnd = LineEnd
  BY Zenon DEF Paper!LineEnd, LineEnd
<1>. QED BY <1>1 DEF Paper!Cardinality, Cardinality

LEMMA SizeAppend ==
  ASSUME NEW p \in Seq(Units), NEW u \in Units, Paper!Size(p) \in Nat
  PROVE  Paper!Size(Append(p, u)) = Paper!Size(p) + IF u = LineEnd THEN 2 ELSE 1
<1>. DEFINE q == Append(p, u)
            Ends == {i \in DOMAIN p : p[i] = LineEnd}
            More == {i \in DOMAIN q : q[i] = LineEnd}
<1>1. /\ Len(p) \in Nat /\ DOMAIN p = 1..Len(p) /\ q \in Seq(Units) /\ Len(q) = Len(p) + 1
      /\ DOMAIN q = 1..Len(p) + 1
      /\ \A i \in 1..Len(p) : q[i] = p[i]
      /\ q[Len(p) + 1] = u
  BY AppendProperties, LenProperties
<1>2. IsFiniteSet(Ends) /\ Cardinality(Ends) \in Nat
  <2>1. IsFiniteSet(1..Len(p))
    <3>1. 1 \in Int /\ Len(p) \in Int
      BY <1>1
    <3>. QED BY <3>1, FS_Interval
  <2>2. Ends \subseteq 1..Len(p)
    BY <1>1
  <2>. HIDE DEF Ends
  <2>. QED BY <2>1, <2>2, FS_Subset, FS_CardinalityType
<1>3. /\ u = LineEnd => More = Ends \cup {Len(p) + 1}
      /\ u # LineEnd => More = Ends
      /\ Len(p) + 1 \notin Ends
  <2>1. \A i : i \in More <=> (i \in Ends \/ (i = Len(p) + 1 /\ u = LineEnd))
    <3>1. \A i : i \in 1..Len(p) + 1 <=> (i \in 1..Len(p) \/ i = Len(p) + 1)
      BY <1>1
    <3>2. Len(p) + 1 \notin 1..Len(p)
      BY <1>1
    <3>. HIDE DEF q
    <3>. QED BY <1>1, <3>1, <3>2
  <2>2. Len(p) + 1 \notin Ends
    <3>1. Len(p) + 1 \notin 1..Len(p) /\ Ends \subseteq 1..Len(p)
      BY <1>1
    <3>. QED BY <3>1
  <2>. HIDE DEF Ends, More
  <2>. QED BY <2>1, <2>2
<1>4. Cardinality(More) = Cardinality(Ends) + IF u = LineEnd THEN 1 ELSE 0
  <2>. HIDE DEF Ends, More, q
  <2>1. CASE u = LineEnd
    <3>1. Cardinality(Ends \cup {Len(p) + 1}) = Cardinality(Ends) + 1
      BY <1>2, <1>3, FS_AddElement
    <3>. QED BY <1>3, <2>1, <3>1
  <2>2. CASE u # LineEnd
    <3>1. Cardinality(More) = Cardinality(Ends) /\ Cardinality(Ends) \in Nat
      BY <1>2, <1>3, <2>2
    <3>. QED BY <2>2, <3>1
  <2>. QED BY <2>1, <2>2
<1>5. Paper!Size(p) = Len(p) + Cardinality(Ends)
  BY PaperCardinality DEF Paper!Size
<1>6. Paper!Size(q) = Len(q) + Cardinality(More)
  BY PaperCardinality DEF Paper!Size
<1>7. Paper!Size(q) = Paper!Size(p) + IF u = LineEnd THEN 2 ELSE 1
  <2>. HIDE DEF q, Ends, More
  <2>. DEFINE c == Cardinality(Ends)
              d == Cardinality(More)
              k == Len(p)
  <2>1. c \in Nat /\ k \in Nat /\ d = c + (IF u = LineEnd THEN 1 ELSE 0)
        /\ Paper!Size(p) = k + c /\ Paper!Size(q) = (k + 1) + d
    BY <1>1, <1>2, <1>4, <1>5, <1>6
  <2>. HIDE DEF c, d, k
  <2>2. CASE u = LineEnd
    BY <2>1, <2>2
  <2>3. CASE u # LineEnd
    BY <2>1, <2>3
  <2>. QED BY <2>2, <2>3
<1>. QED BY <1>7

LEMMA SizeEmpty == Paper!Size(<<>>) = 0
<1>1. {i \in DOMAIN <<>> : <<>>[i] = LineEnd} = {}
  OBVIOUS
<1>2. Len(<<>>) = 0
  OBVIOUS
<1>. QED BY <1>1, <1>2, PaperCardinality, FS_EmptySet DEF Paper!Size

(* The page of a document is as large as the document. *)
LEMMA SizeWhole ==
  ASSUME NEW text \in Seq(Bytes), Whole(text)
  PROVE  Paper!Size(Page(text)) = Len(text)
<1>. DEFINE Bad == {n \in Nat : \E t \in Seq(Bytes) : Len(t) = n /\ Whole(t) /\ Paper!Size(Page(t)) # n}
<1>. SUFFICES ASSUME Bad # {} PROVE FALSE
  <2>1. Len(text) \in Nat
    BY LenProperties
  <2>. QED BY <2>1
<1>1. PICK n \in Bad : \A j \in Bad : n <= j
  <2>1. Bad \subseteq Nat
    OBVIOUS
  <2>. HIDE DEF Bad
  <2>. QED BY <2>1, Pages!LeastNumber
<1>2. PICK t \in Seq(Bytes) : Len(t) = n /\ Whole(t) /\ Paper!Size(Page(t)) # n
  OBVIOUS
<1>3. t # <<>>
  BY <1>2, PageEmpty, SizeEmpty
<1>. DEFINE u == Shorter(t)
<1>4. /\ u \in Seq(Bytes) /\ Whole(u) /\ Len(u) \in Nat /\ Len(u) < n
      /\ \/ \E c \in Chars : t = Append(u, c)
         \/ t = u \o <<"CR", "LF">>
  BY <1>2, <1>3, WholeEnds, LenProperties
<1>. HIDE DEF u
<1>5. Paper!Size(Page(u)) = Len(u)
  <2>1. ~ (n <= Len(u))
    BY <1>2, <1>4, LenProperties
  <2>2. Len(u) \notin Bad
    <3>. HIDE DEF Bad
    <3>. QED BY <1>1, <2>1
  <2>. QED BY <1>4, <2>2
<1>6. Page(u) \in Seq(Units)
  BY <1>4, PageType
<1>7. ASSUME NEW c \in Chars, t = Append(u, c) PROVE FALSE
  <2>1. c \in Units /\ c # LineEnd /\ c \in Bytes
    BY NotebookAssumption, BytesAre DEF Units
  <2>2. Paper!Size(Page(t)) = Len(u) + 1
    BY <1>4, <1>5, <1>6, <1>7, <2>1, PageChar, SizeAppend
  <2>3. Len(t) = Len(u) + 1
    BY <1>4, <1>7, <2>1, AppendProperties
  <2>. QED BY <1>2, <2>2, <2>3
<1>8. ASSUME t = u \o <<"CR", "LF">> PROVE FALSE
  <2>1. LineEnd \in Units
    BY DEF Units
  <2>2. Paper!Size(Page(t)) = Len(u) + 2
    BY <1>4, <1>5, <1>6, <1>8, <2>1, PageLine, SizeAppend
  <2>3. Len(t) = Len(u) + 2
    BY <1>4, <1>8, BytesAre
  <2>. QED BY <1>2, <2>2, <2>3
<1>. QED BY <1>4, <1>7, <1>8

LEMMA PageShorter ==
  ASSUME NEW t \in Seq(Bytes), Whole(t), t # <<>>
  PROVE  Page(t) # <<>> /\ Page(Shorter(t)) = Front(Page(t))
<1>1. Shorter(t) \in Seq(Bytes) /\ Page(Shorter(t)) \in Seq(Units)
  BY WholeEnds, PageType
<1>2. \E w \in Units : Page(t) = Append(Page(Shorter(t)), w)
  <2>1. CASE \E c \in Chars : t = Append(Shorter(t), c)
    <3>1. PICK c \in Chars : t = Append(Shorter(t), c)
      BY <2>1
    <3>2. Page(Append(Shorter(t), c)) = Append(Page(Shorter(t)), c)
      BY <1>1, PageChar
    <3>. QED BY <3>1, <3>2 DEF Units
  <2>2. CASE t = Shorter(t) \o <<"CR", "LF">>
    <3>1. Page(Shorter(t) \o <<"CR", "LF">>) = Append(Page(Shorter(t)), LineEnd)
      BY <1>1, PageLine
    <3>. QED BY <2>2, <3>1 DEF Units
  <2>. QED BY <2>1, <2>2, WholeEnds
<1>. QED BY <1>1, <1>2, FrontLast

-----------------------------------------------------------------------------
(* Notebook.  What the invariant adds: which operation the store carries   *)
(* out while it is saving, and for which document.                         *)

Saving ==
  \/ /\ task = "save" /\ name # NoName
     /\ attempt = Store!With(mem, name, buffer)
  \/ /\ task = "install" /\ name = NoName
     /\ \E n \in DOMAIN Offer \ DOMAIN mem, i \in 1..Len(catalog) :
          /\ attempt = Store!With(mem, n, catalog[i].payload)
          /\ Page(catalog[i].payload) = Offer[n]
  \/ /\ task = "remove" /\ name = NoName
     /\ \E n \in DOMAIN mem : attempt = Store!Restrict(mem, DOMAIN mem \ {n})

NotebookInv ==
  /\ phase = "down" => mode = "off"
  /\ mode \in {"off", "shell", "halted"} => name = NoName
  /\ mode = "edit" => name # NoName
  /\ mode = "screen" => message = "none" /\ phase = "up"
  /\ phase = "saving" => Saving

(* The mapping, by the names of Notebook's variables. *)
Shelf == [n \in DOMAIN mem |-> Page(mem[n])]

OpenPage == IF Editing THEN Page(buffer) ELSE <<>>

Successes == {"saved", "installed", "removed"}

Told == IF message \in {"saved", "installed", "removed"} THEN message ELSE "nothing"

LEMMA OfferKept ==
  ASSUME catalog' = catalog
  PROVE  Offer' = Offer
BY DEF Offer, CatalogSound, Offers, Intact, Present

LEMMA MappingKept ==
  ASSUME UNCHANGED <<mem, catalog, name>>, mode = "off" <=> mode' = "off",
         name # NoName => buffer' = buffer
  PROVE  Shelf' = Shelf /\ Offer' = Offer /\ OpenPage' = OpenPage /\ (mode # "off")' = (mode # "off")
BY OfferKept DEF Shelf, OpenPage, Editing

LEMMA Quietly ==
  ASSUME UNCHANGED <<mem, catalog, name>>, mode = "off" <=> mode' = "off",
         name # NoName => buffer' = buffer, message' \notin Successes
  PROVE  Paper!Quiet
<1>1. Told' = "nothing"
  BY DEF Told, Successes
<1>. QED BY <1>1, MappingKept DEF Paper!Quiet, Shelf, OpenPage, Told

LEMMA Silently ==
  ASSUME UNCHANGED <<mem, catalog, name, message>>, mode = "off" <=> mode' = "off",
         name # NoName => buffer' = buffer
  PROVE  UNCHANGED Paper!vars
<1>1. Told' = Told
  BY DEF Told
<1>. QED BY <1>1, MappingKept DEF Paper!vars, Shelf, OpenPage, Told

LEMMA Closes ==
  ASSUME UNCHANGED <<mem, catalog>>, mode # "off", mode' # "off", name' = NoName,
         message' \notin Successes
  PROVE  Paper!Close
<1>1. Told' = "nothing" /\ OpenPage' = <<>>
  BY DEF Told, Successes, OpenPage, Editing
<1>2. Shelf' = Shelf /\ Offer' = Offer
  BY OfferKept DEF Shelf
<1>. QED BY <1>1, <1>2 DEF Paper!Close, Shelf, OpenPage, Told

LEMMA StoreQuiet ==
  ASSUME (\E n, v : Store!Put(n, v)) \/ (\E n : Store!Remove(n) \/ Store!Refuse(n))
  PROVE  mem' = mem
BY DEF Store!Put, Store!Remove, Store!Refuse, Store!Begin

(* Keys. *)
LEMMA Writes ==
  ASSUME NotebookInv, DocumentInv, NEW text, TypedDocument(text), Edits(text),
         \/ \E u \in Chars \cup {LineEnd} : Page(text) = Append(Page(buffer), u)
         \/ Page(buffer) # <<>> /\ Page(text) = Front(Page(buffer))
         \/ Page(text) = <<>>
  PROVE  Paper!Write
<1>1. /\ mode = "edit" /\ name # NoName /\ buffer' = text /\ message' = "none"
      /\ UNCHANGED <<mem, mode, name, catalog>>
  BY DEF Edits, Reads, NotebookInv, store
<1>2. OpenPage = Page(buffer) /\ OpenPage' = Page(text) /\ Told' = "nothing"
  BY <1>1 DEF OpenPage, Editing, Told
<1>3. Shelf' = Shelf /\ Offer' = Offer
  BY <1>1, OfferKept DEF Shelf
<1>4. Paper!Size(Page(text)) <= Capacity - 1
  <2>1. Paper!Size(Page(text)) = Len(text) /\ Len(text) < Capacity /\ Len(text) \in Nat
    BY SizeWhole, LenProperties DEF TypedDocument, Document
  <2>. QED BY <2>1, CapacityNat
<1>5. \A p : Paper!Front(p) = Front(p)
  BY DEF Paper!Front, Front
<1>. QED BY <1>1, <1>2, <1>3, <1>4, <1>5, PaperCardinality DEF Paper!Write, Shelf, OpenPage, Told

LEMMA EditorPaper ==
  ASSUME NotebookInv, DocumentInv, Editor
  PROVE  Paper!Next
<1>0. TypedDocument(buffer) /\ buffer \in Seq(Bytes) /\ Whole(buffer)
  BY DEF DocumentInv, TypedDocument, Document
<1>1. ASSUME NEW c \in Chars, TypeChar(c) PROVE Paper!Write
  <2>1. TypedDocument(Append(buffer, c)) /\ Edits(Append(buffer, c))
    BY <1>0, <1>1, AppendDocument DEF TypeChar
  <2>2. Page(Append(buffer, c)) = Append(Page(buffer), c)
    BY <1>0, PageChar
  <2>. QED BY <2>1, <2>2, Writes
<1>2. ASSUME NewLine PROVE Paper!Write
  <2>1. TypedDocument(buffer \o <<"CR", "LF">>) /\ Edits(buffer \o <<"CR", "LF">>)
    BY <1>0, <1>2, NewLineDocument DEF NewLine
  <2>2. Page(buffer \o <<"CR", "LF">>) = Append(Page(buffer), LineEnd)
    BY <1>0, PageLine
  <2>. QED BY <2>1, <2>2, Writes
<1>3. ASSUME Backspace PROVE Paper!Write
  <2>1. TypedDocument(Shortened) /\ Edits(Shortened) /\ buffer # <<>>
    BY <1>0, <1>3, ShortenedDocument DEF Backspace
  <2>2. Page(buffer) # <<>> /\ Page(Shortened) = Front(Page(buffer))
    BY <1>0, <2>1, PageShorter DEF Shortened, Shorter
  <2>. QED BY <2>1, <2>2, Writes
<1>4. ASSUME ClearAll PROVE Paper!Write
  <2>1. TypedDocument(<<>>) /\ Edits(<<>>)
    BY <1>4, EmptyDocument DEF ClearAll
  <2>. QED BY <2>1, PageEmpty, Writes
<1>5. ASSUME Bell \/ IgnoredKey PROVE Paper!Quiet
  <2>1. Edits(buffer)
    BY <1>5 DEF Bell, IgnoredKey
  <2>2. message' \notin Successes /\ mode' = mode /\ UNCHANGED <<mem, catalog, name, buffer>>
    BY <2>1 DEF Edits, Successes, store
  <2>. QED BY <2>2, Quietly
<1>6. ASSUME Save PROVE Paper!Quiet
  <2>1. message' \notin Successes /\ mode' = mode /\ UNCHANGED <<catalog, name, buffer>>
    BY <1>6 DEF Save, Successes
  <2>2. mem' = mem
    BY <1>6, StoreQuiet DEF Save
  <2>. QED BY <2>1, <2>2, Quietly
<1>7. ASSUME RunDocument PROVE Paper!Quiet
  <2>1. /\ message' \notin Successes /\ mode = "edit" /\ mode' = "screen"
        /\ UNCHANGED <<mem, catalog, name, buffer>>
    BY <1>7 DEF RunDocument, Reads, Successes, store
  <2>. QED BY <2>1, Quietly
<1>8. ASSUME Exit PROVE Paper!Close
  <2>1. /\ message' \notin Successes /\ mode = "edit" /\ mode' = "shell" /\ name' = NoName
        /\ UNCHANGED <<mem, catalog>>
    BY <1>8 DEF Exit, ToShell, Reads, Successes, store
  <2>. QED BY <2>1, Closes
<1>. QED BY <1>1, <1>2, <1>3, <1>4, <1>5, <1>6, <1>7, <1>8 DEF Editor, Paper!Next

(* A program's screen. *)
LEMMA ProgramPaper ==
  ASSUME NotebookInv, Program
  PROVE  Paper!Close \/ UNCHANGED Paper!vars
<1>0. mode = "screen" /\ message = "none" /\ UNCHANGED <<mem, catalog, message>>
  BY DEF Program, ProgramByte, Dismiss, Escape, ScreenLeft, NotebookInv, store
<1>1. mode' \in {"screen", "shell", "edit"}
  BY <1>0 DEF Program, ProgramByte, Dismiss, Escape, ScreenLeft, ToShell
<1>2. name' = NoName \/ (name' = name /\ buffer' = buffer)
  BY DEF Program, ProgramByte, Dismiss, Escape, ScreenLeft, ToShell
<1>3. CASE name # NoName /\ name' = NoName
  <2>1. message' \notin Successes
    BY <1>0 DEF Successes
  <2>. QED BY <1>0, <1>1, <1>3, <2>1, Closes
<1>4. CASE name' = name
  BY <1>0, <1>1, <1>2, <1>4, Silently
<1>. QED BY <1>2, <1>3, <1>4

(* Commands. *)
LEMMA AnswerPaper ==
  ASSUME NotebookInv, Reads("shell"), NEW m, m \notin Successes, Answer(m), catalog' = catalog
  PROVE  Paper!Quiet
<1>1. /\ mode = "shell" /\ mode' = "shell" /\ message' \notin Successes
      /\ UNCHANGED <<mem, catalog, name, buffer>>
  BY DEF Answer, Stays, Reads, store
<1>. QED BY <1>1, Quietly

LEMMA ShellPaper ==
  ASSUME NotebookInv, Shell
  PROVE  Paper!Open \/ Paper!Quiet
<1>0. ASSUME NEW v, Run(v) PROVE Reads("shell") /\ catalog' = catalog
  BY <1>0 DEF Run
<1>1. ASSUME NEW c, ShellKey(c) PROVE Paper!Quiet
  <2>1. message' \notin Successes /\ mode' = mode /\ UNCHANGED <<mem, catalog, name, buffer>>
    BY <1>1 DEF ShellKey, Successes, store
  <2>. QED BY <2>1, Quietly
<1>2. CASE (\E c \in Commands : TypeLine(c)) \/ EraseLine \/ IgnoredAtPrompt
  BY <1>1, <1>2 DEF TypeLine, EraseLine, IgnoredAtPrompt
<1>3. CASE PlainCommand \/ BadFilename \/ ListPackages \/ PrintFile
  <2>1. \E m : m \notin Successes /\ Answer(m)
    BY <1>3, Zenon DEF PlainCommand, BadFilename, ListPackages, PrintFile, Successes
  <2>2. Reads("shell") /\ catalog' = catalog
    BY <1>0, <1>3 DEF PlainCommand, BadFilename, ListPackages, PrintFile
  <2>. QED BY <2>1, <2>2, AnswerPaper
<1>4. CASE EditFile
  <2>1. /\ mode = "shell" /\ mode' = "edit" /\ name = NoName /\ name' = line.arg /\ name' # NoName
        /\ UNCHANGED <<mem, catalog>> /\ message' = "none"
        /\ buffer' = IF line.arg \in DOMAIN mem THEN mem[line.arg] ELSE <<>>
    BY <1>4 DEF EditFile, Run, Reads, NotebookInv, store
  <2>2. Shelf' = Shelf /\ Offer' = Offer /\ Told' = "nothing"
    BY <2>1, OfferKept DEF Shelf, Told
  <2>3. OpenPage' = IF name' \in DOMAIN Shelf THEN Shelf[name'] ELSE <<>>
    BY <2>1, PageEmpty DEF OpenPage, Editing, Shelf
  <2>. QED BY <2>1, <2>2, <2>3 DEF Paper!Open, Shelf, OpenPage, Told
<1>5. CASE RunFile
  <2>1. Reads("shell") /\ catalog' = catalog
    BY <1>0, <1>5 DEF RunFile
  <2>2. CASE line.arg \in DOMAIN mem
    <3>1. /\ mode = "shell" /\ mode' = "screen" /\ name = NoName /\ name' = name
          /\ UNCHANGED mem /\ message' \notin Successes
      BY <1>5, <2>1, <2>2 DEF RunFile, Reads, NotebookInv, Successes, store
    <3>. QED BY <2>1, <3>1, Quietly
  <2>3. CASE line.arg \notin DOMAIN mem
    <3>1. \E m : m \notin Successes /\ Answer(m)
      BY <1>5, <2>3, Zenon DEF RunFile, Successes
    <3>. QED BY <2>1, <3>1, AnswerPaper
  <2>. QED BY <2>2, <2>3
<1>6. CASE InstallPackage
  <2>1. Reads("shell") /\ catalog' = catalog
    BY <1>0, <1>6 DEF InstallPackage
  <2>2. CASE \E m : m \notin Successes /\ Answer(m)
    BY <2>1, <2>2, AnswerPaper
  <2>3. CASE /\ (\E n, v : Store!Put(n, v)) \/ (\E n : Store!Refuse(n))
             /\ message' \notin Successes /\ Stays /\ UNCHANGED <<buffer, printer>>
    <3>1. mem' = mem
      BY <2>3, StoreQuiet
    <3>2. mode = "shell" /\ mode' = "shell" /\ name' = name
      BY <2>1, <2>3 DEF Reads, Stays
    <3>. QED BY <2>1, <2>3, <3>1, <3>2, Quietly
  <2>. QED BY <1>6, <2>2, <2>3, Zenon DEF InstallPackage, Successes
<1>7. CASE RemovePackage
  <2>1. Reads("shell") /\ catalog' = catalog
    BY <1>0, <1>7 DEF RemovePackage
  <2>2. CASE line.arg \in DOMAIN mem
    <3>1. /\ mode = "shell" /\ mode' = "shell" /\ name' = name /\ buffer' = buffer
          /\ message' \notin Successes /\ Store!Remove(line.arg)
      BY <1>7, <2>1, <2>2 DEF RemovePackage, Stays, Reads, Successes
    <3>2. mem' = mem
      BY <3>1, StoreQuiet
    <3>. QED BY <2>1, <3>1, <3>2, Quietly
  <2>3. CASE line.arg \notin DOMAIN mem
    <3>1. \E m : m \notin Successes /\ Answer(m)
      BY <1>7, <2>3, Zenon DEF RemovePackage, Successes
    <3>. QED BY <2>1, <3>1, AnswerPaper
  <2>. QED BY <2>2, <2>3
<1>8. CASE SetPrinter
  <2>1. Reads("shell") /\ catalog' = catalog
    BY <1>0, <1>8 DEF SetPrinter
  <2>2. CASE line.arg \in Addresses
    <3>1. /\ mode = "shell" /\ mode' = "shell" /\ UNCHANGED <<mem, name, buffer>>
          /\ message' \notin Successes
      BY <1>8, <2>1, <2>2 DEF SetPrinter, Stays, Reads, Successes, store
    <3>. QED BY <2>1, <3>1, Quietly
  <2>3. CASE line.arg \notin Addresses
    <3>1. \E m : m \notin Successes /\ Answer(m)
      BY <1>8, <2>3, Zenon DEF SetPrinter, Successes
    <3>. QED BY <2>1, <3>1, AnswerPaper
  <2>. QED BY <2>2, <2>3
<1>9. CASE Halt
  <2>1. /\ Reads("shell") /\ catalog' = catalog /\ mode' = "halted" /\ message' \notin Successes
        /\ UNCHANGED <<mem, name, buffer>>
    BY <1>0, <1>9 DEF Halt, Successes, store
  <2>. QED BY <2>1, Quietly DEF Reads
<1>. QED
  BY <1>2, <1>3, <1>4, <1>5, <1>6, <1>7, <1>8, <1>9 DEF Shell

(* The store has done what Saving says, or nothing. *)
LEMMA CommittedPaper ==
  ASSUME NotebookInv, Committed
  PROVE  Paper!Save \/ Paper!Add \/ Paper!Drop
<1>1. /\ phase = "saving" /\ mem' = attempt /\ message' = Success
      /\ UNCHANGED <<mode, name, buffer, catalog>> /\ Saving
  BY DEF Committed, Done, Store!Ack, Store!Finish, NotebookInv
<1>2. Offer' = Offer /\ OpenPage' = OpenPage /\ (mode # "off")' = (mode # "off")
  BY <1>1, OfferKept DEF OpenPage, Editing
<1>3. CASE task = "save" /\ name # NoName /\ attempt = Store!With(mem, name, buffer)
  <2>1. Told' = "saved"
    BY <1>1, <1>3 DEF Told, Success
  <2>2. Shelf' = Paper!With(Shelf, name, OpenPage)
    <3>1. mem' = [m \in DOMAIN mem \cup {name} |-> IF m = name THEN buffer ELSE mem[m]]
      BY <1>1, <1>3 DEF Store!With
    <3>2. Shelf' = [m \in DOMAIN mem \cup {name} |-> IF m = name THEN Page(buffer) ELSE Page(mem[m])]
      BY <3>1 DEF Shelf
    <3>3. OpenPage = Page(buffer)
      BY <1>3 DEF OpenPage, Editing
    <3>. QED BY <3>2, <3>3 DEF Paper!With, Shelf
  <2>. QED BY <1>1, <1>2, <1>3, <2>1, <2>2 DEF Paper!Save, Shelf, OpenPage, Told
<1>4. ASSUME task = "install", name = NoName,
             NEW n \in DOMAIN Offer \ DOMAIN mem, NEW i \in 1..Len(catalog),
             attempt = Store!With(mem, n, catalog[i].payload), Page(catalog[i].payload) = Offer[n]
      PROVE  Paper!Add
  <2>1. Told' = "installed"
    BY <1>1, <1>4 DEF Told, Success
  <2>2. Shelf' = Paper!With(Shelf, n, Offer[n])
    <3>1. mem' = [m \in DOMAIN mem \cup {n} |-> IF m = n THEN catalog[i].payload ELSE mem[m]]
      BY <1>1, <1>4 DEF Store!With
    <3>2. Shelf' = [m \in DOMAIN mem \cup {n} |-> IF m = n THEN Offer[n] ELSE Page(mem[m])]
      BY <1>4, <3>1 DEF Shelf
    <3>. QED BY <3>2 DEF Paper!With, Shelf
  <2>3. n \in DOMAIN Offer \ DOMAIN Shelf
    BY <1>4 DEF Shelf
  <2>. QED BY <1>1, <1>2, <1>4, <2>1, <2>2, <2>3 DEF Paper!Add, Shelf, OpenPage, Told
<1>5. ASSUME task = "remove", name = NoName, NEW n \in DOMAIN mem,
             attempt = Store!Restrict(mem, DOMAIN mem \ {n})
      PROVE  Paper!Drop
  <2>1. Told' = "removed"
    BY <1>1, <1>5 DEF Told, Success
  <2>2. Shelf' = Paper!Without(Shelf, n)
    <3>1. mem' = [m \in DOMAIN mem \ {n} |-> mem[m]]
      BY <1>1, <1>5 DEF Store!Restrict
    <3>2. Shelf' = [m \in DOMAIN mem \ {n} |-> Page(mem[m])]
      BY <3>1 DEF Shelf
    <3>. QED BY <3>2 DEF Paper!Without, Shelf
  <2>3. n \in DOMAIN Shelf
    BY <1>5 DEF Shelf
  <2>. QED BY <1>1, <1>2, <1>5, <2>1, <2>2, <2>3 DEF Paper!Drop, Shelf, OpenPage, Told
<1>. QED BY <1>1, <1>3, <1>4, <1>5 DEF Saving

LEMMA StorePaper ==
  ASSUME NotebookInv, StoreStep
  PROVE  Paper!Next \/ UNCHANGED Paper!vars
<1>1. CASE Settle
  <2>1. UNCHANGED <<mem, catalog, name, message, mode, buffer>>
    BY <1>1 DEF Settle, Store!Settle
  <2>. QED BY <2>1, Silently
<1>2. CASE Committed
  BY <1>2, CommittedPaper DEF Paper!Next
<1>3. CASE RolledBack
  <2>1. UNCHANGED <<mem, catalog, name, mode, buffer>>
    BY <1>3 DEF RolledBack, Done, Store!Nack, Store!Finish
  <2>2. message' \notin Successes
    BY <1>3, Zenon DEF RolledBack, Failure, Successes
  <2>. QED BY <2>1, <2>2, Quietly DEF Paper!Next
<1>. QED BY <1>1, <1>2, <1>3 DEF StoreStep

LEMMA NextPaper == DocumentInv /\ NotebookInv /\ [Next]_vars => [Paper!Next]_(Paper!vars)
<1>. SUFFICES ASSUME DocumentInv, NotebookInv, [Next]_vars
              PROVE  Paper!Next \/ UNCHANGED Paper!vars
  OBVIOUS
<1>1. CASE Boot
  <2>1. /\ mode = "off" /\ mode' = "shell" /\ name = NoName
        /\ UNCHANGED <<catalog, name, buffer, message>>
    BY <1>1 DEF Boot, Store!Recover, NotebookInv
  <2>2. Offer' = Offer /\ OpenPage' = OpenPage /\ Told' = Told
    BY <2>1, OfferKept DEF OpenPage, Editing, Told
  <2>. QED BY <2>1, <2>2 DEF Paper!Next, Paper!SwitchOn, OpenPage, Told
<1>2. CASE PowerLoss
  <2>1. mode' = "off" /\ name' = NoName /\ message' = "none" /\ catalog' = catalog
    BY <1>2 DEF PowerLoss, ResetRAM
  <2>2. Offer' = Offer /\ OpenPage' = <<>> /\ Told' = "nothing"
    BY <2>1, OfferKept DEF OpenPage, Editing, Told
  <2>. QED BY <2>1, <2>2 DEF Paper!Next, Paper!SwitchOff, OpenPage, Told
<1>3. CASE SwallowLF \/ UNCHANGED vars
  <2>1. UNCHANGED <<mem, catalog, name, message, mode, buffer>>
    BY <1>3 DEF SwallowLF, store, vars
  <2>. QED BY <2>1, Silently
<1>4. CASE Editor
  BY <1>4, EditorPaper
<1>5. CASE Program
  BY <1>5, ProgramPaper DEF Paper!Next
<1>6. CASE Shell
  BY <1>6, ShellPaper DEF Paper!Next
<1>7. CASE StoreStep
  BY <1>7, StorePaper
<1>. QED BY <1>1, <1>2, <1>3, <1>4, <1>5, <1>6, <1>7 DEF Next

-----------------------------------------------------------------------------
(* NotebookInv is inductive.  Keys and commands come when the store is at  *)
(* rest; those that set it to work say for which document.                 *)

LEMMA Resting ==
  ASSUME phase' = "up", mode' \in {"shell", "halted"} => name' = NoName,
         mode' = "edit" => name' # NoName, mode' = "screen" => message' = "none", mode' # "off"
  PROVE  NotebookInv'
BY DEF NotebookInv

LEMMA Refused ==
  ASSUME NEW n, Store!Refuse(n)
  PROVE  phase' = "up"
BY DEF Store!Refuse

LEMMA SavingKept ==
  ASSUME Saving, UNCHANGED <<mem, attempt, name, buffer, task, catalog>>
  PROVE  Saving'
<1>1. Offer' = Offer
  BY OfferKept
<1>. QED BY <1>1 DEF Saving, Store!With, Store!Restrict

LEMMA EditorNotebook ==
  ASSUME NotebookInv, Editor
  PROVE  NotebookInv'
<1>0. mode = "edit" /\ phase = "up" /\ name # NoName
  BY DEF Editor, TypeChar, NewLine, Bell, Backspace, ClearAll, IgnoredKey, Edits, Save,
         RunDocument, Exit, Reads, NotebookInv
<1>1. ASSUME NEW text, Edits(text) PROVE NotebookInv'
  <2>1. phase' = "up" /\ mode' = "edit" /\ name' # NoName
    BY <1>0, <1>1 DEF Edits, store
  <2>. QED BY <2>1, Resting
<1>2. CASE \/ \E c \in Chars : TypeChar(c)
           \/ NewLine \/ Bell \/ Backspace \/ ClearAll \/ IgnoredKey
  BY <1>1, <1>2 DEF TypeChar, NewLine, Bell, Backspace, ClearAll, IgnoredKey
<1>3. CASE Save
  <2>1. mode' = "edit" /\ name' # NoName /\ name' = name /\ buffer' = buffer
    BY <1>0, <1>3 DEF Save
  <2>2. CASE Store!Put(name, buffer) /\ task' = "save"
    <3>1. phase' = "saving" /\ mem' = mem /\ attempt' = Store!With(mem, name, buffer)
      BY <2>2 DEF Store!Put, Store!Begin
    <3>2. Saving'
      BY <2>1, <2>2, <3>1 DEF Saving, Store!With
    <3>. QED BY <2>1, <3>1, <3>2 DEF NotebookInv
  <2>3. CASE Store!Refuse(name)
    <3>1. phase' = "up"
      BY <2>3, Refused
    <3>. QED BY <2>1, <3>1, Resting
  <2>. QED BY <1>3, <2>2, <2>3 DEF Save
<1>4. CASE RunDocument
  <2>1. phase' = "up" /\ mode' = "screen" /\ message' = "none"
    BY <1>0, <1>4 DEF RunDocument, store
  <2>. QED BY <2>1, Resting
<1>5. CASE Exit
  <2>1. phase' = "up" /\ mode' = "shell" /\ name' = NoName
    BY <1>0, <1>5 DEF Exit, ToShell, store
  <2>. QED BY <2>1, Resting
<1>. QED BY <1>2, <1>3, <1>4, <1>5 DEF Editor

LEMMA ProgramNotebook ==
  ASSUME NotebookInv, Program
  PROVE  NotebookInv'
<1>1. mode = "screen" /\ message = "none" /\ phase = "up" /\ message' = message /\ phase' = phase
  BY DEF Program, ProgramByte, Dismiss, Escape, ScreenLeft, NotebookInv, store
<1>2. \/ mode' = "screen"
      \/ mode' = "shell" /\ name' = NoName
      \/ mode' = "edit" /\ name # NoName /\ name' = name
  BY <1>1 DEF Program, ProgramByte, Dismiss, Escape, ScreenLeft, ToShell
<1>. QED BY <1>1, <1>2, Resting

(* A package that is the only one of its name and intact is on offer. *)
LEMMA Offered ==
  ASSUME DocumentInv, NEW n, CatalogSound, Cardinality(Offers(n)) = 1, NEW i \in Offers(n),
         Intact(i)
  PROVE  n \in DOMAIN Offer /\ i \in 1..Len(catalog) /\ Page(catalog[i].payload) = Offer[n]
<1>1. Len(catalog) \in Nat /\ \A k \in 1..Len(catalog) : Present(k) => catalog[k].name \in Names
  BY WorkspaceAssumption DEF DocumentInv, Present
<1>2. i \in 1..Len(catalog) /\ n \in Names
  BY <1>1 DEF Offers
<1>3. Offers(n) = {i}
  <2>1. IsFiniteSet(Offers(n))
    <3>1. IsFiniteSet(1..Len(catalog)) /\ Offers(n) \subseteq 1..Len(catalog)
      BY <1>1, FS_Interval DEF Offers
    <3>. QED BY <3>1, FS_Subset
  <2>2. PICK k : Offers(n) = {k}
    BY <2>1, FS_Singleton
  <2>. QED BY <2>2
<1>4. n \in DOMAIN Offer
  BY <1>2, <1>3 DEF Offer
<1>5. Offer[n] = Page(catalog[CHOOSE k \in Offers(n) : TRUE].sum)
  BY <1>4 DEF Offer
<1>6. (CHOOSE k \in Offers(n) : TRUE) = i
  BY <1>3
<1>. QED BY <1>2, <1>4, <1>5, <1>6 DEF Intact

LEMMA ShellNotebook ==
  ASSUME NotebookInv, DocumentInv, Shell
  PROVE  NotebookInv'
<1>0. ASSUME NEW v, Run(v) PROVE Reads("shell") /\ catalog' = catalog
  BY <1>0 DEF Run
<1>1. ASSUME NEW c, ShellKey(c) PROVE NotebookInv'
  <2>1. phase' = "up" /\ mode' = "shell" /\ name' = NoName
    BY <1>1 DEF ShellKey, Reads, NotebookInv, store
  <2>. QED BY <2>1, Resting
<1>2. ASSUME Reads("shell"), Stays PROVE mode' = "shell" /\ name' = NoName /\ name = NoName
  BY <1>2 DEF Reads, Stays, NotebookInv
<1>3. ASSUME Reads("shell"), Stays, phase' = "up" PROVE NotebookInv'
  BY <1>2, <1>3, Resting
<1>4. ASSUME Reads("shell"), NEW m, Answer(m) PROVE NotebookInv'
  <2>1. phase' = "up" /\ Stays
    BY <1>4 DEF Answer, Reads, store
  <2>. QED BY <1>3, <1>4, <2>1
<1>5. CASE (\E c \in Commands : TypeLine(c)) \/ EraseLine \/ IgnoredAtPrompt
  BY <1>1, <1>5 DEF TypeLine, EraseLine, IgnoredAtPrompt
<1>6. CASE PlainCommand \/ BadFilename \/ ListPackages \/ PrintFile
  <2>1. Reads("shell")
    BY <1>0, <1>6 DEF PlainCommand, BadFilename, ListPackages, PrintFile
  <2>2. \E m : Answer(m)
    BY <1>6, Zenon DEF PlainCommand, BadFilename, ListPackages, PrintFile
  <2>. QED BY <1>4, <2>1, <2>2
<1>7. CASE EditFile
  <2>1. phase' = "up" /\ mode' = "edit" /\ name' # NoName
    BY <1>7 DEF EditFile, Run, Reads, store
  <2>. QED BY <2>1, Resting
<1>8. CASE RunFile
  <2>1. Reads("shell")
    BY <1>0, <1>8 DEF RunFile
  <2>2. CASE line.arg \in DOMAIN mem
    <3>1. phase' = "up" /\ mode' = "screen" /\ message' = "none"
      BY <1>8, <2>1, <2>2 DEF RunFile, Reads, store
    <3>. QED BY <3>1, Resting
  <2>3. CASE line.arg \notin DOMAIN mem
    <3>1. \E m : Answer(m)
      BY <1>8, <2>3, Zenon DEF RunFile
    <3>. QED BY <1>4, <2>1, <3>1
  <2>. QED BY <2>2, <2>3
<1>9. CASE InstallPackage
  <2>1. Reads("shell") /\ catalog' = catalog
    BY <1>0, <1>9 DEF InstallPackage
  <2>2. CASE \E m : Answer(m)
    BY <1>4, <2>1, <2>2
  <2>3. ASSUME NEW i \in Offers(line.arg), CatalogSound, Cardinality(Offers(line.arg)) = 1,
               line.arg \notin DOMAIN mem, Intact(i), Stays,
               Store!Put(line.arg, catalog[i].payload), task' = "install"
        PROVE  NotebookInv'
    <3>1. phase' = "saving" /\ mem' = mem
          /\ attempt' = Store!With(mem, line.arg, catalog[i].payload)
      BY <2>3 DEF Store!Put, Store!Begin
    <3>2. /\ line.arg \in DOMAIN Offer \ DOMAIN mem /\ i \in 1..Len(catalog)
          /\ Page(catalog[i].payload) = Offer[line.arg]
      BY <2>3, Offered
    <3>3. Offer' = Offer
      BY <2>1, OfferKept
    <3>4. mode' = "shell" /\ name' = NoName
      BY <1>2, <2>1, <2>3
    <3>5. attempt' = Store!With(mem', line.arg, catalog'[i].payload)
      BY <2>1, <3>1
    <3>6. \E n \in DOMAIN Offer' \ DOMAIN mem', k \in 1..Len(catalog') :
             attempt' = Store!With(mem', n, catalog'[k].payload)
             /\ Page(catalog'[k].payload) = Offer'[n]
      BY <2>1, <3>1, <3>2, <3>3, <3>5
    <3>7. Saving'
      BY <2>3, <3>4, <3>6 DEF Saving, Store!With
    <3>. QED BY <3>1, <3>4, <3>7 DEF NotebookInv
  <2>4. ASSUME Store!Refuse(line.arg), Stays PROVE NotebookInv'
    BY <1>3, <2>1, <2>4, Refused
  <2>. QED BY <1>9, <2>2, <2>3, <2>4, Zenon DEF InstallPackage, InstallTarget, Loadable
<1>10. CASE RemovePackage
  <2>1. Reads("shell")
    BY <1>0, <1>10 DEF RemovePackage
  <2>2. CASE line.arg \in DOMAIN mem
    <3>1. /\ phase' = "saving" /\ mem' = mem
          /\ attempt' = Store!Restrict(mem, DOMAIN mem \ {line.arg})
      BY <1>10, <2>2 DEF RemovePackage, Store!Remove, Store!Begin
    <3>2. mode' = "shell" /\ name' = NoName /\ task' = "remove"
      BY <1>2, <1>10, <2>1, <2>2 DEF RemovePackage
    <3>3. Saving'
      BY <2>2, <3>1, <3>2 DEF Saving, Store!Restrict
    <3>. QED BY <3>1, <3>2, <3>3 DEF NotebookInv
  <2>3. CASE line.arg \notin DOMAIN mem
    <3>1. \E m : Answer(m)
      BY <1>10, <2>3, Zenon DEF RemovePackage
    <3>. QED BY <1>4, <2>1, <3>1
  <2>. QED BY <2>2, <2>3
<1>11. CASE SetPrinter
  <2>1. Reads("shell")
    BY <1>0, <1>11 DEF SetPrinter
  <2>2. CASE line.arg \in Addresses
    <3>1. Stays /\ phase' = "up"
      BY <1>11, <2>1, <2>2 DEF SetPrinter, Reads, store
    <3>. QED BY <1>3, <2>1, <3>1
  <2>3. CASE line.arg \notin Addresses
    <3>1. \E m : Answer(m)
      BY <1>11, <2>3, Zenon DEF SetPrinter
    <3>. QED BY <1>4, <2>1, <3>1
  <2>. QED BY <2>2, <2>3
<1>12. CASE Halt
  <2>1. phase' = "up" /\ mode' = "halted" /\ name' = NoName
    BY <1>12 DEF Halt, Run, Reads, NotebookInv, store
  <2>. QED BY <2>1, Resting
<1>. QED
  BY <1>5, <1>6, <1>7, <1>8, <1>9, <1>10, <1>11, <1>12 DEF Shell

LEMMA StoreNotebook ==
  ASSUME NotebookInv, StoreStep
  PROVE  NotebookInv'
<1>0. phase = "saving" /\ UNCHANGED <<mode, name, buffer, catalog>>
  BY DEF StoreStep, Settle, Committed, RolledBack, Done, Store!Settle, Store!Ack, Store!Nack,
         Store!Finish
<1>1. CASE Settle
  <2>1. UNCHANGED <<mem, attempt, task, phase, message>>
    BY <1>1 DEF Settle, Store!Settle
  <2>2. Saving'
    BY <1>0, <2>1, SavingKept DEF NotebookInv
  <2>. QED BY <1>0, <2>1, <2>2 DEF NotebookInv
<1>2. CASE Committed \/ RolledBack
  <2>1. phase' = "up"
    BY <1>2 DEF Committed, RolledBack, Store!Ack, Store!Nack, Store!Finish
  <2>2. mode # "screen" /\ mode' # "screen"
    BY <1>0 DEF NotebookInv
  <2>. QED BY <1>0, <2>1, <2>2 DEF NotebookInv
<1>. QED BY <1>1, <1>2 DEF StoreStep

LEMMA StepNotebook == DocumentInv /\ NotebookInv /\ [Next]_vars => NotebookInv'
<1>. SUFFICES ASSUME DocumentInv, NotebookInv, [Next]_vars PROVE NotebookInv'
  OBVIOUS
<1>1. CASE Boot
  <2>1. phase' = "up" /\ mode' = "shell" /\ name' = NoName
    BY <1>1 DEF Boot, Store!Recover, NotebookInv
  <2>. QED BY <2>1, Resting
<1>2. CASE PowerLoss
  BY <1>2 DEF PowerLoss, Store!PowerLoss, ResetRAM, NotebookInv
<1>3. CASE SwallowLF \/ UNCHANGED vars
  <2>1. UNCHANGED <<mem, attempt, phase, mode, name, buffer, task, message, catalog>>
    BY <1>3 DEF SwallowLF, vars, store
  <2>2. phase = "saving" => Saving'
    BY <2>1, SavingKept DEF NotebookInv
  <2>. QED BY <2>1, <2>2 DEF NotebookInv
<1>4. CASE Editor
  BY <1>4, EditorNotebook
<1>5. CASE Program
  BY <1>5, ProgramNotebook
<1>6. CASE Shell
  BY <1>6, ShellNotebook
<1>7. CASE StoreStep
  BY <1>7, StoreNotebook
<1>. QED BY <1>1, <1>2, <1>3, <1>4, <1>5, <1>6, <1>7 DEF Next

LEMMA InitNotebook == Init => NotebookInv /\ Paper!Init
<1>. SUFFICES ASSUME Init PROVE NotebookInv /\ Paper!Init
  OBVIOUS
<1>1. mode = "off" /\ name = NoName /\ message = "none" /\ phase = "down"
  BY DEF Init, Store!Init
<1>2. OpenPage = <<>> /\ Told = "nothing"
  BY <1>1 DEF OpenPage, Editing, Told
<1>. QED BY <1>1, <1>2 DEF NotebookInv, Paper!Init, OpenPage, Told

(* Workspace implements Notebook: for every editor size, store size and    *)
(* catalog the image builder accepts, keys, commands, packages, failing    *)
(* saves and power cuts do to the open document and to the saved ones only *)
(* what a person writing with it is promised, and `Saved.', `Package       *)
(* installed.' and `Package removed.' are shown for nothing else.          *)
THEOREM NotebookImplemented == Spec => ImplementsNotebook
<1>. QED
  BY InitDocuments, StepDocuments, InitNotebook, StepNotebook, NextPaper, PTL
  DEF Spec, ImplementsNotebook, Paper!Spec

=============================================================================
