------------------------- MODULE WorkspaceNotebook -------------------------
(***************************************************************************)
(* Workspace implements Notebook.  CR LF becomes one line end; an unpaired *)
(* byte stays, and no page has one.                                        *)
(***************************************************************************)
EXTENDS WorkspaceProps, SequencesExt

LineEnd == "line end"

(* A line end is none of the characters. *)
ASSUME NotebookAssumption == LineEnd \notin Chars

Page(t) ==
  FoldLeft(LAMBDA p, b : IF b = "LF" /\ p # <<>> /\ Last(p) = "CR"
                         THEN Append(Front(p), LineEnd)
                         ELSE Append(p, b), <<>>, t)

Offer ==
  LET names == {n \in Names : CatalogSound /\ \E i \in Offers(n) : Offers(n) = {i} /\ Intact(i)}
  IN  [n \in names |-> Page(catalog[CHOOSE i \in Offers(n) : TRUE].sum)]

Editing == name # NoName

Paper == INSTANCE Notebook WITH
  Limit <- Capacity - 1,
  on <- mode # "off",
  shelf <- [n \in DOMAIN mem |-> Page(mem[n])],
  offer <- Offer,
  open <- name,
  page <- IF Editing THEN Page(buffer) ELSE <<>>,
  told <- IF message \in {"saved", "installed", "removed"} THEN message ELSE "nothing"

(* The editor, the shell and the packages do to the documents what         *)
(* Notebook says and no more, whatever order bytes, failing saves and      *)
(* power cuts come in: pkg install never replaces a saved file or installs *)
(* a damaged payload, Control-R and a failed save leave the document as it *)
(* is, and `Saved.' is shown when exactly this document was committed.     *)
ImplementsNotebook == Paper!Spec

=============================================================================
