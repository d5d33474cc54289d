---------------------------- MODULE MCWorkspace ----------------------------
(* Workspace over two names, one file slot and documents of up to four     *)
(* bytes, with every kind of package catalog.                              *)
EXTENDS WorkspaceNotebook

CONSTANTS n1, n2, x

Package(n, t) == [head |-> "package", name |-> n, sum |-> t, payload |-> t]

Blank == [head |-> "blank", name |-> NoName, sum |-> <<>>, payload |-> <<>>]

OneLine == <<x, "CR", "LF">>

Installable == Package(n2, OneLine)

(* One with an intact and a damaged payload, and four unsound ones. *)
MCCatalogs ==
  { <<[Package(n1, OneLine) EXCEPT !.payload = <<x>>], Installable, Blank>>,
    <<Installable, Package(n2, <<x>>)>>,
    <<Blank, Installable>>,
    <<Installable, [Blank EXCEPT !.head = "damaged"]>>,
    <<Installable, [Blank EXCEPT !.payload = <<x>>]>> }

=============================================================================
