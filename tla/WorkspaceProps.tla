-------------------------- MODULE WorkspaceProps --------------------------
(***************************************************************************)
(* The properties of Workspace.                                            *)
(***************************************************************************)
EXTENDS Workspace

Document(t) == Len(t) < Capacity /\ Whole(t)

(* Documents fit, with the NUL behind them, and line ends stay whole in the *)
(* editor, in the files and on the floppy: the limits of the editor (.read, *)
(* .carriage_return) never let half of one in, and .remove_newline, which   *)
(* takes two bytes without looking at the first, never leaves half of one   *)
(* or goes below the start of the buffer.                                   *)
LinesWhole ==
  /\ Document(buffer)
  /\ \A n \in DOMAIN mem : Document(mem[n])
  /\ \A n \in DOMAIN attempt : Document(attempt[n])
  /\ \A n \in DOMAIN stable : Document(stable[n])

(* CR LF is one Enter in the shell and in the editor, also when the CR was *)
(* spent on leaving a program's screen: the LF runs no command, adds no    *)
(* line and changes no file.                                               *)
EnterOnce ==
  [][ heard = "CR" /\ heard' = "LF" /\ mode # "screen"
      => UNCHANGED <<store, mode, line, name, buffer, message>> ]_vars

(* What the comment at .run in command_edit says: an LF is ignored if an   *)
(* Enter dismissed the program's screen.  The code ignores it whichever    *)
(* key dismissed the screen.                                               *)
OnlyEnterSwallows ==
  [][ mode = "edit" /\ mode' = "edit" /\ swallow /\ ~swallow' /\ heard' = "LF"
      => heard \in {"CR", "LF"} ]_vars

=============================================================================
