---------------------------------- MODULE MCTma ----------------------------------
(* A state that holds for one second (`hold or 1;') before its first command. *)
EXTENDS Tma

Command1(op, dt, timeout) ==
  [op |-> op, dt |-> dt, to |-> NoCase, skip |-> 1, timeout |-> timeout]

OneSecond ==
  [A |-> [part |-> 0, cmds |-> << Command1("hold", 0, 1), Command1("send", 1, 0) >>]]
Begin == [p \in {0} |-> "A"]
=============================================================================
