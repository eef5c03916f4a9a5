------------------------------- MODULE Lists --------------------------------
(***************************************************************************)
(* What list::remove leaves of a list, and what a pass over a list comes   *)
(* to, as a recursive function.                                            *)
(***************************************************************************)
EXTENDS Naturals, Sequences

(* The members of s that are in S, in their order. *)
Only(s, S) ==
  LET pick[i \in 0 .. Len(s)] ==
        IF i = 0 THEN <<>>
        ELSE IF s[i] \in S THEN Append(pick[i - 1], s[i]) ELSE pick[i - 1]
  IN pick[Len(s)]
=============================================================================
