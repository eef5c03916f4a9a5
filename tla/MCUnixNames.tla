------------------------------ MODULE MCUnixNames -------------------------------
(* Three server processes of one service, and one release. *)
EXTENDS UnixNames
CONSTANTS p1, p2, p3

ThreeProcs  == {p1, p2, p3}
TwoServices == {"DG", "cmd"}
AllOfDG     == [p \in ThreeProcs |-> "DG"]
Scene(absent, crashes, releases) ==
  [absent |-> absent, crashes |-> crashes, releases |-> releases]

OneRelease  == {Scene({}, 0, 1)}
=============================================================================
