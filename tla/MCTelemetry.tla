---------------------------- MODULE MCTelemetry -----------------------------
(***************************************************************************)
(* The two programs through which telemetry goes, in one run: a behaviour  *)
(* is one of the "player" rdr, with the logs and options of MCPlayer, or   *)
(* of the "buffer" tm_bfr.                                                 *)
(***************************************************************************)
EXTENDS MCPlayer, Bfr

VARIABLE program

tmvars == <<program, vars, bfrvars>>

(* The one that does not run stays as it is. *)
OfPlayer(A) == program = "player" /\ A /\ UNCHANGED <<program, bfrvars>>
OfBuffer(A) == program = "buffer" /\ A /\ UNCHANGED <<program, vars>>

TelemetryInit ==
  /\ program \in {"player", "buffer"}
  /\ Init /\ (program = "buffer" => gen.regulated /\ ~gen.autoquit)
  /\ BfrInit

TelemetryNext == OfPlayer(Next) \/ OfBuffer(BfrNext)

(* Each is as fair as its own specification says. *)
PlayerFairness ==
  /\ WF_vars(OfPlayer(Inner))
  /\ SF_vars(OfPlayer(ReadFile \/ ReadEof)) /\ SF_vars(OfPlayer(WriteMore))
  /\ SF_vars(OfPlayer(Negotiated)) /\ SF_vars(OfPlayer(Tick))
  /\ SF_vars(OfPlayer(End)) /\ WF_vars(OfPlayer(BfrReads))

TelemetryFairness ==
  \/ []<>(program = "player") /\ PlayerFairness
  \/ []<>(program = "buffer") /\ Fairness

TelemetrySpec == TelemetryInit /\ [][TelemetryNext]_tmvars /\ TelemetryFairness
=============================================================================
