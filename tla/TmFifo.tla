---------------------------------- MODULE TmFifo --------------------------------
(***************************************************************************)
(* What a telemetry queue promises: the stream of time stamps and rows the *)
(* writer put in comes out once, in order and unaltered.                   *)
(***************************************************************************)
EXTENDS Integers, Sequences, FiniteSets

VARIABLES pending,    \* put in and not yet delivered
          delivered   \* delivered so far

vars == <<pending, delivered>>

IsRow(item) == item.kind = "row"

RowCount(items) == Cardinality({i \in 1 .. Len(items) : IsRow(items[i])})

Init == pending = <<>> /\ delivered = <<>>

(* The writer adds a time stamp, or rows that carry the next numbers of the
   stream and the labels they are announced under. *)
Put ==
  LET old == Len(pending)
      rows == RowCount(delivered \o pending)
  IN /\ Len(pending') > old
     /\ SubSeq(pending', 1, old) = pending
     /\ \/ Len(pending') = old + 1 /\ ~IsRow(pending'[old + 1])
        \/ \A k \in 1 .. Len(pending') - old :
             /\ IsRow(pending'[old + k])
             /\ pending'[old + k].row.id = rows + k
             /\ pending'[old + k].lab = pending'[old + k].row.lab
     /\ UNCHANGED delivered

(* Some of what is pending, from its head, is delivered. *)
Take ==
  \E n \in 1 .. Len(pending) :
    /\ pending' = SubSeq(pending, n + 1, Len(pending))
    /\ delivered' = delivered \o SubSeq(pending, 1, n)

Next == Put \/ Take

Spec == Init /\ [][Next]_vars
=============================================================================
