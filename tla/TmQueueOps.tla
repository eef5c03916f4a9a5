------------------------------- MODULE TmQueueOps -------------------------------
(***************************************************************************)
(* The telemetry queue of libs/dasio/src/tm_queue.cc as functions on its   *)
(* control state: a ring of TotalQrows row slots, and the chain of tmq_refs *)
(* that says which minor frame counter and which time stamp the rows in    *)
(* the ring belong to.                                                     *)
(*                                                                         *)
(* A queue is a record [first, last, full, chain]; chain[1] is first_tmqr  *)
(* and chain[Len(chain)] is last_tmqr.  A tmq_tstamp_ref is a number, its  *)
(* identity: its ref_count is the number of members of the chain that name *)
(* it.  A tmq_ref is named by its "id", so that a reader can hold one.     *)
(***************************************************************************)
EXTENDS Integers, Sequences

CONSTANTS
  TotalQrows,   \* total_Qrows: row slots in the ring
  NRowMinf,     \* tm_info.nrowminf: rows in a minor frame
  CtrMod        \* mfc_t is a 16-bit counter: it wraps at CtrMod

ASSUME QueueAssumption == /\ TotalQrows \in Nat \ {0}
                          /\ NRowMinf \in Nat \ {0}
                          /\ CtrMod \in Nat \ {0}

TmqRefType == [id : Nat, tsp : Nat, MFCtr_start : Nat, MFCtr_next : Nat,
               row_start : Nat, row_next : Nat, Qrow : Nat, n_Qrows : Nat,
               Qrows_retired : Nat, ref_count : Nat]

QueueType == [first : 0 .. TotalQrows - 1, last : 0 .. TotalQrows - 1,
              full : BOOLEAN, chain : Seq(TmqRefType)]

EmptyQueue == [first |-> 0, last |-> 0, full |-> FALSE, chain |-> <<>>]

(* An index one past a slot of the ring, brought back into it. *)
Wrap(x) == IF x >= TotalQrows THEN x - TotalQrows ELSE x

(* The label [ctr, row] of the row n rows after the one labelled lab: row
   overflows into the minor frame counter, the counter wraps. *)
LabelAfter(lab, n) ==
  [ctr |-> (lab.ctr + (lab.row + n) \div NRowMinf) % CtrMod,
   row |-> (lab.row + n) % NRowMinf]

Starting(ref) == [ctr |-> ref.MFCtr_start, row |-> ref.row_start]
Expected(ref) == [ctr |-> ref.MFCtr_next, row |-> ref.row_next]

LastRef(q) == q.chain[Len(q.chain)]

(* Mutant of AllocateRows: all rows up to the end of the ring, read or not. *)
AllocateToEnd(q) == IF q.full THEN 0 ELSE TotalQrows - q.last

(* Contiguous free rows from last on. *)
AllocateRows(q) ==
  IF q.full THEN 0
  ELSE IF q.first > q.last THEN q.first - q.last
  ELSE TotalQrows - q.last

NewRef(id, tsp, lab, qrow) ==
  [id |-> id, tsp |-> tsp, MFCtr_start |-> lab.ctr, MFCtr_next |-> lab.ctr,
   row_start |-> lab.row, row_next |-> lab.row, Qrow |-> qrow, n_Qrows |-> 0,
   Qrows_retired |-> 0, ref_count |-> 0]

AppendRows(ref, n) ==
  LET next == LabelAfter(Expected(ref), n)
  IN [ref EXCEPT !.MFCtr_next = next.ctr, !.row_next = next.row,
                 !.n_Qrows = @ + n]

(* Mutant of Relabel: where the rows start is left as it was. *)
RelabelNext(ref, lab) ==
  IF ref.n_Qrows = 0
  THEN [ref EXCEPT !.MFCtr_next = lab.ctr, !.row_next = lab.row]
  ELSE ref

(* An empty tmq_ref takes the label of the rows it is about to get. *)
Relabel(ref, lab) ==
  IF ref.n_Qrows = 0
  THEN [ref EXCEPT !.MFCtr_start = lab.ctr, !.MFCtr_next = lab.ctr,
                   !.row_start = lab.row, !.row_next = lab.row]
  ELSE ref

(* Rows labelled from lab on continue the last tmq_ref. *)
Continues(ref, lab) == ref.n_Qrows = 0 \/ lab = Expected(ref)

(* The assertions at the head of commit_rows. *)
CommitAsserts(q, n) == /\ ~q.full
                       /\ q.last + n <= TotalQrows
                       /\ q.chain # <<>>

ChainAfterCommit(q, id, lab, n) ==
  IF Continues(LastRef(q), lab)
  THEN [q.chain EXCEPT ![Len(q.chain)] = AppendRows(Relabel(@, lab), n)]
  ELSE Append(q.chain,
              AppendRows(NewRef(id, LastRef(q).tsp, lab, q.last), n))

(* Mutant of CommitRows: a ring filled to the brim is taken for empty. *)
CommitNeverFull(q, id, lab, n) ==
  [first |-> q.first, last |-> Wrap(q.last + n), full |-> FALSE,
   chain |-> ChainAfterCommit(q, id, lab, n)]

CommitRows(q, id, lab, n) ==
  LET last == Wrap(q.last + n)
  IN [first |-> q.first, last |-> last,
      full  |-> q.full \/ last = q.first,
      chain |-> ChainAfterCommit(q, id, lab, n)]

CommitTstamp(q, id, tsp, ctr) ==
  [first |-> q.first, last |-> q.last, full |-> q.full,
   chain |-> Append(q.chain, NewRef(id, tsp, [ctr |-> ctr, row |-> 0], q.last))]

(* The assertions and the underflow exits of retire_rows. *)
RetireAsserts(q, n) ==
  /\ q.chain # <<>>
  /\ q.chain[1].n_Qrows >= n
  /\ q.chain[1].Qrow = q.first
  /\ IF q.first < q.last THEN q.first + n <= q.last
     ELSE q.first + n >= TotalQrows => q.first + n - TotalQrows <= q.last

(* Mutant of RetireFrom: Qrow is not moved along with first. *)
RetireInPlace(ref, n, first) ==
  [ref EXCEPT !.n_Qrows = @ - n, !.Qrows_retired = @ + n]

RetireFrom(ref, n, first) ==
  [ref EXCEPT !.Qrow = first, !.n_Qrows = @ - n, !.Qrows_retired = @ + n]

RestartAfter(ref, n) ==
  LET start == LabelAfter(Starting(ref), n)
  IN [ref EXCEPT !.MFCtr_start = start.ctr, !.row_start = start.row]

(* Mutant of Exhausted: a tmq_ref that held no rows is never dropped. *)
ExhaustedByRows(q, n) == /\ n > 0
                         /\ q.chain[1].n_Qrows = n
                         /\ Len(q.chain) > 1
                         /\ q.chain[1].ref_count = 0

(* retire_rows deletes the head of the chain when nothing needs it. *)
Exhausted(q, n) == /\ q.chain[1].n_Qrows = n
                   /\ Len(q.chain) > 1
                   /\ q.chain[1].ref_count = 0

(* retire_rows(first_tmqr, n): its tmq_ref argument is always the head. *)
RetireRows(q, n) ==
  LET first == Wrap(q.first + n)
      ref   == RetireFrom(q.chain[1], n, first)
  IN [first |-> first, last |-> q.last,
      full  |-> q.full /\ n = 0,
      chain |-> IF Exhausted(q, n) THEN Tail(q.chain)
                ELSE [q.chain EXCEPT ![1] = RestartAfter(ref, n)]]
=============================================================================
