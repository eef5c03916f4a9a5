--------------------------------- MODULE TmQueue --------------------------------
(***************************************************************************)
(* The telemetry queue at work in a tm_generator (libs/dasio/src/tm_gen.cc, *)
(* utils/rdr/rdr.cc).  A writer claims free rows, fills them and commits   *)
(* them; a transmitter sends the rows of first_tmqr to tm_bfr and retires  *)
(* them.  The writer holds no lock between claiming and committing, so the *)
(* transmitter may retire rows in between.                                 *)
(***************************************************************************)
EXTENDS TmQueueOps

CONSTANTS
  MaxRows,      \* bound: rows ever committed
  MaxStamps,    \* bound: time stamps ever committed
  MaxBatch,     \* bound: rows in a record the writer gets at once
  MaxGap        \* bound: rows that may be missing before a record

ASSUME BoundAssumption == /\ MaxRows \in Nat /\ MaxStamps \in Nat
                          /\ MaxBatch \in Nat /\ MaxGap \in Nat

VARIABLES
  q,          \* the tm_queue: first, last, full and the chain of tmq_refs
  mem,        \* the row slots: what each holds
  claim,      \* rows the writer has claimed with allocate_rows
  filled,     \* how many of them it has filled
  batch,      \* label of the first row claimed
  source,     \* label of the next row of the data source
  cur_tsp,    \* time stamp last transmitted, 0 for none
  sent,       \* everything transmitted so far, in order
  nrefs,      \* tmq_refs ever made: the next one's id
  nstamps,    \* time stamps ever committed
  committed,  \* history: rows ever committed
  retired,    \* history: rows ever retired
  base        \* history: base[i] rows precede the rows chain[i] still holds

writer == <<claim, filled, batch, source>>
history == <<committed, retired, base>>
vars == <<q, mem, writer, cur_tsp, sent, nrefs, nstamps, history>>

Labels == [ctr : 0 .. CtrMod - 1, row : 0 .. NRowMinf - 1]

(* What a slot holds: the row's number in the stream and the label it
   carries in its own bytes. *)
RowType == [id : Nat, lab : Labels]

FirstLabel == [ctr |-> 0, row |-> 0]

TypeOK ==
  /\ q \in QueueType
  /\ mem \in [0 .. TotalQrows - 1 -> RowType]
  /\ claim \in 0 .. TotalQrows /\ filled \in 0 .. claim
  /\ batch \in Labels /\ source \in Labels
  /\ cur_tsp \in Nat /\ nrefs \in Nat /\ nstamps \in Nat
  /\ committed \in Nat /\ retired \in Nat /\ base \in Seq(Nat)

Init ==
  /\ q = EmptyQueue
  /\ mem = [s \in 0 .. TotalQrows - 1 |-> [id |-> 0, lab |-> FirstLabel]]
  /\ claim = 0 /\ filled = 0 /\ batch = FirstLabel /\ source = FirstLabel
  /\ cur_tsp = 0 /\ sent = <<>> /\ nrefs = 0 /\ nstamps = 0
  /\ committed = 0 /\ retired = 0 /\ base = <<>>

-----------------------------------------------------------------------------
(* The writer. *)

Stamp ==
  /\ claim = 0
  /\ nstamps < MaxStamps
  /\ q' = CommitTstamp(q, nrefs + 1, nstamps + 1, source.ctr)
  /\ nrefs' = nrefs + 1
  /\ nstamps' = nstamps + 1
  /\ base' = Append(base, committed)
  /\ UNCHANGED <<mem, writer, cur_tsp, sent, committed, retired>>

(* allocate_rows for a record of n rows that starts gap rows after the last
   one: no more are claimed than the record has.  What does not fit is the
   start of the next record. *)
Claim(n, gap) ==
  /\ claim = 0
  /\ q.chain # <<>>
  /\ AllocateRows(q) > 0
  /\ committed + n <= MaxRows
  /\ claim' = IF AllocateRows(q) > n THEN n ELSE AllocateRows(q)
  /\ batch' = LabelAfter(source, gap)
  /\ UNCHANGED <<q, mem, filled, source, cur_tsp, sent, nrefs, nstamps, history>>

(* One row of the record is copied into the next slot claimed. *)
Fill ==
  /\ filled < claim
  /\ mem' = [mem EXCEPT ![q.last + filled] =
               [id |-> committed + filled + 1, lab |-> LabelAfter(batch, filled)]]
  /\ filled' = filled + 1
  /\ UNCHANGED <<q, claim, batch, source, cur_tsp, sent, nrefs, nstamps, history>>

Commit ==
  /\ claim > 0
  /\ filled = claim
  /\ q' = CommitRows(q, nrefs + 1, batch, claim)
  /\ nrefs' = nrefs + Len(q'.chain) - Len(q.chain)
  /\ committed' = committed + claim
  /\ base' = IF Len(q'.chain) > Len(q.chain) THEN Append(base, committed) ELSE base
  /\ source' = LabelAfter(batch, claim)
  /\ claim' = 0
  /\ filled' = 0
  /\ UNCHANGED <<mem, batch, cur_tsp, sent, nstamps, retired>>

-----------------------------------------------------------------------------
(* The transmitter: one turn of the loop of transmit_data.  A time stamp    *)
(* goes out before the first row it applies to.                            *)

TstampItem(tsp) == [kind |-> "tstamp", tsp |-> tsp]

RowItem(tsp, lab, row) ==
  [kind |-> "row", tsp |-> tsp, lab |-> lab, row |-> row]

NewTstamp(ref) == IF ref.tsp # cur_tsp THEN <<TstampItem(ref.tsp)>> ELSE <<>>

(* The first n rows of a tmq_ref as a record shows them: consecutive labels
   from the one in its header, the rows from as many as two pieces of the
   ring. *)
RowItems(ref, n) ==
  [k \in 1 .. n |-> RowItem(ref.tsp, LabelAfter(Starting(ref), k - 1),
                            mem[Wrap(ref.Qrow + k - 1)])]

Retire(n) ==
  /\ q' = RetireRows(q, n)
  /\ retired' = retired + n
  /\ base' = IF Len(q'.chain) < Len(q.chain) THEN Tail(base)
             ELSE [base EXCEPT ![1] = @ + n]

Transmit(n) ==
  /\ q.chain # <<>>
  /\ n = q.chain[1].n_Qrows \/ (n = 1 /\ q.chain[1].n_Qrows > 0)
  /\ sent' = sent \o NewTstamp(q.chain[1]) \o RowItems(q.chain[1], n)
  /\ cur_tsp' = q.chain[1].tsp
  /\ IF n > 0 \/ Len(q.chain) > 1 THEN Retire(n) ELSE UNCHANGED <<q, retired, base>>
  /\ UNCHANGED <<mem, writer, nrefs, nstamps, committed>>

-----------------------------------------------------------------------------
Write ==
  \/ Stamp
  \/ \E n \in 1 .. MaxBatch, gap \in 0 .. MaxGap : Claim(n, gap)
  \/ Fill
  \/ Commit

Send == \E n \in 0 .. TotalQrows : Transmit(n)

Next == Write \/ Send

(* transmit_data runs each time the writer has committed rows, or on every
   tick of the row timer: the transmitter never stops for good. *)
Spec == Init /\ [][Next]_vars /\ WF_vars(Send)

-----------------------------------------------------------------------------
(* The slot of row number b, of those committed and not retired. *)
SlotOf(b) == Wrap(q.first + (b - retired - 1))

(* Rows in the ring, from first, last and full alone. *)
Occupancy == IF q.full THEN TotalQrows
             ELSE IF q.last >= q.first THEN q.last - q.first
             ELSE q.last - q.first + TotalQrows

(* Every row committed and not yet retired is still in its slot, whatever the
   writer filled after it claimed rows and the transmitter retired meanwhile
   (tm_queue.cc:119-127, 166-168, 189-201). *)
RowsIntact ==
  /\ committed - retired = Occupancy
  /\ \A b \in retired + 1 .. committed : mem[SlotOf(b)].id = b

(* The tmq_refs of the chain cover the rows in the ring, each starting in the
   slot where the one before it ends: a reader that walks the chain meets
   every row once (tm_queue.cc:160-165, 202-220). *)
ChainCovers ==
  /\ Len(base) = Len(q.chain)
  /\ q.chain # <<>> =>
       /\ base[1] = retired
       /\ committed = base[Len(base)] + LastRef(q).n_Qrows
  /\ \A i \in 1 .. Len(q.chain) :
       /\ q.chain[i].Qrow = Wrap(q.first + (base[i] - retired))
       /\ i > 1 => base[i] = base[i - 1] + q.chain[i - 1].n_Qrows

(* No assertion of commit_rows or retire_rows fails and no underflow is
   reported: the rows a writer claimed are still free when it commits them,
   the rows a transmitter retires are the ones first points to
   (tm_queue.cc:141-143, 186-200). *)
AssertsHold ==
  /\ claim > 0 => CommitAsserts(q, claim)
  /\ q.chain # <<>> => RetireAsserts(q, q.chain[1].n_Qrows)

(* The tmq_refs of one time stamp are neighbours: when retire_rows deletes the
   last of them it may delete the time stamp too (tm_queue.cc:205-215). *)
TstampsGrouped ==
  \A i, j \in 1 .. Len(q.chain) : i < j => q.chain[i].tsp <= q.chain[j].tsp

(* Every row committed is retired in the end: the transmitter never gets
   stuck on a tmq_ref it cannot leave (tm_gen.cc:85-129). *)
AllTransmitted ==
  \A b \in 1 .. MaxRows : (committed >= b) ~> (retired >= b)
-----------------------------------------------------------------------------
(* The inductive invariant behind the properties above: RowsIntact and
   ChainCovers, and what they need to survive a step. *)

(* The order the history gives the tmq_refs, between any two of them. *)
ChainOrdered ==
  /\ q.chain = <<>> => committed = 0
  /\ \A i \in 1 .. Len(q.chain) :
       /\ retired <= base[i]
       /\ base[i] + q.chain[i].n_Qrows <= committed
       /\ q.chain[i].tsp <= nstamps
  /\ \A i, j \in 1 .. Len(q.chain) :
       i < j => base[i] + q.chain[i].n_Qrows <= base[j]

(* The rows claimed are free, and those filled hold the next rows. *)
ClaimIntact ==
  /\ claim <= AllocateRows(q)
  /\ claim > 0 => q.chain # <<>>
  /\ \A k \in 1 .. filled : mem[q.last + k - 1].id = committed + k

IInv == /\ TypeOK
        /\ q.full => q.first = q.last
        /\ RowsIntact
        /\ ChainCovers
        /\ ChainOrdered
        /\ TstampsGrouped
        /\ ClaimIntact
=============================================================================
