------------------------------ MODULE TmQueueProofs -----------------------------
(***************************************************************************)
(* TmQueue is correct for every size of the ring, of the minor frame and of *)
(* the counter.  The inductive invariant ties the ring (first, last, full)  *)
(* and the chain of tmq_refs to two history counters, the rows committed    *)
(* and the rows retired: sums over the chain are never needed.             *)
(***************************************************************************)
EXTENDS TmQueueFifo, ListsProofs

-----------------------------------------------------------------------------
(* What the operations of TmQueueOps do to a queue.                        *)

(* Labels stay in range when they advance. *)
LEMMA LabelAfterType ==
  ASSUME NEW lab, lab.ctr \in Nat, lab.row \in Nat, NEW n \in Nat
  PROVE  LabelAfter(lab, n) \in Labels
<1> DEFINE r == lab.row + n
           d == r \div NRowMinf
<1>1. NRowMinf \in Nat /\ NRowMinf > 0 /\ CtrMod \in Nat /\ CtrMod > 0
  BY QueueAssumption
<1>2. r \in Nat
  OBVIOUS
<1>3. r % NRowMinf \in 0 .. NRowMinf - 1
  BY <1>1, <1>2
<1>4. d \in Nat
  BY <1>1, <1>2
<1>5. (lab.ctr + d) % CtrMod \in 0 .. CtrMod - 1
  <2> HIDE DEF d
  <2> QED BY <1>1, <1>4
<1> QED BY <1>3, <1>5 DEF LabelAfter, Labels

(* append_rows keeps a tmq_ref a tmq_ref and counts the rows added to it. *)
LEMMA AppendRowsType ==
  ASSUME NEW ref \in TmqRefType, NEW n \in Nat
  PROVE  /\ AppendRows(ref, n) \in TmqRefType
         /\ AppendRows(ref, n).n_Qrows = ref.n_Qrows + n
         /\ AppendRows(ref, n).Qrow = ref.Qrow
         /\ AppendRows(ref, n).tsp = ref.tsp
<1> DEFINE next == LabelAfter(Expected(ref), n)
<1>1. next \in Labels
  BY LabelAfterType DEF Expected, TmqRefType
<1>2. next.ctr \in Nat /\ next.row \in Nat
  BY <1>1 DEF Labels
<1> HIDE DEF next
<1> DEFINE total == ref.n_Qrows + n
<1>3. AppendRows(ref, n) = [ref EXCEPT !.MFCtr_next = next.ctr,
                                       !.row_next = next.row, !.n_Qrows = total]
  BY DEF AppendRows, next
<1>4. total \in Nat
  BY DEF TmqRefType
<1> HIDE DEF total
<1>5. AppendRows(ref, n) \in TmqRefType
  BY <1>2, <1>3, <1>4 DEF TmqRefType
<1>6. /\ AppendRows(ref, n).n_Qrows = total
      /\ AppendRows(ref, n).Qrow = ref.Qrow
      /\ AppendRows(ref, n).tsp = ref.tsp
  BY <1>3 DEF TmqRefType
<1> QED BY <1>5, <1>6 DEF total

(* The chain after a commit: the last tmq_ref grows, or a new one follows. *)
LEMMA CommitChain ==
  ASSUME NEW tmq \in QueueType, tmq.chain # <<>>,
         NEW id \in Nat, NEW lab \in Labels, NEW n \in Nat
  PROVE  LET old == tmq.chain
             new == ChainAfterCommit(tmq, id, lab, n)
         IN /\ new \in Seq(TmqRefType)
            /\ \A i \in 1 .. Len(old) - 1 : new[i] = old[i]
            /\ \/ /\ Len(new) = Len(old)
                  /\ new[Len(old)].n_Qrows = old[Len(old)].n_Qrows + n
                  /\ new[Len(old)].Qrow = old[Len(old)].Qrow
                  /\ new[Len(old)].tsp = old[Len(old)].tsp
               \/ /\ Len(new) = Len(old) + 1
                  /\ new[Len(old)] = old[Len(old)]
                  /\ new[Len(new)].n_Qrows = n
                  /\ new[Len(new)].Qrow = tmq.last
                  /\ new[Len(new)].tsp = old[Len(old)].tsp
<1> DEFINE old == tmq.chain
           new == ChainAfterCommit(tmq, id, lab, n)
<1>1. /\ old \in Seq(TmqRefType) /\ Len(old) \in Nat /\ Len(old) > 0
      /\ tmq.last \in Nat
  BY QueueAssumption DEF QueueType
<1>2. LastRef(tmq) = old[Len(old)] /\ LastRef(tmq) \in TmqRefType
  BY <1>1 DEF LastRef
<1>3. lab.ctr \in Nat /\ lab.row \in Nat
  BY DEF Labels
<1>4. CASE Continues(LastRef(tmq), lab)
  <2> DEFINE ref == Relabel(LastRef(tmq), lab)
  <2>1. /\ ref \in TmqRefType
        /\ ref.n_Qrows = LastRef(tmq).n_Qrows
        /\ ref.Qrow = LastRef(tmq).Qrow
        /\ ref.tsp = LastRef(tmq).tsp
    BY <1>2, <1>3 DEF Relabel, TmqRefType
  <2> HIDE DEF ref
  <2>2. /\ AppendRows(ref, n) \in TmqRefType
        /\ AppendRows(ref, n).n_Qrows = ref.n_Qrows + n
        /\ AppendRows(ref, n).Qrow = ref.Qrow
        /\ AppendRows(ref, n).tsp = ref.tsp
    BY <2>1, AppendRowsType
  <2>3. new = [old EXCEPT ![Len(old)] = AppendRows(ref, n)]
    BY <1>4, <1>2 DEF ChainAfterCommit, ref
  <2> HIDE DEF new, old
  <2>4. /\ new \in Seq(TmqRefType) /\ Len(new) = Len(old)
        /\ new[Len(old)] = AppendRows(ref, n)
        /\ \A i \in 1 .. Len(old) - 1 : new[i] = old[i]
    BY <1>1, <2>2, <2>3
  <2> QED BY <2>1, <2>2, <2>4, <1>2 DEF new, old
<1>5. CASE ~Continues(LastRef(tmq), lab)
  <2> DEFINE ref == NewRef(id, LastRef(tmq).tsp, lab, tmq.last)
  <2>1. /\ ref \in TmqRefType /\ ref.n_Qrows = 0
        /\ ref.Qrow = tmq.last /\ ref.tsp = LastRef(tmq).tsp
    BY <1>1, <1>2, <1>3 DEF NewRef, TmqRefType
  <2> HIDE DEF ref
  <2>2. /\ AppendRows(ref, n) \in TmqRefType
        /\ AppendRows(ref, n).n_Qrows = n
        /\ AppendRows(ref, n).Qrow = tmq.last
        /\ AppendRows(ref, n).tsp = LastRef(tmq).tsp
    BY <2>1, AppendRowsType
  <2>3. new = Append(old, AppendRows(ref, n))
    BY <1>5 DEF ChainAfterCommit, ref
  <2> HIDE DEF new, old
  <2>4. /\ new \in Seq(TmqRefType) /\ Len(new) = Len(old) + 1
        /\ new[Len(new)] = AppendRows(ref, n)
        /\ \A i \in 1 .. Len(old) : new[i] = old[i]
    BY <1>1, <2>2, <2>3
  <2> QED BY <2>2, <2>4, <1>1, <1>2 DEF new, old
<1> QED BY <1>4, <1>5

(* The chain after rows are retired: the head shrinks, or an empty head goes. *)
LEMMA RetireChain ==
  ASSUME NEW tmq \in QueueType, tmq.chain # <<>>,
         NEW n \in Nat, n <= tmq.chain[1].n_Qrows
  PROVE  LET old == tmq.chain
             new == RetireRows(tmq, n).chain
         IN /\ new \in Seq(TmqRefType)
            /\ \/ /\ Len(new) = Len(old)
                  /\ new[1].n_Qrows = old[1].n_Qrows - n
                  /\ new[1].Qrow = Wrap(tmq.first + n)
                  /\ new[1].tsp = old[1].tsp
                  /\ \A i \in 2 .. Len(old) : new[i] = old[i]
               \/ /\ old[1].n_Qrows = n
                  /\ Len(old) > 1
                  /\ new = Tail(old)
<1> DEFINE old == tmq.chain
           new == RetireRows(tmq, n).chain
           first == Wrap(tmq.first + n)
           ref == RetireFrom(old[1], n, first)
<1>1. /\ old \in Seq(TmqRefType) /\ Len(old) \in Nat /\ Len(old) > 0
      /\ first \in Nat /\ old[1] \in TmqRefType
  BY QueueAssumption DEF QueueType, Wrap
<1>2. CASE Exhausted(tmq, n)
  <2>1. new = Tail(old) /\ old[1].n_Qrows = n /\ Len(old) > 1
    BY <1>2 DEF RetireRows, Exhausted
  <2> QED BY <1>1, <2>1
<1>3. CASE ~Exhausted(tmq, n)
  <2> HIDE DEF first
  <2> DEFINE head == old[1]
             rest == head.n_Qrows - n
             gone == head.Qrows_retired + n
  <2>0. rest \in Nat /\ gone \in Nat /\ head \in TmqRefType
    <3>1. head \in TmqRefType
      BY <1>1
    <3>2. head.n_Qrows \in Nat /\ head.Qrows_retired \in Nat
      BY <3>1 DEF TmqRefType
    <3>3. n <= head.n_Qrows
      OBVIOUS
    <3> QED BY <3>1, <3>2, <3>3
  <2>a. ref = [head EXCEPT !.Qrow = first, !.n_Qrows = rest,
                           !.Qrows_retired = gone]
    BY DEF RetireFrom
  <2> HIDE DEF ref, rest, gone, head
  <2>b. ref \in TmqRefType
    BY <1>1, <2>0, <2>a DEF TmqRefType
  <2>c. ref.n_Qrows = rest /\ ref.Qrow = first /\ ref.tsp = head.tsp
    BY <2>0, <2>a DEF TmqRefType
  <2>1. /\ ref \in TmqRefType /\ ref.n_Qrows = old[1].n_Qrows - n
        /\ ref.Qrow = first /\ ref.tsp = old[1].tsp
    BY <2>b, <2>c DEF rest, head
  <2> DEFINE start == LabelAfter(Starting(ref), n)
  <2>2. start.ctr \in Nat /\ start.row \in Nat
    <3>1. start \in Labels
      BY <2>1, LabelAfterType DEF Starting, TmqRefType
    <3> HIDE DEF start
    <3> QED BY <3>1 DEF Labels
  <2>3. RestartAfter(ref, n) = [ref EXCEPT !.MFCtr_start = start.ctr,
                                           !.row_start = start.row]
    BY DEF RestartAfter
  <2> HIDE DEF start
  <2>4. /\ RestartAfter(ref, n) \in TmqRefType
        /\ RestartAfter(ref, n).n_Qrows = old[1].n_Qrows - n
        /\ RestartAfter(ref, n).Qrow = first
        /\ RestartAfter(ref, n).tsp = old[1].tsp
    BY <2>1, <2>2, <2>3 DEF TmqRefType
  <2>5. new = [old EXCEPT ![1] = RestartAfter(ref, n)]
    BY <1>3 DEF RetireRows, ref, first
  <2> HIDE DEF new, old
  <2>6. /\ new \in Seq(TmqRefType) /\ Len(new) = Len(old)
        /\ new[1] = RestartAfter(ref, n)
        /\ \A i \in 2 .. Len(old) : new[i] = old[i]
    BY <1>1, <2>4, <2>5
  <2> QED BY <2>4, <2>6 DEF new, old, first
<1> QED BY <1>2, <1>3
-----------------------------------------------------------------------------
(* The inductive invariant.                                                *)

(* IInv holds of the empty queue. *)
LEMMA InitIInv == Init => IInv
<1> SUFFICES ASSUME Init PROVE IInv
  OBVIOUS
<1> USE DEF Init, EmptyQueue
<1>1. TotalQrows \in Nat /\ TotalQrows > 0 /\ FirstLabel \in Labels
  BY QueueAssumption DEF FirstLabel, Labels
<1>2. q.chain = <<>> /\ q.first = 0 /\ q.last = 0 /\ q.full = FALSE
  OBVIOUS
<1>3. TypeOK
  <2>1. q \in QueueType
    BY <1>1 DEF QueueType
  <2>2. mem \in [0 .. TotalQrows - 1 -> RowType]
    BY <1>1 DEF RowType
  <2> QED BY <1>1, <2>1, <2>2 DEF TypeOK
<1>4. RowsIntact
  BY <1>1, <1>2 DEF RowsIntact, Occupancy
<1>5. ChainCovers /\ ChainOrdered /\ TstampsGrouped
  BY <1>2 DEF ChainCovers, ChainOrdered, TstampsGrouped
<1>6. ClaimIntact
  BY <1>1, <1>2 DEF ClaimIntact, AllocateRows
<1> QED BY <1>2, <1>3, <1>4, <1>5, <1>6 DEF IInv

(* ChainCovers, ChainOrdered and TstampsGrouped of any chain and history. *)
ChainInv(ch, bs, first, com, ret, stamps) ==
  /\ Len(bs) = Len(ch)
  /\ Len(ch) = 0 => com = 0
  /\ Len(ch) > 0 => bs[1] = ret /\ com = bs[Len(ch)] + ch[Len(ch)].n_Qrows
  /\ \A i \in 1 .. Len(ch) :
       /\ ch[i].Qrow = Wrap(first + (bs[i] - ret))
       /\ ret <= bs[i]
       /\ bs[i] + ch[i].n_Qrows <= com
       /\ ch[i].tsp <= stamps
  /\ \A i \in 1 .. Len(ch) : i > 1 => bs[i] = bs[i - 1] + ch[i - 1].n_Qrows
  /\ \A i, j \in 1 .. Len(ch) :
       i < j => bs[i] + ch[i].n_Qrows <= bs[j] /\ ch[i].tsp <= ch[j].tsp

(* The members of a chain and of its history are numbers. *)
Counted(ch, bs) == \A i \in 1 .. Len(ch) : /\ ch[i].n_Qrows \in Nat
                                           /\ ch[i].tsp \in Nat
                                           /\ bs[i] \in Nat

LEMMA CountedChain ==
  ASSUME NEW ch \in Seq(TmqRefType), NEW bs \in Seq(Nat), Len(bs) = Len(ch)
  PROVE  Counted(ch, bs) /\ Len(ch) \in Nat
<1> SUFFICES ASSUME NEW i \in 1 .. Len(ch)
             PROVE  ch[i].n_Qrows \in Nat /\ ch[i].tsp \in Nat /\ bs[i] \in Nat
  BY DEF Counted
<1>1. ch[i] \in TmqRefType /\ bs[i] \in Nat
  OBVIOUS
<1> QED BY <1>1 DEF TmqRefType

(* What ChainInv says of one tmq_ref. *)
LEMMA ChainInvAt ==
  ASSUME NEW ch, NEW bs, NEW first, NEW com, NEW ret, NEW stamps,
         ChainInv(ch, bs, first, com, ret, stamps), Counted(ch, bs),
         NEW i \in 1 .. Len(ch)
  PROVE  /\ ch[i].Qrow = Wrap(first + (bs[i] - ret))
         /\ ret <= bs[i]
         /\ bs[i] + ch[i].n_Qrows <= com
         /\ ch[i].tsp <= stamps
         /\ ch[i].n_Qrows \in Nat /\ ch[i].tsp \in Nat /\ bs[i] \in Nat
BY DEF ChainInv, Counted

(* ch2 and bs2 are ch and bs with one more tmq_ref, of the n rows after com. *)
Extended(ch, bs, N, ch2, bs2, first, com, ret, stamps, stamps2, n) ==
  /\ N \in Nat
  /\ Len(ch) = N
  /\ Counted(ch, bs)
  /\ Len(ch2) = N + 1
  /\ Len(bs2) = N + 1
  /\ first \in Nat
  /\ com \in Nat
  /\ ret \in Nat
  /\ ret <= com
  /\ stamps \in Nat
  /\ stamps2 \in Nat
  /\ stamps <= stamps2
  /\ n \in Nat
  /\ ChainInv(ch, bs, first, com, ret, stamps)
  /\ \A i \in 1 .. N : ch2[i] = ch[i] /\ bs2[i] = bs[i]
  /\ bs2[N + 1] = com
  /\ ch2[N + 1].n_Qrows = n
  /\ ch2[N + 1].Qrow = Wrap(first + (com - ret))
  /\ ch2[N + 1].tsp \in Nat
  /\ ch2[N + 1].tsp <= stamps2
  /\ \A i \in 1 .. N : ch[i].tsp <= ch2[N + 1].tsp

(* A tmq_ref put after the last one, for the rows that follow. *)
LEMMA ExtendChain ==
  ASSUME NEW ch, NEW bs, NEW N, NEW ch2, NEW bs2, NEW first, NEW com, NEW ret,
         NEW stamps, NEW stamps2, NEW n,
         Extended(ch, bs, N, ch2, bs2, first, com, ret, stamps, stamps2, n)
  PROVE  ChainInv(ch2, bs2, first, com + n, ret, stamps2)
<1> USE DEF Extended
<1>1. N + 1 > 0 /\ ~(N + 1 = 0)
  OBVIOUS
<1>2. bs2[1] = ret
  <2>1. CASE N = 0
    BY <2>1 DEF ChainInv
  <2>2. CASE N > 0
    BY <2>2 DEF ChainInv
  <2> QED BY <2>1, <2>2
<1>3. ASSUME NEW i \in 1 .. N + 1
      PROVE  /\ ch2[i].Qrow = Wrap(first + (bs2[i] - ret))
             /\ ret <= bs2[i]
             /\ bs2[i] + ch2[i].n_Qrows <= com + n
             /\ ch2[i].tsp <= stamps2
  <2>1. CASE i \in 1 .. N
    <3>1. /\ ch[i].Qrow = Wrap(first + (bs[i] - ret))
          /\ ret <= bs[i] /\ bs[i] + ch[i].n_Qrows <= com
          /\ ch[i].tsp <= stamps /\ ch[i].n_Qrows \in Nat
          /\ ch[i].tsp \in Nat /\ bs[i] \in Nat
      BY <2>1, ChainInvAt
    <3>2. ch2[i] = ch[i] /\ bs2[i] = bs[i]
      BY <2>1
    <3>3. bs[i] + ch[i].n_Qrows <= com + n
      BY <3>1, Z3T(60)
    <3>4. ch[i].tsp <= stamps2
      BY <3>1
    <3> QED BY <3>1, <3>2, <3>3, <3>4
  <2>2. CASE i = N + 1
    BY <2>2
  <2> QED BY <2>1, <2>2
<1>4. ASSUME NEW i \in 1 .. N + 1, i > 1
      PROVE  bs2[i] = bs2[i - 1] + ch2[i - 1].n_Qrows
  <2>0. i - 1 \in 1 .. N
    BY <1>4
  <2>1. CASE i \in 1 .. N
    BY <2>0, <2>1, <1>4 DEF ChainInv
  <2>2. CASE i = N + 1
    BY <2>0, <2>2 DEF ChainInv
  <2> QED BY <2>1, <2>2
<1>5. ASSUME NEW i \in 1 .. N + 1, NEW j \in 1 .. N + 1, i < j
      PROVE  bs2[i] + ch2[i].n_Qrows <= bs2[j] /\ ch2[i].tsp <= ch2[j].tsp
  <2>0. i \in 1 .. N
    BY <1>5
  <2>1. CASE j \in 1 .. N
    BY <2>0, <2>1, <1>5 DEF ChainInv
  <2>2. CASE j = N + 1
    BY <2>0, <2>2 DEF ChainInv
  <2> QED BY <2>1, <2>2
<1> QED BY <1>1, <1>2, <1>3, <1>4, <1>5 DEF ChainInv

(* ch2 is ch with n more rows in its last tmq_ref. *)
Grown(ch, bs, N, ch2, first, com, ret, stamps, n) ==
  /\ N \in Nat
  /\ Len(ch) = N
  /\ N > 0
  /\ Counted(ch, bs)
  /\ Len(ch2) = N
  /\ first \in Nat
  /\ com \in Nat
  /\ ret \in Nat
  /\ stamps \in Nat
  /\ n \in Nat
  /\ ChainInv(ch, bs, first, com, ret, stamps)
  /\ \A i \in 1 .. N - 1 : ch2[i] = ch[i]
  /\ ch2[N].n_Qrows = ch[N].n_Qrows + n
  /\ ch2[N].Qrow = ch[N].Qrow
  /\ ch2[N].tsp = ch[N].tsp

(* Rows appended to the last tmq_ref. *)
LEMMA GrowChain ==
  ASSUME NEW ch, NEW bs, NEW N, NEW ch2, NEW first, NEW com, NEW ret, NEW stamps, NEW n,
         Grown(ch, bs, N, ch2, first, com, ret, stamps, n)
  PROVE  ChainInv(ch2, bs, first, com + n, ret, stamps)
<1> USE DEF Grown
<1>1. ASSUME NEW i \in 1 .. N
      PROVE  /\ ch2[i].Qrow = Wrap(first + (bs[i] - ret))
             /\ ret <= bs[i]
             /\ bs[i] + ch2[i].n_Qrows <= com + n
             /\ ch2[i].tsp <= stamps
  <2>0. /\ ch[i].Qrow = Wrap(first + (bs[i] - ret))
        /\ ret <= bs[i] /\ bs[i] + ch[i].n_Qrows <= com
        /\ ch[i].tsp <= stamps /\ ch[i].n_Qrows \in Nat
        /\ ch[i].tsp \in Nat /\ bs[i] \in Nat
    BY ChainInvAt
  <2>1. CASE i \in 1 .. N - 1
    <3>1. ch2[i] = ch[i]
      BY <2>1
    <3> QED BY <2>0, <3>1
  <2>2. CASE i = N
    BY <2>0, <2>2, SMTT(60)
  <2> QED BY <2>1, <2>2
<1>2. ASSUME NEW i \in 1 .. N, i > 1
      PROVE  bs[i] = bs[i - 1] + ch2[i - 1].n_Qrows
  <2>1. i - 1 \in 1 .. N - 1
    BY <1>2
  <2> QED BY <2>1, <1>2 DEF ChainInv
<1>3. ASSUME NEW i \in 1 .. N, NEW j \in 1 .. N, i < j
      PROVE  bs[i] + ch2[i].n_Qrows <= bs[j] /\ ch2[i].tsp <= ch2[j].tsp
  <2>0. i \in 1 .. N - 1
    BY <1>3
  <2>1. CASE j \in 1 .. N - 1
    BY <2>0, <2>1, <1>3 DEF ChainInv
  <2>2. CASE j = N
    BY <2>0, <2>2, <1>3 DEF ChainInv
  <2> QED BY <2>1, <2>2
<1>4. bs[1] = ret /\ com + n = bs[N] + ch2[N].n_Qrows /\ Len(bs) = N
  BY SMTT(60) DEF ChainInv, Counted
<1> QED BY <1>1, <1>2, <1>3, <1>4 DEF ChainInv

(* The slot n rows on is in the ring, and so is the one after wrapping. *)
LEMMA WrapSlot ==
  ASSUME NEW first \in 0 .. TotalQrows - 1, NEW n \in Nat, n <= TotalQrows
  PROVE  /\ Wrap(first + n) \in 0 .. TotalQrows - 1
         /\ Wrap(Wrap(first + n)) = Wrap(first + n)
BY QueueAssumption DEF Wrap

(* ch2 and bs2 are ch and bs with n rows retired from the head. *)
Shrunk(ch, bs, N, ch2, bs2, first, com, ret, stamps, n) ==
  /\ N \in Nat
  /\ Len(ch) = N
  /\ N > 0
  /\ Counted(ch, bs)
  /\ Len(ch2) = N
  /\ Len(bs2) = N
  /\ first \in 0 .. TotalQrows - 1
  /\ com \in Nat
  /\ ret \in Nat
  /\ com - ret <= TotalQrows
  /\ stamps \in Nat
  /\ n \in Nat
  /\ n <= ch[1].n_Qrows
  /\ ChainInv(ch, bs, first, com, ret, stamps)
  /\ \A i \in 2 .. N : ch2[i] = ch[i] /\ bs2[i] = bs[i]
  /\ bs2[1] = bs[1] + n
  /\ ch2[1].n_Qrows = ch[1].n_Qrows - n
  /\ ch2[1].Qrow = Wrap(first + n)
  /\ ch2[1].tsp = ch[1].tsp

(* Rows retired from the head of the chain. *)
LEMMA ShrinkChain ==
  ASSUME NEW ch, NEW bs, NEW N, NEW ch2, NEW bs2, NEW first, NEW com, NEW ret,
         NEW stamps, NEW n,
         Shrunk(ch, bs, N, ch2, bs2, first, com, ret, stamps, n)
  PROVE  ChainInv(ch2, bs2, Wrap(first + n), com, ret + n, stamps)
<1> USE DEF Shrunk
<1>0. TotalQrows \in Nat /\ TotalQrows > 0
  BY QueueAssumption
<1>1. /\ bs[1] = ret /\ com = bs[N] + ch[N].n_Qrows
      /\ ch[1].n_Qrows \in Nat /\ bs[1] \in Nat /\ bs[N] \in Nat
      /\ ch[N].n_Qrows \in Nat /\ Len(bs) = N
  BY SMTT(60) DEF ChainInv, Counted
<1>2. bs2[1] = ret + n
  BY <1>1
<1>3. com = bs2[N] + ch2[N].n_Qrows
  <2>1. CASE N = 1
    BY <2>1, <1>1
  <2>2. CASE N > 1
    BY <2>2, <1>1
  <2> QED BY <2>1, <2>2
<1>4. ASSUME NEW i \in 1 .. N
      PROVE  /\ ch2[i].Qrow = Wrap(Wrap(first + n) + (bs2[i] - (ret + n)))
             /\ ret + n <= bs2[i]
             /\ bs2[i] + ch2[i].n_Qrows <= com
             /\ ch2[i].tsp <= stamps
  <2>0. /\ ch[i].Qrow = Wrap(first + (bs[i] - ret))
        /\ ret <= bs[i] /\ bs[i] + ch[i].n_Qrows <= com
        /\ ch[i].tsp <= stamps /\ ch[i].n_Qrows \in Nat
        /\ ch[i].tsp \in Nat /\ bs[i] \in Nat
    BY ChainInvAt, Z3T(60)
  <2>1. CASE i = 1
    <3>0. /\ n \in Nat /\ ret \in Nat /\ com \in Nat /\ TotalQrows \in Nat
          /\ bs[1] = ret /\ ch[1].n_Qrows \in Nat /\ n <= ch[1].n_Qrows
          /\ bs[1] + ch[1].n_Qrows <= com /\ com - ret <= TotalQrows
          /\ bs2[1] = bs[1] + n /\ ch2[1].n_Qrows = ch[1].n_Qrows - n
      BY <1>0, <1>1, <2>0, <2>1, SMTT(60)
    <3>1. n <= TotalQrows
      BY ONLY <3>0, SMTT(60)
    <3>2. Wrap(Wrap(first + n) + (bs2[1] - (ret + n))) = Wrap(first + n)
      <4>1. bs2[1] - (ret + n) = 0
        BY <1>2
      <4>2. Wrap(first + n) \in 0 .. TotalQrows - 1 /\ Wrap(Wrap(first + n)) = Wrap(first + n)
        BY <3>1, WrapSlot
      <4>3. Wrap(first + n) + 0 = Wrap(first + n)
        BY <4>2
      <4> QED BY <4>1, <4>2, <4>3
    <3>3. bs2[1] + ch2[1].n_Qrows <= com
      BY ONLY <3>0, SMTT(60)
    <3> QED BY <2>0, <2>1, <3>2, <3>3, <1>2, SMTT(60)
  <2>2. CASE i \in 2 .. N
    <3>1. ch2[i] = ch[i] /\ bs2[i] = bs[i]
      BY <2>2
    <3>2. bs[1] + ch[1].n_Qrows <= bs[i]
      BY <2>2 DEF ChainInv
    <3>3. ret + n <= bs[i]
      BY <3>2, <1>1, <2>0, SMTT(60)
    <3>4. Wrap(first + (bs[i] - ret)) = Wrap(Wrap(first + n) + (bs[i] - (ret + n)))
      <4> DEFINE b == bs[i]
      <4>1. /\ b <= com /\ b \in Nat /\ ret + n <= b /\ com \in Nat /\ ret \in Nat
        /\ n \in Nat /\ first \in 0 .. TotalQrows - 1 /\ com - ret <= TotalQrows
        BY <2>0, <3>3, SMTT(60)
      <4> HIDE DEF b
      <4>2. Wrap(Wrap(first + n) + (b - (ret + n))) = Wrap(first + (b - ret))
        BY ONLY <4>1, QueueAssumption, SMTT(30) DEF Wrap
      <4> QED BY <4>2 DEF b
    <3> QED BY <2>0, <3>1, <3>3, <3>4
  <2> QED BY <2>1, <2>2
<1>5. ASSUME NEW i \in 1 .. N, i > 1
      PROVE  bs2[i] = bs2[i - 1] + ch2[i - 1].n_Qrows
  <2>0. i \in 2 .. N /\ bs[i] = bs[i - 1] + ch[i - 1].n_Qrows
    BY <1>5 DEF ChainInv
  <2>1. CASE i = 2
    BY <2>0, <2>1, <1>1, SMTT(60)
  <2>2. CASE i > 2
    <3>1. i - 1 \in 2 .. N
      BY <2>2
    <3> QED BY <2>0, <3>1
  <2> QED BY <2>0, <2>1, <2>2
<1>6. ASSUME NEW i \in 1 .. N, NEW j \in 1 .. N, i < j
      PROVE  bs2[i] + ch2[i].n_Qrows <= bs2[j] /\ ch2[i].tsp <= ch2[j].tsp
  <2>0. /\ j \in 2 .. N /\ (i = 1 \/ i \in 2 .. N)
        /\ bs[i] + ch[i].n_Qrows <= bs[j] /\ ch[i].tsp <= ch[j].tsp
    BY <1>6 DEF ChainInv
  <2>1. CASE i = 1
    BY <2>0, <2>1, <1>1, SMTT(60)
  <2>2. CASE i \in 2 .. N
    BY <2>0, <2>2
  <2> QED BY <2>0, <2>1, <2>2
<1> QED BY <1>2, <1>3, <1>4, <1>5, <1>6 DEF ChainInv

(* ch2 and bs2 are ch and bs without their head, which held n rows. *)
Dropped(ch, bs, N, ch2, bs2, first, com, ret, stamps, n) ==
  /\ N \in Nat
  /\ Len(ch) = N
  /\ N > 1
  /\ Counted(ch, bs)
  /\ Len(ch2) = N - 1
  /\ Len(bs2) = N - 1
  /\ first \in 0 .. TotalQrows - 1
  /\ com \in Nat
  /\ ret \in Nat
  /\ com - ret <= TotalQrows
  /\ stamps \in Nat
  /\ n \in Nat
  /\ n = ch[1].n_Qrows
  /\ ChainInv(ch, bs, first, com, ret, stamps)
  /\ \A i \in 1 .. N - 1 : ch2[i] = ch[i + 1] /\ bs2[i] = bs[i + 1]

(* An empty head taken off the chain. *)
LEMMA DropChain ==
  ASSUME NEW ch, NEW bs, NEW N, NEW ch2, NEW bs2, NEW first, NEW com, NEW ret,
         NEW stamps, NEW n,
         Dropped(ch, bs, N, ch2, bs2, first, com, ret, stamps, n)
  PROVE  ChainInv(ch2, bs2, Wrap(first + n), com, ret + n, stamps)
<1> USE DEF Dropped
<1>0. TotalQrows \in Nat /\ TotalQrows > 0
  BY QueueAssumption
<1>1. /\ bs[1] = ret /\ com = bs[N] + ch[N].n_Qrows
      /\ ch[1].n_Qrows \in Nat /\ bs[1] \in Nat
  BY DEF ChainInv, Counted
<1>2. bs2[1] = ret + n
  <2>1. bs[2] = bs[1] + ch[1].n_Qrows
    BY DEF ChainInv
  <2> QED BY <2>1, <1>1
<1>3. com = bs2[N - 1] + ch2[N - 1].n_Qrows
  BY <1>1
<1>4. ASSUME NEW i \in 1 .. N - 1
      PROVE  /\ ch2[i].Qrow = Wrap(Wrap(first + n) + (bs2[i] - (ret + n)))
             /\ ret + n <= bs2[i]
             /\ bs2[i] + ch2[i].n_Qrows <= com
             /\ ch2[i].tsp <= stamps
  <2> DEFINE k == i + 1
  <2>0. k \in 2 .. N /\ ch2[i] = ch[k] /\ bs2[i] = bs[k]
    OBVIOUS
  <2> HIDE DEF k
  <2>1. /\ ch[k].Qrow = Wrap(first + (bs[k] - ret))
        /\ ret <= bs[k] /\ bs[k] + ch[k].n_Qrows <= com
        /\ ch[k].tsp <= stamps /\ ch[k].n_Qrows \in Nat
        /\ ch[k].tsp \in Nat /\ bs[k] \in Nat
    <3>1. k \in 1 .. Len(ch)
      BY <2>0
    <3> QED BY <3>1, ChainInvAt, SMTT(60)
  <2>2. bs[1] + ch[1].n_Qrows <= bs[k]
    BY <2>0 DEF ChainInv
  <2>3. ret + n <= bs[k]
    BY <2>1, <2>2, <1>1
  <2>4. Wrap(first + (bs[k] - ret)) = Wrap(Wrap(first + n) + (bs[k] - (ret + n)))
    <3> DEFINE b == bs[k]
    <3>1. /\ b <= com /\ b \in Nat /\ ret + n <= b /\ com \in Nat /\ ret \in Nat
        /\ n \in Nat /\ first \in 0 .. TotalQrows - 1 /\ com - ret <= TotalQrows
      BY <2>1, <2>3, SMTT(60)
    <3> HIDE DEF b
    <3>2. Wrap(Wrap(first + n) + (b - (ret + n))) = Wrap(first + (b - ret))
      BY ONLY <3>1, QueueAssumption, SMTT(30) DEF Wrap
    <3> QED BY <3>2 DEF b
  <2> QED BY <2>0, <2>1, <2>3, <2>4
<1>5. ASSUME NEW i \in 1 .. N - 1, i > 1
      PROVE  bs2[i] = bs2[i - 1] + ch2[i - 1].n_Qrows
  <2>1. i - 1 \in 1 .. N - 1 /\ i + 1 \in 1 .. N /\ i + 1 > 1 /\ (i + 1) - 1 = i /\ (i - 1) + 1 = i
    BY <1>5
  <2>2. bs[i + 1] = bs[i] + ch[i].n_Qrows
    BY <2>1 DEF ChainInv
  <2> QED BY <2>1, <2>2
<1>6. ASSUME NEW i \in 1 .. N - 1, NEW j \in 1 .. N - 1, i < j
      PROVE  bs2[i] + ch2[i].n_Qrows <= bs2[j] /\ ch2[i].tsp <= ch2[j].tsp
  <2>1. i + 1 \in 1 .. N /\ j + 1 \in 1 .. N /\ i + 1 < j + 1
    BY <1>6
  <2>2. bs[i + 1] + ch[i + 1].n_Qrows <= bs[j + 1] /\ ch[i + 1].tsp <= ch[j + 1].tsp
    BY <2>1 DEF ChainInv
  <2> QED BY <2>2
<1>7. N - 1 > 0 /\ ~(N - 1 = 0)
  OBVIOUS
<1> QED BY <1>2, <1>3, <1>4, <1>5, <1>6, <1>7 DEF ChainInv

-----------------------------------------------------------------------------
(* From the invariant to the facts the steps use, and back.                *)

LEMMA Facts ==
  ASSUME IInv
  PROVE  /\ TotalQrows \in Nat /\ TotalQrows > 0
         /\ q \in QueueType /\ q.first \in 0 .. TotalQrows - 1
         /\ q.last \in 0 .. TotalQrows - 1 /\ q.full \in BOOLEAN
         /\ q.chain \in Seq(TmqRefType) /\ base \in Seq(Nat)
         /\ committed \in Nat /\ retired \in Nat /\ nstamps \in Nat /\ nrefs \in Nat
         /\ Len(q.chain) \in Nat /\ Len(base) = Len(q.chain)
         /\ (q.chain = <<>> <=> Len(q.chain) = 0)
         /\ Counted(q.chain, base)
         /\ ChainInv(q.chain, base, q.first, committed, retired, nstamps)
<1>1. /\ TotalQrows \in Nat /\ TotalQrows > 0
      /\ q \in QueueType /\ q.first \in 0 .. TotalQrows - 1
      /\ q.last \in 0 .. TotalQrows - 1 /\ q.full \in BOOLEAN
      /\ q.chain \in Seq(TmqRefType) /\ base \in Seq(Nat)
      /\ committed \in Nat /\ retired \in Nat /\ nstamps \in Nat /\ nrefs \in Nat
  BY QueueAssumption DEF IInv, TypeOK, QueueType
<1>2. /\ Len(q.chain) \in Nat /\ Len(base) = Len(q.chain)
      /\ (q.chain = <<>> <=> Len(q.chain) = 0)
  BY <1>1 DEF IInv, ChainCovers
<1>3. Counted(q.chain, base)
  BY <1>1, <1>2, CountedChain
<1>4. ChainInv(q.chain, base, q.first, committed, retired, nstamps)
  <2>1. \A i \in 1 .. Len(q.chain) :
          /\ q.chain[i].Qrow = Wrap(q.first + (base[i] - retired))
          /\ retired <= base[i]
          /\ base[i] + q.chain[i].n_Qrows <= committed
          /\ q.chain[i].tsp <= nstamps
    BY DEF IInv, ChainCovers, ChainOrdered
  <2>2. \A i \in 1 .. Len(q.chain) :
          i > 1 => base[i] = base[i - 1] + q.chain[i - 1].n_Qrows
    BY DEF IInv, ChainCovers
  <2>3. \A i, j \in 1 .. Len(q.chain) :
          i < j => base[i] + q.chain[i].n_Qrows <= base[j] /\ q.chain[i].tsp <= q.chain[j].tsp
    BY DEF IInv, ChainOrdered, TstampsGrouped
  <2>4. /\ Len(q.chain) = 0 => committed = 0
        /\ Len(q.chain) > 0 => /\ base[1] = retired
                               /\ committed = base[Len(q.chain)] + q.chain[Len(q.chain)].n_Qrows
    BY <1>2 DEF IInv, ChainCovers, ChainOrdered, LastRef
  <2> QED BY <1>2, <2>1, <2>2, <2>3, <2>4 DEF ChainInv
<1> QED BY <1>1, <1>2, <1>3, <1>4

(* ChainInv of the next state gives the conjuncts of IInv' about the chain. *)
LEMMA ChainConjuncts ==
  ASSUME q'.chain \in Seq(TmqRefType),
         ChainInv(q'.chain, base', q'.first, committed', retired', nstamps')
  PROVE  (ChainCovers /\ ChainOrdered /\ TstampsGrouped)'
<1>1. Len(q'.chain) \in Nat /\ (q'.chain = <<>> <=> Len(q'.chain) = 0)
  OBVIOUS
<1>2. ChainCovers'
  BY <1>1 DEF ChainInv, ChainCovers, LastRef
<1>3. ChainOrdered'
  BY <1>1 DEF ChainInv, ChainOrdered
<1>4. TstampsGrouped'
  BY <1>1 DEF ChainInv, TstampsGrouped
<1> QED BY <1>2, <1>3, <1>4

(* What first, last and full say of the rows in the ring. *)
LEMMA RingFacts ==
  ASSUME IInv
  PROVE  /\ retired <= committed /\ committed - retired <= TotalQrows
         /\ q.last = Wrap(q.first + (committed - retired))
         /\ committed - retired = Occupancy
         /\ q.full => q.first = q.last
<1>1. /\ committed - retired = Occupancy /\ (q.full => q.first = q.last)
  BY DEF IInv, RowsIntact
<1> QED BY <1>1, Facts, SMTT(60) DEF Occupancy, Wrap

-----------------------------------------------------------------------------
(* Each action preserves the invariant.                                    *)

(* commit_tstamp appends an empty tmq_ref where the next row will go. *)
LEMMA StampIInv ==
  ASSUME IInv, Stamp PROVE IInv'
<1> DEFINE lab == [ctr |-> source.ctr, row |-> 0]
           ref == NewRef(nrefs + 1, nstamps + 1, lab, q.last)
           N == Len(q.chain)
<1>1. /\ ref \in TmqRefType /\ ref.n_Qrows = 0 /\ ref.Qrow = q.last
      /\ ref.tsp = nstamps + 1
  BY Facts DEF IInv, TypeOK, Labels, NewRef, TmqRefType
<1>2. /\ q' = [first |-> q.first, last |-> q.last, full |-> q.full,
               chain |-> Append(q.chain, ref)]
      /\ base' = Append(base, committed) /\ nstamps' = nstamps + 1
      /\ nrefs' = nrefs + 1
      /\ UNCHANGED <<mem, claim, filled, batch, source, cur_tsp, committed, retired>>
  BY DEF Stamp, CommitTstamp, writer
<1> HIDE DEF ref
<1>3. /\ q'.first = q.first /\ q'.last = q.last /\ q'.full = q.full
      /\ q'.chain = Append(q.chain, ref)
  BY <1>2
<1>4. /\ q'.chain \in Seq(TmqRefType) /\ Len(q'.chain) = N + 1
      /\ q'.chain[N + 1] = ref /\ \A i \in 1 .. N : q'.chain[i] = q.chain[i]
  BY <1>1, <1>3, Facts
<1>5. /\ base' \in Seq(Nat) /\ Len(base') = N + 1 /\ base'[N + 1] = committed
      /\ \A i \in 1 .. N : base'[i] = base[i]
  BY <1>2, Facts
<1>6. q' \in QueueType
  BY <1>2, <1>3, <1>4, Facts DEF QueueType
<1>7. TypeOK'
  BY <1>2, <1>5, <1>6 DEF IInv, TypeOK
<1>8. ChainInv(q'.chain, base', q'.first, committed', retired', nstamps')
  <2>1. \A i \in 1 .. N : q.chain[i].tsp <= ref.tsp
    <3> SUFFICES ASSUME NEW i \in 1 .. N PROVE q.chain[i].tsp <= nstamps + 1
      BY <1>1
    <3>1. q.chain[i].tsp <= nstamps /\ q.chain[i].tsp \in Nat
      BY Facts DEF ChainInv, Counted
    <3> QED BY <3>1, Facts, SMTT(60)
  <2>2. ChainInv(q'.chain, base', q.first, committed + 0, retired, nstamps + 1)
    <3>1. /\ N \in Nat /\ Len(q.chain) = N /\ Counted(q.chain, base)
          /\ q.first \in Nat /\ committed \in Nat /\ retired \in Nat
          /\ nstamps \in Nat /\ nstamps + 1 \in Nat /\ nstamps <= nstamps + 1 /\ 0 \in Nat
          /\ ChainInv(q.chain, base, q.first, committed, retired, nstamps)
      BY Facts
    <3>2. /\ retired <= committed
          /\ q'.chain[N + 1].Qrow = Wrap(q.first + (committed - retired))
          /\ q'.chain[N + 1].n_Qrows = 0
      BY <1>1, <1>4, RingFacts
    <3>3. q'.chain[N + 1].tsp \in Nat /\ q'.chain[N + 1].tsp <= nstamps + 1
      BY <1>1, <1>4, <3>1
    <3>4. \A i \in 1 .. N : q.chain[i].tsp <= q'.chain[N + 1].tsp
      BY <1>4, <2>1
    <3>5. \A i \in 1 .. N : q'.chain[i] = q.chain[i] /\ base'[i] = base[i]
      BY <1>4, <1>5
    <3>6. Extended(q.chain, base, N, q'.chain, base', q.first, committed, retired,
                   nstamps, nstamps + 1, 0)
      BY <1>4, <1>5, <3>1, <3>2, <3>3, <3>4, <3>5 DEF Extended
    <3> QED BY <3>6, ExtendChain
  <2> QED BY <1>2, <1>3, <2>2, Facts
<1>9. RowsIntact'
  BY <1>2, <1>3 DEF IInv, RowsIntact, Occupancy, SlotOf
<1>10. ClaimIntact'
  BY <1>2, <1>3, <1>4, Facts, SMTT(60) DEF IInv, ClaimIntact, AllocateRows
<1> QED BY <1>3, <1>4, <1>7, <1>8, <1>9, <1>10, ChainConjuncts DEF IInv

(* The queue is left alone: what IInv says of it still holds. *)
LEMMA SameQueue ==
  ASSUME IInv, UNCHANGED <<q, nstamps, committed, retired, base>>,
         TypeOK', RowsIntact', ClaimIntact'
  PROVE  IInv'
<1>1. (ChainCovers /\ ChainOrdered /\ TstampsGrouped)'
  BY DEF IInv, ChainCovers, ChainOrdered, TstampsGrouped, LastRef
<1> QED BY <1>1 DEF IInv

(* allocate_rows claims no more rows than are free. *)
LEMMA ClaimIInv ==
  ASSUME IInv, NEW n \in 1 .. MaxBatch, NEW gap \in 0 .. MaxGap, Claim(n, gap)
  PROVE  IInv'
<1>1. /\ UNCHANGED <<q, mem, filled, source, cur_tsp, nrefs, nstamps, committed, retired, base>>
      /\ claim' = (IF AllocateRows(q) > n THEN n ELSE AllocateRows(q))
      /\ batch' = LabelAfter(source, gap) /\ q.chain # <<>> /\ claim = 0
  BY DEF Claim, history
<1>2. filled = 0
  BY <1>1 DEF IInv, TypeOK
<1>3. AllocateRows(q) \in 0 .. TotalQrows
  BY Facts, SMTT(60) DEF AllocateRows
<1>4. n \in Nat /\ gap \in Nat
  BY BoundAssumption
<1>5. claim' \in 0 .. TotalQrows /\ claim' <= AllocateRows(q)
  BY <1>1, <1>3, <1>4, Facts
<1>6. batch' \in Labels
  <2>1. source.ctr \in Nat /\ source.row \in Nat
    BY DEF IInv, TypeOK, Labels
  <2> QED BY <1>1, <1>4, <2>1, LabelAfterType
<1>7. TypeOK'
  BY <1>1, <1>2, <1>5, <1>6 DEF IInv, TypeOK
<1>8. RowsIntact'
  BY <1>1 DEF IInv, RowsIntact, Occupancy, SlotOf
<1>9. ClaimIntact'
  BY <1>1, <1>2, <1>5 DEF ClaimIntact, AllocateRows
<1> QED BY <1>1, <1>7, <1>8, <1>9, SameQueue

(* A slot of a committed row is none of those the writer may fill. *)
LEMMA SlotsApart ==
  ASSUME IInv, NEW b \in retired + 1 .. committed,
         NEW k \in Nat, k < AllocateRows(q)
  PROVE  /\ SlotOf(b) # q.last + k
         /\ SlotOf(b) \in 0 .. TotalQrows - 1
         /\ q.last + k \in 0 .. TotalQrows - 1
<1>1. committed - retired = Occupancy /\ (q.full => q.first = q.last)
  BY RingFacts
<1> DEFINE d == b - retired - 1
<1>2. d \in Nat /\ d < Occupancy
  BY <1>1, Facts, SMTT(60)
<1>3. SUFFICES /\ Wrap(q.first + d) # q.last + k
               /\ Wrap(q.first + d) \in 0 .. TotalQrows - 1
               /\ q.last + k \in 0 .. TotalQrows - 1
  BY DEF SlotOf
<1> HIDE DEF d
<1> DEFINE first == q.first
           last == q.last
<1>4. /\ first \in 0 .. TotalQrows - 1 /\ last \in 0 .. TotalQrows - 1
      /\ d \in Nat /\ k \in Nat /\ TotalQrows \in Nat
  BY <1>2, Facts
<1>5. CASE last >= first
  <2>1. ~q.full
    BY <1>4, <1>5 DEF AllocateRows
  <2>2. d < last - first /\ k < TotalQrows - last
    BY <1>2, <1>4, <1>5, <2>1, SMTT(60) DEF Occupancy, AllocateRows
  <2> HIDE DEF first, last
  <2>3. Wrap(first + d) = first + d
    BY ONLY <1>4, <2>2, SMTT(60) DEF Wrap
  <2>4. /\ Wrap(first + d) # last + k /\ Wrap(first + d) \in 0 .. TotalQrows - 1
        /\ last + k \in 0 .. TotalQrows - 1
    BY ONLY <1>4, <2>2, <2>3, SMTT(60)
  <2> QED BY <2>4 DEF first, last
<1>6. CASE last < first
  <2>1. ~q.full
    BY <1>1, <1>4, <1>6
  <2>2. d < last - first + TotalQrows /\ k < first - last
    BY <1>2, <1>4, <1>6, <2>1, SMTT(60) DEF Occupancy, AllocateRows
  <2> HIDE DEF first, last
  <2>3. /\ Wrap(first + d) # last + k /\ Wrap(first + d) \in 0 .. TotalQrows - 1
        /\ last + k \in 0 .. TotalQrows - 1
    BY ONLY <1>4, <1>6, <2>2, SMTT(60) DEF Wrap
  <2> QED BY <2>3 DEF first, last
<1> QED BY <1>4, <1>5, <1>6

(* The writer fills a slot it has claimed: no committed row is in it. *)
LEMMA FillIInv ==
  ASSUME IInv, Fill
  PROVE  IInv'
<1> DEFINE row == [id |-> committed + filled + 1, lab |-> LabelAfter(batch, filled)]
<1>1. /\ UNCHANGED <<q, claim, batch, source, cur_tsp, nrefs, nstamps, committed, retired, base>>
      /\ mem' = [mem EXCEPT ![q.last + filled] = row]
      /\ filled' = filled + 1 /\ filled < claim
  BY DEF Fill, history
<1>2. /\ claim \in 0 .. TotalQrows /\ filled \in 0 .. claim /\ filled \in Nat
      /\ mem \in [0 .. TotalQrows - 1 -> RowType] /\ claim <= AllocateRows(q)
  BY Facts DEF IInv, TypeOK, ClaimIntact
<1>3. row \in RowType
  <2>1. batch.ctr \in Nat /\ batch.row \in Nat
    BY DEF IInv, TypeOK, Labels
  <2>2. LabelAfter(batch, filled) \in Labels
    BY <1>2, <2>1, LabelAfterType
  <2> QED BY <1>2, <2>2, Facts DEF RowType
<1>4. AllocateRows(q) \in 0 .. TotalQrows /\ filled < AllocateRows(q)
  <2>1. AllocateRows(q) \in 0 .. TotalQrows
    BY Facts, SMTT(60) DEF AllocateRows
  <2> QED BY <1>1, <1>2, <2>1
<1>5. row.id = committed + filled + 1
  OBVIOUS
<1> HIDE DEF row
<1>6. TypeOK'
  <2>1. mem' \in [0 .. TotalQrows - 1 -> RowType]
    BY <1>1, <1>2, <1>3
  <2>2. filled' \in 0 .. claim'
    BY <1>1, <1>2
  <2> QED BY <1>1, <2>1, <2>2 DEF IInv, TypeOK
<1>7. RowsIntact'
  <2> SUFFICES ASSUME NEW b \in retired + 1 .. committed
               PROVE  mem'[SlotOf(b)] = mem[SlotOf(b)]
    BY <1>1 DEF IInv, RowsIntact, Occupancy, SlotOf
  <2>1. SlotOf(b) # q.last + filled
    BY <1>2, <1>4, SlotsApart
  <2>2. SlotOf(b) \in 0 .. TotalQrows - 1
    BY <1>2, <1>4, SlotsApart
  <2> QED BY <1>1, <1>2, <2>1, <2>2
<1>8. ClaimIntact'
  <2>1. q.last + filled \in 0 .. TotalQrows - 1
    BY <1>2, <1>4, Facts, SMTT(60) DEF AllocateRows
  <2>2. ASSUME NEW k \in 1 .. filled + 1
        PROVE  mem'[q.last + k - 1].id = committed + k
    <3>1. CASE k = filled + 1
      <4>1. q.last + k - 1 = q.last + filled
        BY <3>1, <1>2, Facts
      <4>2. mem'[q.last + filled].id = committed + filled + 1
        BY <1>1, <1>2, <1>5, <2>1
      <4>3. committed + filled + 1 = committed + k
        BY <3>1, <1>2, Facts
      <4> QED BY <4>1, <4>2, <4>3
    <3>2. CASE k \in 1 .. filled
      <4>1. mem[q.last + k - 1].id = committed + k
        BY <3>2 DEF IInv, ClaimIntact
      <4>2. q.last + k - 1 # q.last + filled /\ q.last + k - 1 \in 0 .. TotalQrows - 1
        BY <3>2, <1>2, <2>1, Facts, SMTT(60)
      <4> QED BY <4>1, <4>2, <1>1, <1>2
    <3> QED BY <3>1, <3>2, <1>2
  <2> QED BY <1>1, <2>2 DEF IInv, ClaimIntact, AllocateRows
<1> QED BY <1>1, <1>6, <1>7, <1>8, SameQueue
(* What a commit does to the ring: the rows claimed are no longer free. *)
LEMMA CommitRing ==
  ASSUME IInv, Commit
  PROVE  /\ q'.first = q.first
         /\ q'.last \in 0 .. TotalQrows - 1
         /\ q'.full \in BOOLEAN
         /\ q'.full => q'.first = q'.last
         /\ committed' - retired' = Occupancy'
<1> DEFINE first == q.first
           last == q.last
           n == claim
           occ == committed - retired
           end == Wrap(last + n)
<1>1. /\ q'.first = first /\ q'.last = end /\ q'.full = (q.full \/ end = first)
      /\ committed' = committed + n /\ retired' = retired
  BY DEF Commit, CommitRows
<1>2. /\ n \in Nat /\ n > 0 /\ n <= AllocateRows(q)
  BY DEF Commit, IInv, TypeOK, ClaimIntact
<1>3. /\ first \in 0 .. TotalQrows - 1 /\ last \in 0 .. TotalQrows - 1
      /\ TotalQrows \in Nat /\ n \in Nat /\ n > 0
      /\ occ = Occupancy /\ committed \in Nat /\ retired \in Nat
  BY <1>2, Facts, RingFacts
<1>4. ~q.full
  BY <1>2 DEF AllocateRows
<1>5. occ = IF last >= first THEN last - first ELSE last - first + TotalQrows
  BY <1>3, <1>4 DEF Occupancy
<1>6. n <= IF first > last THEN first - last ELSE TotalQrows - last
  BY <1>2, <1>4 DEF AllocateRows
<1>7. committed' - retired' = occ + n
  BY <1>1, <1>3
<1>8. Occupancy' = IF end = first THEN TotalQrows
                   ELSE IF end >= first THEN end - first
                   ELSE end - first + TotalQrows
  BY <1>1, <1>4 DEF Occupancy
<1> HIDE DEF first, last, n, occ
<1>9. end \in 0 .. TotalQrows - 1
  BY ONLY <1>3, <1>6, SMTT(60) DEF Wrap
<1>10. occ + n = IF end = first THEN TotalQrows
                 ELSE IF end >= first THEN end - first
                 ELSE end - first + TotalQrows
  BY ONLY <1>3, <1>5, <1>6, SMTT(60) DEF Wrap
<1> HIDE DEF end
<1> QED BY <1>1, <1>4, <1>7, <1>8, <1>9, <1>10 DEF first

(* The rows committed become the last rows of the chain. *)
LEMMA CommitChainInv ==
  ASSUME IInv, Commit
  PROVE  /\ q'.chain \in Seq(TmqRefType) /\ base' \in Seq(Nat) /\ nrefs' \in Nat
         /\ ChainInv(q'.chain, base', q'.first, committed', retired', nstamps')
<1> DEFINE old == q.chain
           new == q'.chain
           N == Len(old)
           n == claim
<1>1. /\ q'.chain = ChainAfterCommit(q, nrefs + 1, batch, n) /\ q'.first = q.first
      /\ nrefs' = nrefs + Len(new) - N /\ committed' = committed + n
      /\ base' = (IF Len(new) > N THEN Append(base, committed) ELSE base)
      /\ retired' = retired /\ nstamps' = nstamps
  BY DEF Commit, CommitRows
<1>2. n \in Nat /\ n > 0 /\ old # <<>> /\ batch \in Labels /\ nrefs + 1 \in Nat
  BY Facts DEF Commit, IInv, TypeOK, ClaimIntact
<1>3. /\ N \in Nat /\ N > 0 /\ Len(base) = N /\ Counted(old, base)
      /\ old \in Seq(TmqRefType) /\ base \in Seq(Nat)
      /\ q.first \in Nat /\ committed \in Nat /\ retired \in Nat /\ nstamps \in Nat
      /\ ChainInv(old, base, q.first, committed, retired, nstamps)
  BY <1>2, Facts
<1>4. /\ new \in Seq(TmqRefType)
      /\ \A i \in 1 .. N - 1 : new[i] = old[i]
      /\ \/ /\ Len(new) = N
            /\ new[N].n_Qrows = old[N].n_Qrows + n
            /\ new[N].Qrow = old[N].Qrow
            /\ new[N].tsp = old[N].tsp
         \/ /\ Len(new) = N + 1
            /\ new[N] = old[N]
            /\ new[Len(new)].n_Qrows = n
            /\ new[Len(new)].Qrow = q.last
            /\ new[Len(new)].tsp = old[N].tsp
  <2>1. q \in QueueType
    BY Facts
  <2> DEFINE id == nrefs + 1
  <2>2. id \in Nat
    BY <1>2
  <2> HIDE DEF id, n
  <2>3. new = ChainAfterCommit(q, id, batch, n)
    BY <1>1 DEF id
  <2> QED BY <1>2, <2>1, <2>2, <2>3, CommitChain, SMTT(60)
<1> HIDE DEF old, new, n
<1>5. CASE Len(new) = N
  <2>1. base' = base
    BY <1>1, <1>3, <1>5
  <2>2. Grown(old, base, N, new, q.first, committed, retired, nstamps, n)
    BY <1>2, <1>3, <1>4, <1>5 DEF Grown
  <2>3. ChainInv(new, base, q.first, committed + n, retired, nstamps)
    BY <2>2, GrowChain
  <2>4. nrefs' \in Nat
    BY <1>1, <1>3, <1>5, Facts
  <2> QED BY <1>1, <1>3, <1>4, <2>1, <2>3, <2>4 DEF new
<1>6. CASE Len(new) = N + 1
  <2>1. /\ base' \in Seq(Nat) /\ Len(base') = N + 1 /\ base'[N + 1] = committed
        /\ \A i \in 1 .. N : base'[i] = base[i]
    BY <1>1, <1>3, <1>6
  <2>2. /\ new[N + 1].n_Qrows = n /\ new[N + 1].Qrow = q.last
        /\ new[N + 1].tsp = old[N].tsp
        /\ \A i \in 1 .. N : new[i] = old[i]
    BY <1>3, <1>4, <1>6
  <2>3. q.last = Wrap(q.first + (committed - retired)) /\ retired <= committed
    BY RingFacts
  <2>4. old[N].tsp \in Nat /\ old[N].tsp <= nstamps
    BY <1>3, SMTT(60) DEF Counted, ChainInv
  <2>5. \A i \in 1 .. N : old[i].tsp <= old[N].tsp
    <3> SUFFICES ASSUME NEW i \in 1 .. N PROVE old[i].tsp <= old[N].tsp
      OBVIOUS
    <3>1. CASE i = N
      BY <2>4, <3>1
    <3>2. CASE i < N
      BY <1>3, <3>2, SMTT(60) DEF ChainInv
    <3> QED BY <1>3, <3>1, <3>2
  <2>6. Extended(old, base, N, new, base', q.first, committed, retired,
                 nstamps, nstamps, n)
    BY <1>2, <1>3, <1>6, <2>1, <2>2, <2>3, <2>4, <2>5 DEF Extended
  <2>7. ChainInv(new, base', q.first, committed + n, retired, nstamps)
    BY <2>6, ExtendChain
  <2>8. nrefs' \in Nat
    BY <1>1, <1>3, <1>6, Facts
  <2> QED BY <1>1, <1>4, <2>1, <2>7, <2>8 DEF new
<1> QED BY <1>4, <1>5, <1>6

(* commit_rows makes the rows the writer filled the newest of the ring. *)
LEMMA CommitIInv ==
  ASSUME IInv, Commit
  PROVE  IInv'
<1> DEFINE n == claim
<1>1. /\ q' = CommitRows(q, nrefs + 1, batch, n) /\ committed' = committed + n
      /\ source' = LabelAfter(batch, n) /\ claim' = 0 /\ filled' = 0 /\ filled = n
      /\ UNCHANGED <<mem, batch, cur_tsp, nstamps, retired>>
  BY DEF Commit
<1>2. /\ n \in Nat /\ n <= AllocateRows(q)
      /\ \A k \in 1 .. n : mem[q.last + k - 1].id = committed + k
  BY <1>1 DEF IInv, TypeOK, ClaimIntact
<1>3. /\ committed \in Nat /\ retired \in Nat /\ TotalQrows \in Nat
      /\ q.first \in 0 .. TotalQrows - 1 /\ q.last \in 0 .. TotalQrows - 1
  BY Facts
<1>4. q' \in QueueType
  <2>1. q' = [first |-> q'.first, last |-> q'.last, full |-> q'.full, chain |-> q'.chain]
    BY <1>1 DEF CommitRows
  <2>2. q'.first \in 0 .. TotalQrows - 1 /\ q'.last \in 0 .. TotalQrows - 1
        /\ q'.full \in BOOLEAN
    BY <1>3, CommitRing
  <2>3. q'.chain \in Seq(TmqRefType)
    BY CommitChainInv
  <2> QED BY <2>1, <2>2, <2>3 DEF QueueType
<1>5. source' \in Labels
  <2>1. batch.ctr \in Nat /\ batch.row \in Nat
    BY DEF IInv, TypeOK, Labels
  <2> QED BY <1>1, <1>2, <2>1, LabelAfterType
<1>6. committed' \in Nat
  BY <1>1, <1>2, <1>3
<1>7. TypeOK'
  <2>1. 0 \in 0 .. TotalQrows /\ 0 \in 0 .. 0
    BY <1>3
  <2> QED BY <1>1, <1>4, <1>5, <1>6, <2>1, CommitChainInv DEF IInv, TypeOK
<1>8. RowsIntact'
  <2> SUFFICES ASSUME NEW b \in retired + 1 .. committed + n
               PROVE  mem[Wrap(q.first + (b - retired - 1))].id = b
    BY <1>1, CommitRing DEF RowsIntact, SlotOf
  <2>1. CASE b <= committed
    BY <1>2, <1>3, <2>1 DEF IInv, RowsIntact, SlotOf
  <2>2. CASE b > committed
    <3> DEFINE k == b - committed
               first == q.first
               last == q.last
               free == AllocateRows(q)
    <3>1. k \in 1 .. n
      BY <1>2, <1>3, <2>2
    <3>2. /\ last = Wrap(first + (committed - retired)) /\ retired <= committed
          /\ committed - retired <= TotalQrows
      BY RingFacts
    <3>3. free <= TotalQrows - last
      BY <1>3, SMTT(60) DEF AllocateRows
    <3>4. free \in Nat
      BY <1>3 DEF AllocateRows
    <3>5. /\ committed \in Nat /\ retired \in Nat /\ TotalQrows \in Nat
          /\ first \in 0 .. TotalQrows - 1 /\ last \in 0 .. TotalQrows - 1
          /\ n \in Nat /\ n <= free /\ b = committed + k
      BY <1>2, <1>3, <2>2
    <3> HIDE DEF k, first, last, free, n
    <3>6. Wrap(first + (committed - retired) + (k - 1)) = last + k - 1
      BY ONLY <3>1, <3>2, <3>3, <3>4, <3>5, SMTT(60) DEF Wrap
    <3>7. first + (b - retired - 1) = first + (committed - retired) + (k - 1)
      BY ONLY <3>1, <3>5
    <3>8. mem[last + k - 1].id = committed + k
      BY <1>2, <3>1 DEF last
    <3> QED BY <3>5, <3>6, <3>7, <3>8 DEF first
  <2> QED BY <1>2, <1>3, <2>1, <2>2
<1>9. ClaimIntact'
  <2>1. 0 <= AllocateRows(q')
    BY <1>3, CommitRing DEF AllocateRows
  <2> QED BY <1>1, <2>1 DEF ClaimIntact, AllocateRows
<1> QED BY <1>7, <1>8, <1>9, CommitRing, CommitChainInv, ChainConjuncts DEF IInv
(* Retiring rows moves first on by as many: the rest stay where they are. *)
LEMMA RetireRing ==
  ASSUME IInv, NEW n \in Nat, n <= committed - retired, Retire(n),
         UNCHANGED committed
  PROVE  /\ q'.first = Wrap(q.first + n) /\ q'.last = q.last
         /\ q'.first \in 0 .. TotalQrows - 1
         /\ q'.full \in BOOLEAN
         /\ q'.full => q'.first = q'.last
         /\ committed' - retired' = Occupancy'
         /\ AllocateRows(q) <= AllocateRows(q')
<1> DEFINE first == q.first
           last == q.last
           occ == committed - retired
           first2 == Wrap(first + n)
<1>1. /\ q'.first = first2 /\ q'.last = last /\ q'.full = (q.full /\ n = 0)
      /\ retired' = retired + n /\ committed' = committed
  BY DEF Retire, RetireRows
<1>2. /\ first \in 0 .. TotalQrows - 1 /\ last \in 0 .. TotalQrows - 1
      /\ TotalQrows \in Nat /\ n \in Nat /\ n <= occ /\ occ = Occupancy
      /\ committed \in Nat /\ retired \in Nat /\ q.full \in BOOLEAN
      /\ (q.full => first = last)
  BY Facts, RingFacts
<1>3. committed' - retired' = occ - n
  BY <1>1, <1>2
<1>4. CASE n = 0
  <2>1. first2 = first
    BY <1>2, <1>4 DEF Wrap
  <2>2. q'.first = first /\ q'.last = last /\ q'.full = q.full
    BY <1>1, <1>2, <1>4, <2>1
  <2>3. Occupancy' = Occupancy /\ AllocateRows(q') = AllocateRows(q)
    BY <2>2 DEF Occupancy, AllocateRows
  <2>4. AllocateRows(q) \in Nat
    BY <1>2 DEF AllocateRows
  <2> QED BY <1>1, <1>2, <1>3, <1>4, <2>1, <2>2, <2>3, <2>4
<1>5. CASE n > 0
  <2>1. q'.full = FALSE
    <3>1. (n = 0) = FALSE
      BY <1>2, <1>5
    <3> QED BY <1>1, <1>2, <3>1
  <2>2. occ = IF q.full THEN TotalQrows
              ELSE IF last >= first THEN last - first ELSE last - first + TotalQrows
    BY <1>2 DEF Occupancy
  <2>3. Occupancy' = IF last >= first2 THEN last - first2
                     ELSE last - first2 + TotalQrows
    BY <1>1, <2>1 DEF Occupancy
  <2>4. AllocateRows(q) = IF q.full THEN 0
                          ELSE IF first > last THEN first - last ELSE TotalQrows - last
    BY DEF AllocateRows
  <2>5. AllocateRows(q') = IF first2 > last THEN first2 - last ELSE TotalQrows - last
    BY <1>1, <2>1 DEF AllocateRows
  <2> DEFINE full == q.full
  <2> HIDE DEF first, last, occ, full
  <2>6. CASE full
    <3>1. first = last /\ occ = TotalQrows
      BY <1>2, <2>2, <2>6 DEF full
    <3>2. /\ first2 \in 0 .. TotalQrows - 1
          /\ occ - n = IF last >= first2 THEN last - first2
                       ELSE last - first2 + TotalQrows
          /\ 0 <= IF first2 > last THEN first2 - last ELSE TotalQrows - last
      BY ONLY <1>2, <1>5, <3>1, SMTT(60) DEF Wrap
    <3>3. AllocateRows(q) = 0
      BY <2>4, <2>6 DEF full
    <3> HIDE DEF first2
    <3>4. /\ committed' - retired' = Occupancy'
          /\ AllocateRows(q) <= AllocateRows(q')
      BY <1>3, <2>3, <2>5, <3>2, <3>3
    <3> QED BY <1>1, <2>1, <3>2, <3>4 DEF first, last, first2
  <2>7. CASE ~full
    <3>1. occ = IF last >= first THEN last - first ELSE last - first + TotalQrows
      BY <2>2, <2>7 DEF full
    <3>2. /\ first2 \in 0 .. TotalQrows - 1
          /\ occ - n = IF last >= first2 THEN last - first2
                       ELSE last - first2 + TotalQrows
          /\ (IF first > last THEN first - last ELSE TotalQrows - last)
               <= IF first2 > last THEN first2 - last ELSE TotalQrows - last
      BY ONLY <1>2, <1>5, <3>1, SMTT(60) DEF Wrap
    <3>3. AllocateRows(q) = IF first > last THEN first - last ELSE TotalQrows - last
      BY <2>4, <2>7 DEF full
    <3> HIDE DEF first2
    <3>4. /\ committed' - retired' = Occupancy'
          /\ AllocateRows(q) <= AllocateRows(q')
      BY <1>3, <2>3, <2>5, <3>2, <3>3
    <3> QED BY <1>1, <2>1, <3>2, <3>4 DEF first, last, first2
  <2> QED BY <2>6, <2>7
<1> QED BY <1>2, <1>4, <1>5

(* The rows retired leave the head of the chain, or the head leaves with them. *)
LEMMA RetireChainInv ==
  ASSUME IInv, NEW n \in Nat, q.chain # <<>>, n <= q.chain[1].n_Qrows,
         Retire(n), UNCHANGED <<committed, nstamps>>
  PROVE  /\ q'.chain \in Seq(TmqRefType) /\ q'.chain # <<>> /\ base' \in Seq(Nat)
         /\ ChainInv(q'.chain, base', q'.first, committed', retired', nstamps')
<1> DEFINE old == q.chain
           new == q'.chain
           N == Len(old)
<1>1. /\ q' = RetireRows(q, n) /\ q'.first = Wrap(q.first + n)
      /\ retired' = retired + n /\ committed' = committed /\ nstamps' = nstamps
      /\ base' = (IF Len(new) < N THEN Tail(base) ELSE [base EXCEPT ![1] = @ + n])
  BY DEF Retire, RetireRows
<1>2. /\ N \in Nat /\ N > 0 /\ Len(base) = N /\ Counted(old, base)
      /\ old \in Seq(TmqRefType) /\ base \in Seq(Nat)
      /\ q.first \in 0 .. TotalQrows - 1
      /\ committed \in Nat /\ retired \in Nat /\ nstamps \in Nat
      /\ ChainInv(old, base, q.first, committed, retired, nstamps)
      /\ committed - retired <= TotalQrows
      /\ n \in Nat /\ n <= old[1].n_Qrows
  BY Facts, RingFacts
<1>3. /\ new \in Seq(TmqRefType)
      /\ \/ /\ Len(new) = N
            /\ new[1].n_Qrows = old[1].n_Qrows - n
            /\ new[1].Qrow = Wrap(q.first + n)
            /\ new[1].tsp = old[1].tsp
            /\ \A i \in 2 .. N : new[i] = old[i]
         \/ /\ old[1].n_Qrows = n
            /\ N > 1
            /\ new = Tail(old)
  <2>1. q \in QueueType /\ new = RetireRows(q, n).chain
    BY <1>1, Facts
  <2> QED BY <2>1, RetireChain
<1> HIDE DEF old, new
<1>4. CASE /\ Len(new) = N
           /\ new[1].n_Qrows = old[1].n_Qrows - n
           /\ new[1].Qrow = Wrap(q.first + n)
           /\ new[1].tsp = old[1].tsp
           /\ \A i \in 2 .. N : new[i] = old[i]
  <2>1. base' = [base EXCEPT ![1] = @ + n]
    BY <1>1, <1>2, <1>4
  <2>2. base[1] \in Nat /\ base[1] + n \in Nat
    BY <1>2
  <2>3. /\ base' \in Seq(Nat) /\ Len(base') = N /\ base'[1] = base[1] + n
        /\ \A i \in 2 .. N : base'[i] = base[i]
    BY <1>2, <2>1, <2>2
  <2>4. Shrunk(old, base, N, new, base', q.first, committed, retired, nstamps, n)
    BY <1>2, <1>4, <2>3 DEF Shrunk
  <2>5. ChainInv(new, base', Wrap(q.first + n), committed, retired + n, nstamps)
    BY <2>4, ShrinkChain
  <2>6. new # <<>>
    BY <1>2, <1>4
  <2> QED BY <1>1, <1>3, <2>3, <2>5, <2>6 DEF new
<1>5. CASE old[1].n_Qrows = n /\ N > 1 /\ new = Tail(old)
  <2>1. /\ Len(new) = N - 1 /\ new # <<>>
        /\ \A i \in 1 .. N - 1 : new[i] = old[i + 1]
    <3>1. old \in Seq(TmqRefType) /\ old # <<>> /\ Len(old) > 1
      BY <1>2, <1>5
    <3>2. Len(new) = N - 1 /\ \A i \in 1 .. N - 1 : new[i] = old[i + 1]
      BY <1>2, <1>5, <3>1
    <3>3. new # <<>>
      <4>1. Len(new) # 0
        BY <1>2, <1>5, <3>2, SMTT(60)
      <4> QED BY <4>1
    <3> QED BY <3>2, <3>3
  <2>2. base' = Tail(base)
    BY <1>1, <1>2, <2>1
  <2>3. /\ base' \in Seq(Nat) /\ Len(base') = N - 1
        /\ \A i \in 1 .. N - 1 : base'[i] = base[i + 1]
    BY <1>2, <1>5, <2>2
  <2>4. Dropped(old, base, N, new, base', q.first, committed, retired, nstamps, n)
    BY <1>2, <1>5, <2>1, <2>3 DEF Dropped
  <2>5. ChainInv(new, base', Wrap(q.first + n), committed, retired + n, nstamps)
    BY <2>4, DropChain
  <2> QED BY <1>1, <1>3, <2>1, <2>3, <2>5 DEF new
<1> QED BY <1>3, <1>4, <1>5

(* The rows of first_tmqr are rows of the ring. *)
LEMMA HeadRows ==
  ASSUME IInv, q.chain # <<>>
  PROVE  /\ q.chain[1].n_Qrows \in Nat /\ q.chain[1].tsp \in Nat
         /\ q.chain[1].n_Qrows <= committed - retired
         /\ q.chain[1].Qrow = q.first
<1>1. 1 \in 1 .. Len(q.chain)
  BY Facts
<1>2. /\ q.chain[1].n_Qrows \in Nat /\ q.chain[1].tsp \in Nat /\ base[1] \in Nat
      /\ base[1] + q.chain[1].n_Qrows <= committed
      /\ q.chain[1].Qrow = Wrap(q.first + (base[1] - retired))
      /\ base[1] = retired
  BY <1>1, Facts DEF ChainInv, Counted
<1>3. q.first + (base[1] - retired) = q.first /\ Wrap(q.first) = q.first
  BY <1>2, Facts DEF Wrap
<1> QED BY <1>2, <1>3, Facts, SMTT(60)

(* The transmitter sends rows of first_tmqr and retires them: the rows that
   stay keep their slots, and the slots claimed are still free. *)
LEMMA TransmitIInv ==
  ASSUME IInv, NEW n \in 0 .. TotalQrows, Transmit(n)
  PROVE  IInv'
<1>1. /\ q.chain # <<>> /\ cur_tsp' = q.chain[1].tsp
      /\ UNCHANGED <<mem, claim, filled, batch, source, nrefs, nstamps, committed>>
      /\ (Retire(n) \/ UNCHANGED <<q, retired, base>>)
  BY DEF Transmit, writer
<1>2. n \in Nat /\ n <= q.chain[1].n_Qrows
  BY HeadRows, Facts, SMTT(60) DEF Transmit
<1>3. cur_tsp' \in Nat
  BY <1>1, HeadRows
<1>4. CASE UNCHANGED <<q, retired, base>>
  <2>1. TypeOK'
    BY <1>1, <1>3, <1>4 DEF IInv, TypeOK
  <2>2. RowsIntact'
    BY <1>1, <1>4 DEF IInv, RowsIntact, Occupancy, SlotOf
  <2>3. ClaimIntact'
    BY <1>1, <1>4 DEF IInv, ClaimIntact, AllocateRows
  <2> QED BY <1>1, <1>4, <2>1, <2>2, <2>3, SameQueue
<1>5. CASE Retire(n)
  <2>1. n <= committed - retired
    BY <1>1, <1>2, HeadRows, Facts, SMTT(60)
  <2>2. /\ q'.first = Wrap(q.first + n) /\ q'.last = q.last
        /\ q'.first \in 0 .. TotalQrows - 1 /\ q'.full \in BOOLEAN
        /\ (q'.full => q'.first = q'.last)
        /\ committed' - retired' = Occupancy'
        /\ AllocateRows(q) <= AllocateRows(q')
    BY <1>1, <1>2, <1>5, <2>1, RetireRing
  <2>3. /\ q'.chain \in Seq(TmqRefType) /\ q'.chain # <<>> /\ base' \in Seq(Nat)
        /\ ChainInv(q'.chain, base', q'.first, committed', retired', nstamps')
    BY <1>1, <1>2, <1>5, RetireChainInv
  <2>4. q' \in QueueType
    <3>1. q' = [first |-> q'.first, last |-> q'.last, full |-> q'.full, chain |-> q'.chain]
      BY <1>5 DEF Retire, RetireRows
    <3> QED BY <2>2, <2>3, <3>1, Facts DEF QueueType
  <2>5. retired' = retired + n /\ retired' \in Nat
    BY <1>2, <1>5, Facts DEF Retire
  <2>6. TypeOK'
    BY <1>1, <1>3, <2>3, <2>4, <2>5 DEF IInv, TypeOK
  <2>7. RowsIntact'
    <3> SUFFICES ASSUME NEW b \in retired + n + 1 .. committed
                 PROVE  mem[Wrap(q'.first + (b - (retired + n) - 1))].id = b
      BY <1>1, <2>2, <2>5 DEF RowsIntact, SlotOf
    <3> DEFINE first == q.first
               m == b - 1
    <3>1. /\ first \in 0 .. TotalQrows - 1 /\ TotalQrows \in Nat
          /\ committed \in Nat /\ retired \in Nat /\ n \in Nat
          /\ committed - retired <= TotalQrows
          /\ m \in Nat /\ retired + n <= m /\ m < committed
      BY <1>2, Facts, RingFacts, SMTT(60)
    <3>2. b \in retired + 1 .. committed
      BY <3>1
    <3>3. mem[Wrap(first + (b - retired - 1))].id = b
      BY <3>2 DEF IInv, RowsIntact, SlotOf
    <3>4. /\ b - (retired + n) - 1 = m - (retired + n)
          /\ b - retired - 1 = m - retired
      BY <3>1
    <3> HIDE DEF first, m
    <3>5. Wrap(Wrap(first + n) + (m - (retired + n))) = Wrap(first + (m - retired))
      BY ONLY <3>1, SMTT(60) DEF Wrap
    <3> QED BY <2>2, <3>3, <3>4, <3>5 DEF first
  <2>8. ClaimIntact'
    <3>1. claim \in Nat /\ claim <= AllocateRows(q)
      BY DEF IInv, TypeOK, ClaimIntact
    <3>2. AllocateRows(q) \in Nat /\ AllocateRows(q') \in Nat
      BY <2>2, Facts, SMTT(60) DEF AllocateRows
    <3>3. claim <= AllocateRows(q')
      BY <2>2, <3>1, <3>2
    <3> QED BY <1>1, <2>2, <2>3, <3>3 DEF IInv, ClaimIntact, AllocateRows
  <2> QED BY <2>2, <2>3, <2>6, <2>7, <2>8, ChainConjuncts DEF IInv
<1> QED BY <1>1, <1>4, <1>5
-----------------------------------------------------------------------------
(* The theorems.                                                           *)

LEMMA NextIInv ==
  IInv /\ [Next]_vars => IInv'
<1> SUFFICES ASSUME IInv, [Next]_vars PROVE IInv'
  OBVIOUS
<1>1. CASE Stamp
  BY <1>1, StampIInv
<1>2. CASE \E n \in 1 .. MaxBatch, gap \in 0 .. MaxGap : Claim(n, gap)
  BY <1>2, ClaimIInv
<1>3. CASE Fill
  BY <1>3, FillIInv
<1>4. CASE Commit
  BY <1>4, CommitIInv
<1>5. CASE Send
  BY <1>5, TransmitIInv DEF Send
<1>6. CASE UNCHANGED vars
  <2>1. UNCHANGED <<q, mem, claim, filled, batch, source, cur_tsp, nrefs, nstamps,
                    committed, retired, base>>
    BY <1>6 DEF vars, writer, history
  <2>2. TypeOK'
    BY <2>1 DEF IInv, TypeOK
  <2>3. RowsIntact'
    BY <2>1 DEF IInv, RowsIntact, Occupancy, SlotOf
  <2>4. ClaimIntact'
    BY <2>1 DEF IInv, ClaimIntact, AllocateRows
  <2> QED BY <2>1, <2>2, <2>3, <2>4, SameQueue
<1> QED BY <1>1, <1>2, <1>3, <1>4, <1>5, <1>6 DEF Next, Write

(* The assertions of commit_rows and retire_rows follow from the invariant. *)
LEMMA IInvAsserts ==
  ASSUME IInv PROVE AssertsHold
<1>1. ASSUME claim > 0 PROVE CommitAsserts(q, claim)
  <2>1. claim \in Nat /\ claim <= AllocateRows(q) /\ q.chain # <<>>
    BY <1>1 DEF IInv, TypeOK, ClaimIntact
  <2>2. ~q.full
    BY <1>1, <2>1 DEF AllocateRows
  <2>3. claim <= IF q.first > q.last THEN q.first - q.last ELSE TotalQrows - q.last
    BY <2>1, <2>2 DEF AllocateRows
  <2>4. q.last + claim <= TotalQrows
    BY <2>1, <2>3, Facts, SMTT(60)
  <2> QED BY <2>1, <2>2, <2>4 DEF CommitAsserts
<1>2. ASSUME q.chain # <<>> PROVE RetireAsserts(q, q.chain[1].n_Qrows)
  <2> DEFINE n == q.chain[1].n_Qrows
             first == q.first
             last == q.last
             full == q.full
  <2>1. n \in Nat /\ n <= Occupancy /\ q.chain[1].Qrow = first
    BY <1>2, HeadRows, RingFacts
  <2>2. /\ first \in 0 .. TotalQrows - 1 /\ last \in 0 .. TotalQrows - 1
        /\ TotalQrows \in Nat /\ full \in BOOLEAN /\ (full => first = last) /\ n \in Nat
    BY <2>1, Facts, RingFacts
  <2>3. n <= IF full THEN TotalQrows
             ELSE IF last >= first THEN last - first ELSE last - first + TotalQrows
    BY <2>1 DEF Occupancy
  <2> HIDE DEF n, first, last, full
  <2>4. IF first < last THEN first + n <= last
        ELSE first + n >= TotalQrows => first + n - TotalQrows <= last
    BY ONLY <2>2, <2>3, SMTT(60)
  <2>5. n >= n
    BY <2>2
  <2> QED BY <1>2, <2>1, <2>4, <2>5 DEF RetireAsserts, n, first, last
<1> QED BY <1>1, <1>2 DEF AssertsHold

(* The inductive invariant holds in every state TmQueue reaches: whatever the
   size of the ring and wherever the transmitter retires between a claim and
   its commit (tm_queue.cc:88-228). *)
THEOREM Invariance == Spec => []IInv
<1>1. Init => IInv
  BY InitIInv
<1>2. IInv /\ [Next]_vars => IInv'
  BY NextIInv
<1> QED BY <1>1, <1>2, PTL DEF Spec

(* Every field of the queue, the writer and the transmitter keeps its range;
   first and last always point into the ring. *)
THEOREM TypeCorrect == Spec => []TypeOK
<1>1. IInv => TypeOK
  BY DEF IInv
<1> QED BY <1>1, Invariance, PTL

(* No row is lost or overwritten between commit_rows and retire_rows
   (tm_queue.cc:139-170, 181-228). *)
THEOREM RowsStayIntact == Spec => []RowsIntact
<1>1. IInv => RowsIntact
  BY DEF IInv
<1> QED BY <1>1, Invariance, PTL

(* The tmq_refs of the chain cover the rows in the ring end to end, in order,
   and the time stamps along them never go back (tm_queue.cc:64-78, 160-165,
   202-220). *)
THEOREM ChainStaysCovering == Spec => [](ChainCovers /\ TstampsGrouped)
<1>1. IInv => ChainCovers /\ TstampsGrouped
  BY DEF IInv
<1> QED BY <1>1, Invariance, PTL

(* No assertion of commit_rows or retire_rows fails, for any ring and any
   interleaving of the writer and the transmitter (tm_queue.cc:141-143,
   186-200). *)
THEOREM AssertionsHold == Spec => []AssertsHold
<1>1. IInv => AssertsHold
  BY IInvAsserts
<1> QED BY <1>1, Invariance, PTL

-----------------------------------------------------------------------------
(* FlattenSeq. *)

(* flat[i] is the first i members of ss, one behind the other. *)
Flattens(flat, ss, n) ==
  flat[0] = <<>> /\ \A i \in 1 .. n : flat[i] = flat[i - 1] \o ss[i]

LEMMA FlattenSteps ==
  ASSUME NEW E, NEW ss \in Seq(Seq(E))
  PROVE  \E flat \in [0 .. Len(ss) -> Seq(E)] :
           Flattens(flat, ss, Len(ss)) /\ FlattenSeq(ss) = flat[Len(ss)]
<1> DEFINE n == Len(ss)
           step == [a \in (1 .. n) \X Seq(E) |-> a[2] \o ss[a[1]]]
           F(f) == [i \in 1 .. n |-> IF i = 1 THEN ss[i] ELSE f[i - 1] \o ss[i]]
           flat == CHOOSE f : f = F(f)
<1>1. n \in Nat /\ \A i \in 1 .. n : ss[i] \in Seq(E)
  OBVIOUS
<1>2. \A i \in 1 .. n, t \in Seq(E) : t \o ss[i] \in Seq(E)
  BY <1>1
<1>3. step \in [(1 .. n) \X Seq(E) -> Seq(E)]
  BY <1>2
<1>4. \E f \in [0 .. n -> Seq(E)] : Follows(f, <<>>, step, n)
  <2>1. <<>> \in Seq(E)
    OBVIOUS
  <2> HIDE DEF n, step
  <2> QED
    BY <1>1, <1>3, <2>1, Recursion, Zenon
<1>5. PICK f \in [0 .. n -> Seq(E)] : Follows(f, <<>>, step, n)
  BY <1>4
<1>6. f[0] = <<>> /\ \A i \in 1 .. n : f[i] = f[i - 1] \o ss[i]
  <2>1. ASSUME NEW i \in 1 .. n
        PROVE  step[<<i, f[i - 1]>>] = f[i - 1] \o ss[i]
    <3>1. i - 1 \in 0 .. n
      BY <1>1
    <3>2. f[i - 1] \in Seq(E)
      BY <3>1
    <3>3. <<i, f[i - 1]>> \in (1 .. n) \X Seq(E)
      BY <3>2
    <3> QED
      BY <3>3
  <2> HIDE DEF step
  <2> QED
    BY <1>5, <2>1 DEF Follows
<1>7. CASE n = 0
  BY <1>5, <1>6, <1>7 DEF Flattens, FlattenSeq
<1>8. CASE n # 0
  <2> DEFINE g == [i \in 1 .. n |-> f[i]]
  <2>1. \A i \in 1 .. n : f[i] \in Seq(E)
    OBVIOUS
  <2>2. f[1] = ss[1]
    <3>1. 1 \in 1 .. n /\ f[1] = f[0] \o ss[1]
      BY <1>1, <1>6, <1>8
    <3> QED
      BY <3>1, <1>1, <1>6
  <2>3. g = F(g)
    <3>1. ASSUME NEW i \in 1 .. n
          PROVE  g[i] = F(g)[i]
      <4>1. CASE i = 1
        BY <4>1, <2>2
      <4>2. CASE i # 1
        <5>1. i - 1 \in 1 .. n
          BY <4>2, <1>1
        <5>2. g[i - 1] = f[i - 1] /\ g[i] = f[i]
          BY <5>1
        <5>3. F(g)[i] = g[i - 1] \o ss[i]
          BY <4>2
        <5> QED
          BY <5>2, <5>3, <1>6
      <4> QED
        BY <4>1, <4>2
    <3>2. g = [i \in 1 .. n |-> g[i]] /\ F(g) = [i \in 1 .. n |-> F(g)[i]]
      OBVIOUS
    <3> HIDE DEF F, g
    <3> QED
      BY <3>1, <3>2
  <2> HIDE DEF g
  <2>4. flat = F(flat)
    BY <2>3
  <2>5. FlattenSeq(ss) = flat[n]
    BY <1>8 DEF FlattenSeq
  <2> HIDE DEF flat
  <2>6. \A i \in 1 .. n : flat[i] = IF i = 1 THEN ss[i] ELSE flat[i - 1] \o ss[i]
    BY <2>4
  <2> DEFINE T == {i \in 0 .. n : i = 0 \/ flat[i] = f[i]}
  <2>7. 0 \in T
    BY <1>1
  <2>8. ASSUME NEW i \in 1 .. n, i - 1 \in T
        PROVE  i \in T
    <3>1. CASE i = 1
      BY <3>1, <2>2, <2>6
    <3>2. CASE i # 1
      <4>1. flat[i - 1] = f[i - 1]
        BY <3>2, <2>8
      <4>2. flat[i] = flat[i - 1] \o ss[i] /\ f[i] = f[i - 1] \o ss[i]
        BY <3>2, <2>6, <1>6
      <4>3. flat[i] = f[i] /\ i \in 0 .. n
        BY <4>1, <4>2, <1>1
      <4> QED
        BY <4>3
    <3> QED
      BY <3>1, <3>2
  <2>9. 0 .. n \subseteq T
    <3> HIDE DEF T, n
    <3> QED
      BY <1>1, <2>7, <2>8, Upwards
  <2>10. flat[n] = f[n]
    BY <2>9, <1>1, <1>8
  <2> QED
    BY <2>5, <2>10, <1>6 DEF Flattens
<1> QED
  BY <1>7, <1>8

(* What is put behind is put behind. *)
LEMMA FlattenLast ==
  ASSUME NEW E, NEW ss \in Seq(Seq(E)), NEW x \in Seq(E)
  PROVE  /\ FlattenSeq(ss) \in Seq(E)
         /\ FlattenSeq(Append(ss, x)) = FlattenSeq(ss) \o x
<1> DEFINE n == Len(ss)
           tt == Append(ss, x)
<1>1. /\ tt \in Seq(Seq(E)) /\ Len(tt) = n + 1 /\ n \in Nat /\ tt[n + 1] = x
      /\ \A i \in 1 .. n : tt[i] = ss[i]
  OBVIOUS
<1> HIDE DEF tt
<1>2. PICK f \in [0 .. n -> Seq(E)] : Flattens(f, ss, n) /\ FlattenSeq(ss) = f[n]
  BY FlattenSteps
<1>3. PICK g \in [0 .. n + 1 -> Seq(E)] : Flattens(g, tt, n + 1) /\ FlattenSeq(tt) = g[n + 1]
  BY <1>1, FlattenSteps
<1> DEFINE T == {i \in 0 .. n : g[i] = f[i]}
<1>4. 0 \in T
  BY <1>1, <1>2, <1>3 DEF Flattens
<1>5. ASSUME NEW i \in 1 .. n, i - 1 \in T
      PROVE  i \in T
  <2>1. i \in 1 .. n + 1 /\ g[i - 1] = f[i - 1] /\ tt[i] = ss[i]
    BY <1>1, <1>5
  <2>2. g[i] = g[i - 1] \o tt[i] /\ f[i] = f[i - 1] \o ss[i]
    BY <1>2, <1>3, <2>1 DEF Flattens
  <2>3. g[i] = f[i] /\ i \in 0 .. n
    BY <2>1, <2>2, <1>1
  <2> QED
    BY <2>3
<1>6. 0 .. n \subseteq T
  <2> HIDE DEF T, n
  <2> QED
    BY <1>1, <1>4, <1>5, Upwards
<1>7. g[n + 1] = g[n] \o x
  <2>1. n + 1 \in 1 .. n + 1 /\ (n + 1) - 1 = n
    BY <1>1
  <2>2. g[n + 1] = g[(n + 1) - 1] \o tt[n + 1]
    BY <1>3, <2>1 DEF Flattens
  <2> QED
    BY <2>1, <2>2, <1>1
<1>8. g[n] = f[n] /\ f[n] \in Seq(E)
  <2>1. n \in 0 .. n
    BY <1>1
  <2> QED
    BY <2>1, <1>2, <1>6
<1> QED
  BY <1>1, <1>2, <1>3, <1>7, <1>8 DEF tt

(* And what is first stays in front. *)
LEMMA FlattenFirst ==
  ASSUME NEW E, NEW ss \in Seq(Seq(E)), ss # <<>>
  PROVE  /\ FlattenSeq(ss) \in Seq(E) /\ FlattenSeq(Tail(ss)) \in Seq(E)
         /\ FlattenSeq(ss) = ss[1] \o FlattenSeq(Tail(ss))
<1> DEFINE n == Len(ss)
           m == n - 1
           x == ss[1]
           tt == Tail(ss)
<1>1. /\ m \in Nat /\ n = m + 1 /\ tt \in Seq(Seq(E)) /\ Len(tt) = m
      /\ x \in Seq(E)
  OBVIOUS
<1>2. \A i \in 1 .. m : tt[i] = ss[i + 1] /\ tt[i] \in Seq(E)
  OBVIOUS
<1>3. PICK f \in [0 .. n -> Seq(E)] : Flattens(f, ss, n) /\ FlattenSeq(ss) = f[n]
  BY FlattenSteps
<1> HIDE DEF tt, m, n
<1>4. PICK g \in [0 .. m -> Seq(E)] : Flattens(g, tt, m) /\ FlattenSeq(tt) = g[m]
  BY <1>1, FlattenSteps
<1>5. /\ f[0] = <<>> /\ g[0] = <<>>
      /\ \A i \in 1 .. m + 1 : f[i] = f[i - 1] \o ss[i]
      /\ \A i \in 1 .. m : g[i] = g[i - 1] \o tt[i]
  BY <1>1, <1>3, <1>4 DEF Flattens
<1>6. \A i \in 0 .. m : g[i] \in Seq(E)
  BY <1>4
<1>7. f[1] = x
  <2>1. 1 \in 1 .. m + 1 /\ 1 - 1 = 0
    BY <1>1
  <2>2. f[1] = f[0] \o x
    BY <1>5, <2>1
  <2>3. <<>> \o x = x
    BY <1>1
  <2> QED
    BY <1>5, <2>2, <2>3
<1> HIDE DEF x
<1> DEFINE T == {i \in 0 .. m : f[i + 1] = x \o g[i]}
<1>8. 0 \in T
  <2>1. x \o <<>> = x
    BY <1>1
  <2>2. f[0 + 1] = x \o g[0]
    BY <1>5, <1>7, <2>1
  <2> QED
    BY <1>1, <2>2
<1>9. ASSUME NEW i \in 1 .. m, i - 1 \in T
      PROVE  i \in T
  <2>1. /\ i + 1 \in 1 .. m + 1 /\ (i + 1) - 1 = i /\ (i - 1) + 1 = i
        /\ i - 1 \in 0 .. m /\ i \in 0 .. m
    BY <1>1
  <2>2. g[i - 1] \in Seq(E) /\ tt[i] \in Seq(E) /\ tt[i] = ss[i + 1]
    BY <1>2, <1>6, <2>1
  <2>3. f[i] = x \o g[i - 1]
    BY <1>9, <2>1
  <2>4. f[i + 1] = f[i] \o ss[i + 1]
    BY <1>5, <2>1
  <2>5. g[i] = g[i - 1] \o tt[i]
    BY <1>5
  <2>6. ASSUME NEW a \in Seq(E), NEW b \in Seq(E), NEW c \in Seq(E)
        PROVE  (a \o b) \o c = a \o (b \o c)
    OBVIOUS
  <2>7. f[i + 1] = x \o g[i]
    <3>1. (x \o g[i - 1]) \o tt[i] = x \o (g[i - 1] \o tt[i])
      BY <1>1, <2>2, <2>6
    <3>2. f[i + 1] = (x \o g[i - 1]) \o tt[i]
      BY <2>2, <2>3, <2>4
    <3> QED
      BY <3>1, <3>2, <2>5
  <2> QED
    BY <2>1, <2>7
<1>10. 0 .. m \subseteq T
  <2> HIDE DEF T
  <2> QED
    BY <1>1, <1>8, <1>9, Upwards
<1>11. f[m + 1] = x \o g[m] /\ g[m] \in Seq(E) /\ f[m + 1] \in Seq(E)
  <2>1. m \in 0 .. m /\ m + 1 \in 0 .. n
    BY <1>1
  <2> QED
    BY <2>1, <1>3, <1>6, <1>10
<1> QED
  BY <1>1, <1>3, <1>4, <1>11 DEF tt, x

-----------------------------------------------------------------------------
(* Quotient and remainder are what they are by their bounds. *)
LEMMA Division ==
  ASSUME NEW N \in Nat, N > 0, NEW x \in Nat, NEW y \in 0 .. N - 1
  PROVE  (N * x + y) \div N = x /\ (N * x + y) % N = y
<1> DEFINE a == N * x + y
           d == a \div N
           r == a % N
<1>1. a \in Nat
  OBVIOUS
<1> HIDE DEF a
<1>2. d \in Nat /\ r \in 0 .. N - 1 /\ a = N * d + r
  BY <1>1, SMTT(30)
<1> HIDE DEF d, r
<1>3. N * x + y = N * d + r
  BY <1>2 DEF a
<1>4. N * (x - d) = r - y
  BY <1>2, <1>3, SMTT(30)
<1>5. x = d
  <2>1. CASE x > d
    <3> DEFINE e == (x - d) - 1
    <3>1. e \in Nat /\ x - d = e + 1
      BY <2>1, <1>2
    <3>2. N * (e + 1) = N * e + N /\ N * e >= 0
      BY <3>1, SMTT(30)
    <3> QED
      BY <3>1, <3>2, <1>2, <1>4
  <2>2. CASE x < d
    <3> DEFINE e == (d - x) - 1
    <3>1. e \in Nat /\ d - x = e + 1
      BY <2>2, <1>2
    <3>2. N * (e + 1) = N * e + N /\ N * e >= 0
      BY <3>1, SMTT(30)
    <3>3. N * (d - x) = y - r
      BY <1>2, <1>3, SMTT(30)
    <3> QED
      BY <3>1, <3>2, <3>3, <1>2
  <2> QED
    BY <2>1, <2>2, <1>2
<1>6. r = y
  BY <1>2, <1>3, <1>5
<1> QED
  BY <1>5, <1>6 DEF a, d, r

(* Adding to a remainder is adding to the number. *)
LEMMA DivisionOn ==
  ASSUME NEW N \in Nat, N > 0, NEW a \in Nat, NEW k \in Nat
  PROVE  /\ (a + k) \div N = (a \div N) + (((a % N) + k) \div N)
         /\ (a + k) % N = ((a % N) + k) % N
<1> DEFINE d == a \div N
           r == a % N
           b == r + k
           e == b \div N
           s == b % N
<1>1. d \in Nat /\ r \in 0 .. N - 1 /\ a = N * d + r
  BY SMTT(30)
<1> HIDE DEF d, r
<1>2. b \in Nat
  BY <1>1
<1> HIDE DEF b
<1>3. e \in Nat /\ s \in 0 .. N - 1 /\ b = N * e + s
  BY <1>2, SMTT(30)
<1> HIDE DEF e, s
<1>4. a + k = N * (d + e) + s
  <2>1. N * (d + e) = N * d + N * e
    BY <1>1, <1>3, SMTT(30)
  <2>2. a + k = (N * d + r) + k /\ r + k = N * e + s
    BY <1>1, <1>3 DEF b
  <2>3. N * d \in Nat /\ N * e \in Nat
    BY <1>1, <1>3, SMTT(30)
  <2> QED
    BY <2>1, <2>2, <2>3, <1>1, <1>3
<1>5. d + e \in Nat
  BY <1>1, <1>3
<1>6. (a + k) \div N = d + e /\ (a + k) % N = s
  BY <1>3, <1>4, <1>5, Division
<1> QED
  BY <1>6 DEF d, e, s, b, r

(* A label n rows on and k more is the label n + k rows on. *)
LEMMA LabelsAdd ==
  ASSUME NEW lab, lab.ctr \in Nat, lab.row \in Nat, NEW n \in Nat, NEW k \in Nat
  PROVE  LabelAfter(LabelAfter(lab, n), k) = LabelAfter(lab, n + k)
<1> DEFINE a == lab.row + n
           mid == LabelAfter(lab, n)
           c == lab.ctr + a \div NRowMinf
           e == ((a % NRowMinf) + k) \div NRowMinf
<1>1. NRowMinf \in Nat /\ NRowMinf > 0 /\ CtrMod \in Nat /\ CtrMod > 0
  BY QueueAssumption
<1>2. a \in Nat /\ lab.row + (n + k) = a + k
  OBVIOUS
<1>3. mid.ctr = c % CtrMod /\ mid.row = a % NRowMinf
  BY DEF LabelAfter
<1>4. /\ (a + k) \div NRowMinf = (a \div NRowMinf) + e
      /\ (a + k) % NRowMinf = ((a % NRowMinf) + k) % NRowMinf
  <2> HIDE DEF a
  <2> QED
    BY <1>1, <1>2, DivisionOn
<1>5. c \in Nat /\ e \in Nat /\ a \div NRowMinf \in Nat
  <2> HIDE DEF a
  <2>1. a \div NRowMinf \in Nat /\ a % NRowMinf \in Nat
    BY <1>1, <1>2
  <2>2. (a % NRowMinf) + k \in Nat
    BY <2>1
  <2> QED
    BY <1>1, <2>1, <2>2
<1>6. (c + e) % CtrMod = ((c % CtrMod) + e) % CtrMod
  <2> HIDE DEF c, e
  <2> QED
    BY <1>1, <1>5, DivisionOn
<1>7. lab.ctr + (a + k) \div NRowMinf = c + e
  <2> DEFINE x == a \div NRowMinf
             y == (a + k) \div NRowMinf
  <2>1. y = x + e /\ c = lab.ctr + x /\ x \in Nat /\ e \in Nat
    BY <1>4, <1>5
  <2> HIDE DEF x, y, e, c
  <2>2. lab.ctr + y = c + e
    BY <2>1
  <2> QED
    BY <2>2 DEF y
<1>8. LabelAfter(mid, k) = [ctr |-> ((c % CtrMod) + e) % CtrMod,
                            row |-> ((a % NRowMinf) + k) % NRowMinf]
  BY <1>3 DEF LabelAfter
<1>9. LabelAfter(lab, n + k) = [ctr |-> (c + e) % CtrMod, row |-> (a + k) % NRowMinf]
  BY <1>2, <1>7 DEF LabelAfter
<1> QED
  BY <1>4, <1>6, <1>8, <1>9

(* No rows on, a label is itself. *)
LEMMA LabelStays ==
  ASSUME NEW lab \in Labels
  PROVE  LabelAfter(lab, 0) = lab
<1> DEFINE c == lab.ctr
           r == lab.row
<1>1. /\ NRowMinf \in Nat /\ NRowMinf > 0 /\ CtrMod \in Nat /\ CtrMod > 0
      /\ c \in 0 .. CtrMod - 1 /\ r \in 0 .. NRowMinf - 1 /\ lab = [ctr |-> c, row |-> r]
  BY QueueAssumption DEF Labels
<1> HIDE DEF c, r
<1>2. r \div NRowMinf = 0 /\ r % NRowMinf = r
  <2>1. 0 \in Nat /\ NRowMinf * 0 + r = r
    BY <1>1
  <2> QED
    BY <1>1, <2>1, Division
<1>3. c % CtrMod = c
  <2>1. 0 \in Nat /\ CtrMod * 0 + c = c
    BY <1>1
  <2> QED
    BY <1>1, <2>1, Division
<1>4. LabelAfter(lab, 0) = [ctr |-> (c + (r + 0) \div NRowMinf) % CtrMod,
                            row |-> (r + 0) % NRowMinf]
  BY <1>1 DEF LabelAfter
<1>5. r + 0 = r /\ c + 0 = c
  BY <1>1
<1> QED
  BY <1>1, <1>2, <1>3, <1>4, <1>5

-----------------------------------------------------------------------------
(* The ring as a queue: TmQueue implements TmFifo. *)

Items == [kind : {"tstamp"}, tsp : Nat]
           \cup [kind : {"row"}, tsp : Nat, lab : Labels, row : RowType]

(* A tmq_ref expects the label that follows its rows. *)
Labelled(ref) ==
  Starting(ref) \in Labels /\ Expected(ref) = LabelAfter(Starting(ref), ref.n_Qrows)

(* The invariant of the refinement: the labels of the tmq_refs and of the rows
   the writer has filled agree with the rows there are, and the rows that have
   been sent or are pending are those committed. *)
FifoInv ==
  /\ IInv
  /\ cur_tsp <= nstamps
  /\ \A i \in 1 .. Len(q.chain) : Labelled(q.chain[i])
  /\ \A k \in 1 .. filled : mem[q.last + k - 1].lab = LabelAfter(batch, k - 1)
  /\ sent \in Seq(Items)
  /\ Fifo!RowCount(sent \o Pending) = committed

(* Pending, of any chain, time stamp and slots. *)
RowsAt(slots, ref, n) ==
  [k \in 1 .. n |-> RowItem(ref.tsp, LabelAfter(Starting(ref), k - 1),
                            slots[Wrap(ref.Qrow + k - 1)])]

StampAt(ref, tsp) == IF ref.tsp # tsp THEN <<TstampItem(ref.tsp)>> ELSE <<>>

ItemsAt(ch, tsp, slots, i) ==
  StampAt(ch[i], IF i = 1 THEN tsp ELSE ch[i - 1].tsp)
    \o RowsAt(slots, ch[i], ch[i].n_Qrows)

Pieces(ch, tsp, slots) == [i \in 1 .. Len(ch) |-> ItemsAt(ch, tsp, slots, i)]

LEMMA PendingPieces ==
  Pending = FlattenSeq(Pieces(q.chain, cur_tsp, mem))
<1>1. ASSUME NEW i \in 1 .. Len(q.chain)
      PROVE  ItemsOf(i) = ItemsAt(q.chain, cur_tsp, mem, i)
  BY DEF ItemsOf, ItemsAt, StampOf, StampAt, RowItems, RowsAt
<1> QED
  BY <1>1 DEF Pending, Pieces

Slots == [0 .. TotalQrows - 1 -> RowType]

(* What a chain needs for its pieces to be items. *)
Fit(ref) == /\ ref \in TmqRefType /\ Starting(ref) \in Labels
            /\ ref.Qrow \in 0 .. TotalQrows - 1 /\ ref.n_Qrows <= TotalQrows

LEMMA RowsAtType ==
  ASSUME NEW slots \in Slots, NEW ref, Fit(ref), NEW n \in Nat, n <= TotalQrows
  PROVE  /\ RowsAt(slots, ref, n) \in Seq(Items) /\ Len(RowsAt(slots, ref, n)) = n
         /\ \A k \in 1 .. n : RowsAt(slots, ref, n)[k].kind = "row"
<1>1. ASSUME NEW k \in 1 .. n
      PROVE  RowsAt(slots, ref, n)[k] \in Items /\ RowsAt(slots, ref, n)[k].kind = "row"
  <2> DEFINE j == k - 1
             lab == LabelAfter(Starting(ref), j)
             at == Wrap(ref.Qrow + j)
  <2>1. j \in Nat /\ j <= TotalQrows /\ ref.Qrow + k - 1 = ref.Qrow + j
        /\ ref.Qrow \in 0 .. TotalQrows - 1
    <3>1. ref.Qrow \in 0 .. TotalQrows - 1 /\ TotalQrows \in Nat
      BY QueueAssumption DEF Fit
    <3> QED
      BY <3>1
  <2>2. at \in 0 .. TotalQrows - 1
    <3> HIDE DEF j
    <3> QED
      BY <2>1, WrapSlot
  <2>3. lab \in Labels
    <3>1. Starting(ref).ctr \in Nat /\ Starting(ref).row \in Nat
      BY DEF Fit, Labels
    <3> HIDE DEF j
    <3> QED
      BY <2>1, <3>1, LabelAfterType
  <2>4. slots[at] \in RowType
    BY <2>2 DEF Slots
  <2>5. ref.tsp \in Nat
    BY DEF Fit, TmqRefType
  <2>6. RowsAt(slots, ref, n)[k] = RowItem(ref.tsp, lab, slots[at])
    BY <2>1 DEF RowsAt
  <2> HIDE DEF lab, at
  <2> QED
    BY <2>3, <2>4, <2>5, <2>6 DEF RowItem, Items
<1>2. RowsAt(slots, ref, n) = [k \in 1 .. n |-> RowsAt(slots, ref, n)[k]]
  BY DEF RowsAt
<1> HIDE DEF RowsAt
<1> QED
  BY <1>1, <1>2

LEMMA StampAtType ==
  ASSUME NEW ref, ref.tsp \in Nat, NEW tsp
  PROVE  StampAt(ref, tsp) \in Seq(Items)
<1>1. TstampItem(ref.tsp) \in Items
  BY DEF TstampItem, Items
<1> QED
  BY <1>1 DEF StampAt

LEMMA PiecesType ==
  ASSUME NEW ch \in Seq(TmqRefType), \A i \in 1 .. Len(ch) : Fit(ch[i]),
         NEW tsp, NEW slots \in Slots
  PROVE  /\ Pieces(ch, tsp, slots) \in Seq(Seq(Items))
         /\ Len(Pieces(ch, tsp, slots)) = Len(ch)
         /\ \A i \in 1 .. Len(ch) : Pieces(ch, tsp, slots)[i] = ItemsAt(ch, tsp, slots, i)
<1>1. Len(ch) \in Nat
  OBVIOUS
<1>2. ASSUME NEW i \in 1 .. Len(ch)
      PROVE  ItemsAt(ch, tsp, slots, i) \in Seq(Items)
  <2>1. ch[i].tsp \in Nat /\ ch[i].n_Qrows \in Nat /\ ch[i].n_Qrows <= TotalQrows /\ Fit(ch[i])
    BY DEF Fit, TmqRefType
  <2>2. RowsAt(slots, ch[i], ch[i].n_Qrows) \in Seq(Items)
    BY <2>1, RowsAtType
  <2>3. StampAt(ch[i], IF i = 1 THEN tsp ELSE ch[i - 1].tsp) \in Seq(Items)
    BY <2>1, StampAtType
  <2> QED
    BY <2>2, <2>3 DEF ItemsAt
<1> QED
  BY <1>1, <1>2 DEF Pieces

(* The rows of a tmq_ref are its first n and those of what is left of it. *)
LEMMA RowsSplit ==
  ASSUME NEW slots \in Slots, NEW ref, Fit(ref), NEW rest, Fit(rest),
         NEW n \in Nat, NEW m \in Nat, n + m <= TotalQrows,
         rest.tsp = ref.tsp, rest.Qrow = Wrap(ref.Qrow + n),
         Starting(rest) = LabelAfter(Starting(ref), n)
  PROVE  RowsAt(slots, ref, n + m) = RowsAt(slots, ref, n) \o RowsAt(slots, rest, m)
<1> DEFINE a == RowsAt(slots, ref, n)
           b == RowsAt(slots, rest, m)
           c == RowsAt(slots, ref, n + m)
<1>1. TotalQrows \in Nat /\ n <= TotalQrows /\ m <= TotalQrows /\ n + m \in Nat
  BY QueueAssumption
<1>2. /\ a \in Seq(Items) /\ b \in Seq(Items) /\ c \in Seq(Items)
      /\ Len(a) = n /\ Len(b) = m /\ Len(c) = n + m
  BY <1>1, RowsAtType
<1>3. ASSUME NEW i \in 1 .. n
      PROVE  c[i] = a[i]
  BY <1>1 DEF RowsAt
<1>4. ASSUME NEW i \in 1 .. m
      PROVE  c[n + i] = b[i]
  <2> DEFINE j == i - 1
  <2>1. /\ n + i \in 1 .. n + m /\ j \in Nat /\ n + j <= TotalQrows
        /\ ref.Qrow + (n + i) - 1 = ref.Qrow + (n + j)
        /\ rest.Qrow + i - 1 = rest.Qrow + j /\ (n + i) - 1 = n + j
        /\ ref.Qrow \in 0 .. TotalQrows - 1
    BY <1>1 DEF Fit
  <2>2. c[n + i] = RowItem(ref.tsp, LabelAfter(Starting(ref), n + j),
                           slots[Wrap(ref.Qrow + (n + j))])
    BY <2>1 DEF RowsAt
  <2>3. b[i] = RowItem(rest.tsp, LabelAfter(Starting(rest), j),
                       slots[Wrap(rest.Qrow + j)])
    BY <2>1 DEF RowsAt
  <2>4. LabelAfter(Starting(rest), j) = LabelAfter(Starting(ref), n + j)
    <3>1. Starting(ref).ctr \in Nat /\ Starting(ref).row \in Nat
      BY DEF Fit, Labels
    <3> HIDE DEF j
    <3> QED
      BY <2>1, <3>1, LabelsAdd
  <2>5. Wrap(rest.Qrow + j) = Wrap(ref.Qrow + (n + j))
    <3> DEFINE s == ref.Qrow
    <3> HIDE DEF j, s
    <3>1. Wrap(Wrap(s + n) + j) = Wrap(s + (n + j))
      BY <2>1, <1>1 DEF Wrap, s
    <3> QED
      BY <3>1 DEF s
  <2> QED
    BY <2>2, <2>3, <2>4, <2>5
<1> HIDE DEF a, b, c
<1>5. Len(a \o b) = n + m /\ a \o b \in Seq(Items)
  BY <1>2
<1>6. ASSUME NEW i \in 1 .. n + m
      PROVE  c[i] = (a \o b)[i]
  <2>1. CASE i \in 1 .. n
    BY <2>1, <1>2, <1>3
  <2>2. CASE i \notin 1 .. n
    <3>1. i - n \in 1 .. m /\ n + (i - n) = i
      BY <2>2, <1>1
    <3>2. c[i] = b[i - n]
      BY <1>4, <3>1
    <3>3. (a \o b)[i] = b[i - n]
      <4>1. i \in 1 .. Len(a) + Len(b) /\ ~(i <= Len(a)) /\ i - Len(a) = i - n
        BY <2>2, <1>1, <1>2
      <4>2. (a \o b)[i] = IF i <= Len(a) THEN a[i] ELSE b[i - Len(a)]
        BY <4>1, <1>2, ConcatProperties
      <4> QED
        BY <4>1, <4>2
    <3> QED
      BY <3>2, <3>3
  <2> QED
    BY <2>1, <2>2
<1>7. c = a \o b
  BY <1>1, <1>2, <1>5, <1>6
<1> QED
  BY <1>7 DEF a, b, c

(* No rows are no items. *)
LEMMA NoRows ==
  ASSUME NEW slots, NEW ref
  PROVE  RowsAt(slots, ref, 0) = <<>>
BY DEF RowsAt

(* The count of an instance is the count. *)
LEMMA FifoCount ==
  ASSUME NEW u
  PROVE  Fifo!RowCount(u) = Cardinality({i \in 1 .. Len(u) : u[i].kind = "row"})
<1>1. ASSUME NEW S
      PROVE  Fifo!Cardinality(S) = Cardinality(S)
  BY DEF Fifo!Cardinality, Cardinality
<1> QED
  BY <1>1 DEF Fifo!RowCount, Fifo!IsRow

(* Counting the rows of a stream that is added to. *)
LEMMA RowCountType ==
  ASSUME NEW u \in Seq(Items)
  PROVE  Fifo!RowCount(u) \in Nat
<1> DEFINE R == {i \in 1 .. Len(u) : u[i].kind = "row"}
<1>1. Len(u) \in Nat
  OBVIOUS
<1>2. IsFiniteSet(1 .. Len(u))
  BY <1>1, FS_Interval
<1>3. IsFiniteSet(R)
  BY <1>2, FS_Subset
<1>4. Cardinality(R) \in Nat
  BY <1>3, FS_CardinalityType
<1> QED
  BY <1>4, FifoCount

LEMMA RowCountRows ==
  ASSUME NEW u \in Seq(Items), NEW t \in Seq(Items),
         \A k \in 1 .. Len(t) : t[k].kind = "row"
  PROVE  Fifo!RowCount(u \o t) = Fifo!RowCount(u) + Len(t)
<1> DEFINE n == Len(u)
           m == Len(t)
           v == u \o t
           R == {i \in 1 .. n : u[i].kind = "row"}
           N == {i \in 1 .. n + m : v[i].kind = "row"}
<1>1. /\ n \in Nat /\ m \in Nat /\ v \in Seq(Items) /\ Len(v) = n + m
      /\ \A i \in 1 .. n + m : v[i] = IF i <= n THEN u[i] ELSE t[i - n]
  BY ConcatProperties
<1> HIDE DEF v
<1>2. N = R \cup (n + 1 .. n + m)
  <2>1. ASSUME NEW i \in N
        PROVE  i \in R \cup (n + 1 .. n + m)
    <3> HIDE DEF n, m
    <3> QED
      BY <1>1 DEF n
  <2>2. ASSUME NEW i \in R
        PROVE  i \in N
    <3>1. i \in 1 .. n + m /\ i <= n
      BY <1>1
    <3>2. v[i] = u[i]
      BY <1>1, <3>1
    <3> QED
      BY <3>1, <3>2
  <2>3. ASSUME NEW i \in n + 1 .. n + m
        PROVE  i \in N
    <3>1. i \in 1 .. n + m /\ ~(i <= n) /\ i - n \in 1 .. m
      BY <1>1
    <3>2. v[i] = t[i - n]
      BY <1>1, <3>1
    <3> QED
      BY <3>1, <3>2
  <2> HIDE DEF N, R
  <2> QED
    BY <2>1, <2>2, <2>3
<1>3. R \cap (n + 1 .. n + m) = {}
  BY <1>1
<1>4. IsFiniteSet(R) /\ Cardinality(R) \in Nat
  <2>1. IsFiniteSet(1 .. n)
    BY <1>1, FS_Interval
  <2>2. IsFiniteSet(R)
    BY <2>1, FS_Subset
  <2> QED
    BY <2>2, FS_CardinalityType
<1>5. IsFiniteSet(n + 1 .. n + m) /\ Cardinality(n + 1 .. n + m) = m
  <2> HIDE DEF n, m
  <2>1. n + 1 \in Int /\ n + m \in Int
    BY <1>1
  <2>2. /\ IsFiniteSet(n + 1 .. n + m)
        /\ Cardinality(n + 1 .. n + m)
             = IF n + 1 > n + m THEN 0 ELSE (n + m) - (n + 1) + 1
    BY <2>1, FS_Interval
  <2>3. (IF n + 1 > n + m THEN 0 ELSE (n + m) - (n + 1) + 1) = m
    BY <1>1
  <2> QED
    BY <2>2, <2>3
<1>6. Cardinality(N) = Cardinality(R) + m
  <2> HIDE DEF N, R, n, m
  <2>1. Cardinality(R \cup (n + 1 .. n + m))
          = Cardinality(R) + Cardinality(n + 1 .. n + m) - Cardinality(R \cap (n + 1 .. n + m))
    BY <1>4, <1>5, FS_Union
  <2>2. Cardinality(R \cap (n + 1 .. n + m)) = 0
    BY <1>3, FS_EmptySet
  <2> QED
    BY <1>1, <1>2, <1>4, <1>5, <2>1, <2>2
<1>7. Fifo!RowCount(v) = Cardinality(N) /\ Fifo!RowCount(u) = Cardinality(R)
  BY <1>1, FifoCount DEF v
<1> QED
  BY <1>6, <1>7 DEF v

LEMMA RowCountStamp ==
  ASSUME NEW u \in Seq(Items), NEW t \in Seq(Items),
         \A k \in 1 .. Len(t) : t[k].kind # "row"
  PROVE  Fifo!RowCount(u \o t) = Fifo!RowCount(u)
<1> DEFINE n == Len(u)
           m == Len(t)
           v == u \o t
           R == {i \in 1 .. n : u[i].kind = "row"}
           N == {i \in 1 .. n + m : v[i].kind = "row"}
<1>1. /\ n \in Nat /\ m \in Nat /\ v \in Seq(Items) /\ Len(v) = n + m
      /\ \A i \in 1 .. n + m : v[i] = IF i <= n THEN u[i] ELSE t[i - n]
  BY ConcatProperties
<1> HIDE DEF v
<1>2. ASSUME NEW i \in N
      PROVE  i \in R
  <2>1. i \in 1 .. n + m /\ v[i].kind = "row"
    OBVIOUS
  <2>2. CASE i <= n
    BY <1>1, <2>1, <2>2
  <2>3. CASE ~(i <= n)
    <3>1. i - n \in 1 .. m /\ v[i] = t[i - n]
      BY <1>1, <2>1, <2>3
    <3> QED
      BY <2>1, <3>1
  <2> QED
    BY <2>2, <2>3
<1>3. ASSUME NEW i \in R
      PROVE  i \in N
  <2>1. i \in 1 .. n + m /\ i <= n
    BY <1>1
  <2>2. v[i] = u[i]
    BY <1>1, <2>1
  <2> QED
    BY <2>1, <2>2
<1>4. N = R
  <2> HIDE DEF N, R
  <2> QED
    BY <1>2, <1>3
<1>5. Fifo!RowCount(v) = Cardinality(N) /\ Fifo!RowCount(u) = Cardinality(R)
  BY <1>1, FifoCount DEF v
<1> QED
  BY <1>4, <1>5 DEF v

(* Items taken from the head of what is pending are a step of the queue. *)
LEMMA TakeStep ==
  ASSUME NEW t \in Seq(Items), t # <<>>, NEW r \in Seq(Items), NEW s \in Seq(Items)
  PROVE  \E n \in 1 .. Len(t \o r) :
           /\ r = SubSeq(t \o r, n + 1, Len(t \o r))
           /\ s \o t = s \o SubSeq(t \o r, 1, n)
<1> DEFINE n == Len(t)
           m == Len(r)
           p == t \o r
<1>0. p \in Seq(Items) /\ Len(p) = n + m
  BY ConcatProperties
<1>1. n \in Nat /\ n > 0 /\ m \in Nat /\ Len(p) = n + m /\ p \in Seq(Items)
  BY <1>0
<1>2. \A i \in 1 .. n + m : p[i] = IF i <= n THEN t[i] ELSE r[i - n]
  BY ConcatProperties
<1> HIDE DEF p
<1>3. SubSeq(p, 1, n) = t
  <2> DEFINE a == SubSeq(p, 1, n)
  <2>1. a \in Seq(Items) /\ Len(a) = n /\ \A i \in 1 .. n : a[i] = p[i]
    BY <1>1
  <2>2. \A i \in 1 .. n : a[i] = t[i]
    BY <1>1, <1>2, <2>1
  <2> HIDE DEF a
  <2>3. a = t
    BY <2>1, <2>2
  <2> QED
    BY <2>3 DEF a
<1>4. SubSeq(p, n + 1, Len(p)) = r
  <2> DEFINE a == SubSeq(p, n + 1, Len(p))
  <2>1. n \in 0 .. Len(p) /\ Len(p) - n = m /\ p \in Seq(Items)
    BY <1>1
  <2> HIDE DEF n
  <2>2. a \in Seq(Items) /\ Len(a) = Len(p) - n /\ \A i \in 1 .. Len(p) - n : a[i] = p[n + i]
    BY <2>1
  <2> HIDE DEF m
  <2>3. ASSUME NEW i \in 1 .. m
        PROVE  a[i] = r[i]
    <3>1. n + i \in 1 .. n + m /\ ~(n + i <= n) /\ (n + i) - n = i
      BY <1>1
    <3> QED
      BY <1>2, <2>1, <2>2, <3>1
  <2> HIDE DEF a
  <2>4. Len(a) = Len(r) /\ \A i \in 1 .. Len(a) : a[i] = r[i]
    BY <2>1, <2>2, <2>3 DEF m
  <2>5. a \in Seq(Items)
    BY <2>2
  <2>6. a = r
    BY <2>4, <2>5, SeqEqual
  <2> QED
    BY <2>6 DEF a
<1>5. n \in 1 .. Len(p)
  BY <1>1
<1> HIDE DEF n
<1> QED
  BY <1>3, <1>4, <1>5 DEF p

-----------------------------------------------------------------------------
(* What the steps do to the pieces of Pending. *)

LEMMA Associative ==
  ASSUME NEW E, NEW a \in Seq(E), NEW b \in Seq(E), NEW c \in Seq(E)
  PROVE  (a \o b) \o c = a \o (b \o c)
OBVIOUS

LEMMA Appended ==
  ASSUME NEW E, NEW s \in Seq(E), NEW x \in E
  PROVE  /\ Append(s, x) \in Seq(E) /\ Len(Append(s, x)) = Len(s) + 1
         /\ Append(s, x)[Len(s) + 1] = x
         /\ \A i \in 1 .. Len(s) : Append(s, x)[i] = s[i]
OBVIOUS

(* A chain all of whose members are fit for it. *)
FitChain(ch) == ch \in Seq(TmqRefType) /\ \A i \in 1 .. Len(ch) : Fit(ch[i])

LEMMA FlatType ==
  ASSUME NEW ch, FitChain(ch), NEW tsp, NEW slots \in Slots
  PROVE  FlattenSeq(Pieces(ch, tsp, slots)) \in Seq(Items)
<1>1. Pieces(ch, tsp, slots) \in Seq(Seq(Items)) /\ <<>> \in Seq(Items)
  BY PiecesType DEF FitChain
<1> HIDE DEF Pieces
<1> QED
  BY <1>1, FlattenLast

(* One more tmq_ref is one more piece. *)
LEMMA PieceAppended ==
  ASSUME NEW ch, FitChain(ch), NEW ref, Fit(ref), NEW tsp, NEW slots \in Slots
  PROVE  LET ch2 == Append(ch, ref)
         IN /\ FitChain(ch2)
            /\ FlattenSeq(Pieces(ch2, tsp, slots))
                 = FlattenSeq(Pieces(ch, tsp, slots))
                     \o ItemsAt(ch2, tsp, slots, Len(ch) + 1)
<1> DEFINE N == Len(ch)
           ch2 == Append(ch, ref)
           ps == Pieces(ch, tsp, slots)
           ps2 == Pieces(ch2, tsp, slots)
           x == ItemsAt(ch2, tsp, slots, N + 1)
<1>1. /\ N \in Nat /\ ch2 \in Seq(TmqRefType) /\ Len(ch2) = N + 1
      /\ \A i \in 1 .. N : ch2[i] = ch[i]
      /\ ch2[N + 1] = ref
  BY DEF FitChain, Fit
<1> HIDE DEF ch2
<1>2. \A i \in 1 .. N + 1 : Fit(ch2[i])
  <2> SUFFICES ASSUME NEW i \in 1 .. N + 1
               PROVE  Fit(ch2[i])
    OBVIOUS
  <2>1. i \in 1 .. N \/ i = N + 1
    BY <1>1
  <2> QED
    BY <2>1, <1>1 DEF FitChain
<1>3. FitChain(ch2)
  BY <1>1, <1>2 DEF FitChain
<1>4. /\ ps \in Seq(Seq(Items)) /\ Len(ps) = N
      /\ \A i \in 1 .. N : ps[i] = ItemsAt(ch, tsp, slots, i)
  <2> HIDE DEF ps
  <2> QED
    BY PiecesType DEF FitChain, ps
<1>5. /\ ps2 \in Seq(Seq(Items)) /\ Len(ps2) = N + 1
      /\ \A i \in 1 .. N + 1 : ps2[i] = ItemsAt(ch2, tsp, slots, i)
  <2> HIDE DEF ps2
  <2> QED
    BY <1>1, <1>3, PiecesType DEF FitChain, ps2
<1>6. ASSUME NEW i \in 1 .. N
      PROVE  ItemsAt(ch2, tsp, slots, i) = ItemsAt(ch, tsp, slots, i)
  <2>1. ch2[i] = ch[i] /\ (i = 1 \/ (i - 1 \in 1 .. N /\ ch2[i - 1] = ch[i - 1]))
    BY <1>1
  <2> QED
    BY <2>1 DEF ItemsAt
<1>7. x \in Seq(Items)
  BY <1>1, <1>5
<1> HIDE DEF ps, ps2, x, N
<1>8. ps2 = Append(ps, x)
  <2> DEFINE pp == Append(ps, x)
  <2>1. /\ pp \in Seq(Seq(Items)) /\ Len(pp) = N + 1
        /\ \A i \in 1 .. N : pp[i] = ps[i]
        /\ pp[N + 1] = x
    BY <1>1, <1>4, <1>7
  <2>2. \A i \in 1 .. N : ps2[i] = ps[i]
    BY <1>1, <1>4, <1>5, <1>6
  <2>3. ps2[N + 1] = x
    BY <1>1, <1>5 DEF x
  <2> HIDE DEF pp
  <2>4. ASSUME NEW i \in 1 .. Len(ps2)
        PROVE  ps2[i] = pp[i]
    <3>1. i \in 1 .. N \/ i = N + 1
      BY <1>1, <1>5
    <3> QED
      BY <3>1, <2>1, <2>2, <2>3
  <2>5. ps2 = pp
    BY <1>5, <2>1, <2>4, SeqEqual
  <2> QED
    BY <2>5 DEF pp
<1>9. FlattenSeq(ps2) = FlattenSeq(ps) \o x
  BY <1>4, <1>7, <1>8, FlattenLast
<1> QED
  BY <1>3, <1>9 DEF ch2, ps, ps2, x, N

(* ch2 is ch with ref, which shows the rows y too, for its last tmq_ref. *)
LastGrown(ch, ch2, ref, y, slots) ==
  /\ FitChain(ch) /\ ch # <<>> /\ Fit(ref) /\ slots \in Slots /\ y \in Seq(Items)
  /\ ref.tsp = ch[Len(ch)].tsp
  /\ RowsAt(slots, ref, ref.n_Qrows)
       = RowsAt(slots, ch[Len(ch)], ch[Len(ch)].n_Qrows) \o y
  /\ ch2 = [ch EXCEPT ![Len(ch)] = ref]

(* More rows in the last tmq_ref are put behind all the pieces. *)
LEMMA PieceGrown ==
  ASSUME NEW ch, NEW ch2, NEW ref, NEW y, NEW slots,
         LastGrown(ch, ch2, ref, y, slots), NEW tsp
  PROVE  FlattenSeq(Pieces(ch2, tsp, slots)) = FlattenSeq(Pieces(ch, tsp, slots)) \o y
<1> DEFINE N == Len(ch)
           M == N - 1
           front == SubSeq(ch, 1, M)
<1>0. /\ FitChain(ch) /\ ch # <<>> /\ Fit(ref) /\ slots \in Slots /\ y \in Seq(Items)
      /\ ref.tsp = ch[N].tsp
      /\ RowsAt(slots, ref, ref.n_Qrows) = RowsAt(slots, ch[N], ch[N].n_Qrows) \o y
      /\ ch2 = [ch EXCEPT ![N] = ref]
  BY DEF LastGrown
<1>1. /\ N \in Nat /\ M \in Nat /\ N = M + 1 /\ ch \in Seq(TmqRefType)
      /\ ref \in TmqRefType /\ Fit(ch[N]) /\ ch[N] \in TmqRefType
  BY <1>0 DEF FitChain, Fit
<1>2. /\ front \in Seq(TmqRefType) /\ Len(front) = M
      /\ \A i \in 1 .. M : front[i] = ch[i]
  BY <1>1
<1>3. FitChain(front)
  BY <1>0, <1>1, <1>2 DEF FitChain
<1>4. /\ ch2 \in Seq(TmqRefType) /\ Len(ch2) = N /\ ch2[N] = ref
      /\ \A i \in 1 .. M : ch2[i] = ch[i]
  BY <1>0, <1>1
<1> HIDE DEF front
<1>5. ch = Append(front, ch[N]) /\ ch2 = Append(front, ref)
  <2> DEFINE a == Append(front, ch[N])
             b == Append(front, ref)
  <2>1. /\ a \in Seq(TmqRefType) /\ Len(a) = M + 1 /\ a[M + 1] = ch[N]
        /\ b \in Seq(TmqRefType) /\ Len(b) = M + 1 /\ b[M + 1] = ref
        /\ \A i \in 1 .. M : a[i] = front[i] /\ b[i] = front[i]
    <3> HIDE DEF N, M
    <3> QED
      BY <1>1, <1>2, Appended
  <2> HIDE DEF a, b, N
  <2>2. ASSUME NEW i \in 1 .. M + 1
        PROVE  ch[i] = a[i] /\ ch2[i] = b[i]
    <3>1. i \in 1 .. M \/ i = M + 1
      BY <1>1
    <3> QED
      BY <3>1, <2>1, <1>1, <1>2, <1>4
  <2>3. ch = a
    <3>1. Len(ch) = Len(a) /\ \A i \in 1 .. Len(ch) : ch[i] = a[i]
      BY <2>1, <2>2, <1>1 DEF N
    <3>2. a \in Seq(TmqRefType)
      BY <2>1
    <3> QED
      BY <3>1, <3>2, <1>1, SeqEqual
  <2>4. ch2 = b
    <3>1. Len(ch2) = Len(b) /\ \A i \in 1 .. Len(ch2) : ch2[i] = b[i]
      BY <2>1, <2>2, <1>1, <1>4
    <3>2. b \in Seq(TmqRefType)
      BY <2>1
    <3> QED
      BY <3>1, <3>2, <1>4, SeqEqual
  <2> QED
    BY <2>3, <2>4 DEF a, b
<1> DEFINE f == FlattenSeq(Pieces(front, tsp, slots))
           z == ItemsAt(ch, tsp, slots, N)
           z2 == ItemsAt(ch2, tsp, slots, N)
<1>6. /\ FlattenSeq(Pieces(ch, tsp, slots)) = f \o z
      /\ FlattenSeq(Pieces(ch2, tsp, slots)) = f \o z2
  <2>1. Len(front) + 1 = N
    BY <1>1, <1>2
  <2>2. slots \in Slots /\ Fit(ref) /\ Fit(ch[N])
    BY <1>0, <1>1
  <2> HIDE DEF f, z, z2, N
  <2> QED
    BY <1>3, <1>5, <2>1, <2>2, PieceAppended DEF f, z, z2
<1>7. f \in Seq(Items)
  BY <1>0, <1>3, FlatType
<1> DEFINE st == StampAt(ch[N], IF N = 1 THEN tsp ELSE ch[N - 1].tsp)
           rs == RowsAt(slots, ch[N], ch[N].n_Qrows)
<1>8. st \in Seq(Items) /\ rs \in Seq(Items)
  <2>1. ch[N].tsp \in Nat /\ ch[N].n_Qrows \in Nat /\ ch[N].n_Qrows <= TotalQrows
    BY <1>1 DEF TmqRefType, Fit
  <2>2. st \in Seq(Items)
    BY <2>1, StampAtType
  <2>3. rs \in Seq(Items)
    BY <1>0, <1>1, <2>1, RowsAtType
  <2> QED
    BY <2>2, <2>3
<1>9. z = st \o rs /\ z2 = st \o (rs \o y)
  <2>1. z = st \o rs
    BY DEF ItemsAt
  <2>2. ch2[N] = ref /\ (N = 1 \/ (N - 1 \in 1 .. M /\ ch2[N - 1] = ch[N - 1]))
    BY <1>1, <1>4
  <2>3. z2 = StampAt(ref, IF N = 1 THEN tsp ELSE ch[N - 1].tsp)
               \o RowsAt(slots, ref, ref.n_Qrows)
    BY <2>2 DEF ItemsAt
  <2>4. StampAt(ref, IF N = 1 THEN tsp ELSE ch[N - 1].tsp) = st
    BY <1>0 DEF StampAt
  <2> QED
    BY <1>0, <2>1, <2>3, <2>4
<1> HIDE DEF f, z, z2, st, rs
<1>10. f \o z2 = (f \o z) \o y
  <2>1. (st \o rs) \o y = st \o (rs \o y)
    <3>1. y \in Seq(Items)
      BY <1>0
    <3> QED
      BY <1>8, <3>1, Associative
  <2>2. (f \o z) \o y = f \o (z \o y)
    <3>1. z \in Seq(Items)
      BY <1>8, <1>9
    <3>2. y \in Seq(Items)
      BY <1>0
    <3> QED
      BY <1>7, <3>1, <3>2, Associative
  <2> QED
    BY <2>1, <2>2, <1>9
<1> QED
  BY <1>6, <1>10

(* A chain without its head is fit too. *)
LEMMA TailFit ==
  ASSUME NEW ch, FitChain(ch), ch # <<>>
  PROVE  /\ FitChain(Tail(ch)) /\ Len(Tail(ch)) = Len(ch) - 1 /\ Len(ch) \in Nat
         /\ \A i \in 1 .. Len(ch) - 1 : Tail(ch)[i] = ch[i + 1]
<1> DEFINE t == Tail(ch)
<1>1. /\ t \in Seq(TmqRefType) /\ Len(t) = Len(ch) - 1 /\ Len(ch) \in Nat
      /\ \A i \in 1 .. Len(ch) - 1 : t[i] = ch[i + 1]
  BY DEF FitChain
<1> HIDE DEF t
<1>2. ASSUME NEW i \in 1 .. Len(t)
      PROVE  Fit(t[i])
  <2>1. i + 1 \in 1 .. Len(ch) /\ t[i] = ch[i + 1]
    BY <1>1
  <2> QED
    BY <2>1 DEF FitChain
<1>3. FitChain(t)
  BY <1>1, <1>2 DEF FitChain
<1> QED
  BY <1>1, <1>3 DEF t

(* The first piece, then those of the rest of the chain. *)
LEMMA PieceFirst ==
  ASSUME NEW ch, FitChain(ch), ch # <<>>, NEW tsp, NEW slots \in Slots
  PROVE  FlattenSeq(Pieces(ch, tsp, slots))
           = ItemsAt(ch, tsp, slots, 1)
               \o FlattenSeq(Pieces(Tail(ch), ch[1].tsp, slots))
<1> DEFINE N == Len(ch)
           t == Tail(ch)
           ps == Pieces(ch, tsp, slots)
           pt == Pieces(t, ch[1].tsp, slots)
<1>1. /\ FitChain(t) /\ Len(t) = N - 1 /\ N \in Nat /\ N > 0
      /\ \A i \in 1 .. N - 1 : t[i] = ch[i + 1]
  <2>1. N > 0
    BY DEF FitChain
  <2> QED
    BY <2>1, TailFit
<1>2. /\ ps \in Seq(Seq(Items)) /\ Len(ps) = N
      /\ \A i \in 1 .. N : ps[i] = ItemsAt(ch, tsp, slots, i)
  <2> HIDE DEF ps
  <2> QED
    BY PiecesType DEF FitChain, ps
<1>3. /\ pt \in Seq(Seq(Items)) /\ Len(pt) = N - 1
      /\ \A i \in 1 .. N - 1 : pt[i] = ItemsAt(t, ch[1].tsp, slots, i)
  <2> HIDE DEF pt
  <2> QED
    BY <1>1, PiecesType DEF FitChain, pt
<1> HIDE DEF t, ps, pt, N
<1>4. ASSUME NEW i \in 1 .. N - 1
      PROVE  ItemsAt(t, ch[1].tsp, slots, i) = ItemsAt(ch, tsp, slots, i + 1)
  <2>1. /\ t[i] = ch[i + 1] /\ i + 1 # 1 /\ (i + 1) - 1 = i
    BY <1>1
  <2>2. (IF i = 1 THEN ch[1].tsp ELSE t[i - 1].tsp) = ch[i].tsp
    <3>1. CASE i = 1
      BY <3>1
    <3>2. CASE i # 1
      <4>1. i - 1 \in 1 .. N - 1 /\ (i - 1) + 1 = i
        BY <1>1, <3>2
      <4>2. t[i - 1] = ch[i]
        BY <1>1, <4>1
      <4> QED
        BY <3>2, <4>2
    <3> QED
      BY <3>1, <3>2
  <2> QED
    BY <2>1, <2>2 DEF ItemsAt
<1>5. Tail(ps) = pt
  <2> DEFINE a == Tail(ps)
  <2>1. /\ a \in Seq(Seq(Items)) /\ Len(a) = N - 1 /\ ps # <<>>
        /\ \A i \in 1 .. N - 1 : a[i] = ps[i + 1]
    BY <1>1, <1>2
  <2>2. ASSUME NEW i \in 1 .. N - 1
        PROVE  a[i] = pt[i]
    <3>1. i + 1 \in 1 .. N
      BY <1>1
    <3> HIDE DEF a
    <3> QED
      BY <3>1, <2>1, <1>2, <1>3, <1>4
  <2> HIDE DEF a
  <2>3. Len(a) = Len(pt) /\ \A i \in 1 .. Len(a) : a[i] = pt[i]
    BY <2>1, <2>2, <1>3
  <2>4. a = pt
    BY <2>1, <2>3, <1>3, SeqEqual
  <2> QED
    BY <2>4 DEF a
<1>6. ps # <<>> /\ ps[1] = ItemsAt(ch, tsp, slots, 1)
  BY <1>1, <1>2
<1>7. FlattenSeq(ps) = ps[1] \o FlattenSeq(Tail(ps))
  BY <1>2, <1>6, FlattenFirst
<1> QED
  BY <1>5, <1>6, <1>7 DEF t, ps, pt

(* Items put behind what is pending, a time stamp or the next rows, are a
   step of the queue. *)
LEMMA PutStep ==
  ASSUME NEW y, y \in Seq(Items), y # <<>>, Pending \in Seq(Items),
         Pending' = Pending \o y, sent' = sent,
         Fifo!RowCount(sent \o Pending) = committed,
         \/ Len(y) = 1 /\ y[1].kind # "row"
         \/ \A k \in 1 .. Len(y) : /\ y[k].kind = "row"
                                  /\ y[k].row.id = committed + k
                                  /\ y[k].lab = y[k].row.lab
  PROVE  Fifo!Put
<1> DEFINE old == Len(Pending)
           m == Len(y)
           new == Pending \o y
<1>1. /\ old \in Nat /\ m \in Nat /\ m > 0 /\ new \in Seq(Items) /\ Len(new) = old + m
      /\ \A i \in 1 .. old + m : new[i] = IF i <= old THEN Pending[i] ELSE y[i - old]
  <2>1. m > 0
    OBVIOUS
  <2> QED
    BY <2>1, ConcatProperties
<1> HIDE DEF new
<1>2. ASSUME NEW k \in 1 .. m
      PROVE  new[old + k] = y[k]
  <2>1. old + k \in 1 .. old + m /\ ~(old + k <= old) /\ (old + k) - old = k
    BY <1>1
  <2> HIDE DEF old, m
  <2> QED
    BY <2>1, <1>1
<1>3. SubSeq(new, 1, old) = Pending
  <2> DEFINE a == SubSeq(new, 1, old)
  <2>1. a \in Seq(Items) /\ Len(a) = old /\ \A i \in 1 .. old : a[i] = new[i]
    BY <1>1
  <2>2. \A i \in 1 .. old : a[i] = Pending[i]
    BY <1>1, <2>1
  <2> HIDE DEF a
  <2>3. a = Pending
    BY <2>1, <2>2, SeqEqual
  <2> QED
    BY <2>3 DEF a
<1>4. Len(new) > old /\ Len(new) - old = m /\ 1 \in 1 .. m
  BY <1>1
<1>5. Pending' = new
  BY DEF new
<1>6. CASE Len(y) = 1 /\ y[1].kind # "row"
  <2>1. Len(new) = old + 1 /\ new[old + 1].kind # "row"
    BY <1>1, <1>2, <1>4, <1>6
  <2> QED
    BY <2>1, <1>3, <1>4, <1>5 DEF Fifo!Put, Fifo!IsRow
<1>7. CASE \A k \in 1 .. m : /\ y[k].kind = "row" /\ y[k].row.id = committed + k
                            /\ y[k].lab = y[k].row.lab
  <2>1. \A k \in 1 .. Len(new) - old : /\ new[old + k].kind = "row"
                                        /\ new[old + k].row.id = committed + k
                                        /\ new[old + k].lab = new[old + k].row.lab
    BY <1>2, <1>4, <1>7
  <2> QED
    BY <2>1, <1>3, <1>4, <1>5 DEF Fifo!Put, Fifo!IsRow
<1> QED
  BY <1>6, <1>7

-----------------------------------------------------------------------------
(* Each action keeps FifoInv and is a step of the queue.                   *)

LEMMA ChainFit ==
  ASSUME IInv, \A i \in 1 .. Len(q.chain) : Labelled(q.chain[i])
  PROVE  FitChain(q.chain) /\ mem \in Slots
<1>1. ASSUME NEW i \in 1 .. Len(q.chain)
      PROVE  Fit(q.chain[i])
  <2> DEFINE b == base[i]
             n == q.chain[i].n_Qrows
             first == q.first
             d == b - retired
  <2>1. /\ q.chain[i].Qrow = Wrap(q.first + (base[i] - retired)) /\ retired <= base[i]
        /\ base[i] + q.chain[i].n_Qrows <= committed
        /\ q.chain[i].n_Qrows \in Nat /\ base[i] \in Nat
    <3>1. /\ ChainInv(q.chain, base, q.first, committed, retired, nstamps)
          /\ Counted(q.chain, base)
      BY Facts
    <3> QED
      BY <3>1, ChainInvAt
  <2>2. /\ committed \in Nat /\ retired \in Nat /\ committed - retired <= TotalQrows
        /\ TotalQrows \in Nat /\ first \in 0 .. TotalQrows - 1
    BY Facts, RingFacts
  <2>3. d \in Nat /\ d <= TotalQrows /\ n <= TotalQrows
    <3>1. retired <= b /\ b + n <= committed /\ n \in Nat /\ b \in Nat
      BY <2>1
    <3> HIDE DEF b, n
    <3> QED
      BY <3>1, <2>2
  <2>5. q.chain[i].Qrow = Wrap(first + d) /\ n = q.chain[i].n_Qrows
    BY <2>1
  <2> HIDE DEF d, first, n
  <2>4. q.chain[i].Qrow \in 0 .. TotalQrows - 1
    BY <2>2, <2>3, <2>5, WrapSlot
  <2>6. q.chain[i] \in TmqRefType
    BY Facts
  <2> QED
    BY <2>3, <2>4, <2>5, <2>6 DEF Fit, Labelled
<1> QED
  BY <1>1, Facts DEF FitChain, Slots, IInv, TypeOK

LEMMA FifoFacts ==
  ASSUME FifoInv
  PROVE  /\ IInv /\ FitChain(q.chain) /\ mem \in Slots
         /\ Pending \in Seq(Items) /\ sent \in Seq(Items)
         /\ Pending = FlattenSeq(Pieces(q.chain, cur_tsp, mem))
         /\ cur_tsp \in Nat /\ batch \in Labels /\ source \in Labels
         /\ claim \in Nat /\ filled \in Nat /\ filled <= claim
<1>1. IInv /\ FitChain(q.chain) /\ mem \in Slots
  BY ChainFit DEF FifoInv
<1>2. FlattenSeq(Pieces(q.chain, cur_tsp, mem)) \in Seq(Items)
  BY <1>1, FlatType
<1>3. Pending = FlattenSeq(Pieces(q.chain, cur_tsp, mem))
  BY PendingPieces
<1>4. /\ cur_tsp \in Nat /\ batch \in Labels /\ source \in Labels
      /\ claim \in 0 .. TotalQrows /\ filled \in 0 .. claim /\ TotalQrows \in Nat
  BY <1>1, Facts DEF IInv, TypeOK
<1> QED
  BY <1>1, <1>2, <1>3, <1>4 DEF FifoInv

LEMMA PendingNext ==
  Pending' = FlattenSeq(Pieces(q'.chain, cur_tsp', mem'))
<1>1. (Pending = FlattenSeq(Pieces(q.chain, cur_tsp, mem)))'
  BY PendingPieces, PTL
<1> QED
  BY <1>1 DEF Pieces, ItemsAt, StampAt, RowsAt

(* A new tmq_ref expects the label it starts with. *)
LEMMA NewRefFit ==
  ASSUME NEW id \in Nat, NEW tsp \in Nat, NEW lab \in Labels,
         NEW slot \in 0 .. TotalQrows - 1
  PROVE  LET ref == NewRef(id, tsp, lab, slot)
         IN /\ ref \in TmqRefType /\ Fit(ref) /\ Starting(ref) = lab /\ Expected(ref) = lab
            /\ ref.tsp = tsp /\ ref.n_Qrows = 0 /\ ref.Qrow = slot
            /\ Labelled(ref)
<1> DEFINE ref == NewRef(id, tsp, lab, slot)
<1>1. lab = [ctr |-> lab.ctr, row |-> lab.row] /\ lab.ctr \in Nat /\ lab.row \in Nat
  BY DEF Labels
<1>2. slot \in Nat /\ TotalQrows \in Nat /\ 0 <= TotalQrows
  BY QueueAssumption
<1>3. ref \in TmqRefType /\ ref.tsp = tsp /\ ref.n_Qrows = 0 /\ ref.Qrow = slot
  BY <1>1, <1>2 DEF NewRef, TmqRefType
<1>4. Starting(ref) = lab /\ Expected(ref) = lab
  BY <1>1 DEF NewRef, Starting, Expected
<1> HIDE DEF ref
<1>5. Fit(ref)
  BY <1>2, <1>3, <1>4 DEF Fit
<1>6. Labelled(ref)
  BY <1>3, <1>4, LabelStays DEF Labelled
<1> QED
  BY <1>3, <1>4, <1>5, <1>6 DEF ref

(* A time stamp committed is put behind all that is pending. *)
LEMMA StampFifo ==
  ASSUME FifoInv, Stamp
  PROVE  FifoInv' /\ Fifo!Put
<1> DEFINE lab == [ctr |-> source.ctr, row |-> 0]
           ref == NewRef(nrefs + 1, nstamps + 1, lab, q.last)
           N == Len(q.chain)
           ch2 == Append(q.chain, ref)
           y == ItemsAt(ch2, cur_tsp, mem, N + 1)
<1>1. /\ q'.chain = ch2 /\ q'.last = q.last /\ nstamps' = nstamps + 1
      /\ UNCHANGED <<mem, claim, filled, batch, source, cur_tsp, sent, committed, retired>>
  BY DEF Stamp, CommitTstamp, writer
<1>2. IInv'
  BY FifoFacts, StampIInv
<1>3. /\ ref \in TmqRefType /\ Fit(ref) /\ ref.tsp = nstamps + 1 /\ ref.n_Qrows = 0
      /\ Labelled(ref)
  <2>1. lab \in Labels
    BY FifoFacts, QueueAssumption DEF Labels
  <2>2. nrefs + 1 \in Nat /\ nstamps + 1 \in Nat /\ q.last \in 0 .. TotalQrows - 1
    BY FifoFacts, Facts
  <2> HIDE DEF lab
  <2> QED
    BY <2>1, <2>2, NewRefFit
<1> HIDE DEF ref
<1>4. /\ q.chain \in Seq(TmqRefType) /\ N \in Nat /\ nstamps \in Nat
      /\ cur_tsp \in Nat /\ cur_tsp <= nstamps
  BY FifoFacts, Facts DEF FifoInv
<1>5. /\ ch2 \in Seq(TmqRefType) /\ Len(ch2) = N + 1 /\ ch2[N + 1] = ref
      /\ \A i \in 1 .. N : ch2[i] = q.chain[i]
  BY <1>3, <1>4, Appended
<1> HIDE DEF ch2
<1>6. Pending' = Pending \o y
  <2>1. FlattenSeq(Pieces(ch2, cur_tsp, mem))
          = FlattenSeq(Pieces(q.chain, cur_tsp, mem)) \o y
    <3> HIDE DEF y
    <3> QED
      BY <1>3, FifoFacts, PieceAppended DEF y, ch2
  <2>2. Pending' = FlattenSeq(Pieces(ch2, cur_tsp, mem))
    BY <1>1, PendingNext
  <2> QED
    BY <2>1, <2>2, FifoFacts
<1>7. y = <<TstampItem(ref.tsp)>>
  <2> DEFINE before == IF N + 1 = 1 THEN cur_tsp ELSE ch2[(N + 1) - 1].tsp
  <2>1. before \in Nat /\ before <= nstamps
    <3>1. CASE N = 0
      BY <3>1, <1>4
    <3>2. CASE N # 0
      <4>1. N \in 1 .. N /\ (N + 1) - 1 = N /\ ~(N + 1 = 1)
        BY <1>4, <3>2
      <4>2. before = q.chain[N].tsp
        BY <4>1, <1>5
      <4>3. q.chain[N].tsp <= nstamps /\ q.chain[N].tsp \in Nat
        BY <4>1, FifoFacts, Facts, ChainInvAt
      <4> QED
        BY <4>2, <4>3
    <3> QED
      BY <3>1, <3>2
  <2>2. ref.tsp # before
    <3> HIDE DEF before
    <3> QED
      BY <2>1, <1>3, <1>4
  <2>3. StampAt(ref, before) = <<TstampItem(ref.tsp)>>
    <3> HIDE DEF before
    <3> QED
      BY <2>2 DEF StampAt
  <2>4. RowsAt(mem, ref, 0) = <<>>
    BY NoRows
  <2>5. y = StampAt(ref, before) \o RowsAt(mem, ref, ref.n_Qrows)
    BY <1>5 DEF ItemsAt
  <2>6. <<TstampItem(ref.tsp)>> \o <<>> = <<TstampItem(ref.tsp)>>
    OBVIOUS
  <2> QED
    BY <1>3, <2>3, <2>4, <2>5, <2>6
<1> HIDE DEF y
<1>8. y \in Seq(Items) /\ Len(y) = 1 /\ y[1].kind = "tstamp" /\ y # <<>>
  <2>1. TstampItem(ref.tsp) \in Items /\ TstampItem(ref.tsp).kind = "tstamp"
    BY <1>3, <1>4 DEF TstampItem, Items
  <2> QED
    BY <1>7, <2>1
<1>9. Fifo!Put
  BY <1>1, <1>6, <1>8, FifoFacts, PutStep DEF FifoInv
<1>10. FifoInv'
  <2>1. cur_tsp' <= nstamps'
    BY <1>1, <1>4
  <2>2. ASSUME NEW i \in 1 .. Len(q'.chain)
        PROVE  Labelled(q'.chain[i])
    <3>1. i \in 1 .. N \/ i = N + 1
      BY <1>1, <1>4, <1>5
    <3> QED
      BY <3>1, <1>1, <1>3, <1>5 DEF FifoInv
  <2>3. \A k \in 1 .. filled' : mem'[q'.last + k - 1].lab = LabelAfter(batch', k - 1)
    BY <1>1 DEF FifoInv
  <2>4. sent' \in Seq(Items)
    BY <1>1, FifoFacts
  <2>5. Fifo!RowCount(sent' \o Pending') = committed'
    <3>1. (sent \o Pending) \o y = sent \o (Pending \o y)
      BY <1>8, FifoFacts, Associative
    <3>2. Fifo!RowCount((sent \o Pending) \o y) = Fifo!RowCount(sent \o Pending)
      <4>1. \A k \in 1 .. Len(y) : y[k].kind # "row"
        BY <1>8
      <4>2. sent \o Pending \in Seq(Items)
        BY FifoFacts
      <4> QED
        BY <1>8, <4>1, <4>2, RowCountStamp
    <3> QED
      BY <1>1, <1>6, <3>1, <3>2 DEF FifoInv
  <2> QED
    BY <1>2, <2>1, <2>2, <2>3, <2>4, <2>5 DEF FifoInv, Fifo!RowCount, Fifo!IsRow, Labelled, Starting, Expected, LabelAfter
<1> QED
  BY <1>9, <1>10

(* Nothing changes in the queue when the writer claims rows. *)
LEMMA SamePending ==
  ASSUME FifoInv, IInv', UNCHANGED <<q, mem, cur_tsp, nstamps, sent, committed>>,
         \A k \in 1 .. filled' : mem[q.last + k - 1].lab = LabelAfter(batch', k - 1)
  PROVE  FifoInv' /\ Pending' = Pending /\ sent' = sent
<1>1. Pending' = Pending
  BY PendingNext, FifoFacts
<1> QED
  BY <1>1 DEF FifoInv

LEMMA ClaimFifo ==
  ASSUME FifoInv, NEW n \in 1 .. MaxBatch, NEW gap \in 0 .. MaxGap, Claim(n, gap)
  PROVE  FifoInv' /\ Pending' = Pending /\ sent' = sent
<1>1. IInv' /\ claim = 0
  BY FifoFacts, ClaimIInv DEF Claim
<1>2. UNCHANGED <<q, mem, filled, cur_tsp, nstamps, sent, committed>>
  BY DEF Claim, history
<1>3. filled' = 0
  BY <1>1, <1>2, FifoFacts
<1> QED
  BY <1>1, <1>2, <1>3, SamePending

-----------------------------------------------------------------------------
(* The slot of a row of a tmq_ref is that of a committed row. *)
LEMMA RowOfChain ==
  ASSUME IInv, NEW i \in 1 .. Len(q.chain), NEW k \in 1 .. q.chain[i].n_Qrows
  PROVE  /\ base[i] + k \in retired + 1 .. committed
         /\ Wrap(q.chain[i].Qrow + k - 1) = SlotOf(base[i] + k)
<1> DEFINE b == base[i]
           n == q.chain[i].n_Qrows
           Q == q.chain[i].Qrow
           first == q.first
<1>1. /\ Q = Wrap(first + (b - retired)) /\ retired <= b /\ b + n <= committed
      /\ n \in Nat /\ b \in Nat
  <2>1. /\ ChainInv(q.chain, base, q.first, committed, retired, nstamps)
        /\ Counted(q.chain, base)
    BY Facts
  <2> QED
    BY <2>1, ChainInvAt
<1>2. /\ committed \in Nat /\ retired \in Nat /\ committed - retired <= TotalQrows
      /\ TotalQrows \in Nat /\ first \in 0 .. TotalQrows - 1 /\ k \in 1 .. n
  BY Facts, RingFacts
<1>3. SlotOf(b + k) = Wrap(first + ((b + k) - retired - 1))
  BY DEF SlotOf
<1> HIDE DEF b, n, Q, first
<1>4. b + k \in retired + 1 .. committed
  BY <1>1, <1>2
<1>5. Wrap(Q + k - 1) = Wrap(first + ((b + k) - retired - 1))
  BY ONLY <1>1, <1>2, SMTT(60) DEF Wrap
<1> QED
  BY <1>3, <1>4, <1>5 DEF b, n, Q, first

(* The slot filled is none of a committed row's: what is pending stays. *)
LEMMA FillFifo ==
  ASSUME FifoInv, Fill
  PROVE  FifoInv' /\ Pending' = Pending /\ sent' = sent
<1> DEFINE row == [id |-> committed + filled + 1, lab |-> LabelAfter(batch, filled)]
<1>1. /\ UNCHANGED <<q, batch, cur_tsp, sent, nstamps, committed>>
      /\ mem' = [mem EXCEPT ![q.last + filled] = row]
      /\ filled' = filled + 1 /\ filled < claim
  BY DEF Fill, history
<1>2. IInv' /\ IInv /\ filled \in Nat /\ mem \in Slots
  BY FifoFacts, FillIInv
<1>3. row.lab = LabelAfter(batch, filled)
  OBVIOUS
<1> HIDE DEF row
<1>4. filled < AllocateRows(q)
  <2>1. claim <= AllocateRows(q) /\ claim \in Nat
    BY <1>2, FifoFacts DEF IInv, ClaimIntact
  <2>2. AllocateRows(q) \in Nat
    BY <1>2, Facts, SMTT(60) DEF AllocateRows
  <2> QED
    BY <1>1, <1>2, <2>1, <2>2
<1>5. ASSUME NEW i \in 1 .. Len(q.chain)
      PROVE  RowsAt(mem', q.chain[i], q.chain[i].n_Qrows)
               = RowsAt(mem, q.chain[i], q.chain[i].n_Qrows)
  <2>1. ASSUME NEW k \in 1 .. q.chain[i].n_Qrows
        PROVE  mem'[Wrap(q.chain[i].Qrow + k - 1)] = mem[Wrap(q.chain[i].Qrow + k - 1)]
    <3> DEFINE s == Wrap(q.chain[i].Qrow + k - 1)
    <3>1. s # q.last + filled /\ s \in 0 .. TotalQrows - 1
      BY <1>2, <1>4, RowOfChain, SlotsApart
    <3> HIDE DEF s
    <3>2. mem'[s] = mem[s]
      BY <1>1, <1>2, <3>1 DEF Slots
    <3> QED
      BY <3>2 DEF s
  <2> QED
    BY <2>1 DEF RowsAt
<1>6. Pieces(q.chain, cur_tsp, mem') = Pieces(q.chain, cur_tsp, mem)
  BY <1>5 DEF Pieces, ItemsAt
<1>7. Pending' = Pending
  BY <1>1, <1>6, PendingNext, FifoFacts
<1>8. ASSUME NEW k \in 1 .. filled + 1
      PROVE  mem'[q.last + k - 1].lab = LabelAfter(batch, k - 1)
  <2>1. /\ q.last \in 0 .. TotalQrows - 1 /\ TotalQrows \in Nat
        /\ q.last + filled \in 0 .. TotalQrows - 1
    <3>1. q.last \in 0 .. TotalQrows - 1 /\ q.first \in 0 .. TotalQrows - 1 /\ TotalQrows \in Nat
      BY <1>2, Facts
    <3> QED
      BY <1>2, <1>4, <3>1, SMTT(60) DEF AllocateRows
  <2>2. CASE k = filled + 1
    <3>1. q.last + k - 1 = q.last + filled /\ k - 1 = filled
      BY <2>2, <2>1, <1>2
    <3>2. mem'[q.last + filled] = row
      BY <1>1, <1>2, <2>1 DEF Slots
    <3> QED
      BY <3>1, <3>2, <1>3
  <2>3. CASE k \in 1 .. filled
    <3>1. q.last + k - 1 # q.last + filled /\ q.last + k - 1 \in 0 .. TotalQrows - 1
      BY <2>3, <2>1, <1>2
    <3>2. mem'[q.last + k - 1] = mem[q.last + k - 1]
      BY <1>1, <1>2, <3>1 DEF Slots
    <3> QED
      BY <3>2, <2>3 DEF FifoInv
  <2> QED
    BY <2>2, <2>3, <1>2
<1> QED
  BY <1>1, <1>2, <1>7, <1>8 DEF FifoInv

-----------------------------------------------------------------------------
(* The rows of a tmq_ref depend on where they start and what they are called. *)
LEMMA RowsSame ==
  ASSUME NEW slots, NEW a, NEW b, NEW n,
         a.tsp = b.tsp, a.Qrow = b.Qrow, Starting(a) = Starting(b)
  PROVE  RowsAt(slots, a, n) = RowsAt(slots, b, n)
BY DEF RowsAt

(* append_rows moves the label expected as far as the rows. *)
LEMMA AppendRowsLabelled ==
  ASSUME NEW ref \in TmqRefType, Labelled(ref), NEW n \in Nat
  PROVE  /\ Labelled(AppendRows(ref, n))
         /\ Starting(AppendRows(ref, n)) = Starting(ref)
<1> DEFINE next == LabelAfter(Expected(ref), n)
           total == ref.n_Qrows + n
           new == AppendRows(ref, n)
<1>1. /\ Starting(ref) \in Labels /\ Expected(ref) = LabelAfter(Starting(ref), ref.n_Qrows)
      /\ Starting(ref).ctr \in Nat /\ Starting(ref).row \in Nat /\ ref.n_Qrows \in Nat
  BY DEF Labelled, Labels, TmqRefType
<1>2. next = LabelAfter(Starting(ref), total)
  BY <1>1, LabelsAdd
<1>3. next \in Labels
  BY <1>1, <1>2, LabelAfterType
<1>4. next = [ctr |-> next.ctr, row |-> next.row]
  BY DEF LabelAfter
<1> HIDE DEF next, total
<1>5. new = [ref EXCEPT !.MFCtr_next = next.ctr, !.row_next = next.row, !.n_Qrows = total]
  BY DEF AppendRows, next, total
<1> HIDE DEF new
<1>6. /\ Expected(new) = [ctr |-> next.ctr, row |-> next.row]
      /\ new.n_Qrows = total /\ Starting(new) = Starting(ref)
  BY <1>5 DEF Expected, Starting, TmqRefType
<1> QED
  BY <1>1, <1>2, <1>4, <1>6 DEF Labelled, new

(* The rows claimed, as items: those of a tmq_ref made for them. *)
NewRows == RowsAt(mem, NewRef(0, LastRef(q).tsp, batch, q.last), claim)

LEMMA NewRowsType ==
  ASSUME FifoInv, Commit
  PROVE  /\ NewRows \in Seq(Items) /\ Len(NewRows) = claim /\ claim > 0
         /\ \A k \in 1 .. claim : /\ NewRows[k].kind = "row"
                                  /\ NewRows[k].row.id = committed + k
                                  /\ NewRows[k].lab = NewRows[k].row.lab
<1> DEFINE ref == NewRef(0, LastRef(q).tsp, batch, q.last)
<1>1. /\ IInv /\ mem \in Slots /\ batch \in Labels /\ claim \in Nat /\ claim > 0
      /\ filled = claim
  BY FifoFacts DEF Commit
<1>2. /\ q.last \in 0 .. TotalQrows - 1 /\ TotalQrows \in Nat
      /\ q.last + claim <= TotalQrows /\ claim <= TotalQrows /\ q.chain # <<>>
  BY <1>1, Facts, IInvAsserts DEF AssertsHold, CommitAsserts
<1>3. LastRef(q).tsp \in Nat
  <2>1. Len(q.chain) \in 1 .. Len(q.chain) /\ q.chain \in Seq(TmqRefType)
    BY <1>1, <1>2, Facts
  <2>2. q.chain[Len(q.chain)] \in TmqRefType
    BY <2>1
  <2> QED
    BY <2>2 DEF LastRef, TmqRefType
<1>4. /\ Fit(ref) /\ Starting(ref) = batch /\ ref.tsp = LastRef(q).tsp /\ ref.Qrow = q.last
  BY <1>1, <1>2, <1>3, NewRefFit
<1> HIDE DEF ref
<1>5. NewRows = RowsAt(mem, ref, claim)
  BY DEF NewRows, ref
<1>6. NewRows \in Seq(Items) /\ Len(NewRows) = claim
  BY <1>1, <1>2, <1>4, <1>5, RowsAtType
<1>7. ASSUME NEW k \in 1 .. claim
      PROVE  /\ NewRows[k].kind = "row"
             /\ NewRows[k].row.id = committed + k
             /\ NewRows[k].lab = NewRows[k].row.lab
  <2>1. Wrap(q.last + k - 1) = q.last + k - 1
    BY <1>1, <1>2 DEF Wrap
  <2>2. NewRows[k] = RowItem(ref.tsp, LabelAfter(batch, k - 1), mem[q.last + k - 1])
    BY <1>4, <1>5, <2>1 DEF RowsAt
  <2>3. mem[q.last + k - 1].lab = LabelAfter(batch, k - 1)
    BY <1>1 DEF FifoInv
  <2>4. mem[q.last + k - 1].id = committed + k
    BY <1>1 DEF IInv, ClaimIntact
  <2> QED
    BY <2>2, <2>3, <2>4 DEF RowItem
<1> QED
  BY <1>1, <1>6, <1>7

-----------------------------------------------------------------------------
(* The last tmq_ref ends where the rows claimed begin. *)
LEMMA LastRefEnds ==
  ASSUME FifoInv, Commit
  PROVE  LET ref == LastRef(q)
         IN /\ Len(q.chain) \in Nat /\ q.chain # <<>> /\ ref = q.chain[Len(q.chain)]
            /\ ref \in TmqRefType /\ Fit(ref) /\ Labelled(ref)
            /\ Wrap(ref.Qrow + ref.n_Qrows) = q.last
            /\ ref.n_Qrows \in Nat /\ ref.n_Qrows + claim <= TotalQrows
<1> DEFINE N == Len(q.chain)
           ref == LastRef(q)
           b == base[N]
           n == ref.n_Qrows
           Q == ref.Qrow
           first == q.first
           last == q.last
           free == AllocateRows(q)
<1>1. /\ IInv /\ claim \in Nat /\ claim > 0 /\ q.chain # <<>> /\ claim <= free
  BY FifoFacts DEF Commit, IInv, ClaimIntact
<1>2. N \in Nat /\ N \in 1 .. N /\ ref = q.chain[N] /\ q.chain \in Seq(TmqRefType)
  BY <1>1, Facts DEF LastRef
<1>3. /\ Q = Wrap(first + (b - retired)) /\ retired <= b
      /\ n \in Nat /\ b \in Nat /\ committed = b + n
  <2>1. /\ ChainInv(q.chain, base, q.first, committed, retired, nstamps)
        /\ Counted(q.chain, base)
    BY <1>1, Facts
  <2>2. /\ q.chain[N].Qrow = Wrap(q.first + (base[N] - retired))
        /\ retired <= base[N] /\ q.chain[N].n_Qrows \in Nat /\ base[N] \in Nat
    BY <1>2, <2>1, ChainInvAt
  <2>3. committed = base[N] + q.chain[N].n_Qrows
    BY <1>2, <2>1 DEF ChainInv
  <2> QED
    BY <1>2, <2>2, <2>3
<1>4. /\ committed \in Nat /\ retired \in Nat /\ committed - retired <= TotalQrows
      /\ TotalQrows \in Nat /\ first \in 0 .. TotalQrows - 1 /\ last \in 0 .. TotalQrows - 1
      /\ last = Wrap(first + (committed - retired)) /\ committed - retired = Occupancy
  BY <1>1, Facts, RingFacts
<1>5. (committed - retired) + free <= TotalQrows
  BY <1>4, SMTT(60) DEF Occupancy, AllocateRows
<1>6. free \in Nat
  BY <1>4 DEF AllocateRows
<1>7. Fit(ref) /\ Labelled(ref) /\ ref \in TmqRefType
  BY <1>2, FifoFacts DEF FitChain, FifoInv
<1> HIDE DEF b, n, Q, first, last, free
<1>8. n + claim <= TotalQrows
  BY <1>1, <1>3, <1>4, <1>5, <1>6
<1>9. Wrap(Q + n) = last
  BY ONLY <1>3, <1>4, SMTT(60) DEF Wrap
<1> QED
  BY <1>1, <1>2, <1>3, <1>7, <1>8, <1>9 DEF n, Q, last

(* A tmq_ref relabelled for the rows to come is followed by them. *)
LEMMA RelabelFollowed ==
  ASSUME NEW ref \in TmqRefType, Labelled(ref), NEW lab \in Labels, Continues(ref, lab)
  PROVE  LET new == Relabel(ref, lab)
         IN /\ new \in TmqRefType /\ Labelled(new)
            /\ new.tsp = ref.tsp /\ new.Qrow = ref.Qrow /\ new.n_Qrows = ref.n_Qrows
            /\ LabelAfter(Starting(new), ref.n_Qrows) = lab
            /\ ref.n_Qrows > 0 => new = ref
<1> DEFINE new == Relabel(ref, lab)
<1>1. lab = [ctr |-> lab.ctr, row |-> lab.row] /\ lab.ctr \in Nat /\ lab.row \in Nat
      /\ ref.n_Qrows \in Nat
  BY DEF Labels, TmqRefType
<1>2. CASE ref.n_Qrows = 0
  <2>1. new = [ref EXCEPT !.MFCtr_start = lab.ctr, !.MFCtr_next = lab.ctr,
                          !.row_start = lab.row, !.row_next = lab.row]
    BY <1>2 DEF Relabel
  <2> HIDE DEF new
  <2>2. /\ new \in TmqRefType /\ new.tsp = ref.tsp /\ new.Qrow = ref.Qrow
        /\ new.n_Qrows = ref.n_Qrows
    BY <2>1, <1>1 DEF TmqRefType
  <2>3. Starting(new) = lab /\ Expected(new) = lab
    BY <2>1, <1>1 DEF Starting, Expected, TmqRefType
  <2>4. LabelAfter(Starting(new), ref.n_Qrows) = lab
    BY <1>2, <2>3, LabelStays
  <2> QED
    BY <1>2, <2>2, <2>3, <2>4 DEF Labelled, new
<1>3. CASE ref.n_Qrows # 0
  <2>1. new = ref /\ lab = Expected(ref)
    BY <1>3 DEF Relabel, Continues
  <2> HIDE DEF new
  <2> QED
    BY <1>1, <2>1 DEF Labelled, new
<1> QED
  BY <1>2, <1>3

(* Committed rows are put behind all that is pending. *)
LEMMA CommitPending ==
  ASSUME FifoInv, Commit
  PROVE  /\ Pending' = Pending \o NewRows
         /\ \A i \in 1 .. Len(q'.chain) : Labelled(q'.chain[i])
<1> DEFINE N == Len(q.chain)
           ref == LastRef(q)
           rest == NewRef(0, ref.tsp, batch, q.last)
           c == claim
           n == ref.n_Qrows
<1>1. /\ N \in Nat /\ q.chain # <<>> /\ ref = q.chain[N] /\ ref \in TmqRefType
      /\ Fit(ref) /\ Labelled(ref) /\ Wrap(ref.Qrow + n) = q.last
      /\ n \in Nat /\ n + c <= TotalQrows /\ ref.tsp \in Nat
  BY LastRefEnds DEF TmqRefType
<1>2. /\ IInv /\ FitChain(q.chain) /\ mem \in Slots /\ batch \in Labels /\ c \in Nat
      /\ Pending = FlattenSeq(Pieces(q.chain, cur_tsp, mem))
      /\ nrefs + 1 \in Nat /\ q.last \in 0 .. TotalQrows - 1 /\ TotalQrows \in Nat
      /\ q.chain \in Seq(TmqRefType)
  BY FifoFacts, Facts
<1>3. /\ q'.chain = ChainAfterCommit(q, nrefs + 1, batch, c)
      /\ UNCHANGED <<mem, cur_tsp>>
  BY DEF Commit, CommitRows
<1>4. NewRows \in Seq(Items) /\ Len(NewRows) = c
  BY NewRowsType
<1>5. /\ rest \in TmqRefType /\ Fit(rest) /\ Starting(rest) = batch
      /\ rest.tsp = ref.tsp /\ rest.Qrow = q.last
  <2> DEFINE t == ref.tsp
  <2>1. t \in Nat /\ 0 \in Nat
    BY <1>1
  <2> HIDE DEF t
  <2>2. LET r == NewRef(0, t, batch, q.last)
        IN r \in TmqRefType /\ Fit(r) /\ Starting(r) = batch /\ r.tsp = t /\ r.Qrow = q.last
    BY <1>2, <2>1, NewRefFit
  <2> QED
    BY <2>2 DEF t
<1>6. NewRows = RowsAt(mem, rest, c)
  BY DEF NewRows
<1>7. \A i \in 1 .. N : Labelled(q.chain[i])
  BY DEF FifoInv
<1> HIDE DEF rest, ref, n, N
<1>8. CASE Continues(ref, batch)
  <2> DEFINE r1 == Relabel(ref, batch)
             r2 == AppendRows(r1, c)
             ch2 == [q.chain EXCEPT ![N] = r2]
  <2>1. /\ r1 \in TmqRefType /\ Labelled(r1)
        /\ r1.tsp = ref.tsp /\ r1.Qrow = ref.Qrow /\ r1.n_Qrows = n
        /\ LabelAfter(Starting(r1), n) = batch
        /\ n > 0 => r1 = ref
    BY <1>1, <1>2, <1>8, RelabelFollowed DEF n
  <2> HIDE DEF r1
  <2>2. /\ r2 \in TmqRefType /\ Labelled(r2) /\ Starting(r2) = Starting(r1)
        /\ r2.tsp = ref.tsp /\ r2.Qrow = ref.Qrow /\ r2.n_Qrows = n + c
    BY <1>2, <2>1, AppendRowsType, AppendRowsLabelled
  <2>3. q'.chain = ch2
    BY <1>3, <1>8 DEF ChainAfterCommit, ref, r1, N, LastRef
  <2> HIDE DEF r2
  <2>4. Fit(r2)
    BY <1>1, <2>1, <2>2 DEF Fit, Labelled
  <2>5. RowsAt(mem, r2, n + c) = RowsAt(mem, r2, n) \o NewRows
    <3>1. /\ rest.tsp = r2.tsp /\ rest.Qrow = Wrap(r2.Qrow + n)
          /\ Starting(rest) = LabelAfter(Starting(r2), n)
      BY <1>1, <1>5, <2>1, <2>2
    <3>2. mem \in Slots /\ Fit(r2) /\ Fit(rest) /\ n \in Nat /\ c \in Nat /\ n + c <= TotalQrows
      BY <1>1, <1>2, <1>5, <2>4
    <3> HIDE DEF c
    <3>3. RowsAt(mem, r2, n + c) = RowsAt(mem, r2, n) \o RowsAt(mem, rest, c)
      BY <3>1, <3>2, RowsSplit, Zenon
    <3> QED
      BY <1>6, <3>3
  <2>6. RowsAt(mem, r2, n) = RowsAt(mem, ref, n)
    <3>1. CASE n = 0
      BY <3>1, NoRows
    <3>2. CASE n # 0
      <4>1. r1 = ref
        BY <3>2, <1>1, <2>1
      <4> QED
        BY <4>1, <2>2, RowsSame
    <3> QED
      BY <3>1, <3>2
  <2>7. RowsAt(mem, r2, r2.n_Qrows)
          = RowsAt(mem, q.chain[N], q.chain[N].n_Qrows) \o NewRows
    BY <1>1, <2>2, <2>5, <2>6 DEF n
  <2>8. FlattenSeq(Pieces(ch2, cur_tsp, mem))
          = FlattenSeq(Pieces(q.chain, cur_tsp, mem)) \o NewRows
    <3>1. r2.tsp = q.chain[N].tsp
      BY <1>1, <2>2
    <3>2. /\ r2.tsp = q.chain[Len(q.chain)].tsp
          /\ RowsAt(mem, r2, r2.n_Qrows)
               = RowsAt(mem, q.chain[Len(q.chain)], q.chain[Len(q.chain)].n_Qrows) \o NewRows
      BY <2>7, <3>1 DEF N
    <3>3. ch2 = [q.chain EXCEPT ![Len(q.chain)] = r2]
      BY DEF N
    <3>4. mem \in Slots /\ FitChain(q.chain) /\ q.chain # <<>> /\ NewRows \in Seq(Items)
      BY <1>1, <1>2, <1>4
    <3>5. LastGrown(q.chain, ch2, r2, NewRows, mem)
      BY <2>4, <3>2, <3>3, <3>4 DEF LastGrown
    <3> HIDE DEF ch2
    <3> QED
      BY <3>5, PieceGrown
  <2>9. Pending' = FlattenSeq(Pieces(ch2, cur_tsp, mem))
    <3> HIDE DEF ch2
    <3> QED
      BY <1>3, <2>3, PendingNext
  <2>10. ASSUME NEW i \in 1 .. Len(q'.chain)
         PROVE  Labelled(q'.chain[i])
    <3>1. Len(ch2) = N /\ \A j \in 1 .. N : ch2[j] = IF j = N THEN r2 ELSE q.chain[j]
      BY <1>1, <1>2 DEF N
    <3> HIDE DEF ch2
    <3> QED
      BY <3>1, <2>2, <2>3, <1>7
  <2> HIDE DEF ch2
  <2> QED
    BY <1>2, <2>8, <2>9, <2>10
<1>9. CASE ~Continues(ref, batch)
  <2> DEFINE r1 == NewRef(nrefs + 1, ref.tsp, batch, q.last)
             r2 == AppendRows(r1, c)
             ch2 == Append(q.chain, r2)
             y == ItemsAt(ch2, cur_tsp, mem, N + 1)
  <2>1. /\ r1 \in TmqRefType /\ Fit(r1) /\ Labelled(r1) /\ Starting(r1) = batch
        /\ r1.tsp = ref.tsp /\ r1.Qrow = q.last /\ r1.n_Qrows = 0
    BY <1>1, <1>2, NewRefFit
  <2> HIDE DEF r1
  <2>2. /\ r2 \in TmqRefType /\ Labelled(r2) /\ Starting(r2) = batch
        /\ r2.tsp = ref.tsp /\ r2.Qrow = q.last /\ r2.n_Qrows = c
    <3>1. /\ r2 \in TmqRefType /\ r2.tsp = r1.tsp /\ r2.Qrow = r1.Qrow
          /\ r2.n_Qrows = r1.n_Qrows + c
      BY <1>2, <2>1, AppendRowsType
    <3>2. Labelled(r2) /\ Starting(r2) = Starting(r1)
      BY <1>2, <2>1, AppendRowsLabelled
    <3> HIDE DEF r2
    <3>3. r2.n_Qrows = c
      BY <3>1, <2>1, <1>2
    <3> QED
      BY <2>1, <3>1, <3>2, <3>3
  <2>3. q'.chain = ch2
    BY <1>3, <1>9 DEF ChainAfterCommit, ref, r1
  <2> HIDE DEF r2
  <2>4. Fit(r2)
    <3>1. c <= TotalQrows
      BY <1>1, <1>2
    <3> QED
      BY <1>2, <2>2, <3>1 DEF Fit
  <2>5. /\ Len(ch2) = N + 1 /\ ch2[N + 1] = r2
        /\ \A i \in 1 .. N : ch2[i] = q.chain[i]
    BY <1>2, <2>2, Appended DEF N
  <2>6. FlattenSeq(Pieces(ch2, cur_tsp, mem))
          = FlattenSeq(Pieces(q.chain, cur_tsp, mem)) \o y
    <3> HIDE DEF y
    <3> QED
      BY <1>2, <2>4, PieceAppended DEF y, ch2, N
  <2> HIDE DEF ch2
  <2>7. y = NewRows
    <3>1. N # 0 /\ N \in 1 .. N /\ (N + 1) - 1 = N /\ ~(N + 1 = 1)
      BY <1>1 DEF N
    <3>2. ch2[(N + 1) - 1].tsp = ref.tsp
      BY <3>1, <2>5, <1>1
    <3>3. y = StampAt(r2, ref.tsp) \o RowsAt(mem, r2, c)
      BY <2>2, <2>5, <3>1, <3>2 DEF ItemsAt
    <3>4. StampAt(r2, ref.tsp) = <<>>
      BY <2>2 DEF StampAt
    <3>5. RowsAt(mem, r2, c) = NewRows
      BY <1>5, <1>6, <2>2, RowsSame
    <3>6. <<>> \o NewRows = NewRows
      BY <1>4
    <3> QED
      BY <3>3, <3>4, <3>5, <3>6
  <2>8. Pending' = FlattenSeq(Pieces(ch2, cur_tsp, mem))
    BY <1>3, <2>3, PendingNext
  <2>9. ASSUME NEW i \in 1 .. Len(q'.chain)
        PROVE  Labelled(q'.chain[i])
    <3>1. i \in 1 .. N \/ i = N + 1
      BY <1>1, <2>3, <2>5
    <3> QED
      BY <3>1, <2>2, <2>3, <2>5, <1>7
  <2> HIDE DEF y
  <2> QED
    BY <1>2, <2>6, <2>7, <2>8, <2>9
<1> QED
  BY <1>8, <1>9

-----------------------------------------------------------------------------
LEMMA CommitFifo ==
  ASSUME FifoInv, Commit
  PROVE  FifoInv' /\ Fifo!Put
<1> DEFINE y == NewRows
<1>1. /\ y \in Seq(Items) /\ Len(y) = claim /\ claim > 0
      /\ \A k \in 1 .. claim : /\ y[k].kind = "row"
                               /\ y[k].row.id = committed + k
                               /\ y[k].lab = y[k].row.lab
  BY NewRowsType
<1>2. /\ Pending' = Pending \o y
      /\ \A i \in 1 .. Len(q'.chain) : Labelled(q'.chain[i])
  BY CommitPending
<1>3. /\ UNCHANGED <<mem, batch, cur_tsp, sent, nstamps>>
      /\ committed' = committed + claim /\ filled' = 0
  BY DEF Commit
<1>4. IInv' /\ claim \in Nat
  BY CommitIInv, FifoFacts
<1> HIDE DEF y
<1>5. y # <<>>
  BY <1>1, <1>4
<1>6. Fifo!Put
  BY <1>1, <1>2, <1>3, <1>5, FifoFacts, PutStep DEF FifoInv
<1>7. Fifo!RowCount(sent' \o Pending') = committed'
  <2>1. (sent \o Pending) \o y = sent \o (Pending \o y)
    BY <1>1, FifoFacts, Associative
  <2>2. sent \o Pending \in Seq(Items)
    BY FifoFacts
  <2>3. Fifo!RowCount((sent \o Pending) \o y) = Fifo!RowCount(sent \o Pending) + Len(y)
    BY <1>1, <2>2, RowCountRows
  <2> QED
    BY <1>1, <1>2, <1>3, <2>1, <2>3 DEF FifoInv
<1>8. \A k \in 1 .. filled' : mem'[q'.last + k - 1].lab = LabelAfter(batch', k - 1)
  BY <1>3
<1>9. cur_tsp' <= nstamps' /\ sent' \in Seq(Items)
  BY <1>3, FifoFacts DEF FifoInv
<1> QED
  BY <1>2, <1>4, <1>6, <1>7, <1>8, <1>9 DEF FifoInv, Fifo!RowCount, Fifo!IsRow, Labelled, Starting, Expected, LabelAfter

(* What is left of a tmq_ref starts n rows on and expects the same label. *)
LEMMA RestartFit ==
  ASSUME NEW ref, Fit(ref), Labelled(ref), NEW n \in Nat, n <= ref.n_Qrows,
         NEW slot \in 0 .. TotalQrows - 1
  PROVE  LET new == RestartAfter(RetireFrom(ref, n, slot), n)
         IN /\ new \in TmqRefType /\ Fit(new) /\ Labelled(new)
            /\ new.tsp = ref.tsp /\ new.Qrow = slot /\ new.n_Qrows = ref.n_Qrows - n
            /\ Starting(new) = LabelAfter(Starting(ref), n)
<1> DEFINE m == ref.n_Qrows
           rest == m - n
           gone == ref.Qrows_retired + n
           r1 == RetireFrom(ref, n, slot)
           start == LabelAfter(Starting(r1), n)
           new == RestartAfter(r1, n)
<1>1. /\ ref \in TmqRefType /\ m \in Nat /\ ref.Qrows_retired \in Nat /\ slot \in Nat
      /\ m <= TotalQrows /\ TotalQrows \in Nat /\ n <= m
      /\ Starting(ref).ctr \in Nat /\ Starting(ref).row \in Nat
      /\ Expected(ref) = LabelAfter(Starting(ref), m)
  BY QueueAssumption DEF Fit, TmqRefType, Labelled, Labels
<1> HIDE DEF m
<1>2. rest \in Nat /\ gone \in Nat /\ n + rest = m /\ rest <= TotalQrows
  BY <1>1
<1>3. r1 = [ref EXCEPT !.Qrow = slot, !.n_Qrows = rest, !.Qrows_retired = gone]
  BY DEF RetireFrom, m
<1> HIDE DEF rest, gone, r1
<1>4. /\ r1 \in TmqRefType /\ r1.tsp = ref.tsp /\ r1.Qrow = slot /\ r1.n_Qrows = rest
      /\ Starting(r1) = Starting(ref) /\ Expected(r1) = Expected(ref)
  BY <1>1, <1>2, <1>3 DEF TmqRefType, Starting, Expected
<1>5. start = LabelAfter(Starting(ref), n)
  BY <1>4
<1>6. start \in Labels
  BY <1>1, <1>5, LabelAfterType
<1>7. start = [ctr |-> start.ctr, row |-> start.row] /\ start.ctr \in Nat /\ start.row \in Nat
  BY <1>6 DEF Labels
<1>8. new = [r1 EXCEPT !.MFCtr_start = start.ctr, !.row_start = start.row]
  BY DEF RestartAfter
<1> HIDE DEF start, new
<1>9. /\ new \in TmqRefType /\ new.tsp = ref.tsp /\ new.Qrow = slot /\ new.n_Qrows = rest
      /\ Starting(new) = start /\ Expected(new) = Expected(ref)
  BY <1>4, <1>7, <1>8 DEF TmqRefType, Starting, Expected
<1>10. LabelAfter(start, rest) = LabelAfter(Starting(ref), m)
  <2>1. LabelAfter(LabelAfter(Starting(ref), n), rest) = LabelAfter(Starting(ref), n + rest)
    BY <1>1, <1>2, LabelsAdd
  <2> QED
    BY <1>2, <1>5, <2>1
<1>11. Labelled(new)
  BY <1>1, <1>6, <1>9, <1>10 DEF Labelled
<1>12. Fit(new)
  BY <1>2, <1>6, <1>9 DEF Fit
<1> QED
  BY <1>5, <1>9, <1>11, <1>12 DEF new, r1, rest, m

(* What the transmitter takes at one turn. *)
Taken(n) == StampAt(q.chain[1], cur_tsp) \o RowsAt(mem, q.chain[1], n)

(* What a chain shows is its head's items and those of the rest of it. *)
LEMMA HeadItems ==
  ASSUME NEW ch, FitChain(ch), ch # <<>>, NEW tsp, NEW slots \in Slots
  PROVE  /\ FlattenSeq(Pieces(ch, tsp, slots))
              = (StampAt(ch[1], tsp) \o RowsAt(slots, ch[1], ch[1].n_Qrows))
                  \o FlattenSeq(Pieces(Tail(ch), ch[1].tsp, slots))
         /\ FlattenSeq(Pieces(Tail(ch), ch[1].tsp, slots)) \in Seq(Items)
         /\ ch[1].tsp \in Nat /\ Fit(ch[1])
         /\ StampAt(ch[1], tsp) \in Seq(Items)
         /\ \A n \in Nat : n <= ch[1].n_Qrows => RowsAt(slots, ch[1], n) \in Seq(Items)
<1>1. 1 \in 1 .. Len(ch)
  BY DEF FitChain
<1>2. Fit(ch[1])
  BY <1>1 DEF FitChain
<1>3. ch[1].tsp \in Nat /\ ch[1].n_Qrows \in Nat /\ ch[1].n_Qrows <= TotalQrows
      /\ TotalQrows \in Nat
  BY <1>2, QueueAssumption DEF Fit, TmqRefType
<1>4. ItemsAt(ch, tsp, slots, 1)
        = StampAt(ch[1], tsp) \o RowsAt(slots, ch[1], ch[1].n_Qrows)
  BY DEF ItemsAt
<1>5. FitChain(Tail(ch))
  BY TailFit
<1>6. FlattenSeq(Pieces(Tail(ch), ch[1].tsp, slots)) \in Seq(Items)
  BY <1>5, FlatType
<1>7. StampAt(ch[1], tsp) \in Seq(Items)
  BY <1>3, StampAtType
<1>8. ASSUME NEW n \in Nat, n <= ch[1].n_Qrows
      PROVE  RowsAt(slots, ch[1], n) \in Seq(Items)
  <2>1. n <= TotalQrows
    BY <1>3, <1>8
  <2> QED
    BY <1>2, <2>1, RowsAtType
<1>9. FlattenSeq(Pieces(ch, tsp, slots))
        = ItemsAt(ch, tsp, slots, 1) \o FlattenSeq(Pieces(Tail(ch), ch[1].tsp, slots))
  BY PieceFirst
<1> QED
  BY <1>2, <1>3, <1>4, <1>6, <1>7, <1>8, <1>9

(* The chain of the next state shows what is not taken. *)
LEMMA TransmitPending ==
  ASSUME FifoInv, NEW n \in 0 .. TotalQrows, Transmit(n)
  PROVE  /\ Taken(n) \in Seq(Items) /\ Pending' \in Seq(Items)
         /\ Pending = Taken(n) \o Pending'
         /\ sent' = sent \o Taken(n)
         /\ \A i \in 1 .. Len(q'.chain) : Labelled(q'.chain[i])
         /\ cur_tsp' <= nstamps
<1> DEFINE ch == q.chain
           head == q.chain[1]
           st == StampAt(head, cur_tsp)
           rs == RowsAt(mem, head, n)
           tl == FlattenSeq(Pieces(Tail(ch), head.tsp, mem))
           m == head.n_Qrows
<1>1. /\ ch # <<>> /\ cur_tsp' = head.tsp /\ mem' = mem
      /\ sent' = (sent \o st) \o rs
      /\ n = m \/ (n = 1 /\ m > 0)
      /\ IF n > 0 \/ Len(ch) > 1 THEN Retire(n) ELSE UNCHANGED <<q, retired, base>>
  BY DEF Transmit, NewTstamp, RowItems, StampAt, RowsAt
<1>2. /\ IInv /\ FitChain(ch) /\ mem \in Slots /\ sent \in Seq(Items)
      /\ Pending = FlattenSeq(Pieces(ch, cur_tsp, mem))
      /\ ch \in Seq(TmqRefType) /\ Len(ch) \in Nat
      /\ \A i \in 1 .. Len(ch) : Labelled(ch[i])
  BY FifoFacts, Facts DEF FifoInv
<1>3. 1 \in 1 .. Len(ch) /\ n \in Nat
  BY <1>1, <1>2, Facts
<1>4. /\ m \in Nat /\ head.Qrow = q.first /\ head \in TmqRefType /\ Labelled(head)
      /\ n <= m /\ m <= TotalQrows
  <2>1. m \in Nat /\ head.Qrow = q.first
    BY <1>1, <1>2, HeadRows
  <2>2. head \in TmqRefType /\ Labelled(head) /\ Fit(head)
    BY <1>2, <1>3 DEF FitChain
  <2>3. n <= m /\ m <= TotalQrows
    BY <1>1, <2>1, <2>2 DEF Fit
  <2> QED
    BY <2>1, <2>2, <2>3
<1>5. /\ Pending = (st \o RowsAt(mem, head, m)) \o tl
      /\ tl \in Seq(Items) /\ st \in Seq(Items) /\ rs \in Seq(Items)
      /\ RowsAt(mem, head, m) \in Seq(Items) /\ Fit(head)
  <2>1. m <= m
    BY <1>4
  <2> QED
    BY <1>1, <1>2, <1>3, <1>4, <2>1, HeadItems
<1>6. Taken(n) = st \o rs
  BY DEF Taken
<1>7. sent' = sent \o Taken(n) /\ Taken(n) \in Seq(Items)
  <2>1. (sent \o st) \o rs = sent \o (st \o rs)
    <3>1. sent \in Seq(Items) /\ st \in Seq(Items) /\ rs \in Seq(Items)
      BY <1>2, <1>5
    <3> HIDE DEF st, rs
    <3> QED
      BY <3>1, Associative
  <2>2. st \o rs \in Seq(Items)
    BY <1>5
  <2> QED
    BY <1>1, <1>6, <2>1, <2>2
<1>8. cur_tsp' <= nstamps
  <2>1. /\ ChainInv(q.chain, base, q.first, committed, retired, nstamps)
        /\ Counted(q.chain, base)
    BY <1>2, Facts
  <2> QED
    BY <1>1, <1>3, <2>1, ChainInvAt
<1>9. Pending' = FlattenSeq(Pieces(q'.chain, head.tsp, mem))
  BY <1>1, PendingNext
<1> HIDE DEF ch, st, rs, tl, m, head
(* The head stays, with m - n rows and its time stamp sent. *)
<1>10. ASSUME NEW ch2, FitChain(ch2), ch2 # <<>>, Tail(ch2) = Tail(ch),
              ch2[1].tsp = head.tsp, q'.chain = ch2,
              RowsAt(mem, head, m) = rs \o RowsAt(mem, ch2[1], ch2[1].n_Qrows),
              RowsAt(mem, ch2[1], ch2[1].n_Qrows) \in Seq(Items)
       PROVE  Pending = Taken(n) \o Pending' /\ Pending' \in Seq(Items)
  <2> DEFINE more == RowsAt(mem, ch2[1], ch2[1].n_Qrows)
  <2>1. FlattenSeq(Pieces(ch2, head.tsp, mem)) = (StampAt(ch2[1], head.tsp) \o more) \o tl
    BY <1>2, <1>10, HeadItems DEF tl
  <2>2. StampAt(ch2[1], head.tsp) = <<>>
    BY <1>10 DEF StampAt
  <2>3. more \in Seq(Items) /\ RowsAt(mem, head, m) = rs \o more
    BY <1>10
  <2> HIDE DEF more
  <2>4. <<>> \o more = more
    BY <2>3
  <2>5. Pending' = more \o tl
    BY <1>9, <1>10, <2>1, <2>2, <2>4
  <2>6. more \o tl \in Seq(Items)
    BY <1>5, <2>3
  <2>7. (st \o rs) \o more = st \o (rs \o more)
    BY <1>5, <2>3, Associative
  <2>8. ((st \o rs) \o more) \o tl = (st \o rs) \o (more \o tl)
    <3> DEFINE x == st \o rs
    <3>1. x \in Seq(Items) /\ more \in Seq(Items) /\ tl \in Seq(Items)
      BY <1>5, <2>3
    <3> HIDE DEF x
    <3>2. (x \o more) \o tl = x \o (more \o tl)
      BY <3>1, Associative
    <3> QED
      BY <3>2 DEF x
  <2> QED
    BY <1>5, <1>6, <2>3, <2>5, <2>6, <2>7, <2>8
<1>11. CASE n = 0 /\ Len(ch) = 1
  <2>1. q'.chain = ch /\ n = m
    BY <1>1, <1>2, <1>4, <1>11 DEF ch
  <2>2. rs = <<>> /\ RowsAt(mem, head, m) = <<>>
    BY <1>11, <2>1, NoRows DEF rs
  <2>3. ch[1] = head /\ head.n_Qrows = m
    BY DEF ch, head, m
  <2>4. <<>> = <<>> \o <<>>
    OBVIOUS
  <2>5. Pending = Taken(n) \o Pending' /\ Pending' \in Seq(Items)
    BY <1>1, <1>2, <1>5, <1>10, <2>1, <2>2, <2>3, <2>4
  <2>6. \A i \in 1 .. Len(q'.chain) : Labelled(q'.chain[i])
    BY <1>2, <2>1
  <2> QED
    BY <1>7, <1>8, <2>5, <2>6
<1>12. CASE Retire(n) /\ Exhausted(q, n)
  <2>1. q'.chain = Tail(ch) /\ n = m
    BY <1>12 DEF Retire, RetireRows, Exhausted, ch, m, head
  <2>2. Pending' = tl
    BY <1>9, <2>1 DEF tl
  <2>3. RowsAt(mem, head, m) = rs
    BY <2>1 DEF rs
  <2>4. \A i \in 1 .. Len(q'.chain) : Labelled(q'.chain[i])
    <3> SUFFICES ASSUME NEW i \in 1 .. Len(Tail(ch))
                 PROVE  Labelled(Tail(ch)[i])
      BY <2>1
    <3>1. i + 1 \in 1 .. Len(ch) /\ Tail(ch)[i] = ch[i + 1]
      BY <1>1, <1>2
    <3> QED
      BY <1>2, <3>1
  <2> QED
    BY <1>5, <1>6, <1>7, <1>8, <2>2, <2>3, <2>4
<1>13. CASE Retire(n) /\ ~Exhausted(q, n)
  <2> DEFINE slot == Wrap(q.first + n)
             new == RestartAfter(RetireFrom(head, n, slot), n)
             ch2 == [ch EXCEPT ![1] = new]
             rest == m - n
  <2>1. q'.chain = ch2
    BY <1>13 DEF Retire, RetireRows, ch, head
  <2>2. slot \in 0 .. TotalQrows - 1
    <3>1. q.first \in 0 .. TotalQrows - 1 /\ n <= TotalQrows
      BY <1>2, <1>3, Facts
    <3> QED
      BY <1>3, <3>1, WrapSlot
  <2>3. slot = Wrap(head.Qrow + n)
    BY <1>4
  <2> HIDE DEF slot
  <2>4. /\ new \in TmqRefType /\ Fit(new) /\ Labelled(new)
        /\ new.tsp = head.tsp /\ new.Qrow = slot /\ new.n_Qrows = rest
        /\ Starting(new) = LabelAfter(Starting(head), n)
    BY <1>3, <1>4, <1>5, <2>2, RestartFit DEF m
  <2> HIDE DEF new
  <2>5. rest \in Nat /\ n + rest = m /\ rest <= TotalQrows /\ n + rest <= TotalQrows
    BY <1>3, <1>4, <1>2, Facts
  <2> HIDE DEF rest
  <2>6. RowsAt(mem, head, n + rest) = RowsAt(mem, head, n) \o RowsAt(mem, new, rest)
    <3>1. mem \in Slots /\ n \in Nat /\ rest \in Nat /\ Fit(head) /\ Fit(new)
          /\ new.Qrow = Wrap(head.Qrow + n) /\ n + rest <= TotalQrows
          /\ new.tsp = head.tsp /\ Starting(new) = LabelAfter(Starting(head), n)
      BY <1>2, <1>3, <1>5, <2>3, <2>4, <2>5
    <3> QED
      BY <3>1, RowsSplit, Zenon
  <2>7. RowsAt(mem, new, rest) \in Seq(Items)
    BY <1>2, <2>4, <2>5, RowsAtType
  <2>8. /\ ch2 \in Seq(TmqRefType) /\ Len(ch2) = Len(ch) /\ ch2[1] = new
        /\ \A i \in 2 .. Len(ch) : ch2[i] = ch[i]
    BY <1>2, <1>3, <2>4
  <2>9. FitChain(ch2) /\ \A i \in 1 .. Len(ch2) : Labelled(ch2[i])
    <3> SUFFICES ASSUME NEW i \in 1 .. Len(ch2)
                 PROVE  Fit(ch2[i]) /\ Labelled(ch2[i])
      BY <2>8 DEF FitChain
    <3>1. i = 1 \/ i \in 2 .. Len(ch)
      BY <1>2, <2>8
    <3> HIDE DEF ch2
    <3> QED
      BY <3>1, <1>2, <2>4, <2>8 DEF FitChain
  <2> HIDE DEF ch2
  <2>10. ch2 # <<>> /\ Tail(ch2) = Tail(ch)
    <3>1. ch2 # <<>>
      BY <1>3, <2>8
    <3>2. /\ Tail(ch2) \in Seq(TmqRefType) /\ Len(Tail(ch2)) = Len(ch) - 1
          /\ \A i \in 1 .. Len(ch) - 1 : Tail(ch2)[i] = ch2[i + 1]
      BY <2>8, <3>1
    <3>3. /\ Tail(ch) \in Seq(TmqRefType) /\ Len(Tail(ch)) = Len(ch) - 1
          /\ \A i \in 1 .. Len(ch) - 1 : Tail(ch)[i] = ch[i + 1]
      BY <1>1, <1>2
    <3>4. ASSUME NEW i \in 1 .. Len(ch) - 1
          PROVE  Tail(ch2)[i] = Tail(ch)[i]
      <4>1. i + 1 \in 2 .. Len(ch)
        BY <1>2
      <4> QED
        BY <4>1, <2>8, <3>2, <3>3
    <3>5. Tail(ch2) = Tail(ch)
      BY <3>2, <3>3, <3>4, SeqEqual
    <3> QED
      BY <3>1, <3>5
  <2>11. Pending = Taken(n) \o Pending' /\ Pending' \in Seq(Items)
    BY <1>10, <2>1, <2>4, <2>5, <2>6, <2>7, <2>8, <2>9, <2>10 DEF rs
  <2> QED
    BY <1>7, <1>8, <2>1, <2>9, <2>11
<1>14. (n = 0 /\ Len(ch) = 1) \/ Retire(n)
  <2>1. Len(ch) >= 1
    BY <1>3
  <2>2. CASE n > 0 \/ Len(ch) > 1
    BY <1>1, <2>2
  <2>3. CASE ~(n > 0 \/ Len(ch) > 1)
    <3>1. n \in Nat /\ Len(ch) \in Nat
      BY <1>2, <1>3
    <3> DEFINE l == Len(ch)
    <3>2. l \in Nat /\ l >= 1 /\ ~(l > 1) /\ ~(n > 0)
      BY <2>1, <2>3, <3>1
    <3> HIDE DEF l
    <3>3. l = 1
      BY <3>2
    <3>4. n = 0
      BY <3>1, <3>2
    <3>5. n = 0 /\ Len(ch) = 1
      BY <3>3, <3>4 DEF l
    <3> QED
      BY <3>5
  <2> QED
    BY <2>2, <2>3
<1> QED
  BY <1>11, <1>12, <1>13, <1>14

(* What is sent is taken from the head of what is pending. *)
LEMMA TransmitFifo ==
  ASSUME FifoInv, NEW n \in 0 .. TotalQrows, Transmit(n)
  PROVE  FifoInv' /\ (Fifo!Take \/ (Pending' = Pending /\ sent' = sent))
<1> DEFINE t == Taken(n)
           p == Pending'
<1>1. /\ t \in Seq(Items) /\ p \in Seq(Items) /\ Pending = t \o p /\ sent' = sent \o t
      /\ \A i \in 1 .. Len(q'.chain) : Labelled(q'.chain[i])
      /\ cur_tsp' <= nstamps
  BY TransmitPending
<1>2. /\ UNCHANGED <<mem, filled, batch, nstamps, committed>> /\ q'.last = q.last
  BY DEF Transmit, writer, Retire, RetireRows
<1>3. IInv'
  BY FifoFacts, TransmitIInv
<1>4. Pending \in Seq(Items) /\ sent \in Seq(Items)
  BY FifoFacts
<1> HIDE DEF t
<1>5. Fifo!Take \/ (Pending' = Pending /\ sent' = sent)
  <2>1. CASE t = <<>>
    <3>1. <<>> \o p = p /\ sent \o <<>> = sent
      BY <1>1, <1>4
    <3> QED
      BY <1>1, <2>1, <3>1
  <2>2. CASE t # <<>>
    <3> HIDE DEF p
    <3>1. \E k \in 1 .. Len(t \o p) : /\ p = SubSeq(t \o p, k + 1, Len(t \o p))
                                     /\ sent \o t = sent \o SubSeq(t \o p, 1, k)
      <4>1. t \in Seq(Items) /\ t # <<>> /\ p \in Seq(Items) /\ sent \in Seq(Items)
        BY <1>1, <1>4, <2>2
      <4> QED
        BY <4>1, TakeStep, Zenon
    <3> QED
      BY <1>1, <3>1 DEF Fifo!Take, p
  <2> QED
    BY <2>1, <2>2
<1>6. Fifo!RowCount(sent' \o Pending') = committed'
  <2>1. (sent \o t) \o p = sent \o (t \o p)
    <3> HIDE DEF p
    <3> QED
      BY <1>1, <1>4, Associative
  <2> QED
    BY <1>1, <1>2, <2>1 DEF FifoInv
<1>7. \A k \in 1 .. filled' : mem'[q'.last + k - 1].lab = LabelAfter(batch', k - 1)
  BY <1>2 DEF FifoInv
<1>8. sent' \in Seq(Items) /\ cur_tsp' <= nstamps'
  BY <1>1, <1>2, <1>4
<1> QED
  BY <1>1, <1>3, <1>5, <1>6, <1>7, <1>8 DEF FifoInv, Fifo!RowCount, Fifo!IsRow, Labelled, Starting, Expected, LabelAfter

LEMMA InitFifo ==
  Init => FifoInv /\ Fifo!Init
<1> SUFFICES ASSUME Init
             PROVE  FifoInv /\ Fifo!Init
  OBVIOUS
<1>1. /\ q.chain = <<>> /\ sent = <<>> /\ filled = 0 /\ cur_tsp = 0 /\ nstamps = 0
      /\ committed = 0
  BY DEF Init, EmptyQueue
<1>2. Pending = <<>>
  BY <1>1 DEF Pending, FlattenSeq
<1>3. Fifo!RowCount(sent \o Pending) = 0
  <2>1. sent \o Pending = <<>>
    BY <1>1, <1>2
  <2>2. {i \in 1 .. 0 : <<>>[i].kind = "row"} = {}
    OBVIOUS
  <2>3. Fifo!RowCount(<<>>) = 0
    BY <2>2, FifoCount, FS_EmptySet
  <2> QED
    BY <2>1, <2>3
<1>4. sent \in Seq(Items)
  BY <1>1
<1>5. IInv
  BY InitIInv
<1>6. FifoInv
  BY <1>1, <1>3, <1>4, <1>5 DEF FifoInv
<1>7. Fifo!Init
  BY <1>1, <1>2 DEF Fifo!Init
<1> QED
  BY <1>6, <1>7

LEMMA NextFifo ==
  FifoInv /\ [Next]_vars => FifoInv' /\ [Fifo!Next]_(Fifo!vars)
<1> SUFFICES ASSUME FifoInv, [Next]_vars
             PROVE  FifoInv' /\ [Fifo!Next]_(Fifo!vars)
  OBVIOUS
<1> USE DEF Fifo!Next, Fifo!vars
<1>1. CASE Stamp
  BY <1>1, StampFifo
<1>2. CASE \E n \in 1 .. MaxBatch, gap \in 0 .. MaxGap : Claim(n, gap)
  BY <1>2, ClaimFifo
<1>3. CASE Fill
  BY <1>3, FillFifo
<1>4. CASE Commit
  BY <1>4, CommitFifo
<1>5. CASE Send
  <2>1. PICK n \in 0 .. TotalQrows : Transmit(n)
    BY <1>5 DEF Send
  <2>2. FifoInv' /\ (Fifo!Take \/ (Pending' = Pending /\ sent' = sent))
    BY <2>1, TransmitFifo
  <2> QED
    BY <2>2
<1>6. CASE UNCHANGED vars
  <2>1. UNCHANGED <<q, mem, cur_tsp, nstamps, sent, committed, filled, batch>>
    BY <1>6 DEF vars, writer, history
  <2>2. IInv'
    BY <1>6, FifoFacts, NextIInv
  <2>3. FifoInv' /\ Pending' = Pending /\ sent' = sent
    BY <2>1, <2>2, SamePending DEF FifoInv
  <2> QED
    BY <2>3
<1> QED
  BY <1>1, <1>2, <1>3, <1>4, <1>5, <1>6 DEF Next, Write

(* What the transmitter sends is what the writer committed: the ring and its
   chain of tmq_refs are a FIFO queue of time stamps and labelled rows, for
   every size of the ring, of the minor frame and of its counter, whatever the
   order of commits and transmissions (tm_queue.cc:64-228, tm_gen.cc:77-129). *)
THEOREM ChainIsFifo == Spec => ImplementsFifo
<1>1. Init => FifoInv /\ Fifo!Init
  BY InitFifo
<1>2. FifoInv /\ [Next]_vars => FifoInv' /\ [Fifo!Next]_(Fifo!vars)
  BY NextFifo
<1> QED
  BY <1>1, <1>2, PTL DEF Spec, ImplementsFifo, Fifo!Spec
================================================================================
